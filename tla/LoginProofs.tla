----------------------------- MODULE LoginProofs -----------------------------
(***************************************************************************)
(* Getting in, for any keys, passwords and logins.                         *)
(*                                                                         *)
(* What is offered: who has what the host asks for gets in.  The argument  *)
(* is that the method taken next is the first of its name in the chain, so *)
(* that of keys only the leading method ever decides, and before the       *)
(* password.                                                               *)
(*                                                                         *)
(* The attempts: a password is saved only once it worked.                  *)
(*                                                                         *)
(* The store of passwords does what PasswordMap promises, for any files    *)
(* left by an earlier version, and a process that may die anywhere: one    *)
(* process at a time, as mu makes the calls of one (OneProcess).           *)
(***************************************************************************)
EXTENDS MCLogin, WellFoundedInduction, TLAPS

-----------------------------------------------------------------------------
(* What is offered.                                                        *)

\* The chain is what was built, and of the methods turned down none fits.  The host
\* asks for a key to begin with; for the password alone, where it wants both, once a
\* key has fitted.
AuthInv ==
    /\ Auth!AuthTypeOK
    /\ account.both => account.forms # {}
    /\ IF pc = "build" THEN chain = {} /\ tried = {} /\ ~sent ELSE chain = Auth!buildAuthChain
    /\ "publickey" \in tried => ~Auth!KeyFits
    /\ tried \intersect Auth!Forms # {} => user.password # account.password
    /\ pc \in {"auth", "refused"} =>
          \/ lists = {"publickey"} \union (IF account.both THEN {} ELSE account.forms)
          \/ account.both /\ Auth!KeyFits /\ lists = account.forms
    /\ pc = "unarmed" => chain = {}
    /\ pc = "refused" => Auth!Candidates = {}
    /\ pc = "in" => IF account.both THEN Auth!KeyFits /\ Auth!PasswordFits
                                    ELSE Auth!KeyFits \/ Auth!PasswordFits
    /\ Auth!KeysComeFirst

\* Of methods there is one that comes first.
LEMMA FirstIsThere ==
    ASSUME Auth!AuthChainAssumption, NEW S \in SUBSET Auth!Method, S # {}
    PROVE  \E m \in S : \A n \in S : m.at <= n.at
<1> DEFINE Less == OpToRel(<, Nat)
           places == {m.at : m \in S}
<1>1. places \in SUBSET Nat /\ places # {}
  BY DEF Auth!Method, Auth!Last, Auth!AuthChainAssumption
<1>2. IsWellFoundedOn(Less, Nat)
  BY NatLessThanWellFounded
<1>3. \A x, y \in Nat : <<y, x>> \notin Less => x <= y
  BY DEF OpToRel
<1>4. PICK x \in places : \A y \in places : <<y, x>> \notin Less
  <2> HIDE DEF Less, places
  <2>1. QED
    BY <1>1, <1>2, WFMin
<1>5. \A y \in places : x <= y
  BY <1>1, <1>3, <1>4
<1>6. QED
  BY <1>4, <1>5

\* What a chain is made of: keys, each in a place of its own, and after them the
\* password in both forms, or none of it.
LEMMA ChainIsMadeOf ==
    ASSUME Auth!AuthChainAssumption, user \in Auth!User
    PROVE  /\ Auth!buildAuthChain \subseteq Auth!Method
           /\ \A m \in Auth!buildAuthChain :
                 IF m.name = "publickey" THEN m.at < Auth!Last - 1
                 ELSE /\ m.name \in Auth!Forms /\ m.at >= Auth!Last - 1
                      /\ user.home /\ user.password # NoPassword
           /\ \A m, n \in Auth!Keyed : m.at = n.at => m = n
           /\ user.home /\ user.password # NoPassword =>
                 \A form \in Auth!Forms : \E m \in Auth!buildAuthChain : m.name = form
<1> DEFINE N == Len(DefaultKeys)
<1>1. /\ N \in Nat /\ DOMAIN DefaultKeys = 1 .. N /\ Auth!Last = N + 4
      /\ \A i \in 1 .. N : DefaultKeys[i] \in KeyFiles
  BY DEF Auth!AuthChainAssumption, Auth!Last
<1>2. /\ user.agent \subseteq KeyFiles
      /\ user.identity # NoFile => user.identity \in KeyFiles
  BY DEF Auth!User
<1>3. \A m \in Auth!agentAuthMethod : m = [at |-> 1, name |-> "publickey", keys |-> user.agent]
  BY DEF Auth!agentAuthMethod, Auth!PublicKeys
<1>4. \A m \in Auth!identityMethod :
         m = [at |-> 2, name |-> "publickey", keys |-> {user.identity}] /\ user.identity # NoFile
  BY DEF Auth!identityMethod, Auth!keyAuthMethod, Auth!PublicKeys
<1>5. \A m \in Auth!defaultMethods : \E i \in 1 .. N :
         m = [at |-> i + 2, name |-> "publickey", keys |-> {DefaultKeys[i]}]
  BY <1>1 DEF Auth!defaultMethods, Auth!keyAuthMethod, Auth!PublicKeys
<1>6. \A m \in Auth!passwordMethods :
         /\ user.password # NoPassword
         /\ \/ m = [at |-> N + 3, name |-> "password", keys |-> {}]
            \/ m = [at |-> N + 4, name |-> "keyboard-interactive", keys |-> {}]
  BY <1>1 DEF Auth!passwordMethods, Auth!Secret
<1>7. /\ user.password # NoPassword =>
            /\ [at |-> N + 3, name |-> "password", keys |-> {}] \in Auth!passwordMethods
            /\ [at |-> N + 4, name |-> "keyboard-interactive", keys |-> {}] \in Auth!passwordMethods
  BY <1>1 DEF Auth!passwordMethods, Auth!Secret
<1> HIDE DEF N
<1>8. \A m \in Auth!buildAuthChain :
         \/ m \in Auth!agentAuthMethod \/ m \in Auth!identityMethod
         \/ m \in Auth!defaultMethods
         \/ user.home /\ m \in Auth!passwordMethods
  BY DEF Auth!buildAuthChain
<1>9. \A m \in Auth!buildAuthChain : m \in Auth!Method
  BY <1>1, <1>2, <1>3, <1>4, <1>5, <1>6, <1>8 DEF Auth!Method, Auth!Names, Auth!Forms
<1>10. \A m \in Auth!buildAuthChain :
          IF m.name = "publickey" THEN m.at < Auth!Last - 1
          ELSE /\ m.name \in Auth!Forms /\ m.at >= Auth!Last - 1
               /\ user.home /\ user.password # NoPassword
  BY <1>1, <1>3, <1>4, <1>5, <1>6, <1>8 DEF Auth!Forms
<1> DEFINE keys(k) == IF k = 1 THEN user.agent ELSE IF k = 2 THEN {user.identity}
                                               ELSE {DefaultKeys[k - 2]}
           Key(k) == [at |-> k, name |-> "publickey", keys |-> keys(k)]
<1>11. \A m \in Auth!Keyed : m = Key(m.at)
  <2>1. ASSUME NEW m \in Auth!defaultMethods PROVE m = Key(m.at)
    <3>1. PICK i \in 1 .. N : m = [at |-> i + 2, name |-> "publickey", keys |-> {DefaultKeys[i]}]
      BY <1>5
    <3>2. i + 2 # 1 /\ i + 2 # 2 /\ i + 2 - 2 = i /\ m.at = i + 2
      BY <1>1, <3>1
    <3>3. QED
      BY <3>1, <3>2
  <2>2. \A m \in Auth!agentAuthMethod \union Auth!identityMethod : m = Key(m.at)
    BY <1>3, <1>4
  <2>3. \A m \in Auth!passwordMethods : m.name # "publickey"
    BY <1>6
  <2>4. QED
    BY <1>8, <2>1, <2>2, <2>3 DEF Auth!Keyed
<1>12. \A m, n \in Auth!Keyed : m.at = n.at => m = n
  <2> HIDE DEF Key
  <2>1. QED
    BY <1>11
<1>13. user.home /\ user.password # NoPassword =>
          \A form \in Auth!Forms : \E m \in Auth!buildAuthChain : m.name = form
  BY <1>7 DEF Auth!Forms, Auth!buildAuthChain
<1>14. QED
  BY <1>9, <1>10, <1>12, <1>13

\* A key decides as the leading one does, and before any password is sent.
LEMMA FirstDecides ==
    ASSUME Auth!AuthChainAssumption, user \in Auth!User, account \in Auth!Account,
           chain = Auth!buildAuthChain, Auth!Candidates # {}
    PROVE  /\ Auth!First \in Auth!Candidates /\ Auth!First \in Auth!Method
           /\ Auth!First.name = "publickey" => (Auth!Passes(Auth!First) <=> Auth!KeyFits)
           /\ Auth!First.name # "publickey" =>
                 /\ Auth!First.name \in Auth!Forms /\ user.home
                 /\ "publickey" \in lists \ tried => ~Auth!KeyFits
<1> DEFINE f == Auth!First
<1>1. Auth!Candidates \in SUBSET Auth!Method
  BY ChainIsMadeOf DEF Auth!Candidates
<1>2. f \in Auth!Candidates /\ \A n \in Auth!Candidates : f.at <= n.at
  BY <1>1, FirstIsThere DEF Auth!First
<1> HIDE DEF f
<1>3. f \in Auth!Method /\ f \in Auth!buildAuthChain /\ f.name \in lists \ tried
  BY <1>1, <1>2 DEF Auth!Candidates
<1>4. ASSUME f.name = "publickey" PROVE Auth!Passes(f) <=> Auth!KeyFits
  <2>1. Auth!Keyed \subseteq Auth!Candidates /\ f \in Auth!Keyed
    BY <1>3, <1>4 DEF Auth!Keyed, Auth!Candidates
  <2>2. \A n \in Auth!Keyed : f.at <= n.at
    BY <1>2, <2>1
  <2>3. \A k \in Auth!Keyed : k.at <= f.at => k = f
    <3>1. \A k \in Auth!Keyed : k.at \in Nat
      BY <1>1, <2>1 DEF Auth!Method
    <3>2. QED
      BY <2>1, <2>2, <3>1, ChainIsMadeOf
  <2>4. {k \in Auth!Keyed : \A n \in Auth!Keyed : k.at <= n.at} = {f}
    BY <2>1, <2>2, <2>3
  <2>5. Auth!Leading = f.keys
    BY <2>4 DEF Auth!Leading
  <2>6. QED
    BY <1>4, <2>5 DEF Auth!Passes, Auth!KeyFits
<1>5. ASSUME f.name # "publickey", "publickey" \in lists \ tried PROVE ~Auth!KeyFits
  <2>1. Auth!Last \in Int /\ f.at >= Auth!Last - 1 /\ f.at \in Nat
    BY <1>3, <1>5, ChainIsMadeOf DEF Auth!Last, Auth!AuthChainAssumption, Auth!Method
  <2>2. ASSUME NEW k \in Auth!Keyed PROVE FALSE
    <3>1. k \in Auth!Candidates /\ k.at \in Nat
      BY <1>1, <1>5 DEF Auth!Keyed, Auth!Candidates, Auth!Method
    <3>2. k.at < Auth!Last - 1
      BY ChainIsMadeOf DEF Auth!Keyed
    <3>3. QED
      BY <1>2, <2>1, <3>1, <3>2
  <2>3. QED
    BY <2>2 DEF Auth!KeyFits, Auth!Leading
<1>6. f.name # "publickey" => f.name \in Auth!Forms /\ user.home
  BY <1>3, ChainIsMadeOf
<1>7. QED
  BY <1>2, <1>3, <1>4, <1>5, <1>6 DEF f

\* Nothing is left that the host would have: no key fitted, nor did a password where
\* the host would have had one.
LEMMA NothingIsLeft ==
    ASSUME Auth!AuthChainAssumption, user \in Auth!User, account \in Auth!Account,
           chain = Auth!buildAuthChain, Auth!Candidates = {}
    PROVE  /\ "publickey" \in lists \ tried => ~Auth!KeyFits
           /\ Auth!PasswordFits => account.forms \intersect lists \subseteq tried
<1>1. "publickey" \in lists \ tried => Auth!Keyed = {}
  BY DEF Auth!Keyed, Auth!Candidates
<1>2. Auth!Keyed = {} => ~Auth!KeyFits
  BY DEF Auth!KeyFits, Auth!Leading
<1>3. ASSUME Auth!PasswordFits, NEW form \in account.forms, form \in lists, form \notin tried
      PROVE  FALSE
  <2>1. user.home /\ user.password # NoPassword /\ form \in Auth!Forms
    BY <1>3 DEF Auth!PasswordFits, Auth!Account, Auth!AuthChainAssumption
  <2>2. PICK m \in Auth!buildAuthChain : m.name = form
    BY <2>1, ChainIsMadeOf
  <2>3. QED
    BY <1>3, <2>2 DEF Auth!Candidates
<1>4. QED
  BY <1>1, <1>2, <1>3

LEMMA AuthInit == ASSUME Auth!AuthChainAssumption, Auth!Init PROVE AuthInv
<1>1. /\ pc = "build" /\ chain = {} /\ tried = {} /\ lists = {} /\ offered = {} /\ sent = FALSE
      /\ user \in Auth!User /\ account \in Auth!Account
      /\ account.both => account.forms # {}
  BY DEF Auth!Init
<1>2. Auth!AuthTypeOK
  BY <1>1 DEF Auth!AuthTypeOK
<1>3. QED
  BY <1>1, <1>2 DEF AuthInv, Auth!KeysComeFirst

\* What is offered stands while it is tried.
LEMMA OfferStands ==
    ASSUME UNCHANGED <<user, account>>
    PROVE  /\ Auth!buildAuthChain' = Auth!buildAuthChain
           /\ Auth!KeyFits' <=> Auth!KeyFits
           /\ Auth!PasswordFits' <=> Auth!PasswordFits
<1>1. Auth!buildAuthChain' = Auth!buildAuthChain
  BY DEF Auth!buildAuthChain, Auth!agentAuthMethod, Auth!identityMethod, Auth!defaultMethods,
         Auth!passwordMethods, Auth!keyAuthMethod, Auth!Unlocked
<1>2. QED
  BY <1>1 DEF Auth!KeyFits, Auth!PasswordFits, Auth!Leading, Auth!Keyed

LEMMA AuthNext ==
    ASSUME Auth!AuthChainAssumption, AuthInv, [Auth!Next]_authVars
    PROVE  AuthInv'
<1>1. Auth!AuthTypeOK /\ user \in Auth!User /\ account \in Auth!Account
  BY DEF AuthInv, Auth!AuthTypeOK
<1>2. CASE UNCHANGED authVars
  <2>1. Auth!Candidates' = Auth!Candidates
    BY <1>2 DEF authVars, Auth!Candidates
  <2>2. QED
    BY <1>2, <2>1, OfferStands DEF authVars, AuthInv, Auth!AuthTypeOK, Auth!KeysComeFirst
<1>3. CASE Auth!Build
  <2>1. /\ pc = "build" /\ UNCHANGED <<user, account, tried, offered, sent>>
        /\ chain' = Auth!buildAuthChain /\ chain = {} /\ tried = {} /\ ~sent
        /\ pc' = IF chain' = {} THEN "unarmed" ELSE "auth"
        /\ lists' = IF chain' = {} THEN lists
                    ELSE {"publickey"} \union (IF account.both THEN {} ELSE account.forms)
    BY <1>3 DEF Auth!Build, AuthInv
  <2>2. Auth!AuthTypeOK'
    <3>1. chain' \subseteq Auth!Method
      BY <1>1, <2>1, ChainIsMadeOf
    <3>2. lists' \subseteq Auth!Names
      BY <1>1, <2>1 DEF Auth!AuthTypeOK, Auth!Account, Auth!Names
    <3>3. QED
      BY <1>1, <2>1, <3>1, <3>2 DEF Auth!AuthTypeOK
  <2>3. QED
    BY <2>1, <2>2, OfferStands DEF AuthInv, Auth!KeysComeFirst
<1>4. CASE Auth!Try
  <2> DEFINE f == Auth!First
             fits == Auth!Passes(f)
  <2>1. /\ pc = "auth" /\ UNCHANGED <<user, account, chain>> /\ chain = Auth!buildAuthChain
        /\ Auth!Candidates # {}
    BY <1>4 DEF Auth!Try, AuthInv
  <2>2. /\ offered' = offered \union f.keys /\ sent' = (sent \/ f.name # "publickey")
        /\ ~fits => tried' = tried \union {f.name} /\ UNCHANGED <<lists, pc>>
        /\ fits /\ account.both /\ f.name = "publickey" =>
              lists' = account.forms /\ UNCHANGED <<tried, pc>>
        /\ fits /\ ~(account.both /\ f.name = "publickey") =>
              pc' = "in" /\ UNCHANGED <<tried, lists>>
    BY <1>4 DEF Auth!Try
  <2>3. /\ f \in Auth!Method /\ f.name \in lists \ tried
        /\ f.name = "publickey" => (fits <=> Auth!KeyFits)
        /\ f.name # "publickey" => /\ f.name \in Auth!Forms /\ user.home
                                   /\ "publickey" \in lists \ tried => ~Auth!KeyFits
                                   /\ fits <=> user.password = account.password
    BY <1>1, <2>1, FirstDecides DEF Auth!Candidates, Auth!Passes
  <2> HIDE DEF f, fits
  <2>4. Auth!AuthTypeOK'
    <3>1. f.keys \subseteq KeyFiles /\ f.name \in Auth!Names
      BY <2>3 DEF Auth!Method
    <3>2. account.forms \subseteq Auth!Names
      BY <1>1 DEF Auth!Account, Auth!Names
    <3>3. tried' \subseteq Auth!Names /\ lists' \subseteq Auth!Names /\ sent' \in BOOLEAN
      BY <1>1, <2>2, <3>1, <3>2 DEF Auth!AuthTypeOK
    <3>4. QED
      BY <1>1, <2>1, <2>2, <3>1, <3>3 DEF Auth!AuthTypeOK
  <2>5. /\ account.both => account.forms # {}
        /\ "publickey" \in tried => ~Auth!KeyFits
        /\ tried \intersect Auth!Forms # {} => user.password # account.password
        /\ \/ lists = {"publickey"} \union (IF account.both THEN {} ELSE account.forms)
           \/ account.both /\ Auth!KeyFits /\ lists = account.forms
        /\ sent => account.both \/ ~Auth!KeyFits
    BY <2>1 DEF AuthInv, Auth!KeysComeFirst
  <2>6. "publickey" \notin Auth!Forms /\ account.forms \subseteq Auth!Forms
    BY <1>1 DEF Auth!Forms, Auth!Account
  <2>7. "publickey" \in tried' => ~Auth!KeyFits
    BY <2>2, <2>3, <2>5
  <2>8. tried' \intersect Auth!Forms # {} => user.password # account.password
    BY <2>2, <2>3, <2>5, <2>6
  <2>9. pc' = "auth" => \/ lists' = {"publickey"} \union (IF account.both THEN {} ELSE account.forms)
                        \/ account.both /\ Auth!KeyFits /\ lists' = account.forms
    BY <2>2, <2>3, <2>5
  <2>10. sent' => account.both \/ ~Auth!KeyFits
    BY <2>2, <2>3, <2>5
  <2>11. pc' = "in" => IF account.both THEN Auth!KeyFits /\ Auth!PasswordFits
                                       ELSE Auth!KeyFits \/ Auth!PasswordFits
    <3>1. CASE f.name = "publickey"
      BY <2>1, <2>2, <2>3, <3>1
    <3>2. CASE f.name # "publickey"
      <4>1. fits => user.password = account.password
        BY <2>3, <3>2
      <4>2. f.name \in account.forms /\ (account.both => Auth!KeyFits)
        BY <2>3, <2>5, <3>2
      <4>3. QED
        BY <2>1, <2>2, <2>3, <3>2, <4>1, <4>2 DEF Auth!PasswordFits
    <3>3. QED
      BY <3>1, <3>2
  <2>12. pc' \in {"auth", "in"}
    BY <2>1, <2>2
  <2>13. QED
    BY <2>1, <2>4, <2>5, <2>7, <2>8, <2>9, <2>10, <2>11, <2>12, OfferStands
    DEF AuthInv, Auth!KeysComeFirst
<1>5. CASE Auth!GiveUp
  <2>1. /\ pc = "auth" /\ pc' = "refused" /\ Auth!Candidates = {}
        /\ UNCHANGED <<user, account, chain, tried, lists, offered, sent>>
    BY <1>5 DEF Auth!GiveUp
  <2>2. Auth!Candidates' = Auth!Candidates
    BY <2>1 DEF Auth!Candidates
  <2>3. QED
    BY <2>1, <2>2, OfferStands DEF AuthInv, Auth!AuthTypeOK, Auth!KeysComeFirst
<1>6. QED
  BY <1>2, <1>3, <1>4, <1>5 DEF Auth!Next

\* From the invariant: who gets in is who has what is asked for, and nothing is given up
\* before it was offered.
LEMMA AuthAnswers ==
    ASSUME Auth!AuthChainAssumption, AuthInv
    PROVE  Auth!AuthIsSound
<1>1. user \in Auth!User /\ account \in Auth!Account /\ account.forms \subseteq Auth!Forms
      /\ "publickey" \notin Auth!Forms
  BY DEF AuthInv, Auth!AuthTypeOK, Auth!Account, Auth!Forms
<1>2. CASE pc = "unarmed"
  <2>1. Auth!buildAuthChain = {}
    BY <1>2 DEF AuthInv
  <2>2. ~Auth!KeyFits
    BY <2>1 DEF Auth!KeyFits, Auth!Leading, Auth!Keyed
  <2>3. ~Auth!PasswordFits
    <3>1. SUFFICES ASSUME Auth!PasswordFits PROVE FALSE
      OBVIOUS
    <3>2. user.home /\ user.password # NoPassword
      BY <1>1, <3>1 DEF Auth!PasswordFits, Auth!Account, Auth!AuthChainAssumption
    <3>3. QED
      BY <1>1, <2>1, <3>2, ChainIsMadeOf DEF Auth!Forms
  <2>4. Auth!UnarmedHasNothing
    <3>1. SUFFICES ASSUME user.home
                   PROVE  /\ user.agent = {} /\ user.password = NoPassword
                          /\ \A f \in Auth!Wanted : ~Auth!Unlocked(f)
      BY DEF Auth!UnarmedHasNothing
    <3>2. /\ Auth!agentAuthMethod = {} /\ Auth!identityMethod = {}
          /\ Auth!defaultMethods = {} /\ Auth!passwordMethods = {}
      BY <2>1, <3>1 DEF Auth!buildAuthChain
    <3>3. user.agent = {} /\ user.password = NoPassword
      BY <3>2 DEF Auth!agentAuthMethod, Auth!passwordMethods
    <3>4. user.identity # NoFile => ~Auth!Unlocked(user.identity)
      BY <3>2 DEF Auth!identityMethod, Auth!keyAuthMethod
    <3>5. ASSUME NEW i \in DOMAIN DefaultKeys, DefaultKeys[i] # user.identity
          PROVE  ~Auth!Unlocked(DefaultKeys[i])
      BY <3>2, <3>5 DEF Auth!defaultMethods, Auth!keyAuthMethod
    <3>6. \A i \in DOMAIN DefaultKeys : DefaultKeys[i] # NoFile
      BY DEF Auth!AuthChainAssumption
    <3>7. QED
      BY <3>3, <3>4, <3>5, <3>6 DEF Auth!Wanted
  <2>5. QED
    BY <1>2, <2>2, <2>3, <2>4 DEF AuthInv, Auth!AuthIsSound, Auth!AnswersTheHost
<1>3. CASE pc = "refused"
  <2>1. /\ chain = Auth!buildAuthChain /\ Auth!Candidates = {}
        /\ "publickey" \in tried => ~Auth!KeyFits
        /\ tried \intersect Auth!Forms # {} => user.password # account.password
        /\ \/ lists = {"publickey"} \union (IF account.both THEN {} ELSE account.forms)
           \/ account.both /\ Auth!KeyFits /\ lists = account.forms
    BY <1>3 DEF AuthInv
  <2>2. /\ "publickey" \in lists \ tried => ~Auth!KeyFits
        /\ Auth!PasswordFits => account.forms \intersect lists \subseteq tried
    BY <1>1, <2>1, NothingIsLeft
  <2>3. Auth!PasswordFits => account.forms # {} /\ user.password = account.password
    BY DEF Auth!PasswordFits
  <2>4. account.forms \subseteq lists => ~Auth!PasswordFits
    BY <1>1, <2>1, <2>2, <2>3
  <2>5. QED
    BY <1>3, <2>1, <2>2, <2>4
    DEF AuthInv, Auth!AuthIsSound, Auth!AnswersTheHost, Auth!UnarmedHasNothing
<1>4. CASE pc \notin {"unarmed", "refused"}
  BY <1>4 DEF AuthInv, Auth!AuthIsSound, Auth!AnswersTheHost, Auth!UnarmedHasNothing
<1>5. QED
  BY <1>2, <1>3, <1>4

-----------------------------------------------------------------------------
(* The attempts.                                                           *)

\* An attempt under way has a login and no result, and one that asks has been refused,
\* so that no key is enough.
AttemptInv ==
    /\ Used!LoginTypeOK
    /\ attempt.pc # "idle" => attempt.key \in Keys /\ attempt.result = "none"
    /\ attempt.pc \in {"ask", "redial"} => attempt.key \notin byKey

\* The passwords an attempt leaves saved are a map, which differs at its login only.
LEMMA Remembered ==
    ASSUME AttemptInv, attempt.pc # "idle",
           NEW password \in Passwords \union {NoPassword}, Used!Remember(password)
    PROVE  /\ saved' \in Used!Store!Maps
           /\ saved' # saved => /\ ~attempt.noSave /\ password # NoPassword
                                /\ saved' = [saved EXCEPT ![attempt.key] = password]
  BY DEF AttemptInv, Used!LoginTypeOK, Used!Remember, Used!Store!Set, Used!Store!Maps

LEMMA AttemptInit == Used!Init => AttemptInv
  BY DEF Used!Init, AttemptInv, Used!LoginTypeOK, Used!Attempt, Used!Store!Empty,
         Used!Store!Maps

\* An attempt ends with its result, and is otherwise what it was.
LEMMA Ended ==
    ASSUME AttemptInv, NEW r \in {"connected", "refused", "unarmed", "failed"}, Used!End(r)
    PROVE  attempt' \in Used!Attempt /\ attempt'.pc = "idle" /\ attempt'.result = r
  BY DEF AttemptInv, Used!LoginTypeOK, Used!Attempt, Used!End

\* A step keeps the invariant, and saves what worked: at the first Dial the password
\* that was given, at the second the one the host has just accepted.
LEMMA AttemptStep ==
    ASSUME AttemptInv, [Used!Next]_usedVars
    PROVE  /\ AttemptInv'
           /\ attempt.noSave /\ attempt.pc # "idle" => saved' = saved
           /\ \A k \in Keys : saved'[k] \notin {saved[k], NoPassword} /\ attempt.flag = NoPassword
                 => k = attempt.key /\ saved'[k] = accepted[k]
           /\ attempt.pc = "dial" /\ ~attempt.noPrompt => attempt'.result # "refused"
<1> DEFINE Kept == attempt.noSave /\ attempt.pc # "idle" => saved' = saved
           Proven == \A k \in Keys :
                        saved'[k] \notin {saved[k], NoPassword} /\ attempt.flag = NoPassword
                          => k = attempt.key /\ saved'[k] = accepted[k]
           Asked == attempt.pc = "dial" /\ ~attempt.noPrompt => attempt'.result # "refused"
<1>1. /\ saved \in Used!Store!Maps /\ accepted \in [Keys -> Passwords]
      /\ byKey \subseteq Keys /\ keyless \subseteq Keys \ byKey /\ attempt \in Used!Attempt
      /\ saved \in [Keys -> Passwords \union {NoPassword}]
      /\ attempt.pc # "idle" => attempt.key \in Keys /\ attempt.result = "none"
      /\ attempt.pc \in {"ask", "redial"} => attempt.key \notin byKey
  BY DEF AttemptInv, Used!LoginTypeOK, Used!Store!Maps
<1>2. CASE UNCHANGED usedVars
  BY <1>1, <1>2 DEF usedVars, AttemptInv, Used!LoginTypeOK
<1>3. ASSUME NEW k \in Keys, Used!PasswordChanges(k) PROVE AttemptInv' /\ Kept /\ Proven /\ Asked
  BY <1>1, <1>3 DEF Used!PasswordChanges, AttemptInv, Used!LoginTypeOK
<1>4. CASE Used!Forget
  <2>1. /\ attempt.pc = "idle" /\ UNCHANGED <<accepted, byKey, keyless, attempt>>
        /\ saved' \in [Keys -> Passwords \union {NoPassword}]
        /\ \A k \in Keys : saved'[k] \in {saved[k], NoPassword}
    BY <1>1, <1>4 DEF Used!Forget, Used!Store!Delete, Used!Store!Clear, Used!Store!Empty
  <2>2. QED
    BY <1>1, <2>1 DEF AttemptInv, Used!LoginTypeOK, Used!Store!Maps
<1>5. ASSUME NEW k \in Keys, NEW flag \in Passwords \union {NoPassword},
             NEW noPrompt \in BOOLEAN, NEW noSave \in BOOLEAN,
             Used!Begin(k, flag, noPrompt, noSave)
      PROVE  AttemptInv' /\ Kept /\ Proven /\ Asked
  <2> DEFINE password == IF flag # NoPassword THEN flag ELSE saved[k]
  <2>1. password \in Passwords \union {NoPassword}
    BY <1>1
  <2>2. /\ attempt.pc = "idle" /\ UNCHANGED <<saved, accepted, byKey, keyless>>
        /\ attempt' = [pc |-> "dial", key |-> k, flag |-> flag, password |-> password,
                       noPrompt |-> noPrompt, noSave |-> noSave, result |-> "none"]
    BY <1>5 DEF Used!Begin
  <2> HIDE DEF password
  <2>3. attempt' \in Used!Attempt
    BY <2>1, <2>2 DEF Used!Attempt
  <2>4. QED
    BY <1>1, <2>2, <2>3 DEF AttemptInv, Used!LoginTypeOK
<1>6. ASSUME attempt.pc # "idle", UNCHANGED <<accepted, byKey, keyless>>,
             NEW r \in {"connected", "refused", "unarmed", "failed"}, Used!End(r),
             saved' \in Used!Store!Maps
      PROVE  AttemptInv'
  BY <1>1, <1>6, Ended DEF AttemptInv, Used!LoginTypeOK
<1>7. CASE Used!Dial
  <2>1. attempt.pc = "dial" /\ UNCHANGED <<accepted, byKey, keyless>>
    BY <1>7 DEF Used!Dial
  <2>2. CASE Used!Accepts(attempt.key, attempt.password) /\ Used!Remember(attempt.flag)
             /\ Used!End("connected")
    <3>1. attempt.flag \in Passwords \union {NoPassword}
      BY <1>1 DEF Used!Attempt
    <3>2. AttemptInv' /\ attempt'.result = "connected"
      BY <1>6, <2>1, <2>2, <3>1, Remembered, Ended
    <3>3. Kept /\ Proven
      BY <2>1, <2>2, <3>1, Remembered
    <3>4. QED
      BY <3>2, <3>3
  <2>3. CASE UNCHANGED saved /\ (Used!End("failed") \/ Used!End("unarmed"))
    BY <1>1, <1>6, <2>1, <2>3, Ended
  <2>4. CASE /\ UNCHANGED saved /\ Used!Refuses(attempt.key, attempt.password)
             /\ IF attempt.noPrompt THEN Used!End("refused")
                ELSE attempt' = [attempt EXCEPT !.pc = "ask"]
    <3>1. CASE attempt.noPrompt
      BY <1>1, <1>6, <2>1, <2>4, <3>1, Ended
    <3>2. CASE ~attempt.noPrompt
      <4>1. attempt' \in Used!Attempt /\ attempt'.pc = "ask" /\ attempt'.key = attempt.key
            /\ attempt'.result = "none"
        BY <1>1, <2>1, <2>4, <3>2 DEF Used!Attempt
      <4>2. attempt.key \notin byKey
        BY <2>4 DEF Used!Refuses, Used!Accepts
      <4>3. QED
        BY <1>1, <2>1, <2>4, <4>1, <4>2 DEF AttemptInv, Used!LoginTypeOK
    <3>3. QED
      BY <3>1, <3>2
  <2>5. QED
    BY <1>7, <2>2, <2>3, <2>4 DEF Used!Dial
<1>8. CASE Used!Ask
  <2>1. attempt.pc = "ask" /\ UNCHANGED <<saved, accepted, byKey, keyless>>
    BY <1>8 DEF Used!Ask
  <2>2. ASSUME NEW typed \in Passwords \union {NoPassword},
               attempt' = [attempt EXCEPT !.pc = "redial", !.password = typed]
        PROVE  AttemptInv'
    <3>1. attempt' \in Used!Attempt /\ attempt'.pc = "redial" /\ attempt'.key = attempt.key
          /\ attempt'.result = "none"
      BY <1>1, <2>1, <2>2 DEF Used!Attempt
    <3>2. QED
      BY <1>1, <2>1, <3>1 DEF AttemptInv, Used!LoginTypeOK
  <2>3. AttemptInv'
    BY <1>1, <1>6, <1>8, <2>1, <2>2 DEF Used!Ask
  <2>4. QED
    BY <2>1, <2>3
<1>9. CASE Used!Redial
  <2>1. attempt.pc = "redial" /\ UNCHANGED <<accepted, byKey, keyless>>
        /\ attempt.password \in Passwords \union {NoPassword}
    BY <1>1, <1>9 DEF Used!Redial, Used!Attempt
  <2>2. CASE Used!Accepts(attempt.key, attempt.password) /\ Used!Remember(attempt.password)
             /\ Used!End("connected")
    <3>1. attempt.password = accepted[attempt.key]
      BY <1>1, <2>1, <2>2 DEF Used!Accepts
    <3>2. AttemptInv' /\ Kept
      BY <1>6, <2>1, <2>2, Remembered
    <3>3. saved' = saved \/ saved' = [saved EXCEPT ![attempt.key] = attempt.password]
      BY <2>1, <2>2, Remembered
    <3>4. Proven
      BY <1>1, <3>1, <3>3
    <3>5. QED
      BY <2>1, <3>2, <3>4
  <2>3. CASE UNCHANGED saved /\ (Used!End("refused") \/ Used!End("unarmed") \/ Used!End("failed"))
    BY <1>1, <1>6, <2>1, <2>3
  <2>4. QED
    BY <1>9, <2>2, <2>3 DEF Used!Redial
<1>10. QED
  BY <1>2, <1>3, <1>4, <1>5, <1>7, <1>8, <1>9 DEF Used!Next

-----------------------------------------------------------------------------
(* The store.                                                              *)

\* What of a store that is open to others as well is not shown here.
OneProcess == \A p, q \in Procs : p = q

\* What each step of a call knows of the files.  A call that is under way names
\* what it needs; what it loaded is what is saved, until it saves.
CallInv(p) ==
    LET c == call[p]
    IN  /\ c.pc # "idle" =>
              /\ c.kind \in {"get", "set", "delete"} => c.key \in Keys
              /\ c.kind = "set" => c.password \in Passwords
        /\ c.pc \in {"adopt", "move"} => store = NoStore
        /\ c.pc = "move" => c.records = legacy /\ legacy # NoStore
        /\ c.pc = "unlink" => store # NoStore /\ c.records = store
        /\ c.pc = "loaded" => Records(p) = Saved
        /\ c.pc = "save" =>
              \/ c.kind = "set" /\ c.records = [Saved EXCEPT ![c.key] = c.password]
              \/ c.kind = "delete" /\ c.records = [Saved EXCEPT ![c.key] = NoPassword]
              \/ c.kind = "clear" /\ c.records = Empty

StoreInv == CredentialTypeOK /\ \A p \in Procs : CallInv(p)

\* No file is not a file.
LEMMA NoStoreIsNoMap == CredentialAssumption => NoStore \notin Maps
  BY DEF CredentialAssumption, Maps

\* What is saved, and what a call works on, is a map.
LEMMA SavedIsMap ==
    ASSUME CredentialTypeOK
    PROVE  Saved \in Maps /\ \A p \in Procs : Records(p) \in Maps /\ call[p] \in CallState
<1>1. Empty \in Maps
  BY DEF Empty, Maps
<1>2. Saved \in Maps
  BY <1>1 DEF Saved, CredentialTypeOK
<1>3. ASSUME NEW p \in Procs PROVE Records(p) \in Maps /\ call[p] \in CallState
  BY <1>1 DEF Records, CredentialTypeOK, CallState
<1>4. QED
  BY <1>2, <1>3

\* A call that is over is forgotten.
LEMMA Returned ==
    ASSUME CredentialTypeOK, NEW p \in Procs, Return(p)
    PROVE  /\ call' \in [Procs -> CallState] /\ call'[p] = NoCall
           /\ \A q \in Procs : q # p => call'[q] = call[q]
<1>1. NoCall \in CallState
  BY DEF NoCall, CallState, Kinds
<1>2. QED
  BY <1>1 DEF Return, CredentialTypeOK

\* A call goes on to another step.
LEMMA Gone ==
    ASSUME CredentialTypeOK, NEW p \in Procs,
           NEW stage \in {"idle", "load", "adopt", "move", "unlink", "loaded", "save"},
           Goto(p, stage)
    PROVE  /\ call' \in [Procs -> CallState]
           /\ call'[p] = [call[p] EXCEPT !.pc = stage]
<1>1. [call[p] EXCEPT !.pc = stage] \in CallState
  BY DEF CredentialTypeOK, CallState
<1>2. QED
  BY <1>1 DEF Goto, CredentialTypeOK

\* What one step of the only process does: the files keep their types, and what is
\* saved changes by the whole of what the call was asked, or not at all.
LEMMA StepIsSound ==
    ASSUME CredentialAssumption, OneProcess, StoreInv, NEW p \in Procs, Step(p)
    PROVE  /\ StoreInv'
           /\ \/ Saved' = Saved
              \/ /\ call[p].kind = "set" /\ call[p].key \in Keys /\ call[p].password \in Passwords
                 /\ Saved' = [Saved EXCEPT ![call[p].key] = call[p].password]
              \/ /\ call[p].kind = "delete" /\ call[p].key \in Keys
                 /\ Saved' = [Saved EXCEPT ![call[p].key] = NoPassword]
              \/ call[p].kind = "clear" /\ Saved' = Empty
<1>1. /\ CredentialTypeOK /\ CallInv(p) /\ call[p] \in CallState /\ Saved \in Maps
      /\ Records(p) \in Maps /\ NoStore \notin Maps /\ \A q \in Procs : q = p
  BY NoStoreIsNoMap, SavedIsMap DEF StoreInv, OneProcess
<1>2. CASE UNCHANGED <<store, legacy>> /\ call'[p].pc = "idle" /\ call' \in [Procs -> CallState]
  <2>1. StoreInv'
    BY <1>1, <1>2 DEF StoreInv, CredentialTypeOK, CallInv
  <2>2. QED
    BY <1>2, <2>1 DEF Saved
<1>3. ASSUME NEW kind \in Kinds, NEW key \in Keys \union {NoKey},
             NEW password \in Passwords \union {NoPassword}, Begin(p, kind, key, password)
      PROVE  StoreInv' /\ Saved' = Saved
  <2> DEFINE c == [NoCall EXCEPT !.pc = "load", !.kind = kind, !.key = key,
                                 !.password = password]
  <2>1. c \in CallState
    BY DEF NoCall, CallState, Kinds
  <2>2. call' \in [Procs -> CallState] /\ call'[p] = c /\ UNCHANGED <<store, legacy>>
    BY <1>1, <1>3, <2>1 DEF Begin, CredentialTypeOK
  <2>3. c.pc = "load" /\ c.kind = kind /\ c.key = key /\ c.password = password
    BY DEF NoCall
  <2>4. /\ kind \in {"get", "set", "delete"} => key \in Keys
        /\ kind = "set" => password \in Passwords
    BY <1>3 DEF Begin
  <2>5. CallInv(p)'
    BY <2>2, <2>3, <2>4 DEF CallInv
  <2>6. QED
    BY <1>1, <2>2, <2>5 DEF StoreInv, CredentialTypeOK, Saved
<1>4. CASE Load(p)
  <2>1. UNCHANGED <<store, legacy>> /\ Saved' = Saved
    BY <1>4 DEF Load, Saved
  <2>2. CASE store = NoStore
    <3>1. call' \in [Procs -> CallState] /\ call'[p] = [call[p] EXCEPT !.pc = "adopt"]
      BY <1>1, <1>4, <2>2, Gone DEF Load
    <3>2. CallInv(p)'
      BY <1>1, <1>4, <2>1, <2>2, <3>1 DEF Load, CallInv, CallState
    <3>3. QED
      BY <1>1, <2>1, <3>1, <3>2 DEF StoreInv, CredentialTypeOK
  <2>3. CASE store # NoStore
    <3>1. [call[p] EXCEPT !.pc = "loaded", !.records = store] \in CallState
      BY <1>1 DEF CallState, CredentialTypeOK
    <3>2. /\ call' \in [Procs -> CallState]
          /\ call'[p] = [call[p] EXCEPT !.pc = "loaded", !.records = store]
      BY <1>1, <1>4, <2>3, <3>1 DEF Load, CredentialTypeOK
    <3>3. Records(p)' = Saved'
      BY <1>1, <2>1, <2>3, <3>2 DEF Records, Saved, CallState
    <3>4. CallInv(p)'
      BY <1>1, <1>4, <2>1, <3>2, <3>3 DEF Load, CallInv, CallState
    <3>5. QED
      BY <1>1, <2>1, <3>2, <3>4 DEF StoreInv, CredentialTypeOK
  <2>4. QED
    BY <2>2, <2>3
<1>5. CASE AdoptLegacy(p)
  <2> DEFINE stage == IF legacy = NoStore THEN "loaded" ELSE "move"
  <2>1. UNCHANGED <<store, legacy>> /\ Saved' = Saved /\ store = NoStore
    BY <1>1, <1>5 DEF AdoptLegacy, Saved, CallInv
  <2>2. [call[p] EXCEPT !.records = legacy, !.pc = stage] \in CallState
    BY <1>1 DEF CallState, CredentialTypeOK
  <2>3. /\ call' \in [Procs -> CallState]
        /\ call'[p] = [call[p] EXCEPT !.records = legacy, !.pc = stage]
    BY <1>1, <1>5, <2>2 DEF AdoptLegacy, CredentialTypeOK
  <2>4. Records(p)' = Saved'
    BY <1>1, <2>1, <2>3 DEF Records, Saved, CallState
  <2>5. CallInv(p)'
    BY <1>1, <1>5, <2>1, <2>3, <2>4 DEF AdoptLegacy, CallInv, CallState
  <2>6. QED
    BY <1>1, <2>1, <2>3, <2>5 DEF StoreInv, CredentialTypeOK
<1>6. CASE MoveWrite(p) \/ MoveUnlink(p)
  <2>1. Saved' = Saved
    BY <1>1, <1>6 DEF MoveWrite, MoveUnlink, Saved, CallInv
  <2>2. store' \in Maps \union {NoStore} /\ legacy' \in Maps \union {NoStore}
    BY <1>1, <1>6 DEF MoveWrite, MoveUnlink, CredentialTypeOK, CallState
  <2>3. /\ [call[p] EXCEPT !.pc = "loaded", !.moveFailed = TRUE] \in CallState
        /\ [call[p] EXCEPT !.pc = "loaded"] \in CallState
        /\ [call[p] EXCEPT !.pc = "unlink"] \in CallState
    BY <1>1 DEF CallState
  <2>4. PICK c \in CallState :
           /\ call' = [call EXCEPT ![p] = c]
           /\ c.kind = call[p].kind /\ c.key = call[p].key /\ c.password = call[p].password
           /\ c.records = call[p].records
           /\ \/ c.pc = "loaded"
              \/ c.pc = "unlink" /\ store' = call[p].records /\ call[p].pc = "move"
    <3>1. CASE call[p].pc = "move" /\ store' = call[p].records /\ Goto(p, "unlink")
      <4>1. call' = [call EXCEPT ![p] = [call[p] EXCEPT !.pc = "unlink"]]
        BY <3>1 DEF Goto
      <4>2. QED
        BY <1>1, <2>3, <3>1, <4>1 DEF CallState
    <3>2. CASE Goto(p, "loaded")
      BY <1>1, <2>3, <3>2 DEF Goto, CallState
    <3>3. CASE call' = [call EXCEPT ![p].pc = "loaded", ![p].moveFailed = TRUE]
      <4>1. call' = [call EXCEPT ![p] =
                        [call[p] EXCEPT !.pc = "loaded", !.moveFailed = TRUE]]
        BY <1>1, <3>3 DEF CallState, CredentialTypeOK
      <4>2. QED
        BY <1>1, <2>3, <4>1 DEF CallState
    <3>4. QED
      BY <1>6, <3>1, <3>2, <3>3 DEF MoveWrite, MoveUnlink
  <2>5. call' \in [Procs -> CallState] /\ call'[p] = c
    BY <1>1, <2>4 DEF CredentialTypeOK
  <2>6. call[p].records = Saved /\ call[p].records # NoStore
    BY <1>1, <1>6 DEF MoveWrite, MoveUnlink, CallInv, Saved
  <2>7. Records(p)' = Saved'
    BY <2>1, <2>4, <2>5, <2>6 DEF Records
  <2>8. CallInv(p)'
    BY <1>1, <1>6, <2>4, <2>5, <2>6, <2>7 DEF MoveWrite, MoveUnlink, CallInv
  <2>9. QED
    BY <1>1, <2>1, <2>2, <2>5, <2>8 DEF StoreInv, CredentialTypeOK
<1>7. CASE Edit(p)
  <2>1. UNCHANGED <<store, legacy>> /\ Saved' = Saved /\ Records(p) = Saved
    BY <1>1, <1>7 DEF Edit, Saved, CallInv
  <2>2. CASE Return(p)
    BY <1>1, <1>2, <2>1, <2>2, Returned DEF NoCall
  <2>3. CASE ~Return(p)
    <3>1. call[p].kind # "get" /\ call' = [call EXCEPT ![p].pc = "save", ![p].records = Edited(p)]
      BY <1>7, <2>3 DEF Edit
    <3>2. Edited(p) \in Maps
      <4>1. Empty \in Maps
        BY DEF Empty, Maps
      <4>2. call[p].kind \in {"set", "delete", "clear"}
        BY <1>1, <3>1 DEF CallState, Kinds
      <4>3. QED
        BY <1>1, <1>7, <4>1, <4>2 DEF Edit, Edited, CallInv, Maps
    <3>3. [call[p] EXCEPT !.pc = "save", !.records = Edited(p)] \in CallState
      BY <1>1, <3>2 DEF CallState
    <3>4. /\ call' \in [Procs -> CallState]
          /\ call'[p] = [call[p] EXCEPT !.pc = "save", !.records = Edited(p)]
      BY <1>1, <3>1, <3>3 DEF CredentialTypeOK
    <3>5. \/ call[p].kind = "set" /\ Edited(p) = [Saved EXCEPT ![call[p].key] = call[p].password]
          \/ call[p].kind = "delete" /\ Edited(p) = [Saved EXCEPT ![call[p].key] = NoPassword]
          \/ call[p].kind = "clear" /\ Edited(p) = Empty
      BY <1>1, <2>1, <3>1 DEF Edited, CallState, Kinds
    <3>6. CallInv(p)'
      <4>1. /\ call'[p].pc = "save" /\ call'[p].records = Edited(p)
            /\ call'[p].kind = call[p].kind /\ call'[p].key = call[p].key
            /\ call'[p].password = call[p].password
        BY <1>1, <3>4 DEF CallState
      <4>2. call[p].pc = "loaded"
        BY <1>7 DEF Edit
      <4>3. QED
        BY <1>1, <2>1, <3>5, <4>1, <4>2 DEF CallInv
    <3>7. QED
      BY <1>1, <2>1, <3>4, <3>6 DEF StoreInv, CredentialTypeOK
  <2>4. QED
    BY <2>2, <2>3
<1>8. CASE Save(p)
  <2>1. call' \in [Procs -> CallState] /\ call'[p].pc = "idle" /\ UNCHANGED legacy
    BY <1>1, <1>8, Returned DEF Save, NoCall
  <2>2. CASE UNCHANGED store
    BY <1>2, <2>1, <2>2
  <2>3. CASE store' = call[p].records
    <3>1. call[p].records \in Maps /\ Saved' = call[p].records
      <4>1. Empty \in Maps
        BY DEF Empty, Maps
      <4>2. call[p].records \in Maps
        BY <1>1, <1>8, <4>1 DEF Save, CallInv, Maps
      <4>3. QED
        BY <1>1, <2>3, <4>2 DEF Saved
    <3>2. StoreInv'
      BY <1>1, <2>1, <2>3, <3>1 DEF StoreInv, CredentialTypeOK, CallInv
    <3>3. QED
      BY <1>1, <1>8, <3>1, <3>2 DEF Save, CallInv
  <2>4. QED
    BY <1>8, <2>2, <2>3 DEF Save
<1>9. CASE Crash(p)
  BY <1>1, <1>2, <1>9, Returned DEF Crash, NoCall
<1>10. QED
  BY <1>3, <1>4, <1>5, <1>6, <1>7, <1>8, <1>9 DEF Step

\* The types, and what each step of a call knows of the files.
THEOREM StoreIsSound ==
    ASSUME CredentialAssumption, OneProcess
    PROVE  Spec => []StoreInv
<1>1. Init => StoreInv
  <2> SUFFICES ASSUME Init PROVE StoreInv
    OBVIOUS
  <2>1. NoCall \in CallState
    BY DEF NoCall, CallState, Kinds
  <2>2. CredentialTypeOK
    BY <2>1 DEF Init, CredentialTypeOK
  <2>3. QED
    BY <2>2 DEF Init, StoreInv, CallInv, NoCall
<1>2. StoreInv /\ [Next]_vars => StoreInv'
  <2>1. ASSUME StoreInv, UNCHANGED vars PROVE StoreInv'
    BY <2>1 DEF vars, StoreInv, CredentialTypeOK, CallInv, Records, Saved
  <2>2. QED
    BY <2>1, StepIsSound DEF Next
<1>3. QED
  BY <1>1, <1>2, PTL DEF Spec

\* A call under way writes nothing but a map, whoever else may write.
FilesAreMaps ==
    /\ CredentialTypeOK
    /\ \A p \in Procs : call[p].pc \in {"move", "save"} => call[p].records \in Maps

LEMMA StoreIsTyped == Spec => []FilesAreMaps
<1>1. Init => FilesAreMaps
  <2>1. NoCall \in CallState /\ NoCall.pc = "idle"
    BY DEF NoCall, CallState, Kinds
  <2>2. QED
    BY <2>1 DEF Init, FilesAreMaps, CredentialTypeOK
<1>2. FilesAreMaps /\ [Next]_vars => FilesAreMaps'
  <2>1. ASSUME FilesAreMaps, NEW p \in Procs, NEW c \in CallState,
               c.pc \in {"move", "save"} => c.records \in Maps,
               call' = [call EXCEPT ![p] = c],
               store' \in Maps \union {NoStore}, legacy' \in Maps \union {NoStore}
        PROVE  FilesAreMaps'
    BY <2>1 DEF FilesAreMaps, CredentialTypeOK
  <2>2. ASSUME FilesAreMaps, UNCHANGED vars PROVE FilesAreMaps'
    BY <2>2 DEF vars, FilesAreMaps, CredentialTypeOK
  <2>3. ASSUME FilesAreMaps, NEW p \in Procs, Step(p)
        PROVE  FilesAreMaps'
    <3> DEFINE c == call[p]
    <3>1. /\ CredentialTypeOK /\ c \in CallState /\ Records(p) \in Maps /\ NoCall \in CallState
          /\ store \in Maps \union {NoStore} /\ legacy \in Maps \union {NoStore}
          /\ c.pc \in {"move", "save"} => c.records \in Maps
          /\ NoCall.pc = "idle"
          /\ call = [q \in Procs |-> call[q]]
      BY <2>3, SavedIsMap DEF FilesAreMaps, CredentialTypeOK, NoCall, CallState, Kinds
    <3>2. CASE UNCHANGED <<store, legacy>> /\ Return(p)
      BY <2>1, <2>3, <3>1, <3>2 DEF Return
    <3>3. ASSUME NEW kind \in Kinds, NEW key \in Keys \union {NoKey},
                 NEW password \in Passwords \union {NoPassword}, Begin(p, kind, key, password)
          PROVE  FilesAreMaps'
      <4> DEFINE d == [NoCall EXCEPT !.pc = "load", !.kind = kind, !.key = key,
                                     !.password = password]
      <4>1. d \in CallState /\ d.pc = "load"
        BY DEF NoCall, CallState, Kinds
      <4>2. QED
        BY <2>1, <2>3, <3>1, <3>3, <4>1 DEF Begin
    <3>4. CASE Load(p) \/ AdoptLegacy(p)
      <4>1. PICK stage \in {"adopt", "loaded", "move"}, r \in Maps \union {NoStore} :
               /\ call' = [call EXCEPT ![p] = [c EXCEPT !.pc = stage, !.records = r]]
               /\ stage = "move" => r # NoStore
        <5>1. CASE Load(p) /\ store = NoStore
          <6>1. c.records \in Maps \union {NoStore}
            BY <3>1 DEF CallState
          <6>2. call' = [call EXCEPT ![p] = [c EXCEPT !.pc = "adopt"]]
            BY <5>1 DEF Load, Goto
          <6>3. [c EXCEPT !.pc = "adopt"] = [c EXCEPT !.pc = "adopt", !.records = c.records]
            BY <3>1 DEF CallState
          <6>4. QED
            BY <6>1, <6>2, <6>3
        <5>2. CASE Load(p) /\ store # NoStore
          BY <3>1, <5>2 DEF Load
        <5>3. CASE AdoptLegacy(p)
          <6>1. [[c EXCEPT !.records = legacy] EXCEPT !.pc = IF legacy = NoStore THEN "loaded" ELSE "move"]
                  = [c EXCEPT !.pc = IF legacy = NoStore THEN "loaded" ELSE "move", !.records = legacy]
            BY <3>1 DEF CallState
          <6>2. QED
            BY <3>1, <5>3, <6>1 DEF AdoptLegacy
        <5>4. QED
          BY <3>4, <5>1, <5>2, <5>3
      <4> DEFINE d == [c EXCEPT !.pc = stage, !.records = r]
      <4>2. d \in CallState /\ d.pc = stage /\ d.records = r
        BY <3>1, <4>1 DEF CallState
      <4> HIDE DEF d
      <4>3. QED
        BY <2>1, <2>3, <3>1, <3>4, <4>1, <4>2 DEF d, Load, AdoptLegacy
    <3>5. CASE MoveWrite(p) \/ MoveUnlink(p)
      <4>1. PICK stage \in {"unlink", "loaded"}, failed \in BOOLEAN :
               call' = [call EXCEPT ![p] = [c EXCEPT !.pc = stage, !.moveFailed = failed]]
        <5>1. ASSUME NEW stage \in {"unlink", "loaded"}, Goto(p, stage)
              PROVE  call' = [call EXCEPT ![p] = [c EXCEPT !.pc = stage,
                                                           !.moveFailed = c.moveFailed]]
          BY <3>1, <5>1 DEF Goto, CallState
        <5>2. c.moveFailed \in BOOLEAN
          BY <3>1 DEF CallState
        <5>3. CASE call' = [call EXCEPT ![p].pc = "loaded", ![p].moveFailed = TRUE]
          BY <3>1, <5>3
        <5>4. QED
          BY <3>5, <5>1, <5>2, <5>3 DEF MoveWrite, MoveUnlink
      <4> DEFINE d == [c EXCEPT !.pc = stage, !.moveFailed = failed]
      <4>2. d \in CallState /\ d.pc = stage
        BY <3>1, <4>1 DEF CallState
      <4>3. store' \in Maps \union {NoStore} /\ legacy' \in Maps \union {NoStore}
        BY <3>1, <3>5 DEF MoveWrite, MoveUnlink
      <4> HIDE DEF d
      <4>4. QED
        BY <2>1, <2>3, <4>1, <4>2, <4>3 DEF d
    <3>6. CASE Edit(p) /\ ~Return(p)
      <4>1. /\ call' = [call EXCEPT ![p].pc = "save", ![p].records = Edited(p)]
            /\ UNCHANGED <<store, legacy>> /\ c.kind \in {"set", "delete", "clear"}
        BY <3>1, <3>6 DEF Edit, CallState, Kinds
      <4>2. Edited(p) \in Maps
        <5>1. Empty \in Maps /\ c.password \in Passwords \union {NoPassword}
          BY <3>1 DEF Empty, Maps, CallState
        <5>2. QED
          BY <3>1, <4>1, <5>1 DEF Edited, Maps
      <4> DEFINE d == [c EXCEPT !.pc = "save", !.records = Edited(p)]
      <4>3. d \in CallState /\ d.records = Edited(p)
        BY <3>1, <4>2 DEF CallState
      <4>4. call' = [call EXCEPT ![p] = d]
        BY <3>1, <4>1
      <4>5. UNCHANGED <<store, legacy>> /\ d.records \in Maps
        BY <4>1, <4>2, <4>3
      <4> HIDE DEF d
      <4>6. QED
        BY <2>1, <2>3, <3>1, <4>3, <4>4, <4>5
    <3>7. CASE Save(p)
      BY <2>1, <2>3, <3>1, <3>7 DEF Save, Return
    <3>8. QED
      BY <2>3, <3>2, <3>3, <3>4, <3>5, <3>6, <3>7 DEF Step, Edit, Crash
  <2>4. QED
    BY <2>2, <2>3 DEF Next
<1>3. QED
  BY <1>1, <1>2, PTL DEF Spec

\* A call changes the saved passwords by the whole of what it was asked, or by
\* nothing, wherever the process dies and whatever of the older file had been
\* carried across by then (credential.go:255-314).
THEOREM StoreIsAMap ==
    ASSUME CredentialAssumption, OneProcess
    PROVE  Spec => ImplementsPasswordMap
<1>1. Init => Saved \in PasswordMap!Maps
  <2>1. NoCall \in CallState
    BY DEF NoCall, CallState, Kinds
  <2>2. Init => CredentialTypeOK
    BY <2>1 DEF Init, CredentialTypeOK
  <2>3. QED
    BY <2>2, SavedIsMap DEF Maps, PasswordMap!Maps
<1>2. StoreInv /\ [Next]_vars => [PasswordMap!Next]_Saved
  <2>1. ASSUME StoreInv, NEW p \in Procs, Step(p)
        PROVE  PasswordMap!Next \/ Saved' = Saved
    BY <2>1, StepIsSound
    DEF PasswordMap!Next, PasswordMap!Set, PasswordMap!Delete, PasswordMap!Clear,
        PasswordMap!Empty, Empty
  <2>2. UNCHANGED vars => Saved' = Saved
    BY DEF vars, Saved
  <2>3. QED
    BY <2>1, <2>2 DEF Next
<1>3. QED
  BY <1>1, <1>2, StoreIsSound, PTL DEF Spec, ImplementsPasswordMap, PasswordMap!Spec

\* And touches no login it does not name.
THEOREM StoreIsExact ==
    ASSUME CredentialAssumption, OneProcess
    PROVE  Spec => OnlyWhatWasAsked
<1> DEFINE Exact == \A p \in Procs : call'[p] # call[p] /\ call[p].kind # "clear" =>
                       \A k \in Keys \ {call[p].key} : Saved'[k] = Saved[k]
<1>1. StoreInv /\ [Next]_vars => [Exact]_vars
  <2>1. ASSUME StoreInv, NEW p \in Procs, Step(p) PROVE Exact
    <3>1. \A q \in Procs : q = p
      BY DEF OneProcess
    <3>2. Saved \in Maps
      BY <2>1, SavedIsMap DEF StoreInv
    <3>3. QED
      BY <2>1, <3>1, <3>2, StepIsSound DEF Maps
  <2>2. QED
    BY <2>1 DEF Next
<1>2. QED
  BY <1>1, StoreIsSound, PTL DEF Spec, OnlyWhatWasAsked

-----------------------------------------------------------------------------
(* Together.                                                               *)

LEMMA AllBegin == AllInit => AuthInv /\ AttemptInv /\ Init
<1> SUFFICES ASSUME AllInit PROVE AuthInv /\ AttemptInv /\ Init
  OBVIOUS
<1>1. AttemptInv /\ Init
  BY AttemptInit DEF AllInit
<1>2. CASE part = "auth"
  BY <1>1, <1>2, AuthInit, GettingInAssumption DEF AllInit
<1>3. CASE part # "auth"
  <2>1. /\ user = Nothing
        /\ account = [trusts |-> {}, forms |-> {}, password |-> Passphrase, both |-> FALSE]
        /\ chain = {} /\ tried = {} /\ lists = {} /\ offered = {} /\ sent = FALSE
        /\ pc = "build"
    BY <1>3 DEF AllInit
  <2>2. user \in Auth!User
    BY <2>1 DEF Nothing, Auth!User
  <2>3. account \in Auth!Account
    BY <2>1, GettingInAssumption DEF Auth!Account, Auth!AuthChainAssumption
  <2>4. Auth!Init
    BY <2>1, <2>2, <2>3 DEF Auth!Init
  <2>5. QED
    BY <1>1, <2>4, AuthInit, GettingInAssumption
<1>4. QED
  BY <1>2, <1>3

\* Whichever takes a step, the others rest.
LEMMA AllSteps ==
    ASSUME [AllNext]_allVars
    PROVE  [Auth!Next]_authVars /\ [Used!Next]_usedVars /\ [Next]_vars
  BY DEF AllNext, allVars

LEMMA Attempts == AllSpec => []AttemptInv
<1>1. AllInit => AttemptInv
  BY AllBegin
<1>2. AttemptInv /\ [AllNext]_allVars => AttemptInv'
  BY AllSteps, AttemptStep
<1>3. QED
  BY <1>1, <1>2, PTL DEF AllSpec

\* Who has what the host asks for gets in, by a key before any password is sent, by a
\* password in whichever form the host takes it; and a dial is given up only when
\* there is nothing left to offer (auth.go:35-95).
THEOREM WhoMayGetsIn == AllSpec => []WhoMayGetIn
<1>1. AllInit => AuthInv
  BY AllBegin
<1>2. AuthInv /\ [AllNext]_allVars => AuthInv'
  BY AllSteps, AuthNext, GettingInAssumption
<1>3. AuthInv => WhoMayGetIn
  BY AuthAnswers, GettingInAssumption DEF WhoMayGetIn
<1>4. QED
  BY <1>1, <1>2, <1>3, PTL DEF AllSpec

\* A password nobody gave on the command line is saved only for the login it worked for
\* and only if saving is not off; a stale one is asked over (connect.go:260-275).
THEOREM WhatWorkedIsSaved == AllSpec => SavesWhatWorked
<1>1. AttemptInv /\ [AllNext]_allVars =>
         [\A k \in Keys : saved'[k] \notin {saved[k], NoPassword} /\ attempt.flag = NoPassword
            => k = attempt.key /\ saved'[k] = accepted[k]]_(Used!vars)
  BY AllSteps, AttemptStep
<1>2. AttemptInv /\ [AllNext]_allVars =>
         [attempt.noSave /\ attempt.pc # "idle" => saved' = saved]_(Used!vars)
  BY AllSteps, AttemptStep
<1>3. AttemptInv /\ [AllNext]_allVars =>
         [attempt.pc = "dial" /\ ~attempt.noPrompt => attempt'.result # "refused"]_(Used!vars)
  BY AllSteps, AttemptStep
<1>4. QED
  BY <1>1, <1>2, <1>3, Attempts, PTL
  DEF AllSpec, SavesWhatWorked, Used!SavesWhatWorked, Used!TypedIsSavedProven,
      Used!NoSaveSavesNothing, Used!StaleIsAskedOver

\* The store's own steps are all there is to it.
LEMMA StoreRuns == AllSpec => Spec
<1>1. AllInit => Init
  BY AllBegin
<1>2. [AllNext]_allVars => [Next]_vars
  BY AllSteps
<1>3. QED
  BY <1>1, <1>2, PTL DEF AllSpec, Spec

\* Every variable keeps its type, whatever processes share the store.
THEOREM TypesAreKept == AllSpec => []LoginTypeOK
<1>1. AllInit => AuthInv
  BY AllBegin
<1>2. AuthInv /\ [AllNext]_allVars => AuthInv'
  BY AllSteps, AuthNext, GettingInAssumption
<1>3. AuthInv /\ AttemptInv /\ FilesAreMaps => LoginTypeOK
  BY DEF LoginTypeOK, AuthInv, AttemptInv, FilesAreMaps
<1>4. QED
  BY <1>1, <1>2, <1>3, Attempts, StoreRuns, StoreIsTyped, PTL DEF AllSpec

\* The store does what it is asked, and no more.
THEOREM CallsAreDone == OneProcess => (AllSpec => CallsDoWhatTheyAsk)
  BY StoreIsAMap, StoreIsExact, StoreRuns, GettingInAssumption DEF CallsDoWhatTheyAsk

=============================================================================
