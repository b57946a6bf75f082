------------------------------ MODULE AuthChain ------------------------------
(***************************************************************************)
(* What a dial offers to a host to get in: buildAuthChain, agentAuthMethod *)
(* and keyAuthMethod of internal/sshclient/auth.go, the check of           *)
(* buildSSHConfig that there is anything to offer, and the loop of         *)
(* x/crypto/ssh that works through what it is given.                       *)
(*                                                                         *)
(* A key and the file it is in have one name.  An agent holds the same     *)
(* keys, unlocked.  A chain is a set of methods, each with the place it    *)
(* has in it; what was not added leaves its place empty.                   *)
(***************************************************************************)
EXTENDS Naturals, Sequences

CONSTANTS
    KeyFiles,    \* private keys of the user
    DefaultKeys, \* defaultKeyNames, as a sequence of them
    NoFile,      \* no IdentityFile
    Passwords, NoPassword,
    Passphrase   \* what unlocks the keys that are locked

AuthChainAssumption ==
    /\ DefaultKeys \in Seq(KeyFiles) /\ NoFile \notin KeyFiles
    /\ NoPassword \notin Passwords /\ Passphrase \in Passwords

VARIABLES
    user,    \* what there is to offer
    account, \* what the host asks for
    chain,   \* authChain.methods
    tried,   \* names of the methods the host has turned down
    lists,   \* names of the methods the host would have next
    offered, \* keys the host has been shown
    sent,    \* whether it has been sent the password
    pc

authVars == <<user, account, chain, tried, lists, offered, sent, pc>>

\* A reachable agent's keys, none of them if it is not reachable, not configured or
\* disabled; a key file is "plain", "locked", or not there or not readable.
User == [agent : SUBSET KeyFiles, identity : KeyFiles \union {NoFile},
         file : [KeyFiles -> {"plain", "locked", "unusable"}],
         home : BOOLEAN, password : Passwords \union {NoPassword}]

Forms == {"password", "keyboard-interactive"}
Names == Forms \union {"publickey"}

\* both: a key first, and then the password.
Account == [trusts : SUBSET KeyFiles, forms : SUBSET Forms, password : Passwords,
            both : BOOLEAN]

\* After the agent and the IdentityFile a place for each default key, and the two
\* forms of the password.
Last == Len(DefaultKeys) + 4
Method == [at : 1..Last, name : Names, keys : SUBSET KeyFiles]

AuthTypeOK ==
    /\ user \in User /\ account \in Account
    /\ chain \subseteq Method
    /\ tried \subseteq Names /\ lists \subseteq Names
    /\ offered \subseteq KeyFiles /\ sent \in BOOLEAN
    /\ pc \in {"build", "auth", "in", "refused", "unarmed"}

Init ==
    /\ user \in User /\ account \in Account
    /\ account.both => account.forms # {}
    /\ chain = {} /\ tried = {} /\ lists = {}
    /\ offered = {} /\ sent = FALSE
    /\ pc = "build"

-----------------------------------------------------------------------------
(* buildAuthChain.                                                         *)

PublicKeys(place, keys) == [at |-> place, name |-> "publickey", keys |-> keys]
Secret(place, form) == [at |-> place, name |-> form, keys |-> {}]

\* An agent without keys is no method.
agentAuthMethod == IF user.agent = {} THEN {} ELSE {PublicKeys(1, user.agent)}

Unlocked(f) ==
    \/ user.file[f] = "plain"
    \/ user.file[f] = "locked" /\ user.password = Passphrase

\* A key that is missing, unreadable or stays locked is passed over.
keyAuthMethod(place, f) == IF Unlocked(f) THEN {PublicKeys(place, {f})} ELSE {}

identityMethod == IF user.identity = NoFile THEN {} ELSE keyAuthMethod(2, user.identity)

\* What was tried as the IdentityFile is not tried again.
defaultMethods ==
    UNION {keyAuthMethod(i + 2, DefaultKeys[i]) :
              i \in {j \in DOMAIN DefaultKeys : DefaultKeys[j] # user.identity}}

\* Fault: a server that takes passwords in the other form only is forgotten.
passwordMethodsPlain ==
    IF user.password = NoPassword THEN {} ELSE {Secret(Last - 1, "password")}

\* Both forms, for servers that have the second only.
passwordMethods ==
    IF user.password = NoPassword THEN {}
    ELSE {Secret(Last - 1, "password"), Secret(Last, "keyboard-interactive")}

\* Without a home directory there are no default keys, and the password is left out.
buildAuthChain ==
    agentAuthMethod \union identityMethod
        \union IF user.home THEN defaultMethods \union passwordMethods ELSE {}

\* buildSSHConfig: with nothing to offer no connection is made.
Build ==
    /\ pc = "build"
    /\ chain' = buildAuthChain
    /\ IF chain' = {} THEN pc' = "unarmed" /\ UNCHANGED lists
       ELSE /\ pc' = "auth"
            /\ lists' = {"publickey"} \union (IF account.both THEN {} ELSE account.forms)
    /\ UNCHANGED <<user, account, tried, offered, sent>>

-----------------------------------------------------------------------------
(* The loop of x/crypto/ssh.  Of the methods of one name only the first is *)
(* ever used.                                                              *)

Candidates == {m \in chain : m.name \in lists \ tried}
First == CHOOSE m \in Candidates : \A n \in Candidates : m.at <= n.at

Passes(method) ==
    IF method.name = "publickey" THEN method.keys \intersect account.trusts # {}
                                 ELSE user.password = account.password

\* The first method of a kind the host would have is used: the host lets the user
\* in, asks for the password as well, or turns the method down.
Try ==
    /\ pc = "auth" /\ Candidates # {}
    /\ offered' = offered \union First.keys
    /\ sent' = (sent \/ First.name # "publickey")
    /\ IF ~Passes(First)
          THEN tried' = tried \union {First.name} /\ UNCHANGED <<lists, pc>>
          ELSE /\ UNCHANGED tried
               /\ IF account.both /\ First.name = "publickey"
                     THEN lists' = account.forms /\ UNCHANGED pc
                     ELSE pc' = "in" /\ UNCHANGED lists
    /\ UNCHANGED <<user, account, chain>>

\* Nothing is left that the host would have.
GiveUp ==
    /\ pc = "auth" /\ Candidates = {}
    /\ pc' = "refused"
    /\ UNCHANGED <<user, account, chain, tried, lists, offered, sent>>

Next == Build \/ Try \/ GiveUp

Spec == Init /\ [][Next]_authVars

-----------------------------------------------------------------------------
\* The keys a dial gets to show: the agent's, or the first file that opens.
Keyed == {m \in buildAuthChain : m.name = "publickey"}
Leading ==
    UNION {m.keys : m \in {k \in Keyed : \A n \in Keyed : k.at <= n.at}}

KeyFits == Leading \intersect account.trusts # {}
PasswordFits == user.home /\ account.forms # {} /\ user.password = account.password

\* The user gets in exactly when what is offered is what the host asks for: a key, the
\* password in whichever form the host takes it, or the one after the other
\* (auth.go:81-95).  This is what module Login takes for the answer of a dial.
AnswersTheHost ==
    pc \in {"in", "refused", "unarmed"} =>
        (pc = "in" <=> IF account.both THEN KeyFits /\ PasswordFits
                                       ELSE KeyFits \/ PasswordFits)

\* The password is not sent to a host that a key it is shown first would open
\* (auth.go:35-36).
KeysComeFirst == sent => account.both \/ ~KeyFits

\* The key files a dial would look into.
Wanted == {DefaultKeys[i] : i \in DOMAIN DefaultKeys} \union ({user.identity} \ {NoFile})

\* Nothing is given up before it was offered: a dial is ended before it begins only if
\* no agent holds a key, none opens and no password was given (client.go:329-333).
UnarmedHasNothing ==
    pc = "unarmed" /\ user.home =>
        /\ user.agent = {} /\ user.password = NoPassword
        /\ \A f \in Wanted : ~Unlocked(f)

AuthIsSound == AnswersTheHost /\ KeysComeFirst /\ UnarmedHasNothing

(* Claims of the code that do not hold.                                    *)

\* src/README.md:366-379 and auth.go:139-141: the methods are tried in order, and a key
\* that is passed over leaves the others their turn.  x/crypto/ssh uses the first
\* instance of a method only, and each key is an instance of its own: behind an agent
\* with any key no file is ever shown, behind an IdentityFile no default key.
EveryKeyIsOffered ==
    pc = "refused" /\ user.home =>
        /\ user.agent \subseteq offered
        /\ \A f \in Wanted :
              Unlocked(f) => f \in offered

\* auth.go:59-62: an error naming the home directory ends the chain, so a password that
\* was given is not offered.
PasswordIsOffered ==
    pc \in {"refused", "unarmed"} /\ account.forms # {} /\ ~account.both
        => user.password # account.password

=============================================================================
