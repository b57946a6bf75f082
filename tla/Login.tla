------------------------------- MODULE Login --------------------------------
(***************************************************************************)
(* The password policy: dialWithPrompt and remember in                     *)
(* internal/service/connect.go, and the forget command.  An attempt dials  *)
(* with the flag's password or the saved one, asks for another when the    *)
(* host refuses, and remembers one.  The saved passwords are the map that  *)
(* module CredentialStore implements.                                      *)
(*                                                                         *)
(* A host accepts its account's password, or a key or agent, whatever      *)
(* password comes with it; what it takes of all that is offered is module  *)
(* AuthChain's.  A passphrase the flag's password unlocks a key with       *)
(* counts as accepting the key.                                            *)
(***************************************************************************)
CONSTANTS
    Keys, Passwords, NoPassword, \* as in PasswordMap
    NoKey                        \* the login of no attempt

VARIABLES
    saved,    \* the saved passwords
    accepted, \* the password each host would accept now
    byKey,    \* logins a key or the agent is enough for
    keyless,  \* logins there is no key to try for, in a file or an agent
    attempt   \* the call of dialWithPrompt in hand, or the last one

vars == <<saved, accepted, byKey, keyless, attempt>>

Store == INSTANCE PasswordMap

Attempt ==
    [pc : {"idle", "dial", "ask", "redial"}, key : Keys \union {NoKey},
     flag : Passwords \union {NoPassword}, password : Passwords \union {NoPassword},
     noPrompt : BOOLEAN, noSave : BOOLEAN,
     result : {"none", "connected", "refused", "unarmed", "failed"}]

LoginTypeOK ==
    /\ saved \in Store!Maps
    /\ accepted \in [Keys -> Passwords]
    /\ byKey \subseteq Keys /\ keyless \subseteq Keys \ byKey
    /\ attempt \in Attempt

Init ==
    /\ saved = Store!Empty
    /\ accepted \in [Keys -> Passwords]
    /\ byKey \in SUBSET Keys /\ keyless \in SUBSET (Keys \ byKey)
    /\ attempt = [pc |-> "idle", key |-> NoKey, flag |-> NoPassword,
                  password |-> NoPassword, noPrompt |-> FALSE, noSave |-> FALSE,
                  result |-> "none"]

-----------------------------------------------------------------------------
\* The account's password is changed on the host.
PasswordChanges(k) ==
    /\ attempt.pc = "idle"
    /\ \E password \in Passwords : accepted' = [accepted EXCEPT ![k] = password]
    /\ UNCHANGED <<saved, byKey, keyless, attempt>>

\* ohmyssh forget, of one login or of all.
Forget ==
    /\ attempt.pc = "idle"
    /\ \/ \E k \in Keys : Store!Delete(k)
       \/ Store!Clear
    /\ UNCHANGED <<accepted, byKey, keyless, attempt>>

\* A password given by flag wins; otherwise a saved one is used.
Begin(k, flag, noPrompt, noSave) ==
    /\ attempt.pc = "idle"
    /\ attempt' = [pc |-> "dial", key |-> k, flag |-> flag,
                   password |-> IF flag # NoPassword THEN flag ELSE saved[k],
                   noPrompt |-> noPrompt, noSave |-> noSave, result |-> "none"]
    /\ UNCHANGED <<saved, accepted, byKey, keyless>>

Accepts(k, password) == k \in byKey \/ password = accepted[k]

\* Without a key and without a password there is nothing to dial with.
Unarmed(k, password) == k \in keyless /\ password = NoPassword
Refuses(k, password) == ~Accepts(k, password) /\ ~Unarmed(k, password)

\* save and remember; writing the store can fail, and the connection stands.
Remember(password) ==
    IF ~attempt.noSave /\ password # NoPassword
       THEN Store!Set(attempt.key, password) \/ UNCHANGED saved
       ELSE UNCHANGED saved

End(result) == attempt' = [attempt EXCEPT !.pc = "idle", !.result = result]

\* The first Dial: it fails for a reason of its own, or for want of anything to offer,
\* connects, or is refused.  Only the last is an authentication failure (IsAuthFailure)
\* and asked over.
Dial ==
    /\ attempt.pc = "dial"
    /\ \/ End("failed") /\ UNCHANGED saved
       \/ /\ Accepts(attempt.key, attempt.password)
          /\ Remember(attempt.flag)
          /\ End("connected")
       \/ Unarmed(attempt.key, attempt.password) /\ End("unarmed") /\ UNCHANGED saved
       \/ /\ Refuses(attempt.key, attempt.password)
          /\ IF attempt.noPrompt THEN End("refused")
             ELSE attempt' = [attempt EXCEPT !.pc = "ask"]
          /\ UNCHANGED saved
    /\ UNCHANGED <<accepted, byKey, keyless>>

\* The prompt: a password, an empty line, or no terminal to ask on.
Ask ==
    /\ attempt.pc = "ask"
    /\ \/ \E typed \in Passwords \union {NoPassword} :
             attempt' = [attempt EXCEPT !.pc = "redial", !.password = typed]
       \/ End("refused")
    /\ UNCHANGED <<saved, accepted, byKey, keyless>>

\* Fault: the answer is remembered before the Dial that tries it.
RedialRemembersFirst ==
    /\ attempt.pc = "redial"
    /\ Remember(attempt.password)
    /\ IF Accepts(attempt.key, attempt.password)
          THEN End("connected") ELSE End("refused")
    /\ UNCHANGED <<accepted, byKey, keyless>>

\* The second Dial, whose failure of either kind is final.
Redial ==
    /\ attempt.pc = "redial"
    /\ \/ /\ Accepts(attempt.key, attempt.password)
          /\ Remember(attempt.password)
          /\ End("connected")
       \/ Refuses(attempt.key, attempt.password) /\ End("refused") /\ UNCHANGED saved
       \/ Unarmed(attempt.key, attempt.password) /\ End("unarmed") /\ UNCHANGED saved
       \/ End("failed") /\ UNCHANGED saved
    /\ UNCHANGED <<accepted, byKey, keyless>>

Next ==
    \/ \E k \in Keys : PasswordChanges(k)
    \/ \E k \in Keys, flag \in Passwords \union {NoPassword}, noPrompt, noSave \in BOOLEAN :
          Begin(k, flag, noPrompt, noSave)
    \/ Forget \/ Dial \/ Ask \/ Redial

Spec == Init /\ [][Next]_vars

-----------------------------------------------------------------------------
\* A password nobody gave on the command line is saved only after the host it is
\* saved for has accepted it (connect.go:260-266).
TypedIsSavedProven ==
    [][\A k \in Keys : saved'[k] \notin {saved[k], NoPassword} /\ attempt.flag = NoPassword
          => k = attempt.key /\ saved'[k] = accepted[k]]_vars

\* What a run was told not to save is not saved, at either Dial (connect.go:275).
NoSaveSavesNothing ==
    [][attempt.noSave /\ attempt.pc # "idle" => saved' = saved]_vars

\* What is saved for a login is what worked for it, and was meant to be saved.
SavesWhatWorked == TypedIsSavedProven /\ NoSaveSavesNothing

\* A stale entry does not lock the user out: unless prompts are off, an attempt
\* ends refused only over a password the user was asked for, or without a
\* terminal to ask on (connect.go:264-266, README.md:395-397).
StaleIsAskedOver ==
    [][attempt.pc = "dial" /\ ~attempt.noPrompt => attempt'.result # "refused"]_vars

(* Claims of the code that do not hold.                                    *)

\* src/README.md:373 and 385-390 say that without a saved password there is a prompt,
\* and that a password is typed once.  Who has no key has nothing to dial with the
\* first time: that is no authentication failure, so nobody is asked.
FirstLoginAsks ==
    [][attempt.pc = "dial" /\ ~attempt.noPrompt => attempt'.result # "unarmed"]_vars

\* connect.go:318 says remember stores a password that has just been shown to
\* work.  A host that lets a key in never looks at the flag's password.
SavedWasShownToWork ==
    [][\A k \in Keys : saved'[k] \notin {saved[k], NoPassword}
          => saved'[k] = accepted[k]]_vars

=============================================================================
