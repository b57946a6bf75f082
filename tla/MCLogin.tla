------------------------------- MODULE MCLogin -------------------------------
(***************************************************************************)
(* Getting in, for TLC: what is offered to a host (AuthChain), the         *)
(* attempts with a password that is given, saved or asked for (Login), and *)
(* the file passwords are saved in (CredentialStore).  Login is written    *)
(* over what the others are shown to do; each runs with the others at      *)
(* rest, so that the instance has the sum of their states.                 *)
(***************************************************************************)
EXTENDS CredentialStore, Naturals, Sequences

CONSTANTS KeyFiles, DefaultKeys, NoFile, Passphrase

VARIABLES
    part, \* which of the runs
    user, account, chain, tried, lists, offered, sent, pc,
    saved, accepted, byKey, keyless, attempt

\* A value a cfg cannot write.
OneDefault == <<"ed">>

Auth == INSTANCE AuthChain
Used == INSTANCE Login

ASSUME GettingInAssumption == Auth!AuthChainAssumption /\ CredentialAssumption

authVars == <<user, account, chain, tried, lists, offered, sent, pc>>
usedVars == <<saved, accepted, byKey, keyless, attempt>>
allVars == <<part, authVars, usedVars, vars>>

\* The credentials of a part that rests.
Nothing == [agent |-> {}, identity |-> NoFile, file |-> [f \in KeyFiles |-> "unusable"],
            home |-> FALSE, password |-> NoPassword]

AllInit ==
    /\ part \in {"auth", "login", "store"}
    /\ IF part = "auth" THEN Auth!Init
       ELSE /\ user = Nothing
            /\ account = [trusts |-> {}, forms |-> {}, password |-> Passphrase, both |-> FALSE]
            /\ chain = {} /\ tried = {} /\ lists = {} /\ offered = {} /\ sent = FALSE
            /\ pc = "build"
    /\ Used!Init
    /\ part # "login" => byKey = {} /\ keyless = {} /\ \A k \in Keys : accepted[k] = Passphrase
    /\ Init /\ (part # "store" => store = NoStore /\ legacy = NoStore)

AllNext ==
    /\ UNCHANGED part
    /\ \/ part = "auth" /\ Auth!Next /\ UNCHANGED <<usedVars, vars>>
       \/ part = "login" /\ Used!Next /\ UNCHANGED <<authVars, vars>>
       \/ part = "store" /\ Next /\ UNCHANGED <<authVars, usedVars>>

AllSpec == AllInit /\ [][AllNext]_allVars

-----------------------------------------------------------------------------
\* The types of the modules.
LoginTypeOK == Auth!AuthTypeOK /\ Used!LoginTypeOK /\ CredentialTypeOK

\* Who has what the host asks for gets in: by a key before any password is sent, by a
\* password in whichever form the host takes it (auth.go:35-93).
WhoMayGetIn == Auth!AuthIsSound

\* A password is saved only once the host accepted it, and only if the run did not
\* forbid it (connect.go:260-275); one that has gone stale is asked over, and the new
\* one takes its place (connect.go:264-266).
SavesWhatWorked == Used!SavesWhatWorked /\ Used!StaleIsAskedOver

(* Claims of the code that do not hold.                                    *)

\* src/README.md:366-379: each method has its turn.
EveryKeyIsOffered == Auth!EveryKeyIsOffered

\* src/README.md:373, 385-390: without a saved password there is a prompt.
FirstLoginAsks == Used!FirstLoginAsks

=============================================================================
