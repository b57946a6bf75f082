-------------------------- MODULE CredentialStore ---------------------------
(***************************************************************************)
(* The file of saved passwords (internal/credential/credential.go): each   *)
(* call reads it, edits what it read and writes it back, and a call that   *)
(* finds none carries across the file an older version left.  Within a     *)
(* process a mutex lets one call through at a time, so a process is one    *)
(* call after another; nothing orders two processes.  A process may die    *)
(* between any two steps.  A file is replaced by a rename, in one step.    *)
(*                                                                         *)
(* Left out: encryption, a file that does not parse, and temporary files a *)
(* crash leaves behind.                                                    *)
(***************************************************************************)
CONSTANTS
    Keys,       \* logins
    Passwords,
    NoPassword, \* no password saved for a login
    NoStore,    \* no file
    NoKey,      \* the login of a call that names none
    Procs       \* processes

CredentialAssumption ==
    NoPassword \notin Passwords /\ NoStore \notin [Keys -> Passwords \union {NoPassword}]

VARIABLES
    store,  \* ~/.ohmyssh/credentials.json
    legacy, \* the file of the older version
    call    \* per process: the call in hand

vars == <<store, legacy, call>>

Maps == [Keys -> Passwords \union {NoPassword}]
Empty == [k \in Keys |-> NoPassword]
Kinds == {"get", "set", "delete", "clear"}
CallState == [pc : {"idle", "load", "adopt", "move", "unlink", "loaded", "save"},
              kind : Kinds, key : Keys \union {NoKey},
              password : Passwords \union {NoPassword},
              records : Maps \union {NoStore}, moveFailed : BOOLEAN]

CredentialTypeOK ==
    /\ store \in Maps \union {NoStore}
    /\ legacy \in Maps \union {NoStore}
    /\ call \in [Procs -> CallState]

NoCall == [pc |-> "idle", kind |-> "get", key |-> NoKey, password |-> NoPassword,
           records |-> NoStore, moveFailed |-> FALSE]

Init ==
    /\ store \in Maps \union {NoStore}
    /\ legacy \in Maps \union {NoStore}
    /\ store = NoStore \/ legacy = NoStore \* what the first run after an upgrade finds
    /\ call = [p \in Procs |-> NoCall]

Goto(p, pc) == call' = [call EXCEPT ![p].pc = pc]
Return(p) == call' = [call EXCEPT ![p] = NoCall]

-----------------------------------------------------------------------------
\* Get, Set, Delete and Clear.  Set of the empty password is a Delete.
Begin(p, kind, key, password) ==
    /\ call[p].pc = "idle"
    /\ kind \in {"get", "set", "delete"} <=> key # NoKey
    /\ kind = "set" <=> password # NoPassword
    /\ call' = [call EXCEPT ![p] = [NoCall EXCEPT
                   !.pc = "load", !.kind = kind, !.key = key, !.password = password]]
    /\ UNCHANGED <<store, legacy>>

\* load: the file, or the older one when there is none.
Load(p) ==
    /\ call[p].pc = "load"
    /\ IF store = NoStore THEN Goto(p, "adopt")
       ELSE call' = [call EXCEPT ![p].pc = "loaded", ![p].records = store]
    /\ UNCHANGED <<store, legacy>>

\* adoptLegacy reads the older file; without one nothing is saved yet.
AdoptLegacy(p) ==
    /\ call[p].pc = "adopt"
    /\ call' = [call EXCEPT ![p].records = legacy,
                            ![p].pc = IF legacy = NoStore THEN "loaded" ELSE "move"]
    /\ UNCHANGED <<store, legacy>>

\* Fault: the older file is removed before the new one is written.
MoveWriteAfterUnlink(p) ==
    /\ call[p].pc = "move"
    /\ legacy' = NoStore
    /\ Goto(p, "unlink")
    /\ UNCHANGED store

\* move writes the new file; a move that fails is not a read that failed.
MoveWrite(p) ==
    /\ call[p].pc = "move"
    /\ \/ store' = call[p].records /\ Goto(p, "unlink")
       \/ /\ call' = [call EXCEPT ![p].pc = "loaded", ![p].moveFailed = TRUE]
          /\ UNCHANGED store
    /\ UNCHANGED legacy

MoveUnlink(p) ==
    /\ call[p].pc = "unlink"
    /\ \/ legacy' = NoStore /\ Goto(p, "loaded")
       \/ /\ call' = [call EXCEPT ![p].pc = "loaded", ![p].moveFailed = TRUE]
          /\ UNCHANGED legacy
    /\ UNCHANGED store

Records(p) == IF call[p].records = NoStore THEN Empty ELSE call[p].records

\* Fault: the record of the login is looked up and its password is the key.
EditedByKey(p) ==
    CASE call[p].kind = "set" -> [Records(p) EXCEPT ![call[p].key] = call[p].key]
      [] call[p].kind = "delete" -> [Records(p) EXCEPT ![call[p].key] = NoPassword]
      [] call[p].kind = "clear" -> Empty

\* The map after the edit the call asks for.
Edited(p) ==
    CASE call[p].kind = "set" -> [Records(p) EXCEPT ![call[p].key] = call[p].password]
      [] call[p].kind = "delete" -> [Records(p) EXCEPT ![call[p].key] = NoPassword]
      [] call[p].kind = "clear" -> Empty

\* A Get has its answer, and nothing to delete is nothing to write.
Edit(p) ==
    /\ call[p].pc = "loaded"
    /\ IF \/ call[p].kind = "get"
          \/ call[p].kind # "set" /\ Edited(p) = Records(p)
          THEN Return(p)
          ELSE call' = [call EXCEPT ![p].pc = "save", ![p].records = Edited(p)]
    /\ UNCHANGED <<store, legacy>>

\* save: the rename, or a failure of a step before it.
Save(p) ==
    /\ call[p].pc = "save"
    /\ store' = call[p].records \/ UNCHANGED store
    /\ Return(p)
    /\ UNCHANGED legacy

\* The process dies, or a read fails: the call is gone and the files are as they are.
Crash(p) ==
    /\ call[p].pc # "idle"
    /\ Return(p)
    /\ UNCHANGED <<store, legacy>>

Step(p) ==
    \/ \E kind \in Kinds, key \in Keys \union {NoKey},
          password \in Passwords \union {NoPassword} : Begin(p, kind, key, password)
    \/ Load(p) \/ AdoptLegacy(p) \/ MoveWrite(p) \/ MoveUnlink(p)
    \/ Edit(p) \/ Save(p) \/ Crash(p)

Next == \E p \in Procs : Step(p)

Spec == Init /\ [][Next]_vars

-----------------------------------------------------------------------------
\* What a reader finds saved.
Saved == IF store # NoStore THEN store ELSE IF legacy # NoStore THEN legacy ELSE Empty

\* One process, dying wherever it may, changes the saved passwords by whole calls
\* and never by half of one (credential.go:308-314).
PasswordMap == INSTANCE PasswordMap WITH saved <- Saved
ImplementsPasswordMap == PasswordMap!Spec

\* No step of a call changes what is saved for a login the call does not name, the
\* steps that carry the older file across included: wherever they stop, the
\* passwords are readable in at least one place (credential.go:281-282).  It
\* holds of one process; mu, which "serialises access to the store file"
\* (credential.go:51), is not seen by another, which writes back what it read
\* before, and does so even for a Get that carries the older file across.
OnlyWhatWasAsked ==
    [][\A p \in Procs : call'[p] # call[p] /\ call[p].kind # "clear" =>
          \A k \in Keys \ {call[p].key} : Saved'[k] = Saved[k]]_vars

\* A call does the whole of what it was asked and nothing else, wherever it stops.
CallsDoWhatTheyAsk == ImplementsPasswordMap /\ OnlyWhatWasAsked

(* A claim of the code that does not hold.                                 *)

\* credential.go:257-258 says carrying the older file across retries by itself if
\* it could not finish.  Once the new file is written the older one is never
\* looked at again, so one that could not be removed keeps its passwords.
LegacyIsRetried ==
    \A p \in Procs : call[p].pc = "loaded" /\ ~call[p].moveFailed => legacy = NoStore

=============================================================================
