------------------------------- MODULE Session -------------------------------
(***************************************************************************)
(* InteractiveSession.Run (internal/sshclient/session.go): the login shell *)
(* or command attached to the local terminal, and the two goroutines that  *)
(* carry the caller's stdin to it - the pump, which is Run's own, and the  *)
(* copier, which golang.org/x/crypto/ssh starts and never joins.           *)
(*                                                                         *)
(* What is set up is taken down in an order that depends on how far Run    *)
(* came: todo is what is left to take down, first things first.            *)
(***************************************************************************)
EXTENDS Naturals, Sequences

CONSTANT MaxKeys \* bound: what can be typed or piped in

MaxKeysAssumption == MaxKeys \in Nat \ {0}

VARIABLES
    stdin,    \* what the caller's stdin is, see Kinds
    terminal, \* whether stdin or stdout is a terminal
    keys,     \* what is there to read of it
    typed,    \* how much there has ever been
    ended,    \* whether it is at its end
    pc,       \* where Run is
    todo,     \* what Run has left to take down
    mode,     \* the local terminal: "cooked" or "raw"
    winch,    \* whether resizes are being forwarded
    session,  \* "none", "open" or "closed"
    pump,     \* the pump: "none", "reading", "handing over", "done"
    pipe,     \* the pipe to the copier: "none", "open", "closed" by its writer
    canceled, \* whether the cancelable reader was cancelled
    copier,   \* the copier: "none", "reading", "sending", "done"
    command,  \* the far end: "none", "running", "over"
    inputEnd  \* whether the far end saw its input end

vars == <<stdin, terminal, keys, typed, ended, pc, todo, mode, winch, session,
          pump, pipe, canceled, copier, command, inputEnd>>
input == <<stdin, terminal, keys, typed, ended>>
local == <<mode, winch, session>>
stream == <<pump, pipe, canceled, copier, inputEnd>>

\* A terminal or a pipe: a read in flight can be interrupted.  A reader that is no
\* file: Cancel refuses later reads only.  A file: NewReader itself fails.
Kinds == {"terminal", "pipe", "reader", "file"}
Interruptible == {"terminal", "pipe"}

FlagsOK ==
    /\ terminal \in BOOLEAN /\ ended \in BOOLEAN /\ winch \in BOOLEAN
    /\ canceled \in BOOLEAN /\ inputEnd \in BOOLEAN

InputOK == keys \in 0..MaxKeys /\ typed \in 0..MaxKeys

StagesOK ==
    /\ stdin \in Kinds
    /\ pc \in {"open", "pty", "pump", "raw", "winch", "start", "wait", "unwind", "returned"}
    /\ todo \in Seq({"winch", "writer", "cancel", "join", "restore", "session"})
    /\ todo # <<>> => pc = "unwind"
    /\ mode \in {"cooked", "raw"} /\ session \in {"none", "open", "closed"}
    /\ pump \in {"none", "reading", "handing over", "done"} /\ pipe \in {"none", "open", "closed"}
    /\ copier \in {"none", "reading", "sending", "done"} /\ command \in {"none", "running", "over"}
    /\ pump = "none" <=> pipe = "none"
    /\ mode = "raw" => stdin = "terminal"

SessionTypeOK == FlagsOK /\ InputOK /\ StagesOK

Init ==
    /\ stdin \in Kinds /\ terminal \in BOOLEAN /\ (stdin = "terminal" => terminal)
    /\ keys = 0 /\ typed = 0 /\ ended = FALSE
    /\ pc = "open" /\ todo = <<>>
    /\ mode = "cooked" /\ winch = FALSE /\ session = "none"
    /\ pump = "none" /\ pipe = "none" /\ canceled = FALSE
    /\ copier = "none" /\ command = "none" /\ inputEnd = FALSE

-----------------------------------------------------------------------------
(* The user and the far end.                                               *)

Type ==
    /\ typed < MaxKeys /\ ~ended
    /\ keys' = keys + 1 /\ typed' = typed + 1
    /\ UNCHANGED <<stdin, terminal, ended, pc, todo, local, stream, command>>

\* What is piped in ends; a terminal in raw mode does not.
InputEnds ==
    /\ stdin # "terminal" /\ ~ended /\ ended' = TRUE
    /\ UNCHANGED <<stdin, terminal, keys, typed, pc, todo, local, stream, command>>

\* The shell exits, or the connection goes.
CommandEnds ==
    /\ command = "running" /\ command' = "over"
    /\ UNCHANGED <<input, pc, todo, local, stream>>

-----------------------------------------------------------------------------
(* Run, setting up.                                                        *)

\* stopStdin: the writer first, then the reader, then the wait for the pump.
StopStdin == <<"writer", "cancel", "join">>

Unwind(steps) == pc' = "unwind" /\ todo' = steps

OpenSession ==
    /\ pc = "open"
    /\ \/ /\ pc' = (IF terminal THEN "pty" ELSE "pump")
          /\ session' = "open" /\ UNCHANGED todo
       \/ Unwind(<<>>) /\ UNCHANGED session
    /\ UNCHANGED <<input, mode, winch, stream, command>>

RequestPty ==
    /\ pc = "pty"
    /\ (pc' = "pump" /\ UNCHANGED todo) \/ Unwind(<<"session">>)
    /\ UNCHANGED <<input, local, stream, command>>

\* The pump reads the caller's stdin into a pipe of our own - unless stdin cannot be
\* cancelled, and is handed to the session as it is.
StartPump ==
    /\ pc = "pump"
    /\ pc' = (IF stdin = "terminal" THEN "raw" ELSE "winch")
    /\ IF stdin = "file"
          THEN UNCHANGED <<pump, pipe>>
          ELSE pump' = "reading" /\ pipe' = "open"
    /\ UNCHANGED <<input, todo, local, canceled, copier, inputEnd, command>>

MakeRaw ==
    /\ pc = "raw"
    /\ \/ pc' = "winch" /\ mode' = "raw" /\ UNCHANGED todo
       \/ Unwind(StopStdin \o <<"session">>) /\ UNCHANGED mode
    /\ UNCHANGED <<input, winch, session, stream, command>>

WatchWindowSize ==
    /\ pc = "winch" /\ pc' = "start"
    /\ winch' = terminal
    /\ UNCHANGED <<input, todo, mode, session, stream, command>>

\* Shell or Start; the copier runs from here.  On the way out after a refusal the
\* deferred stopStdin comes last but for the session.
Start ==
    /\ pc = "start"
    /\ \/ /\ pc' = "wait" /\ command' = "running" /\ copier' = "reading"
          /\ UNCHANGED todo
       \/ /\ Unwind(<<"winch", "restore">> \o StopStdin \o <<"session">>)
          /\ UNCHANGED <<command, copier>>
    /\ UNCHANGED <<input, local, pump, pipe, canceled, inputEnd>>

\* Fault: the reader is cancelled and waited for, and the writer is closed after.
WaitJoinsFirst ==
    /\ pc = "wait" /\ command = "over"
    /\ Unwind(<<"winch", "cancel", "join", "writer", "restore", "session">>)
    /\ UNCHANGED <<input, local, stream, command>>

\* Wait returns when the command is over, whatever the copier is doing.
Wait ==
    /\ pc = "wait" /\ command = "over"
    /\ Unwind(<<"winch">> \o StopStdin \o <<"restore", "session">>)
    /\ UNCHANGED <<input, local, stream, command>>

-----------------------------------------------------------------------------
(* Run, taking down.                                                       *)

Undo(step) == pc = "unwind" /\ todo # <<>> /\ Head(todo) = step /\ todo' = Tail(todo)

StopWinch ==
    /\ Undo("winch") /\ winch' = FALSE
    /\ UNCHANGED <<input, pc, mode, session, stream, command>>

Restore ==
    /\ Undo("restore") /\ mode' = "cooked"
    /\ UNCHANGED <<input, pc, winch, session, stream, command>>

CloseWriter ==
    /\ Undo("writer")
    /\ pipe' = (IF pipe = "open" THEN "closed" ELSE pipe)
    /\ UNCHANGED <<input, pc, local, pump, canceled, copier, inputEnd, command>>

CancelReader ==
    /\ Undo("cancel") /\ canceled' = (pump # "none")
    /\ UNCHANGED <<input, pc, local, pump, pipe, copier, inputEnd, command>>

\* The pump is waited for where Cancel could interrupt its read.
Join ==
    /\ Undo("join")
    /\ stdin \in Interruptible => pump = "done"
    /\ UNCHANGED <<input, pc, local, stream, command>>

CloseSession ==
    /\ Undo("session") /\ session' = "closed"
    /\ UNCHANGED <<input, pc, mode, winch, stream, command>>

Return ==
    /\ pc = "unwind" /\ todo = <<>> /\ pc' = "returned"
    /\ UNCHANGED <<input, todo, local, stream, command>>

-----------------------------------------------------------------------------
(* The pump and the copier.                                                *)

\* A read ends with something read.  One in flight when Cancel is called may still.
PumpReads ==
    /\ pump = "reading" /\ keys > 0
    /\ keys' = keys - 1 /\ pump' = "handing over"
    /\ UNCHANGED <<stdin, terminal, typed, ended, pc, todo, local, pipe, canceled,
                   copier, inputEnd, command>>

\* A read ends with the end of input, or because it was cancelled.
PumpEnds ==
    /\ pump = "reading"
    /\ \/ ended /\ keys = 0
       \/ canceled /\ stdin \in Interruptible
    /\ pump' = "done" /\ pipe' = "closed"
    /\ UNCHANGED <<input, pc, todo, local, canceled, copier, inputEnd, command>>

\* The pipe has no room of its own: what was read waits for the copier.
HandOver ==
    /\ pump = "handing over" /\ pipe = "open" /\ copier = "reading"
    /\ pump' = "reading" /\ copier' = "sending"
    /\ UNCHANGED <<input, pc, todo, local, pipe, canceled, inputEnd, command>>

\* The pipe was closed under what the pump was handing over.
HandOverFails ==
    /\ pump = "handing over" /\ pipe = "closed"
    /\ pump' = "done"
    /\ UNCHANGED <<input, pc, todo, local, pipe, canceled, copier, inputEnd, command>>

\* The copier reads stdin itself where there is no pump.
CopierReads ==
    /\ copier = "reading" /\ pump = "none" /\ keys > 0
    /\ keys' = keys - 1 /\ copier' = "sending"
    /\ UNCHANGED <<stdin, terminal, typed, ended, pc, todo, local, pump, pipe, canceled,
                   inputEnd, command>>

\* What was read is sent, or the session is over and it cannot be.
CopierSends ==
    /\ copier = "sending"
    /\ copier' = (IF command = "running" THEN "reading" ELSE "done")
    /\ UNCHANGED <<input, pc, todo, local, pump, pipe, canceled, inputEnd, command>>

\* The copier finds its source at the end, and says so to the far end.
CopierEnds ==
    /\ copier = "reading"
    /\ IF pump = "none" THEN ended /\ keys = 0 ELSE pipe = "closed"
    /\ copier' = "done" /\ inputEnd' = TRUE
    /\ UNCHANGED <<input, pc, todo, local, pump, pipe, canceled, command>>

Run ==
    \/ OpenSession \/ RequestPty \/ StartPump \/ MakeRaw \/ WatchWindowSize \/ Start \/ Wait
    \/ StopWinch \/ Restore \/ CloseWriter \/ CancelReader \/ Join \/ CloseSession \/ Return

Pump == PumpReads \/ PumpEnds \/ HandOver \/ HandOverFails

Copier == CopierReads \/ CopierSends \/ CopierEnds

Next == Type \/ InputEnds \/ CommandEnds \/ Run \/ Pump \/ Copier

Spec == Init /\ [][Next]_vars

-----------------------------------------------------------------------------
(* Properties.                                                             *)

\* However far Run came, the terminal is back in the mode it was found in when Run
\* returns, no resize is forwarded any more and the session is closed
\* (session.go:189-216, each early return with its own list).
TerminalGivenBack ==
    pc = "returned" => mode = "cooked" /\ ~winch /\ session # "open"

\* Nothing of Run's is reading the caller's stdin once it returned, where a read can be
\* interrupted at all: the next key is for whoever has the terminal then
\* (session.go:117-128).
NobodyReadsAfter ==
    pc = "returned" /\ stdin \in Interruptible => pump \in {"none", "done"}

\* The caller has its terminal back, whole.
LocalSideRestored == TerminalGivenBack /\ NobodyReadsAfter

\* Run returns once there is nothing to wait for: a pump that holds a buffer nobody
\* will take does not keep it, nor does a reader that cannot be interrupted
\* (session.go:149-161).
RunReturns == pc = "unwind" \/ command = "over" ~> pc = "returned"

\* The end of what is piped in reaches the far end, which may be waiting for just that
\* (session.go:136-142).
InputEndArrives ==
    ended /\ command = "running" ~> inputEnd \/ command = "over"

=============================================================================
