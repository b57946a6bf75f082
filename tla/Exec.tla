-------------------------------- MODULE Exec --------------------------------
(***************************************************************************)
(* RunCommand (internal/sshclient/exec.go): a remote command without a     *)
(* terminal, the goroutine that closes its session when the context is     *)
(* cancelled, and the error Wait's outcome is turned into.                 *)
(*                                                                         *)
(* The far end runs the command until it exits, with a status it reports,  *)
(* or until the session or the connection goes.  It may stop answering:    *)
(* then Wait returns when the connection is closed, as module Connection   *)
(* shows it to be.                                                         *)
(***************************************************************************)
EXTENDS Naturals

VARIABLES
    pc,        \* where RunCommand is
    ctx,       \* "live" or "canceled"
    command,   \* the far end: "none", "running", "exited" (0), "exited with" (not 0)
    session,   \* "none", "open", or "closed": asked to be, from our side
    conn,      \* the connection under it: "up", "silent" or "down"
    heard,     \* what Wait has to return: nothing yet, or the status or the loss
    goroutine, \* of the goroutine: "none", "select", "signal", "ended"
    stopped,   \* whether its channel is closed
    result     \* what RunCommand returned

vars == <<pc, ctx, command, session, conn, heard, goroutine, stopped, result>>
world == <<ctx, command, conn, heard>>

ExecTypeOK ==
    /\ pc \in {"new", "start", "wait", "return", "done"}
    /\ ctx \in {"live", "canceled"}
    /\ command \in {"none", "running", "exited", "exited with"}
    /\ session \in {"none", "open", "closed"}
    /\ conn \in {"up", "silent", "down"}
    /\ heard \in {"nothing", "success", "status", "loss"}
    /\ goroutine \in {"none", "select", "signal", "ended"}
    /\ stopped \in BOOLEAN
    /\ result \in {"none", "ok", "ExitError", "context canceled", "failed"}

Init ==
    /\ pc = "new" /\ ctx = "live"
    /\ command = "none" /\ session = "none" /\ conn = "up"
    /\ heard = "nothing"
    /\ goroutine = "none" /\ stopped = FALSE
    /\ result = "none"

-----------------------------------------------------------------------------
(* The user, the far end and the connection.                               *)

\* ctrl+c.
Cancel ==
    /\ ctx = "live" /\ ctx' = "canceled"
    /\ UNCHANGED <<pc, command, session, conn, heard, goroutine, stopped, result>>

CommandExits ==
    /\ command = "running"
    /\ command' \in {"exited", "exited with"}
    /\ UNCHANGED <<pc, ctx, session, conn, heard, goroutine, stopped, result>>

\* The exit status arrives, or the session's end without one.
StatusArrives ==
    /\ command # "none" /\ heard = "nothing" /\ conn = "up"
    /\ \/ command = "exited" /\ heard' = "success"
       \/ command = "exited with" /\ heard' = "status"
       \/ session = "closed" /\ heard' = "loss"
    /\ UNCHANGED <<pc, ctx, command, session, conn, goroutine, stopped, result>>

GoesSilent ==
    /\ conn = "up" /\ conn' = "silent"
    /\ UNCHANGED <<pc, ctx, command, session, heard, goroutine, stopped, result>>

\* The connection is lost, or closed by the keepalive loop.
ConnectionEnds ==
    /\ conn # "down" /\ conn' = "down"
    /\ heard' = IF command # "none" /\ heard = "nothing" THEN "loss" ELSE heard
    /\ UNCHANGED <<pc, ctx, command, session, goroutine, stopped, result>>

-----------------------------------------------------------------------------
(* RunCommand.                                                             *)

Return(r) == pc' = "return" /\ result' = r

\* NewSession.
OpenSession ==
    /\ pc = "new"
    /\ \/ conn = "up" /\ session' = "open" /\ pc' = "start" /\ UNCHANGED result
       \/ conn # "silent" /\ Return("failed") /\ UNCHANGED session
    /\ UNCHANGED <<world, goroutine, stopped>>

\* session.Start, and the goroutine once it succeeds.
Start ==
    /\ pc = "start"
    /\ \/ /\ conn = "up"
          /\ command' = "running" /\ goroutine' = "select" /\ pc' = "wait"
          /\ UNCHANGED result
       \/ conn # "silent" /\ Return("failed") /\ UNCHANGED <<command, goroutine>>
    /\ UNCHANGED <<ctx, session, conn, heard, stopped>>

\* Fault: a cancelled context outranks whatever Wait returned.
WaitAsksFirst ==
    /\ pc = "wait" /\ heard # "nothing"
    /\ Return(IF ctx = "canceled" THEN "context canceled"
              ELSE CASE heard = "success" -> "ok"
                     [] heard = "status" -> "ExitError"
                     [] heard = "loss" -> "failed")
    /\ UNCHANGED <<world, session, goroutine, stopped>>

\* Wait returns; the context is asked only if it failed.
Wait ==
    /\ pc = "wait" /\ heard # "nothing"
    /\ \/ heard = "success" /\ Return("ok")
       \/ heard # "success" /\ ctx = "canceled" /\ Return("context canceled")
       \/ heard = "status" /\ ctx = "live" /\ Return("ExitError")
       \/ heard = "loss" /\ ctx = "live" /\ Return("failed")
    /\ UNCHANGED <<world, session, goroutine, stopped>>

\* The deferred close(stopped) and session.Close.
Deferred ==
    /\ pc = "return" /\ pc' = "done"
    /\ stopped' = (goroutine # "none")
    /\ session' = IF session = "none" THEN "none" ELSE "closed"
    /\ UNCHANGED <<world, goroutine, result>>

-----------------------------------------------------------------------------
(* The goroutine.                                                          *)

SeesCancel ==
    /\ goroutine = "select" /\ ctx = "canceled"
    /\ goroutine' = "signal"
    /\ UNCHANGED <<pc, world, session, stopped, result>>

SeesStopped ==
    /\ goroutine = "select" /\ stopped
    /\ goroutine' = "ended"
    /\ UNCHANGED <<pc, world, session, stopped, result>>

\* SIGTERM, which a command may ignore, and then session.Close.
SignalAndClose ==
    /\ goroutine = "signal"
    /\ session' = "closed"
    /\ goroutine' = "ended"
    /\ UNCHANGED <<pc, world, stopped, result>>

-----------------------------------------------------------------------------
RunCommand == OpenSession \/ Start \/ Wait \/ Deferred
Goroutine == SeesCancel \/ SeesStopped \/ SignalAndClose
World == Cancel \/ CommandExits \/ StatusArrives \/ GoesSilent \/ ConnectionEnds

Next == RunCommand \/ Goroutine \/ World

Spec == Init /\ [][Next]_vars

-----------------------------------------------------------------------------
\* How a command ended is told right when its end and a cancellation meet: one that
\* finished is reported as finished, also when ctrl+c comes as its last line is
\* printed, one that did not is never (exec.go:61-64), and one that was cut short by
\* a cancellation says so (exec.go:57-60).
EndIsToldRight ==
    [][pc = "wait" /\ pc' = "return" =>
          /\ result' = "ok" <=> heard = "success"
          /\ heard = "loss" /\ ctx = "canceled" => result' = "context canceled"]_vars

\* Cancelling ends the call, whether or not the command heeds the signal and
\* whether or not the far end still answers (exec.go:42-49).
CancelEnds == ctx = "canceled" /\ pc = "wait" ~> pc = "done"

\* No call leaves its goroutine behind.
GoroutineEnds == pc = "done" ~> goroutine \in {"none", "ended"}

(* A claim of the code that does not hold.                                 *)

\* exec.go:20 says that a remote exit status other than 0 is returned as an
\* ExitError.  If the context is cancelled after the status came and before Wait
\* is through, it is not.
StatusIsReported ==
    [][pc = "wait" /\ pc' = "return" /\ heard = "status" => result' = "ExitError"]_vars

=============================================================================
