------------------------------ MODULE Terminal ------------------------------
(***************************************************************************)
(* Who may use the terminal while the host browser runs: RunHostBrowser    *)
(* and connect in internal/ui/browser.go, sessionCommand in runner.go,     *)
(* the logger of internal/pkg/zlog, the banner and the stderr of a proxy   *)
(* command in sshclient/client.go, and the password prompt.                *)
(*                                                                         *)
(* The program draws frames from its event loop.  A session takes the loop *)
(* and the terminal with it (tea.Exec); the dials of file views run beside *)
(* it on goroutines of their own, and may outlive the view and the         *)
(* program.  Frames and keys themselves are in the modules of the views.   *)
(***************************************************************************)
EXTENDS Naturals

CONSTANTS
    Views,     \* file views opened, one after the other
    TheSession \* the session launched from the list

TerminalAssumption == TheSession \notin Views

VARIABLES
    main,    \* how far RunHostBrowser is
    screen,  \* whose the terminal is: the shell's, the frame's, the session's
    logger, output, \* zlog.logger, zlog.output: where they write
    logFile, \* the log file's handle
    dial,    \* the dials of the views and of the session
    proxy    \* where the stderr of each dial's proxy command goes, if it runs

terminalVars == <<main, screen, logger, output, logFile, dial, proxy>>

Dials == Views \union {TheSession}
Sinks == {"stderr", "file", "nowhere"}

TerminalTypeOK ==
    /\ main \in {"start", "detached", "running", "over", "restoring", "back", "returned"}
    /\ screen \in {"shell", "frame", "session"}
    /\ logger \in Sinks /\ output \in Sinks
    /\ logFile \in {"closed", "open"}
    /\ dial \in [Dials -> {"none", "dialing", "asking", "up", "done"}]
    /\ proxy \in [Dials -> Sinks \union {"none"}]

Init ==
    /\ main = "start" /\ screen = "shell"
    /\ logger = "stderr" /\ output = "stderr" /\ logFile = "closed"
    /\ dial = [d \in Dials |-> "none"] /\ proxy = [d \in Dials |-> "none"]

-----------------------------------------------------------------------------
(* RunHostBrowser.                                                         *)

\* zlog.Detach, logWriter: to the file, or nowhere if it cannot be opened.
Detach ==
    /\ main = "start"
    /\ \E sink \in {"file", "nowhere"} :
          /\ logger' = sink /\ output' = sink
          /\ logFile' = IF sink = "file" THEN "open" ELSE "closed"
    /\ main' = "detached"
    /\ UNCHANGED <<screen, dial, proxy>>

\* program.Run: the alt screen, raw mode.
Run ==
    /\ main = "detached"
    /\ main' = "running" /\ screen' = "frame"
    /\ UNCHANGED <<logger, output, logFile, dial, proxy>>

\* The user quits; dials that are out are not waited for.
Quit ==
    /\ main = "running" /\ screen = "frame"
    /\ main' = "over" /\ screen' = "shell"
    /\ UNCHANGED <<logger, output, logFile, dial, proxy>>

\* The function Detach returned: two assignments, which the goroutines still out
\* read without a lock, and the file closed.
RestoreLogger ==
    /\ main = "over"
    /\ main' = "restoring" /\ logger' = "stderr"
    /\ UNCHANGED <<screen, output, logFile, dial, proxy>>

RestoreOutput ==
    /\ main = "restoring"
    /\ main' = "back" /\ output' = "stderr"
    /\ UNCHANGED <<screen, logger, logFile, dial, proxy>>

CloseOut ==
    /\ main = "back"
    /\ main' = "returned" /\ logFile' = "closed"
    /\ UNCHANGED <<screen, logger, output, dial, proxy>>

-----------------------------------------------------------------------------
(* Dials.                                                                  *)

loopIsFree == main = "running" /\ screen = "frame"

\* U or D on a host of the list: the view's openCmd.
OpenView(v) ==
    /\ loopIsFree /\ dial[v] = "none"
    /\ dial' = [dial EXCEPT ![v] = "dialing"]
    /\ UNCHANGED <<main, screen, logger, output, logFile, proxy>>

\* tea.Exec, sessionCommand.Run: the loop gives the terminal up and runs the session.
StartSession ==
    /\ loopIsFree /\ dial[TheSession] \in {"none", "done"}
    /\ screen' = "session"
    /\ dial' = [dial EXCEPT ![TheSession] = "dialing"]
    /\ UNCHANGED <<main, logger, output, logFile, proxy>>

\* proxyCommandConn: the command inherits the writer as it is now.
StartProxy(d) ==
    /\ dial[d] = "dialing" /\ proxy[d] = "none"
    /\ proxy' = [proxy EXCEPT ![d] = output]
    /\ UNCHANGED <<main, screen, logger, output, logFile, dial>>

\* Fault: the file view's dial may ask as well.
RefusedAsks(d) ==
    /\ dial[d] = "dialing"
    /\ dial' = [dial EXCEPT ![d] = "asking"]
    /\ proxy' = [proxy EXCEPT ![d] = "none"]
    /\ UNCHANGED <<main, screen, logger, output, logFile>>

\* dialWithPrompt is refused, and what that dial opened is closed: a session asks, a
\* view has NoPrompt (openRemote).
Refused(d) ==
    /\ dial[d] = "dialing" /\ d = TheSession
    /\ dial' = [dial EXCEPT ![d] = "asking"]
    /\ proxy' = [proxy EXCEPT ![d] = "none"]
    /\ UNCHANGED <<main, screen, logger, output, logFile>>

\* prompt.Password has read a line, and that is dialled with.
Answered(d) ==
    /\ dial[d] = "asking"
    /\ dial' = [dial EXCEPT ![d] = "dialing"]
    /\ UNCHANGED <<main, screen, logger, output, logFile, proxy>>

Connected(d) ==
    /\ dial[d] = "dialing"
    /\ dial' = [dial EXCEPT ![d] = "up"]
    /\ UNCHANGED <<main, screen, logger, output, logFile, proxy>>

\* The connection is closed, or there was none: a view's by its user or at exit, the
\* session's before Run returns and the frame comes back.
Over(d) ==
    /\ dial[d] \in {"dialing", "asking", "up"}
    /\ dial' = [dial EXCEPT ![d] = "done"]
    /\ proxy' = [proxy EXCEPT ![d] = "none"]
    /\ screen' = IF d = TheSession THEN "frame" ELSE screen
    /\ UNCHANGED <<main, logger, output, logFile>>

Next ==
    \/ Detach \/ Run \/ Quit \/ RestoreLogger \/ RestoreOutput \/ CloseOut
    \/ StartSession
    \/ \E v \in Views : OpenView(v)
    \/ \E d \in Dials : \/ StartProxy(d) \/ Refused(d) \/ Answered(d)
                        \/ Connected(d) \/ Over(d)

Spec == Init /\ [][Next]_terminalVars

-----------------------------------------------------------------------------
\* Who may write a log line or a banner at this moment: the dials that are out, and
\* what runs over the connections they opened.
Talking == {d \in Dials : dial[d] \in {"dialing", "up"}}

\* While a frame is on the terminal nothing else writes to it, no log line, banner or
\* proxy command of any dial, whenever it was started, and nobody but the program
\* reads keys from it (browser.go:142-148, zlog.go:68-84, filesession.go:15-19).
FrameIsAlone ==
    screen = "frame" =>
        /\ Talking # {} => logger # "stderr" /\ output # "stderr"
        /\ \A d \in Dials : proxy[d] # "stderr" /\ dial[d] # "asking"

\* While a session is on it, the dials of views that go on beside it write no line,
\* banner or proxy command into it, and ask nothing of its user (zlog.go:68-84,
\* filesession.go:15-19).
SessionIsAlone ==
    screen = "session" =>
        /\ Talking \intersect Views # {} => logger # "stderr" /\ output # "stderr"
        /\ \A v \in Views : proxy[v] # "stderr" /\ dial[v] # "asking"

\* Once the browser has returned, what is written is read: on stderr, by whoever is
\* still out too, and no line is handed to a file that is closed (zlog.go:98-101).
LinesComeBack ==
    /\ main = "returned" => logger = "stderr" /\ output = "stderr"
    /\ logFile = "closed" => "file" \notin {logger, output}

TerminalIsClear == FrameIsAlone /\ SessionIsAlone /\ LinesComeBack

(* A claim of the code that does not hold.                                 *)

\* client.go:601-603 says the writer is a file in both cases.  Without a log file it
\* is io.Discard: then the proxy command has a pipe and a goroutine after all, which
\* closing it waits for (ProxyCommand).
ProxyHasAFile == \A d \in Dials : proxy[d] # "nowhere"

=============================================================================
