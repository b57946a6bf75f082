---------------------------- MODULE ProxyCommand ----------------------------
(***************************************************************************)
(* A proxy command as a transport: proxyCommandConn in                     *)
(* internal/sshclient/client.go and cmdConn in conn.go.  The command is a  *)
(* shell, which may have started a program of its own; both may end by     *)
(* themselves, at the end of their input or not at all.  What os/exec does *)
(* for Start and Wait is taken from its documentation.                     *)
(***************************************************************************)
CONSTANTS Closers, NoCloser \* who closes: the handshake, the mux, the connection's owner

ProxyAssumption == NoCloser \notin Closers

VARIABLES
    stderr,  \* what cmd.Stderr is: "file" for an *os.File, or "discard"
    shell,   \* the shell
    program, \* what it started
    stdin, stdout, \* our ends of its pipes
    ctx,     \* the context of the dial
    inside,  \* who is in closeOnce
    closer,  \* how far each Close is
    wait,    \* the goroutine in cmd.Wait
    grace    \* whether proxyExitGrace is over

proxyVars == <<stderr, shell, program, stdin, stdout, ctx, inside, closer, wait, grace>>

ProxyTypeOK ==
    /\ stderr \in {"file", "discard"}
    /\ shell \in {"running", "exited", "reaped"}
    /\ program \in {"none", "running", "gone"}
    /\ stdin \in {"open", "closed"} /\ stdout \in {"open", "closed"}
    /\ ctx \in {"live", "cancelled"}
    /\ inside \in Closers \union {NoCloser}
    /\ closer \in [Closers -> {"idle", "called", "stdin", "stdout", "waiting", "killed",
                               "returned"}]
    /\ wait \in {"none", "process", "copying", "done"}
    /\ grace \in BOOLEAN

\* proxyCommandConn, from zlog.Output as it is.
Init ==
    /\ stderr \in {"file", "discard"}
    /\ shell = "running" /\ program = "none"
    /\ stdin = "open" /\ stdout = "open"
    /\ ctx = "live"
    /\ inside = NoCloser /\ closer = [c \in Closers |-> "idle"]
    /\ wait = "none" /\ grace = FALSE

-----------------------------------------------------------------------------
(* The processes, and the context that owns them.                          *)

StartsProgram ==
    /\ shell = "running" /\ program = "none"
    /\ program' = "running"
    /\ UNCHANGED <<stderr, shell, stdin, stdout, ctx, inside, closer, wait, grace>>

ProgramExits ==
    /\ program = "running"
    /\ program' = "gone"
    /\ UNCHANGED <<stderr, shell, stdin, stdout, ctx, inside, closer, wait, grace>>

ShellExits ==
    /\ shell = "running"
    /\ shell' = "exited"
    /\ UNCHANGED <<stderr, program, stdin, stdout, ctx, inside, closer, wait, grace>>

\* exec.CommandContext kills the shell, under the connection if it is still there.
Cancelled ==
    /\ ctx = "live"
    /\ ctx' = "cancelled"
    /\ shell' = IF shell = "running" THEN "exited" ELSE shell
    /\ UNCHANGED <<stderr, program, stdin, stdout, inside, closer, wait, grace>>

-----------------------------------------------------------------------------
(* Close.                                                                  *)

CallClose(c) ==
    /\ closer[c] = "idle"
    /\ closer' = [closer EXCEPT ![c] = "called"]
    /\ UNCHANGED <<stderr, shell, program, stdin, stdout, ctx, inside, wait, grace>>

\* closeOnce: the first goes through, the others return when it has.
Enter(c) ==
    /\ closer[c] = "called"
    /\ \/ inside = NoCloser /\ inside' = c /\ closer' = [closer EXCEPT ![c] = "stdin"]
       \/ /\ inside # NoCloser /\ closer[inside] = "returned"
          /\ closer' = [closer EXCEPT ![c] = "returned"] /\ UNCHANGED inside
    /\ UNCHANGED <<stderr, shell, program, stdin, stdout, ctx, wait, grace>>

CloseStdin(c) ==
    /\ closer[c] = "stdin"
    /\ stdin' = "closed"
    /\ closer' = [closer EXCEPT ![c] = "stdout"]
    /\ UNCHANGED <<stderr, shell, program, stdout, ctx, inside, wait, grace>>

\* The goroutine that reaps the shell is started.
CloseStdout(c) ==
    /\ closer[c] = "stdout"
    /\ stdout' = "closed" /\ wait' = "process"
    /\ closer' = [closer EXCEPT ![c] = "waiting"]
    /\ UNCHANGED <<stderr, shell, program, stdin, ctx, inside, grace>>

GraceEnds(c) ==
    /\ closer[c] = "waiting" /\ ~grace
    /\ grace' = TRUE
    /\ UNCHANGED <<stderr, shell, program, stdin, stdout, ctx, inside, closer, wait>>

Kill(c) ==
    /\ closer[c] = "waiting" /\ grace
    /\ shell' = IF shell = "running" THEN "exited" ELSE shell
    /\ closer' = [closer EXCEPT ![c] = "killed"]
    /\ UNCHANGED <<stderr, program, stdin, stdout, ctx, inside, wait, grace>>

\* The goroutine has handed over what Wait said, in time or after the kill.
Exited(c) ==
    /\ closer[c] \in {"waiting", "killed"} /\ wait = "done"
    /\ closer' = [closer EXCEPT ![c] = "returned"]
    /\ UNCHANGED <<stderr, shell, program, stdin, stdout, ctx, inside, wait, grace>>

\* cmd.Wait reaps the shell, and waits for the copying of a stderr that is no file,
\* which ends with the last process that holds the pipe.
Reaps ==
    /\ wait = "process" /\ shell = "exited"
    /\ shell' = "reaped"
    /\ wait' = IF stderr = "file" THEN "done" ELSE "copying"
    /\ UNCHANGED <<stderr, program, stdin, stdout, ctx, inside, closer, grace>>

Copied ==
    /\ wait = "copying" /\ program # "running"
    /\ wait' = "done"
    /\ UNCHANGED <<stderr, shell, program, stdin, stdout, ctx, inside, closer, grace>>

CloseStep(c) ==
    \/ Enter(c) \/ CloseStdin(c) \/ CloseStdout(c) \/ GraceEnds(c) \/ Kill(c) \/ Exited(c)

Waiter == Reaps \/ Copied

Next ==
    \/ StartsProgram \/ ProgramExits \/ ShellExits \/ Cancelled
    \/ \E c \in Closers : CallClose(c) \/ CloseStep(c)
    \/ Waiter

Spec == Init /\ [][Next]_proxyVars

\* Goroutines run and the timer fires.  No process has to end by itself.
Fairness ==
    /\ \A c \in Closers : WF_proxyVars(CloseStep(c))
    /\ WF_proxyVars(Waiter)

FairSpec == Spec /\ Fairness

-----------------------------------------------------------------------------
\* Whichever of the closes returns, first or last, the shell is reaped, both pipes are
\* closed and the goroutine in Wait is over: nothing of ours is left with the process
\* (conn.go:44-45).
ProxyIsReaped ==
    \A c \in Closers : closer[c] = "returned" =>
        /\ stdin = "closed" /\ stdout = "closed"
        /\ shell = "reaped" /\ wait = "done"

\* Every close returns, whatever the command does with the end of its input, as long
\* as its stderr is a file (conn.go:37-43).
ProxyCloseReturns ==
    \A c \in Closers :
        (closer[c] = "called" /\ stderr = "file") ~> (closer[c] = "returned")

(* Claims of the code that do not hold.                                    *)

\* conn.go:37-43 without the condition: with the logs going nowhere the copying of
\* stderr holds the close for as long as what the shell started lives.
ProxyCloseIsBounded ==
    \A c \in Closers : (closer[c] = "called") ~> (closer[c] = "returned")

\* conn.go:40-43 says the command is killed: the shell is, what it started is not.
ProxyIsGone == \A c \in Closers : closer[c] = "returned" => program # "running"

=============================================================================
