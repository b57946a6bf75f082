---------------------------- MODULE MCOperations -----------------------------
(***************************************************************************)
(* A connection and what is done over it, for TLC: its keepalive and its   *)
(* close (Connection), the proxy command it may ride on (ProxyCommand), an *)
(* interactive shell (Session), one command (Exec), a file session         *)
(* (RemoteSession), the measuring of what is to be moved (TransferPlan),   *)
(* the carrying out of a plan (Transfer) and the lines that tell of it     *)
(* (LiveLines).  What the others ask of a connection is that a silent one  *)
(* ends, which Connection promises; each runs with the others at rest.     *)
(***************************************************************************)
EXTENDS Connection, Naturals, Sequences

CONSTANTS MaxKeys, Attempts, ProxyClosers, NoCloser, MaxEntries, Runs, NoFile, MaxPackets,
          Terminals, LabelWidths, TailWidths, MaxRows

VARIABLES
    part, \* which of the runs
    stdin, terminal, keys, typed, ended, shellPc, todo, mode, winch, shellSession,
    pump, pipe, canceled, copier, shellCommand, inputEnd,
    execPc, ctx, execCommand, execSession, execConn, heard, goroutine, execStopped, result,
    caller, filesPc, path, channels, filesConn, lastErr,
    stderr, shell, program, proxyIn, proxyOut, proxyCtx, inside, closer, wait, grace,
    walk, source, target, there, root, parent, kind, stack, dirs, items, outcome,
    columns, width, rows, row, drawn, disturbed,
    direction, plan, before, names, content, run

shellVars == <<stdin, terminal, keys, typed, ended, shellPc, todo, mode, winch, shellSession,
               pump, pipe, canceled, copier, shellCommand, inputEnd>>
execVars == <<execPc, ctx, execCommand, execSession, execConn, heard, goroutine, execStopped, result>>
filesVars == <<caller, filesPc, path, channels, filesConn, lastErr>>
proxyVars == <<stderr, shell, program, proxyIn, proxyOut, proxyCtx, inside, closer, wait, grace>>
planVars == <<walk, source, target, there, root, parent, kind, stack, dirs, items, outcome>>
barVars == <<columns, width, rows, row, drawn, disturbed>>
runVars == <<direction, plan, before, names, content, run>>
allVars == <<part, vars, shellVars, execVars, filesVars, proxyVars, planVars, barVars, runVars>>

\* No file, one, or two whose names have nothing to do with each other.
Apart == {<<>>, <<<<"a">>>>, <<<<"a">>, <<"b">>>>}

Shell == INSTANCE Session WITH pc <- shellPc, session <- shellSession, command <- shellCommand
Command == INSTANCE Exec WITH pc <- execPc, command <- execCommand, session <- execSession,
                              conn <- execConn, stopped <- execStopped
Files == INSTANCE RemoteSession WITH pc <- filesPc, conn <- filesConn
Proxy == INSTANCE ProxyCommand WITH Closers <- ProxyClosers, stdin <- proxyIn, stdout <- proxyOut, ctx <- proxyCtx
Measured == INSTANCE TransferPlan WITH direction <- walk
Bar == INSTANCE LiveLines
Moved == INSTANCE Transfer WITH Plans <- Apart

ASSUME OperationsAssumption ==
       /\ Shell!MaxKeysAssumption /\ Files!AttemptsAssumption /\ Proxy!ProxyAssumption
       /\ Measured!MaxEntriesAssumption /\ Bar!LiveLinesAssumption
       /\ Moved!TransferAssumption

AllInit ==
    /\ part \in {"connection", "shell", "command", "files", "proxy", "plan", "bar", "run"}
    /\ Init
    /\ Shell!Init /\ (part # "shell" => stdin = "terminal" /\ terminal)
    /\ Command!Init
    /\ Files!Init /\ (part # "files" => caller = "view")
    /\ Proxy!Init /\ (part # "proxy" => stderr = "file")
    /\ Measured!Init
    /\ part # "plan" => /\ walk = "upload" /\ source = "dir" /\ target = "none"
                        /\ \A e \in 1 .. MaxEntries : parent[e] = 0 /\ kind[e] = "file"
    /\ Bar!Init /\ (part # "bar" => columns = 0)
    /\ Moved!Init
    /\ part # "run" => /\ direction = "upload" /\ before = {}
                       /\ \A r \in Runs : plan[r] = <<>>

AllNext ==
    /\ UNCHANGED part
    /\ \/ /\ part = "connection" /\ Next
          /\ UNCHANGED <<shellVars, execVars, filesVars, proxyVars, planVars, barVars, runVars>>
       \/ /\ part = "shell" /\ Shell!Next
          /\ UNCHANGED <<vars, execVars, filesVars, proxyVars, planVars, barVars, runVars>>
       \/ /\ part = "command" /\ Command!Next
          /\ UNCHANGED <<vars, shellVars, filesVars, proxyVars, planVars, barVars, runVars>>
       \/ /\ part = "files" /\ Files!Next
          /\ UNCHANGED <<vars, shellVars, execVars, proxyVars, planVars, barVars, runVars>>
       \/ /\ part = "proxy" /\ Proxy!Next
          /\ UNCHANGED <<vars, shellVars, execVars, filesVars, planVars, barVars, runVars>>
       \/ /\ part = "plan" /\ Measured!Next
          /\ UNCHANGED <<vars, shellVars, execVars, filesVars, proxyVars, barVars, runVars>>
       \/ /\ part = "bar" /\ Bar!Next
          /\ UNCHANGED <<vars, shellVars, execVars, filesVars, proxyVars, planVars, runVars>>
       \/ /\ part = "run" /\ Moved!Next
          /\ UNCHANGED <<vars, shellVars, execVars, filesVars, proxyVars, planVars, barVars>>

\* Goroutines that can run do, and timers fire, as in Connection; the answers of a host
\* that answers arrive, and a silent connection ends (NothingHangs).  Nobody has to
\* type, to end the input, to leave the shell or the file view, to close the
\* connection, and no command or proxy has to end.
AllFairness ==
    /\ WF_vars(part = "connection" /\ (Tick \/ SeesDone))
    /\ WF_vars(part = "connection" /\ (PingReturnsTrue \/ PingMissed))
    /\ WF_vars(part = "connection" /\ PingFails)
    /\ \A o \in Ops : WF_vars(part = "connection" /\ OpFails(o))
    /\ \A c \in Closers :
          /\ SF_vars(part = "connection" /\ Lock(c))
          /\ WF_vars(part = "connection" /\ (StopLoop(c) \/ CloseConn(c) \/ Release(c)))
    /\ WF_shellVars(part = "shell" /\ Shell!Run)
    /\ WF_shellVars(part = "shell" /\ Shell!Pump)
    /\ WF_shellVars(part = "shell" /\ Shell!Copier)
    /\ WF_execVars(part = "command" /\ Command!RunCommand)
    /\ WF_execVars(part = "command" /\ Command!Goroutine)
    /\ WF_execVars(part = "command" /\ Command!StatusArrives)
    /\ WF_execVars(part = "command" /\ execConn = "silent" /\ Command!ConnectionEnds)
    /\ WF_filesVars(part = "files" /\ Files!Steps)
    /\ WF_filesVars(part = "files" /\ filesConn = "silent" /\ Files!ConnectionEnds)
    /\ \A c \in ProxyClosers : WF_proxyVars(part = "proxy" /\ Proxy!CloseStep(c))
    /\ WF_proxyVars(part = "proxy" /\ Proxy!Waiter)

AllSpec == AllInit /\ [][AllNext]_allVars /\ AllFairness

-----------------------------------------------------------------------------
\* The types of the modules: the walk of a directory, too, is never deeper than the
\* tree, which a link back up it would make it (transfer.go:231-247).
OperationsTypeOK ==
    /\ Shell!SessionTypeOK /\ Command!ExecTypeOK
    /\ Files!RemoteSessionTypeOK /\ Proxy!ProxyTypeOK
    /\ Measured!TransferPlanTypeOK /\ Bar!LiveLinesTypeOK /\ Moved!TransferTypeOK

\* Each gives back what it took, on every way out: the shell the terminal as it found
\* it, and no key is read after it (session.go:117-128, 189-216); a file session its
\* channels, then the connection (sftp.go:75-108, filesession.go:114-135); a proxy
\* command its process (conn.go:44-45).
GivesBackWhatItTook ==
    []Shell!LocalSideRestored /\ Files!LetsGoInOrder /\ []Proxy!ProxyIsReaped

\* A command that finished is reported as finished and a cancelled one as cancelled,
\* whatever crosses (exec.go:57-67).
EndIsToldRight == Command!EndIsToldRight

\* A plan holds the whole tree, once, parents first, and lands where it was sent
\* (transfer.go:116-324).
PlanIsSound == Measured!PlanIsSound

\* What fails or is cancelled leaves no half of a file (transfer.go:393-396, 449-452).
FailureIsClean == Moved!FailureIsClean

\* The last report is complete (transfer.go:106-108, 556-558), and each is drawn over the
\* one before and over nothing else (progress.go:53-55, 96-97).
ReportsAreShown == Moved!LastReportIsComplete /\ Bar!RewritesInPlace

\* Every call comes back: a shell that is over, or never began, returns and has handed
\* the end of its input on; a cancelled command returns and leaves no goroutine; a file
\* session opens or fails; closing a proxy command is bounded.
CallsReturn ==
    /\ Shell!RunReturns /\ Shell!InputEndArrives
    /\ Command!CancelEnds /\ Command!GoroutineEnds
    /\ Files!OpenEnds
    /\ Proxy!ProxyCloseReturns

=============================================================================
