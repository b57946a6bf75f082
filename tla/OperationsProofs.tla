-------------------------- MODULE OperationsProofs --------------------------
(***************************************************************************)
(* What MCOperations checks on small instances, for every value of its     *)
(* constants: any callers of Close, any shell and command, as many paths   *)
(* of sftp-server, trees of any size, any number of runs and any terminal. *)
(* One section per component gives the invariant that is inductive and     *)
(* what follows from it; the last puts them side by side.  The runs of a   *)
(* plan are those of TransferProofs.                                       *)
(***************************************************************************)
EXTENDS MCOperations, SequenceTheorems, FiniteSetTheorems, WellFoundedInduction, TLAPS

-----------------------------------------------------------------------------
(* The connection: the invariants the run checks are not inductive;        *)
(* TeardownInv is, given TypeOK, and implies them.                         *)

\* Every variable of the connection keeps its type (client.go:75-186).
THEOREM Typing == Spec => []TypeOK
<1>1. Init => TypeOK
  BY DEF Init, TypeOK, Closers
<1>2. TypeOK /\ [Next]_vars => TypeOK'
  <2> SUFFICES ASSUME TypeOK, [Next]_vars PROVE TypeOK'
    OBVIOUS
  <2> USE DEF TypeOK, teardown
  <2>1. CASE GoesSilent \/ Resets
    BY <2>1 DEF GoesSilent, Resets
  <2>2. ASSUME NEW o \in Ops, OpStarts(o) \/ OpAnswered(o) \/ OpFails(o)
        PROVE  TypeOK'
    BY <2>2 DEF OpStarts, OpAnswered, OpFails
  <2>3. CASE LoopStep \/ PingAnswered \/ PingFails
    BY <2>3 DEF LoopStep, Tick, SeesDone, PingReturnsTrue, PingMissed,
                PingAnswered, PingFails
  <2>4. ASSUME NEW c \in Closers, CallClose(c) \/ Lock(c)
        PROVE  TypeOK'
    BY <2>4 DEF CallClose, Lock
  <2>5. ASSUME NEW c \in Closers, StopLoop(c)
        PROVE  TypeOK'
    BY <2>5 DEF StopLoop, CloseChannel
  <2>6. ASSUME NEW c \in Closers, CloseConn(c) \/ Release(c)
        PROVE  TypeOK'
    BY <2>6 DEF CloseConn, Release
  <2>7. CASE UNCHANGED vars
    BY <2>7 DEF vars
  <2>8. QED
    BY <2>1, <2>2, <2>3, <2>4, <2>5, <2>6, <2>7 DEF Next
<1>3. QED
  BY <1>1, <1>2, PTL DEF Spec

\* closeMu serialises the teardown, and every stage of it leaves the record of
\* what was done that the next Close relies on (client.go:84-121).
THEOREM Teardown == Spec => []TeardownInv
<1>1. Init => TeardownInv
  BY NamesAssumption DEF Init, TeardownInv, Closers
<1>2. TypeOK /\ TeardownInv /\ [Next]_vars => TeardownInv'
  <2> SUFFICES ASSUME TypeOK, TeardownInv, [Next]_vars PROVE TeardownInv'
    OBVIOUS
  <2> USE DEF TypeOK, TeardownInv, teardown
  <2>1. CASE GoesSilent \/ Resets
    BY <2>1 DEF GoesSilent, Resets
  <2>2. ASSUME NEW o \in Ops, OpStarts(o) \/ OpAnswered(o) \/ OpFails(o)
        PROVE  TeardownInv'
    BY <2>2 DEF OpStarts, OpAnswered, OpFails
  <2>3. CASE Tick \/ SeesDone \/ PingReturnsTrue \/ PingAnswered \/ PingFails
    BY <2>3 DEF Tick, SeesDone, PingReturnsTrue, PingAnswered, PingFails
  <2>4. CASE PingMissed
    BY <2>4 DEF PingMissed, Closers
  <2>5. ASSUME NEW c \in Closers, CallClose(c)
        PROVE  TeardownInv'
    BY <2>5 DEF CallClose
  <2>6. ASSUME NEW c \in Closers, Lock(c)
        PROVE  TeardownInv'
    BY <2>6, NamesAssumption DEF Lock
  <2>7. ASSUME NEW c \in Closers, StopLoop(c)
        PROVE  TeardownInv'
    BY <2>7 DEF StopLoop, CloseChannel
  <2>8. ASSUME NEW c \in Closers, CloseConn(c)
        PROVE  TeardownInv'
    BY <2>8 DEF CloseConn
  <2>9. ASSUME NEW c \in Closers, Release(c)
        PROVE  TeardownInv'
    BY <2>9, NamesAssumption DEF Release
  <2>10. CASE UNCHANGED vars
    BY <2>10 DEF vars
  <2>11. QED
    BY <2>1, <2>2, <2>3, <2>4, <2>5, <2>6, <2>7, <2>8, <2>9, <2>10
    DEF Next, LoopStep
<1>3. QED
  BY <1>1, <1>2, Typing, PTL DEF Spec

\* Whoever tears down, the keepalive is told to stop before the connection goes and
\* that before what it rode on, once (client.go:84-146).
THEOREM InOrder == Spec => []TornDownInOrder
<1>1. TypeOK /\ TeardownInv => TornDownInOrder
  BY DEF TypeOK, TeardownInv, TornDownInOrder, Closers
<1>2. QED
  BY <1>1, Typing, Teardown, PTL

\* Whoever returns from Close finds everything released, also who did not do it
\* (client.go:84-100).
THEOREM Released == Spec => []CloseMeansReleased
<1>1. TypeOK /\ TeardownInv => CloseMeansReleased
  BY DEF TypeOK, TeardownInv, CloseMeansReleased, Closers
<1>2. QED
  BY <1>1, Typing, Teardown, PTL

-----------------------------------------------------------------------------
(* The shell.                                                              *)

On(list, step) == \E i \in DOMAIN list : list[i] = step

Steps == {"winch", "writer", "cancel", "join", "restore", "session"}

\* What is up is on the list of what is to be taken down, from the moment there is
\* one; and before, each stage knows what is not up yet.
ShellUp ==
    /\ shellPc = "open" => shellSession = "none"
    /\ shellPc \in {"open", "pty", "pump"} => pump = "none"
    /\ shellPc \in {"open", "pty", "pump", "raw"} => mode = "cooked"
    /\ shellPc \in {"open", "pty", "pump", "raw", "winch"} => winch = FALSE
    /\ shellPc = "raw" => stdin = "terminal"
    /\ shellPc \in {"unwind", "returned"} =>
          /\ shellSession = "open" => On(todo, "session")
          /\ winch = FALSE \/ On(todo, "winch")
          /\ mode = "raw" => On(todo, "restore")
          /\ stdin \in {"terminal", "pipe"} /\ pump \notin {"none", "done"} => On(todo, "join")

\* Taking one step off a list leaves the others on it.
LEMMA TakenOff ==
    ASSUME NEW S, NEW s \in Seq(S), s # <<>>
    PROVE  /\ Tail(s) \in Seq(S)
           /\ \A x : x # Head(s) /\ On(s, x) => On(Tail(s), x)
<1>1. Tail(s) \in Seq(S)
  OBVIOUS
<1>2. ASSUME NEW i \in DOMAIN s, s[i] # Head(s)
      PROVE  i - 1 \in DOMAIN Tail(s) /\ Tail(s)[i - 1] = s[i]
  BY <1>2
<1>3. QED
  BY <1>1, <1>2 DEF On

\* What is on one of two lists is on both put together.
LEMMA PutTogether ==
    ASSUME NEW S, NEW s \in Seq(S), NEW t \in Seq(S)
    PROVE  /\ s \o t \in Seq(S)
           /\ \A x : On(s, x) \/ On(t, x) => On(s \o t, x)
<1>1. s \o t \in Seq(S)
  OBVIOUS
<1>2. ASSUME NEW i \in DOMAIN s
      PROVE  i \in DOMAIN (s \o t) /\ (s \o t)[i] = s[i]
  BY <1>2
<1>3. ASSUME NEW i \in DOMAIN t
      PROVE  Len(s) + i \in DOMAIN (s \o t) /\ (s \o t)[Len(s) + i] = t[i]
  BY <1>3
<1>4. QED
  BY <1>1, <1>2, <1>3 DEF On

\* The three lists Run takes down, for how far it came.
LEMMA Unwindings ==
    /\ <<"session">> \in Seq(Steps) /\ On(<<"session">>, "session")
    /\ LET list == Shell!StopStdin \o <<"session">>
       IN  list \in Seq(Steps) /\ On(list, "session") /\ On(list, "join")
    /\ LET list == <<"winch", "restore">> \o Shell!StopStdin \o <<"session">>
       IN  list \in Seq(Steps) /\ \A x \in {"winch", "restore", "join", "session"} : On(list, x)
    /\ LET list == <<"winch">> \o Shell!StopStdin \o <<"restore", "session">>
       IN  list \in Seq(Steps) /\ \A x \in {"winch", "restore", "join", "session"} : On(list, x)
<1>1. <<"session">> \in Seq(Steps) /\ On(<<"session">>, "session")
  BY DEF Steps, On
<1>2. Shell!StopStdin \in Seq(Steps) /\ On(Shell!StopStdin, "join")
  <2>1. Shell!StopStdin \in Seq(Steps)
    BY DEF Steps, Shell!StopStdin
  <2>2. 3 \in DOMAIN Shell!StopStdin /\ Shell!StopStdin[3] = "join"
    BY DEF Shell!StopStdin
  <2>3. QED
    BY <2>1, <2>2 DEF On
<1>3. <<"winch">> \in Seq(Steps) /\ On(<<"winch">>, "winch")
  BY DEF Steps, On
<1>4. <<"winch", "restore">> \in Seq(Steps)
      /\ On(<<"winch", "restore">>, "winch") /\ On(<<"winch", "restore">>, "restore")
  <2>1. 1 \in DOMAIN <<"winch", "restore">> /\ 2 \in DOMAIN <<"winch", "restore">>
    OBVIOUS
  <2>2. QED
    BY <2>1 DEF Steps, On
<1>5. <<"restore", "session">> \in Seq(Steps)
      /\ On(<<"restore", "session">>, "restore") /\ On(<<"restore", "session">>, "session")
  <2>1. 1 \in DOMAIN <<"restore", "session">> /\ 2 \in DOMAIN <<"restore", "session">>
    OBVIOUS
  <2>2. QED
    BY <2>1 DEF Steps, On
<1>6. LET list == Shell!StopStdin \o <<"session">>
      IN  list \in Seq(Steps) /\ On(list, "session") /\ On(list, "join")
  BY <1>1, <1>2, PutTogether
<1>7. LET list == <<"winch", "restore">> \o Shell!StopStdin
      IN  list \in Seq(Steps) /\ \A x \in {"winch", "restore", "join"} : On(list, x)
  BY <1>2, <1>4, PutTogether
<1>8. LET list == <<"winch">> \o Shell!StopStdin
      IN  list \in Seq(Steps) /\ \A x \in {"winch", "join"} : On(list, x)
  BY <1>2, <1>3, PutTogether
<1>9. LET list == <<"winch", "restore">> \o Shell!StopStdin \o <<"session">>
      IN  list \in Seq(Steps) /\ \A x \in {"winch", "restore", "join", "session"} : On(list, x)
  BY <1>1, <1>7, PutTogether
<1>10. LET list == <<"winch">> \o Shell!StopStdin \o <<"restore", "session">>
       IN  list \in Seq(Steps) /\ \A x \in {"winch", "restore", "join", "session"} : On(list, x)
  BY <1>5, <1>8, PutTogether
<1>11. QED
  BY <1>1, <1>6, <1>9, <1>10

ShellInv == Shell!StagesOK /\ ShellUp

LEMMA ShellInit == Shell!Init => ShellInv
  BY DEF Shell!Init, ShellInv, ShellUp, Shell!StagesOK, Shell!Kinds

\* The user, the far end, the pump and the copier leave the list alone.
LEMMA ShellWorld ==
    ASSUME ShellInv,
           Shell!Type \/ Shell!InputEnds \/ Shell!CommandEnds \/ Shell!Pump \/ Shell!Copier
    PROVE  ShellInv'
<1>1. Shell!StagesOK'
  BY DEF ShellInv, Shell!StagesOK, Shell!input, Shell!local, Shell!stream, Shell!Type,
         Shell!InputEnds, Shell!CommandEnds, Shell!Pump, Shell!Copier, Shell!PumpReads,
         Shell!PumpEnds, Shell!HandOver, Shell!HandOverFails, Shell!CopierReads,
         Shell!CopierSends, Shell!CopierEnds
<1>2. ShellUp'
  BY DEF ShellInv, ShellUp, Shell!StagesOK, Shell!input, Shell!local, Shell!stream, Shell!Type,
         Shell!InputEnds, Shell!CommandEnds, Shell!Pump, Shell!Copier, Shell!PumpReads,
         Shell!PumpEnds, Shell!HandOver, Shell!HandOverFails, Shell!CopierReads,
         Shell!CopierSends, Shell!CopierEnds
<1>3. QED
  BY <1>1, <1>2 DEF ShellInv

\* Setting up: what an early return has to take down is on its list.
LEMMA ShellSetsUp ==
    ASSUME ShellInv,
           \/ Shell!OpenSession \/ Shell!RequestPty \/ Shell!StartPump \/ Shell!MakeRaw
           \/ Shell!WatchWindowSize \/ Shell!Start \/ Shell!Wait
    PROVE  ShellInv'
<1> USE Unwindings DEF ShellInv, ShellUp, Shell!StagesOK, Shell!input, Shell!local, Shell!stream,
            Shell!Unwind, Shell!Kinds, Steps
<1>1. CASE Shell!OpenSession
  BY <1>1 DEF Shell!OpenSession
<1>2. CASE Shell!RequestPty
  BY <1>2 DEF Shell!RequestPty
<1>3. CASE Shell!StartPump
  BY <1>3 DEF Shell!StartPump
<1>4. CASE Shell!MakeRaw
  BY <1>4 DEF Shell!MakeRaw
<1>5. CASE Shell!WatchWindowSize
  BY <1>5 DEF Shell!WatchWindowSize
<1>6. CASE Shell!Start
  <2>1. CASE shellPc' = "wait"
    BY <1>6, <2>1 DEF Shell!Start
  <2>2. CASE shellPc' = "unwind"
    <3>1. Shell!StagesOK'
      BY <1>6, <2>2 DEF Shell!Start
    <3>2. ShellUp'
      BY <1>6, <2>2 DEF Shell!Start
    <3>3. QED
      BY <3>1, <3>2
  <2>3. QED
    BY <1>6, <2>1, <2>2 DEF Shell!Start
<1>7. CASE Shell!Wait
  BY <1>7 DEF Shell!Wait
<1>8. QED
  BY <1>1, <1>2, <1>3, <1>4, <1>5, <1>6, <1>7

\* Taking down: each step takes down what it takes off the list.
LEMMA ShellTakesDown ==
    ASSUME ShellInv,
           \/ Shell!StopWinch \/ Shell!Restore \/ Shell!CloseWriter \/ Shell!CancelReader
           \/ Shell!Join \/ Shell!CloseSession \/ Shell!Return
    PROVE  ShellInv'
<1> USE DEF Shell!input, Shell!local, Shell!stream
<1>1. ASSUME NEW step, Shell!Undo(step)
      PROVE  /\ shellPc = "unwind"
             /\ todo' \in Seq(Steps)
             /\ \A x : x # step /\ On(todo, x) => On(todo', x)
  BY <1>1, TakenOff DEF ShellInv, Shell!StagesOK, Shell!Undo, Steps
<1>2. CASE Shell!StopWinch
  <2>1. /\ shellPc = "unwind" /\ todo' \in Seq(Steps)
        /\ \A x : x # "winch" /\ On(todo, x) => On(todo', x)
    BY <1>1, <1>2 DEF Shell!StopWinch
  <2>2. Shell!StagesOK'
    BY <1>2, <2>1 DEF ShellInv, Shell!StagesOK, Steps, Shell!StopWinch
  <2>3. ShellUp'
    BY <1>2, <2>1 DEF ShellInv, ShellUp, Shell!StagesOK, Shell!Interruptible, Shell!StopWinch
  <2>4. QED
    BY <2>2, <2>3 DEF ShellInv
<1>3. CASE Shell!Restore
  <2>1. /\ shellPc = "unwind" /\ todo' \in Seq(Steps)
        /\ \A x : x # "restore" /\ On(todo, x) => On(todo', x)
    BY <1>1, <1>3 DEF Shell!Restore
  <2>2. Shell!StagesOK'
    BY <1>3, <2>1 DEF ShellInv, Shell!StagesOK, Steps, Shell!Restore
  <2>3. ShellUp'
    BY <1>3, <2>1 DEF ShellInv, ShellUp, Shell!StagesOK, Shell!Interruptible, Shell!Restore
  <2>4. QED
    BY <2>2, <2>3 DEF ShellInv
<1>4. CASE Shell!CloseWriter
  <2>1. /\ shellPc = "unwind" /\ todo' \in Seq(Steps)
        /\ \A x : x # "writer" /\ On(todo, x) => On(todo', x)
    BY <1>1, <1>4 DEF Shell!CloseWriter
  <2>2. Shell!StagesOK'
    BY <1>4, <2>1 DEF ShellInv, Shell!StagesOK, Steps, Shell!CloseWriter
  <2>3. ShellUp'
    BY <1>4, <2>1 DEF ShellInv, ShellUp, Shell!StagesOK, Shell!Interruptible, Shell!CloseWriter
  <2>4. QED
    BY <2>2, <2>3 DEF ShellInv
<1>5. CASE Shell!CancelReader
  <2>1. /\ shellPc = "unwind" /\ todo' \in Seq(Steps)
        /\ \A x : x # "cancel" /\ On(todo, x) => On(todo', x)
    BY <1>1, <1>5 DEF Shell!CancelReader
  <2>2. Shell!StagesOK'
    BY <1>5, <2>1 DEF ShellInv, Shell!StagesOK, Steps, Shell!CancelReader
  <2>3. ShellUp'
    BY <1>5, <2>1 DEF ShellInv, ShellUp, Shell!StagesOK, Shell!Interruptible, Shell!CancelReader
  <2>4. QED
    BY <2>2, <2>3 DEF ShellInv
<1>6. CASE Shell!Join
  <2>1. /\ shellPc = "unwind" /\ todo' \in Seq(Steps)
        /\ \A x : x # "join" /\ On(todo, x) => On(todo', x)
    BY <1>1, <1>6 DEF Shell!Join
  <2>2. Shell!StagesOK'
    BY <1>6, <2>1 DEF ShellInv, Shell!StagesOK, Steps, Shell!Join
  <2>3. ShellUp'
    BY <1>6, <2>1 DEF ShellInv, ShellUp, Shell!StagesOK, Shell!Interruptible, Shell!Join
  <2>4. QED
    BY <2>2, <2>3 DEF ShellInv
<1>7. CASE Shell!CloseSession
  <2>1. /\ shellPc = "unwind" /\ todo' \in Seq(Steps)
        /\ \A x : x # "session" /\ On(todo, x) => On(todo', x)
    BY <1>1, <1>7 DEF Shell!CloseSession
  <2>2. Shell!StagesOK'
    BY <1>7, <2>1 DEF ShellInv, Shell!StagesOK, Steps, Shell!CloseSession
  <2>3. ShellUp'
    BY <1>7, <2>1 DEF ShellInv, ShellUp, Shell!StagesOK, Shell!Interruptible, Shell!CloseSession
  <2>4. QED
    BY <2>2, <2>3 DEF ShellInv
<1>8. CASE Shell!Return
  <2>1. Shell!StagesOK'
    BY <1>8 DEF ShellInv, Shell!StagesOK, Shell!Return
  <2>2. ShellUp'
    BY <1>8 DEF ShellInv, ShellUp, Shell!StagesOK, Shell!Return
  <2>3. QED
    BY <2>1, <2>2 DEF ShellInv
<1>9. QED
  BY <1>2, <1>3, <1>4, <1>5, <1>6, <1>7, <1>8

LEMMA ShellRests ==
    ASSUME ShellInv, UNCHANGED shellVars
    PROVE  ShellInv'
<1>1. Shell!StagesOK'
  <2>1. (/\ stdin \in Shell!Kinds
         /\ shellPc \in {"open", "pty", "pump", "raw", "winch", "start", "wait", "unwind",
                         "returned"}
         /\ todo \in Seq({"winch", "writer", "cancel", "join", "restore", "session"})
         /\ todo # <<>> => shellPc = "unwind")'
    BY DEF shellVars, ShellInv, Shell!StagesOK
  <2>2. QED
    BY <2>1 DEF shellVars, ShellInv, Shell!StagesOK
<1>2. ShellUp'
  BY DEF shellVars, ShellInv, ShellUp
<1>3. QED
  BY <1>1, <1>2 DEF ShellInv

LEMMA ShellNext ==
    ASSUME ShellInv, [Shell!Next]_shellVars
    PROVE  ShellInv'
<1>1. CASE UNCHANGED shellVars
  BY <1>1, ShellRests
<1>2. QED
  BY <1>1, ShellWorld, ShellSetsUp, ShellTakesDown DEF Shell!Next, Shell!Run

\* What was typed and not read is part of what was typed.
ShellKeys == Shell!InputOK /\ keys <= typed

LEMMA ShellKeysInit == Shell!MaxKeysAssumption /\ Shell!Init => ShellKeys
  BY DEF Shell!MaxKeysAssumption, Shell!Init, ShellKeys, Shell!InputOK

LEMMA ShellKeysNext ==
    ASSUME Shell!MaxKeysAssumption, ShellKeys, [Shell!Next]_shellVars
    PROVE  ShellKeys'
<1>1. CASE Shell!Type
  BY <1>1 DEF Shell!MaxKeysAssumption, ShellKeys, Shell!InputOK, Shell!Type
<1>2. CASE Shell!PumpReads \/ Shell!CopierReads
  <2>1. keys > 0 /\ keys' = keys - 1 /\ typed' = typed
    BY <1>2 DEF Shell!PumpReads, Shell!CopierReads
  <2>2. QED
    BY <2>1 DEF Shell!MaxKeysAssumption, ShellKeys, Shell!InputOK
<1>3. CASE UNCHANGED <<keys, typed>>
  BY <1>3 DEF ShellKeys, Shell!InputOK
<1>4. QED
  BY <1>1, <1>2, <1>3 DEF shellVars, Shell!Next, Shell!Run, Shell!Pump, Shell!Copier, Shell!input,
     Shell!InputEnds, Shell!CommandEnds, Shell!PumpEnds, Shell!HandOver, Shell!HandOverFails,
     Shell!CopierSends, Shell!CopierEnds, Shell!OpenSession, Shell!RequestPty, Shell!StartPump,
     Shell!MakeRaw, Shell!WatchWindowSize, Shell!Start, Shell!Wait, Shell!StopWinch,
     Shell!Restore, Shell!CloseWriter, Shell!CancelReader, Shell!Join, Shell!CloseSession,
     Shell!Return

LEMMA ShellFlagsInit == Shell!Init => Shell!FlagsOK
  BY DEF Shell!Init, Shell!FlagsOK

LEMMA ShellFlagsNext ==
    ASSUME Shell!FlagsOK, [Shell!Next]_shellVars
    PROVE  Shell!FlagsOK'
  BY DEF Shell!FlagsOK, shellVars, Shell!Next, Shell!Run, Shell!Pump, Shell!Copier, Shell!input,
     Shell!local, Shell!stream, Shell!Type, Shell!PumpReads, Shell!CopierReads, Shell!Undo,
     Shell!InputEnds, Shell!CommandEnds, Shell!PumpEnds, Shell!HandOver, Shell!HandOverFails,
     Shell!CopierSends, Shell!CopierEnds, Shell!OpenSession, Shell!RequestPty, Shell!StartPump,
     Shell!MakeRaw, Shell!WatchWindowSize, Shell!Start, Shell!Wait, Shell!StopWinch,
     Shell!Restore, Shell!CloseWriter, Shell!CancelReader, Shell!Join, Shell!CloseSession,
     Shell!Return

\* Nothing is up once the list is empty.
LEMMA ShellRestored == ShellInv => Shell!LocalSideRestored
<1>1. SUFFICES ASSUME ShellInv, shellPc = "returned"
               PROVE  /\ mode = "cooked" /\ winch = FALSE /\ shellSession # "open"
                      /\ stdin \in {"terminal", "pipe"} => pump \in {"none", "done"}
  BY DEF Shell!LocalSideRestored, Shell!TerminalGivenBack, Shell!NobodyReadsAfter,
         Shell!Interruptible
<1>2. todo = <<>>
  BY <1>1 DEF ShellInv, Shell!StagesOK
<1>3. \A x : ~On(todo, x)
  BY <1>2 DEF On
<1>4. QED
  BY <1>1, <1>3 DEF ShellInv, ShellUp, Shell!StagesOK
-----------------------------------------------------------------------------
(* One command.                                                            *)

LEMMA CommandInit == Command!Init => Command!ExecTypeOK
  BY DEF Command!Init, Command!ExecTypeOK

LEMMA CommandNext ==
    ASSUME Command!ExecTypeOK, [Command!Next]_execVars
    PROVE  Command!ExecTypeOK'
<1> USE DEF Command!ExecTypeOK, Command!world, Command!Return
<1>1. CASE Command!RunCommand
  BY <1>1 DEF Command!RunCommand, Command!OpenSession, Command!Start, Command!Wait,
              Command!Deferred
<1>2. CASE Command!Goroutine
  BY <1>2 DEF Command!Goroutine, Command!SeesCancel, Command!SeesStopped,
              Command!SignalAndClose
<1>3. CASE Command!World
  BY <1>3 DEF Command!World, Command!Cancel, Command!CommandExits, Command!StatusArrives,
              Command!GoesSilent, Command!ConnectionEnds
<1>4. CASE UNCHANGED execVars
  <2>1. /\ execPc' = execPc /\ ctx' = ctx /\ execCommand' = execCommand
        /\ execSession' = execSession /\ execConn' = execConn /\ heard' = heard
        /\ goroutine' = goroutine /\ execStopped' = execStopped /\ result' = result
    BY <1>4 DEF execVars
  <2>2. (/\ execPc \in {"new", "start", "wait", "return", "done"}
         /\ execCommand \in {"none", "running", "exited", "exited with"}
         /\ execStopped \in BOOLEAN)'
    BY <2>1
  <2>3. (/\ ctx \in {"live", "canceled"}
         /\ execSession \in {"none", "open", "closed"}
         /\ execConn \in {"up", "silent", "down"}
         /\ heard \in {"nothing", "success", "status", "loss"}
         /\ goroutine \in {"none", "select", "signal", "ended"}
         /\ result \in {"none", "ok", "ExitError", "context canceled", "failed"})'
    BY <2>1
  <2>4. QED
    BY <2>2, <2>3
<1>5. QED
  BY <1>1, <1>2, <1>3, <1>4 DEF Command!Next

\* Only Wait returns from the waiting, and it tells what it heard.
LEMMA CommandTells ==
    ASSUME [Command!Next]_execVars
    PROVE  execPc = "wait" /\ execPc' = "return" =>
              /\ result' = "ok" <=> heard = "success"
              /\ heard = "loss" /\ ctx = "canceled" => result' = "context canceled"
<1>1. SUFFICES ASSUME execPc = "wait", execPc' = "return"
               PROVE  Command!Wait
  BY DEF Command!Wait, Command!Return
<1>2. QED
  BY <1>1 DEF execVars, Command!Next, Command!RunCommand, Command!OpenSession, Command!Start,
     Command!Deferred, Command!Goroutine, Command!SeesCancel, Command!SeesStopped,
     Command!SignalAndClose, Command!World, Command!Cancel, Command!CommandExits,
     Command!StatusArrives, Command!GoesSilent, Command!ConnectionEnds, Command!world
-----------------------------------------------------------------------------
(* A file session.                                                         *)

\* What is held, by how far the call is: a channel only from the opening of one to the
\* Close, and it is the one of the path in hand; a connection until the end.
FilesInv ==
    /\ Files!RemoteSessionTypeOK
    /\ channels \subseteq {path}
    /\ filesPc \in {"dial", "sftp", "channel", "refused", "failed", "hang up", "closed"}
          => channels = {}
    /\ filesPc \in {"failed", "closed"} => filesConn \in {"none", "closed"}
    /\ filesPc \in {"dial", "sftp"} => path = 0
    /\ filesPc = "dial" => filesConn = "none"

LEMMA FilesInit == Files!AttemptsAssumption /\ Files!Init => FilesInv
  BY DEF Files!AttemptsAssumption, Files!Init, FilesInv, Files!RemoteSessionTypeOK, Files!Subsystem,
         Files!Unset, Files!Asking

LEMMA FilesNext ==
    ASSUME Files!AttemptsAssumption, FilesInv, [Files!Next]_filesVars
    PROVE  FilesInv'
<1> USE DEF Files!AttemptsAssumption, FilesInv, Files!RemoteSessionTypeOK, Files!Subsystem, Files!Unset,
            Files!Asking, Files!Granted, Files!Refused, Files!Succeed, Files!TryNext
<1>1. CASE Files!HostGoesSilent \/ Files!ConnectionEnds
  BY <1>1 DEF Files!HostGoesSilent, Files!ConnectionEnds
<1>2. CASE Files!CloseView
  BY <1>2 DEF Files!CloseView
<1>3. CASE Files!DialEnds
  <2>1. CASE filesConn' = "up" /\ filesPc' = "sftp"
    BY <1>3, <2>1 DEF Files!DialEnds
  <2>2. CASE filesPc' = "failed" /\ UNCHANGED filesConn
    BY <1>3, <2>2 DEF Files!DialEnds
  <2>3. QED
    BY <1>3, <2>1, <2>2 DEF Files!DialEnds
<1>4. ASSUME Files!TryNext, UNCHANGED <<caller, filesConn>>, channels' = {}, filesConn # "none"
      PROVE  FilesInv'
  <2>0. Attempts \in Nat /\ path \in 0 .. Attempts
    BY DEF Files!Subsystem
  <2>1. lastErr' \in 0 .. Attempts + 1
    <3>1. lastErr' = path
      BY <1>4
    <3> HIDE DEF FilesInv, Files!RemoteSessionTypeOK
    <3>2. QED
      BY <2>0, <3>1
  <2>2. CASE path < Attempts
    <3>1. path' = path + 1 /\ filesPc' = "channel"
      BY <1>4, <2>2
    <3>2. path' \in 0 .. Attempts
      <4> HIDE DEF FilesInv, Files!RemoteSessionTypeOK
      <4>1. QED
        BY <2>0, <2>2, <3>1
    <3>3. QED
      BY <1>4, <2>1, <3>1, <3>2
  <2>3. CASE ~(path < Attempts)
    BY <1>4, <2>1, <2>3
  <2>4. QED
    BY <2>2, <2>3
<1>5. CASE Files!TrySubsystem
  <2>1. CASE Files!Granted /\ Files!Succeed /\ channels' = {Files!Subsystem}
             /\ UNCHANGED <<path, lastErr>>
    <3>1. filesConn' = "up" /\ caller' = caller /\ filesPc' \in {"home", "plan"}
      BY <1>5, <2>1 DEF Files!TrySubsystem
    <3>2. channels' = {0} /\ path' = 0 /\ lastErr' = lastErr
      BY <1>5, <2>1 DEF Files!TrySubsystem
    <3>3. 0 \in 0 .. Attempts
      <4> HIDE DEF FilesInv
      <4>1. QED
        OBVIOUS
    <3>4. channels' \subseteq 0 .. Attempts /\ channels' \subseteq {path'} /\ path' \in 0 .. Attempts
      BY <3>2, <3>3
    <3>5. QED
      BY <3>1, <3>2, <3>4
  <2>2. CASE Files!Refused /\ Files!TryNext /\ UNCHANGED channels
    BY <1>4, <1>5, <2>2 DEF Files!TrySubsystem
  <2>3. QED
    BY <1>5, <2>1, <2>2 DEF Files!TrySubsystem
<1>6. CASE Files!OpenChannel
  <2>1. CASE Files!Granted /\ filesPc' = "start" /\ channels' = channels \union {path}
             /\ UNCHANGED <<path, lastErr>>
    <3>1. filesConn' = "up" /\ caller' = caller
      BY <1>6, <2>1 DEF Files!OpenChannel
    <3>2. channels' = {path}
      BY <1>6, <2>1 DEF Files!OpenChannel
    <3>3. QED
      BY <2>1, <3>1, <3>2
  <2>2. CASE Files!Refused /\ Files!TryNext /\ UNCHANGED channels
    BY <1>4, <1>6, <2>2 DEF Files!OpenChannel
  <2>3. QED
    BY <1>6, <2>1, <2>2 DEF Files!OpenChannel
<1>7. CASE Files!StartServer \/ Files!Handshake
  <2>1. CASE Files!TryNext /\ channels' = channels \ {path}
    <3>1. channels' = {}
      BY <2>1
    <3>2. filesConn # "none" /\ UNCHANGED <<caller, filesConn>>
      BY <1>7 DEF Files!StartServer, Files!Handshake
    <3>3. QED
      BY <1>4, <2>1, <3>1, <3>2
  <2>2. CASE filesPc' \in {"handshake", "home", "plan"} /\ UNCHANGED <<path, channels, lastErr>>
    <3>1. filesConn # "none" /\ UNCHANGED <<caller, filesConn>>
      BY <1>7 DEF Files!StartServer, Files!Handshake
    <3>2. QED
      BY <2>2, <3>1
  <2>3. QED
    BY <1>7, <2>1, <2>2 DEF Files!StartServer, Files!Handshake
<1>8. CASE Files!AskHome \/ Files!RunPlan
  BY <1>8 DEF Files!AskHome, Files!RunPlan
<1>9. CASE Files!CloseSFTP
  BY <1>9 DEF Files!CloseSFTP
<1>10. CASE Files!HangUp \/ Files!GiveUp
  BY <1>10 DEF Files!HangUp, Files!GiveUp
<1>11. CASE UNCHANGED filesVars
  BY <1>11 DEF filesVars
<1>12. QED
  BY <1>1, <1>2, <1>3, <1>4, <1>5, <1>6, <1>7, <1>8, <1>9, <1>10, <1>11
     DEF Files!Next, Files!Steps

\* The channel is closed by the time the connection is.
LEMMA FilesLetGo ==
    ASSUME Files!AttemptsAssumption, FilesInv, [Files!Next]_filesVars
    PROVE  /\ Files!NothingLeftOpen'
           /\ filesPc' \in {"closed", "failed"} /\ filesPc # filesPc' => channels = {}
<1>1. FilesInv'
  BY FilesNext
<1>2. Files!NothingLeftOpen'
  BY <1>1 DEF FilesInv, Files!NothingLeftOpen
<1>3. ASSUME filesPc' \in {"closed", "failed"}, filesPc # filesPc'
      PROVE  filesPc \in {"dial", "hang up", "refused"}
  BY <1>3 DEF FilesInv, filesVars, Files!Next, Files!Steps, Files!HostGoesSilent,
     Files!ConnectionEnds, Files!CloseView, Files!DialEnds, Files!TrySubsystem, Files!OpenChannel,
     Files!StartServer, Files!Handshake, Files!AskHome, Files!RunPlan, Files!CloseSFTP,
     Files!HangUp, Files!GiveUp, Files!Succeed, Files!TryNext
<1>4. QED
  BY <1>2, <1>3 DEF FilesInv
-----------------------------------------------------------------------------
(* A proxy command.                                                        *)

\* Only the first of the closes is past closeOnce, and what it has done by each stage.
ProxyInv ==
    /\ Proxy!ProxyTypeOK
    /\ \A c \in ProxyClosers :
          /\ closer[c] \in {"stdin", "stdout", "waiting", "killed"} => inside = c
          /\ closer[c] = "returned" => inside # NoCloser /\ closer[inside] = "returned"
    /\ inside # NoCloser =>
          /\ closer[inside] \in {"stdin", "stdout", "waiting", "killed", "returned"}
          /\ closer[inside] \in {"stdout", "waiting", "killed", "returned"} => proxyIn = "closed"
          /\ closer[inside] \in {"waiting", "killed", "returned"} => proxyOut = "closed"
          /\ closer[inside] \in {"stdin", "stdout"} => wait = "none"
          /\ closer[inside] = "returned" => wait = "done"
    /\ inside = NoCloser => wait = "none"
    /\ wait \in {"copying", "done"} => shell = "reaped"

LEMMA ProxyInit == Proxy!Init => ProxyInv
  BY DEF Proxy!Init, ProxyInv, Proxy!ProxyTypeOK

LEMMA ProxyNext ==
    ASSUME NoCloser \notin ProxyClosers, ProxyInv, [Proxy!Next]_proxyVars
    PROVE  ProxyInv'
<1> USE DEF ProxyInv, Proxy!ProxyTypeOK
<1>1. CASE Proxy!StartsProgram
  BY <1>1 DEF Proxy!StartsProgram
<1>2. CASE Proxy!ProgramExits
  BY <1>2 DEF Proxy!ProgramExits
<1>3. CASE Proxy!ShellExits
  BY <1>3 DEF Proxy!ShellExits
<1>4. CASE Proxy!Cancelled
  BY <1>4 DEF Proxy!Cancelled
<1>5. ASSUME NEW c \in ProxyClosers, Proxy!CallClose(c) PROVE ProxyInv'
  BY <1>5 DEF Proxy!CallClose
<1>6. ASSUME NEW c \in ProxyClosers, Proxy!Enter(c) PROVE ProxyInv'
  <2>1. CASE inside = NoCloser /\ inside' = c /\ closer' = [closer EXCEPT ![c] = "stdin"]
    <3>1. /\ closer[c] = "called" /\ closer' = [closer EXCEPT ![c] = "stdin"]
          /\ \A d \in ProxyClosers : closer[d] \in {"idle", "called"}
      BY <1>6, <2>1 DEF Proxy!Enter
    <3>2. inside' # NoCloser /\ closer'[inside'] = "stdin" /\ wait' = "none"
      BY <1>6, <2>1 DEF Proxy!Enter
    <3>3. QED
      BY <1>6, <2>1, <3>1, <3>2 DEF Proxy!Enter
  <2>2. CASE /\ inside # NoCloser /\ closer[inside] = "returned" /\ inside' = inside
             /\ closer' = [closer EXCEPT ![c] = "returned"]
    <3>1. closer'[inside'] = "returned" /\ inside' # NoCloser
      BY <1>6, <2>2
    <3>2. QED
      BY <1>6, <2>2, <3>1 DEF Proxy!Enter
  <2>3. QED
    BY <1>6, <2>1, <2>2 DEF Proxy!Enter
<1>7. ASSUME NEW c \in ProxyClosers, Proxy!CloseStdin(c) PROVE ProxyInv'
  BY <1>7 DEF Proxy!CloseStdin
<1>8. ASSUME NEW c \in ProxyClosers, Proxy!CloseStdout(c) PROVE ProxyInv'
  BY <1>8 DEF Proxy!CloseStdout
<1>9. ASSUME NEW c \in ProxyClosers, Proxy!GraceEnds(c) PROVE ProxyInv'
  BY <1>9 DEF Proxy!GraceEnds
<1>10. ASSUME NEW c \in ProxyClosers, Proxy!Kill(c) PROVE ProxyInv'
  BY <1>10 DEF Proxy!Kill
<1>11. ASSUME NEW c \in ProxyClosers, Proxy!Exited(c) PROVE ProxyInv'
  BY <1>11 DEF Proxy!Exited
<1>12. CASE Proxy!Reaps
  BY <1>12 DEF Proxy!Reaps
<1>13. CASE Proxy!Copied
  BY <1>13 DEF Proxy!Copied
<1>14. CASE UNCHANGED proxyVars
  BY <1>14 DEF proxyVars
<1>15. QED
  BY <1>1, <1>2, <1>3, <1>4, <1>5, <1>6, <1>7, <1>8, <1>9, <1>10, <1>11, <1>12, <1>13, <1>14
     DEF Proxy!Next, Proxy!CloseStep, Proxy!Waiter

LEMMA ProxyReaped == ProxyInv => Proxy!ProxyIsReaped
  BY DEF ProxyInv, Proxy!ProxyTypeOK, Proxy!ProxyIsReaped
-----------------------------------------------------------------------------
(* The measuring of what is to be moved.                                   *)

Ends(list) == {Measured!End(list[i]) : i \in DOMAIN list}
Frame == [path : Seq(Measured!Entries), left : SUBSET Measured!Entries]
Wanted == Measured!Directories \union Measured!FilesToMove

\* Entries of S by their own paths, none of them twice.
Listed(list, S) ==
    /\ list \in Seq(Seq(Measured!Entries))
    /\ \A i \in DOMAIN list : Measured!InTree(list[i]) /\ Measured!End(list[i]) \in S
    /\ \A i, j \in DOMAIN list : Measured!End(list[i]) = Measured!End(list[j]) => i = j

\* What is planned so far: all of it in directories that were, and before it.
Lists(d, f) ==
    /\ Listed(d, {0} \union Measured!Directories) /\ Listed(f, Measured!FilesToMove)
    /\ d # <<>> => 0 \in Ends(d)
    /\ \A e \in Measured!Entries : e \in Ends(d) \union Ends(f) => parent[e] \in Ends(d)
    /\ \A i \in DOMAIN d : d[i] # <<>> => \E j \in 1 .. i - 1 : d[j] = Measured!Front(d[i])
    /\ \A i \in DOMAIN f : \E j \in DOMAIN d : d[j] = Measured!Front(f[i])

\* A call of the recursion is for a directory that is planned, and has left what is in
\* it and is not.
FrameOK(frame, d, f) ==
    /\ Measured!InTree(frame.path) /\ Measured!Resolve(frame.path) = Measured!End(frame.path)
    /\ \E j \in DOMAIN d : d[j] = frame.path
    /\ \A e \in frame.left :
          parent[e] = Measured!End(frame.path) /\ e \notin Ends(d) \union Ends(f)

\* The calls go down the tree, which is what bounds them.
Frames(s, d, f) ==
    /\ s \in Seq(Frame)
    /\ \A k \in DOMAIN s : FrameOK(s[k], d, f) /\ k <= Measured!End(s[k].path) + 1
    /\ \A j, k \in DOMAIN s : j < k => Measured!End(s[j].path) < Measured!End(s[k].path)

\* Nothing that is wanted of a directory that was read is forgotten.
Complete(s, d, f) ==
    \A e \in Wanted : parent[e] \in Ends(d) =>
        \/ e \in Ends(d) \union Ends(f)
        \/ \E k \in DOMAIN s : e \in s[k].left

\* Entries are numbered from the top of the tree down.
Tree ==
    /\ parent \in [Measured!Entries -> 0 .. MaxEntries]
    /\ kind \in [Measured!Entries -> Measured!Kinds]
    /\ \A e \in Measured!Entries : parent[e] # 0 => parent[e] < e /\ kind[parent[e]] = "dir"

-----------------------------------------------------------------------------
LEMMA FrontLast ==
    ASSUME NEW S, NEW s \in Seq(S), NEW x \in S
    PROVE  /\ Append(s, x) \in Seq(S) /\ Append(s, x) # <<>>
           /\ Measured!Front(Append(s, x)) = s /\ Measured!Last(Append(s, x)) = x
  BY DEF Measured!Front, Measured!Last

LEMMA FrontShorter ==
    ASSUME NEW S, NEW s \in Seq(S), s # <<>>
    PROVE  /\ Measured!Front(s) \in Seq(S) /\ Len(Measured!Front(s)) = Len(s) - 1
           /\ \A k \in 1 .. Len(s) - 1 : Measured!Front(s)[k] = s[k]
           /\ Measured!Last(s) = s[Len(s)] /\ Len(s) \in DOMAIN s
<1> DEFINE n == Len(s) - 1
           front == SubSeq(s, 1, n)
<1>1. n \in Nat /\ DOMAIN s = 1 .. n + 1 /\ Len(s) = n + 1
  OBVIOUS
<1>2. \A k \in 1 .. n : s[k] \in S
  BY <1>1
<1>3. Measured!Front(s) = front
  BY DEF Measured!Front
<1> HIDE DEF n
<1>4. /\ front \in Seq(S) /\ Len(front) = IF 1 <= n THEN n - 1 + 1 ELSE 0
      /\ \A k \in 1 .. n - 1 + 1 : front[k] = s[1 + k - 1]
  BY <1>1, <1>2, SubSeqProperties
<1> HIDE DEF front
<1>5. front \in Seq(S) /\ Len(front) = n /\ \A k \in 1 .. n : front[k] = s[k]
  BY <1>1, <1>4
<1>6. Measured!Last(s) = s[Len(s)] /\ Len(s) \in DOMAIN s
  BY <1>1 DEF Measured!Last
<1>7. QED
  BY <1>1, <1>3, <1>5, <1>6 DEF n

\* A path one entry longer.
LEMMA Deeper ==
    ASSUME MaxEntries \in Nat, NEW q \in Seq(Measured!Entries), Measured!InTree(q),
           NEW e \in Measured!Entries, parent[e] = Measured!End(q)
    PROVE  LET p == Append(q, e)
           IN  /\ p \in Seq(Measured!Entries) /\ p # <<>> /\ Measured!Front(p) = q
               /\ Measured!InTree(p) /\ Measured!End(p) = e
<1> DEFINE p == Append(q, e)
<1>1. /\ p \in Seq(Measured!Entries) /\ p # <<>> /\ Measured!Front(p) = q /\ Measured!Last(p) = e
      /\ Len(p) = Len(q) + 1 /\ Len(q) \in Nat
  BY FrontLast
<1>2. Measured!End(p) = e
  BY <1>1 DEF Measured!End
<1>3. ASSUME NEW i \in DOMAIN p
      PROVE  parent[p[i]] = (IF i = 1 THEN 0 ELSE p[i - 1])
  <2>1. i \in 1 .. Len(q) + 1
    BY <1>1
  <2>2. CASE i \in 1 .. Len(q)
    <3>1. p[i] = q[i] /\ (i # 1 => p[i - 1] = q[i - 1])
      BY <2>2
    <3>2. QED
      BY <2>2, <3>1 DEF Measured!InTree
  <2>3. CASE i = Len(q) + 1
    <3>1. p[i] = e
      BY <2>3
    <3>2. CASE q = <<>>
      BY <2>3, <3>1, <3>2 DEF Measured!End
    <3>3. CASE q # <<>>
      <4>1. Measured!End(q) = q[Len(q)]
        BY <3>3 DEF Measured!End, Measured!Last
      <4>2. i # 1 /\ p[i - 1] = q[Len(q)]
        BY <2>3, <3>3
      <4>3. QED
        BY <3>1, <4>1, <4>2
    <3>4. QED
      BY <3>2, <3>3
  <2>4. QED
    BY <2>1, <2>2, <2>3
<1>4. Measured!InTree(p)
  BY <1>3 DEF Measured!InTree
<1>5. QED
  BY <1>1, <1>2, <1>4

\* A list with one path more.
LEMMA Recorded ==
    ASSUME NEW S, NEW list, Listed(list, S), NEW p \in Seq(Measured!Entries),
           Measured!InTree(p), Measured!End(p) \in S, Measured!End(p) \notin Ends(list)
    PROVE  /\ Listed(Append(list, p), S)
           /\ Ends(Append(list, p)) = Ends(list) \union {Measured!End(p)}
           /\ Len(Append(list, p)) = Len(list) + 1 /\ Append(list, p)[Len(list) + 1] = p
           /\ \A i \in DOMAIN list : i \in DOMAIN Append(list, p) /\ Append(list, p)[i] = list[i]
<1> DEFINE longer == Append(list, p)
<1>1. list \in Seq(Seq(Measured!Entries)) /\ Len(list) \in Nat
  BY DEF Listed
<1>2. /\ longer \in Seq(Seq(Measured!Entries)) /\ Len(longer) = Len(list) + 1
      /\ longer[Len(list) + 1] = p
      /\ \A i \in DOMAIN list : i \in DOMAIN longer /\ longer[i] = list[i]
      /\ \A i \in DOMAIN longer : i \in DOMAIN list \/ i = Len(list) + 1
      /\ Len(list) + 1 \in DOMAIN longer
  BY <1>1
<1> HIDE DEF longer
<1>3. \A i \in DOMAIN longer : Measured!InTree(longer[i]) /\ Measured!End(longer[i]) \in S
  BY <1>2 DEF Listed
<1>4. \A i \in DOMAIN list : Measured!End(list[i]) # Measured!End(p)
  BY DEF Ends
<1>5. \A i, j \in DOMAIN longer : Measured!End(longer[i]) = Measured!End(longer[j]) => i = j
  BY <1>2, <1>4 DEF Listed
<1>6. Ends(longer) = Ends(list) \union {Measured!End(p)}
  BY <1>2 DEF Ends
<1>7. QED
  BY <1>2, <1>3, <1>5, <1>6 DEF Listed, longer

LEMMA Bounded == MaxEntries \in Nat
  BY OperationsAssumption DEF OperationsAssumption, Measured!MaxEntriesAssumption

LEMMA EndIsNumber ==
    ASSUME NEW q \in Seq(Measured!Entries)
    PROVE  Measured!End(q) \in 0 .. MaxEntries /\ (q # <<>> => Measured!End(q) \in Measured!Entries)
<1>1. CASE q = <<>>
  BY <1>1, Bounded DEF Measured!End
<1>2. CASE q # <<>>
  <2>1. q[Len(q)] \in Measured!Entries
    BY <1>2
  <2>2. QED
    BY <1>2, <2>1, Bounded DEF Measured!End, Measured!Last, Measured!Entries
<1>3. QED
  BY <1>1, <1>2

LEMMA FrameEnd ==
    ASSUME NEW s \in Seq(Frame), NEW k \in DOMAIN s
    PROVE  s[k].path \in Seq(Measured!Entries) /\ Measured!End(s[k].path) \in Nat
<1>1. s[k] \in Frame
  OBVIOUS
<1>2. s[k].path \in Seq(Measured!Entries)
  BY <1>1 DEF Frame
<1>3. QED
  BY <1>2, EndIsNumber, Bounded

LEMMA Uppermost ==
    ASSUME NEW d, NEW f, Frames(stack, d, f), stack # <<>>
    PROVE  /\ Len(stack) \in DOMAIN stack /\ Measured!Top = stack[Len(stack)]
           /\ Measured!Top \in Frame /\ FrameOK(Measured!Top, d, f)
<1>1. stack \in Seq(Frame)
  BY DEF Frames
<1>2. Measured!Top = stack[Len(stack)] /\ Len(stack) \in DOMAIN stack
  BY <1>1, FrontShorter DEF Measured!Top
<1>3. QED
  BY <1>1, <1>2 DEF Frames

\* The caller's frame with one entry behind it: only that entry is gone.
LEMMA LeftBehind ==
    ASSUME NEW d, NEW f, Frames(stack, d, f), stack # <<>>, NEW e \in Measured!Top.left
    PROVE  LET s == Measured!Behind(e)
           IN  /\ s \in Seq(Frame) /\ Len(s) = Len(stack)
               /\ \A k \in DOMAIN s :
                     /\ s[k].path = stack[k].path /\ s[k].left \subseteq stack[k].left
                     /\ e \notin s[k].left
                     /\ \A x \in stack[k].left : x # e => x \in s[k].left
<1> DEFINE s == Measured!Behind(e)
           new == [Measured!Top EXCEPT !.left = @ \ {e}]
           n == Len(stack)
<1>1. stack \in Seq(Frame) /\ n \in Nat /\ n # 0 /\ DOMAIN stack = 1 .. n
  BY DEF Frames
<1>2. Measured!Top = stack[n] /\ Measured!Top \in Frame /\ FrameOK(Measured!Top, d, f)
  BY Uppermost
<1>3. /\ new \in Frame /\ new.path = Measured!Top.path /\ new.left = Measured!Top.left \ {e}
  BY <1>2, SMTT(20) DEF Frame
<1>4. /\ Measured!Front(stack) \in Seq(Frame) /\ Len(Measured!Front(stack)) = n - 1
      /\ \A k \in 1 .. n - 1 : Measured!Front(stack)[k] = stack[k]
  BY <1>1, FrontShorter
<1>5. s = Append(Measured!Front(stack), new)
  BY DEF Measured!Behind
<1> HIDE DEF s, new, n
<1>6. /\ s \in Seq(Frame) /\ Len(s) = n /\ s[n] = new
      /\ \A k \in 1 .. n - 1 : s[k] = stack[k]
  BY <1>1, <1>3, <1>4, <1>5, AppendProperties
<1>7. ASSUME NEW k \in 1 .. n - 1
      PROVE  e \notin stack[k].left
  <2>1. FrameOK(stack[k], d, f)
    BY <1>1, <1>7 DEF Frames
  <2>2. Measured!End(stack[k].path) < Measured!End(stack[n].path)
    BY <1>1, <1>7 DEF Frames
  <2>3. Measured!Resolve(stack[k].path) = Measured!End(stack[k].path)
    BY <2>1 DEF FrameOK
  <2>4. parent[e] = Measured!End(stack[n].path)
    BY <1>2 DEF FrameOK
  <2>5. CASE e \in stack[k].left
    <3>1. parent[e] = Measured!End(stack[k].path)
      BY <2>1, <2>5 DEF FrameOK
    <3>2. \A k1 \in DOMAIN stack : Measured!End(stack[k1].path) \in Nat
      BY <1>1, FrameEnd
    <3>3. QED
      BY <1>1, <1>7, <2>2, <2>4, <3>1, <3>2
  <2>6. QED
    BY <2>5
<1>8. ASSUME NEW k \in DOMAIN s
      PROVE  /\ s[k].path = stack[k].path /\ s[k].left \subseteq stack[k].left
             /\ e \notin s[k].left
             /\ \A x \in stack[k].left : x # e => x \in s[k].left
  <2>1. k \in 1 .. n - 1 \/ k = n
    BY <1>1, <1>6
  <2>2. CASE k = n
    BY <1>2, <1>3, <1>6, <2>2
  <2>3. CASE k \in 1 .. n - 1
    BY <1>6, <1>7, <2>3
  <2>4. QED
    BY <2>1, <2>2, <2>3
<1>9. QED
  BY <1>6, <1>8 DEF s, n

\* Frames stay good when they have less left and the plan has more, but not of that.
LEMMA Kept ==
    ASSUME NEW s, NEW d, NEW f, Frames(s, d, f),
           NEW s1 \in Seq(Frame), Len(s1) = Len(s), NEW d1, NEW f1,
           \A k \in DOMAIN s1 : /\ s1[k].path = s[k].path
                                /\ s1[k].left \subseteq s[k].left
                                /\ s1[k].left \intersect (Ends(d1) \union Ends(f1)) = {},
           \A j \in DOMAIN d : \E i \in DOMAIN d1 : d1[i] = d[j]
    PROVE  Frames(s1, d1, f1)
<1>1. s \in Seq(Frame) /\ DOMAIN s1 = DOMAIN s
  BY DEF Frames
<1>2. ASSUME NEW k \in DOMAIN s1
      PROVE  FrameOK(s1[k], d1, f1) /\ k <= Measured!End(s1[k].path) + 1
  <2>1. FrameOK(s[k], d, f) /\ k <= Measured!End(s[k].path) + 1
    BY <1>1, <1>2 DEF Frames
  <2>2. s1[k].path = s[k].path /\ s1[k].left \subseteq s[k].left
        /\ s1[k].left \intersect (Ends(d1) \union Ends(f1)) = {}
    BY <1>2
  <2>3. \E j \in DOMAIN d1 : d1[j] = s1[k].path
    BY <2>1, <2>2 DEF FrameOK
  <2>4. \A e \in s1[k].left :
          parent[e] = Measured!End(s1[k].path) /\ e \notin Ends(d1) \union Ends(f1)
    BY <2>1, <2>2 DEF FrameOK
  <2>5. QED
    BY <2>1, <2>2, <2>3, <2>4 DEF FrameOK
<1>3. \A j, k \in DOMAIN s1 : j < k => Measured!End(s1[j].path) < Measured!End(s1[k].path)
  BY <1>1 DEF Frames
<1>4. QED
  BY <1>2, <1>3 DEF Frames

\* The entry a call takes, and its path.
LEMMA Taken ==
    ASSUME Tree, Lists(dirs, items), Frames(stack, dirs, items),
           stack # <<>>, NEW e \in Measured!Top.left
    PROVE  LET p == Append(Measured!Top.path, e)
           IN  /\ e \in Measured!Entries /\ parent[e] \in Ends(dirs) /\ parent[e] < e
               /\ parent[e] = Measured!End(Measured!Top.path)
               /\ e \notin Ends(dirs) \union Ends(items)
               /\ p \in Seq(Measured!Entries) /\ p # <<>>
               /\ Measured!Front(p) = Measured!Top.path
               /\ Measured!InTree(p) /\ Measured!End(p) = e
               /\ \E j \in DOMAIN dirs : dirs[j] = Measured!Front(p)
<1>1. Measured!Top \in Frame /\ FrameOK(Measured!Top, dirs, items)
  BY Uppermost
<1>2. Measured!Top.path \in Seq(Measured!Entries) /\ e \in Measured!Entries
  BY <1>1 DEF Frame
<1>3. /\ Measured!InTree(Measured!Top.path) /\ parent[e] = Measured!End(Measured!Top.path)
      /\ e \notin Ends(dirs) \union Ends(items)
      /\ \E j \in DOMAIN dirs : dirs[j] = Measured!Top.path
  BY <1>1 DEF FrameOK
<1>4. parent[e] \in Ends(dirs)
  BY <1>3 DEF Ends
<1>5. parent[e] < e
  BY <1>2, Bounded DEF Tree, Measured!Entries
<1>6. QED
  BY <1>2, <1>3, <1>4, <1>5, Bounded, Deeper

\* What is on two lists when one of them is longer, and what is in what was read.
LEMMA FileTaken ==
    ASSUME Tree, Lists(dirs, items), Frames(stack, dirs, items),
           stack # <<>>, NEW e \in Measured!Top.left, e \in Measured!FilesToMove
    PROVE  LET f == Append(items, Append(Measured!Top.path, e))
           IN  /\ Lists(dirs, f) /\ Frames(Measured!Behind(e), dirs, f)
               /\ Complete(stack, dirs, items) => Complete(Measured!Behind(e), dirs, f)
<1> DEFINE p == Append(Measured!Top.path, e)
           f == Append(items, p)
           s == Measured!Behind(e)
<1>1. /\ e \in Measured!Entries /\ parent[e] \in Ends(dirs) /\ e \notin Ends(dirs) \union Ends(items)
      /\ p \in Seq(Measured!Entries) /\ Measured!InTree(p) /\ Measured!End(p) = e
      /\ \E j \in DOMAIN dirs : dirs[j] = Measured!Front(p)
  BY Taken
<1>2. /\ s \in Seq(Frame) /\ Len(s) = Len(stack)
      /\ \A k \in DOMAIN s :
            /\ s[k].path = stack[k].path /\ s[k].left \subseteq stack[k].left
            /\ e \notin s[k].left
            /\ \A x \in stack[k].left : x # e => x \in s[k].left
  BY LeftBehind
<1> HIDE DEF p, s
<1>3. Listed(items, Measured!FilesToMove)
  BY DEF Lists
<1>4. /\ Listed(f, Measured!FilesToMove) /\ Ends(f) = Ends(items) \union {e}
      /\ Len(f) = Len(items) + 1 /\ f[Len(items) + 1] = p
      /\ \A i \in DOMAIN items : i \in DOMAIN f /\ f[i] = items[i]
  BY <1>1, <1>3, Recorded
<1> HIDE DEF f
<1>5. items \in Seq(Seq(Measured!Entries)) /\ f \in Seq(Seq(Measured!Entries))
  BY <1>3, <1>4 DEF Listed
<1>6. \A i \in DOMAIN f : \E j \in DOMAIN dirs : dirs[j] = Measured!Front(f[i])
  <2>1. \A i \in DOMAIN f : i \in DOMAIN items \/ i = Len(items) + 1
    BY <1>4, <1>5
  <2>2. QED
    BY <1>1, <1>4, <2>1 DEF Lists
<1>7. Lists(dirs, f)
  BY <1>1, <1>4, <1>6 DEF Lists
<1>8. Frames(s, dirs, f)
  <2>1. stack \in Seq(Frame) /\ DOMAIN s = DOMAIN stack
    BY <1>2 DEF Frames
  <2>2. ASSUME NEW k \in DOMAIN s
        PROVE  s[k].left \intersect (Ends(dirs) \union Ends(f)) = {}
    <3>1. FrameOK(stack[k], dirs, items)
      BY <2>1, <2>2 DEF Frames
    <3>2. QED
      BY <1>2, <1>4, <2>2, <3>1 DEF FrameOK
  <2>3. QED
    BY <1>2, <2>2, Kept
<1>9. ASSUME Complete(stack, dirs, items) PROVE Complete(s, dirs, f)
  <2>1. stack \in Seq(Frame) /\ DOMAIN s = DOMAIN stack
    BY <1>2 DEF Frames
  <2>2. ASSUME NEW x \in Wanted, parent[x] \in Ends(dirs)
        PROVE  x \in Ends(dirs) \union Ends(f) \/ \E k \in DOMAIN s : x \in s[k].left
    <3>1. x \in Ends(dirs) \union Ends(items) \/ \E k \in DOMAIN stack : x \in stack[k].left
      BY <1>9, <2>2 DEF Complete
    <3>2. QED
      BY <1>2, <1>4, <2>1, <3>1
  <2>3. QED
    BY <2>2 DEF Complete
<1>10. QED
  BY <1>7, <1>8, <1>9 DEF f, p, s

LEMMA OverPassed ==
    ASSUME Tree, Lists(dirs, items), Frames(stack, dirs, items), Complete(stack, dirs, items),
           stack # <<>>, NEW e \in Measured!Top.left, e \notin Wanted
    PROVE  /\ Frames(Measured!Behind(e), dirs, items)
           /\ Complete(Measured!Behind(e), dirs, items)
<1> DEFINE s == Measured!Behind(e)
<1>1. /\ s \in Seq(Frame) /\ Len(s) = Len(stack)
      /\ \A k \in DOMAIN s :
            /\ s[k].path = stack[k].path /\ s[k].left \subseteq stack[k].left
            /\ e \notin s[k].left
            /\ \A x \in stack[k].left : x # e => x \in s[k].left
  BY LeftBehind
<1> HIDE DEF s
<1>2. stack \in Seq(Frame) /\ DOMAIN s = DOMAIN stack
  BY <1>1 DEF Frames
<1>3. \A k \in DOMAIN s : s[k].left \intersect (Ends(dirs) \union Ends(items)) = {}
  BY <1>1, <1>2 DEF Frames, FrameOK
<1>4. Frames(s, dirs, items)
  BY <1>1, <1>3, Kept
<1>5. Complete(s, dirs, items)
  BY <1>1, <1>2 DEF Complete
<1>6. QED
  BY <1>4, <1>5 DEF s

\* A directory more to be made.
LEMMA DirTaken ==
    ASSUME Tree, Lists(dirs, items), Frames(stack, dirs, items),
           stack # <<>>, NEW e \in Measured!Top.left, kind[e] = "dir"
    PROVE  LET p == Append(Measured!Top.path, e)
           IN  /\ Lists(Append(dirs, p), items)
               /\ Ends(Append(dirs, p)) = Ends(dirs) \union {e}
               /\ \E j \in DOMAIN Append(dirs, p) : Append(dirs, p)[j] = p
               /\ \A i \in DOMAIN dirs :
                     \E j \in DOMAIN Append(dirs, p) : Append(dirs, p)[j] = dirs[i]
               /\ Frames(Measured!Behind(e), Append(dirs, p), items)
<1> DEFINE p == Append(Measured!Top.path, e)
           d == Append(dirs, p)
           s == Measured!Behind(e)
           S == {0} \union Measured!Directories
           n == Len(dirs)
<1>1. /\ e \in Measured!Entries /\ parent[e] \in Ends(dirs) /\ e \notin Ends(dirs) \union Ends(items)
      /\ p \in Seq(Measured!Entries) /\ Measured!InTree(p) /\ Measured!End(p) = e
      /\ \E j \in DOMAIN dirs : dirs[j] = Measured!Front(p)
  BY Taken
<1>2. /\ s \in Seq(Frame) /\ Len(s) = Len(stack)
      /\ \A k \in DOMAIN s :
            /\ s[k].path = stack[k].path /\ s[k].left \subseteq stack[k].left
            /\ e \notin s[k].left
  BY LeftBehind
<1>3. e \in S
  BY <1>1 DEF Measured!Directories
<1> HIDE DEF p, s
<1>4. Listed(dirs, S)
  BY DEF Lists
<1> HIDE DEF S
<1>5. /\ Listed(d, S) /\ Ends(d) = Ends(dirs) \union {e}
      /\ Len(d) = n + 1 /\ d[n + 1] = p
      /\ \A i \in DOMAIN dirs : i \in DOMAIN d /\ d[i] = dirs[i]
  BY <1>1, <1>3, <1>4, Recorded
<1> HIDE DEF d
<1>6. /\ n \in Nat /\ DOMAIN dirs = 1 .. n /\ DOMAIN d = 1 .. n + 1
  <2>1. dirs \in Seq(Seq(Measured!Entries)) /\ d \in Seq(Seq(Measured!Entries))
    BY <1>4, <1>5 DEF Listed
  <2>2. QED
    BY <1>5, <2>1
<1> HIDE DEF n
<1>7. Lists(d, items)
  <2>1. 0 \in Ends(d)
    BY <1>1, <1>5, <1>6 DEF Lists
  <2>2. ASSUME NEW i \in DOMAIN d, d[i] # <<>>
        PROVE  \E j \in 1 .. i - 1 : d[j] = Measured!Front(d[i])
    <3>1. CASE i \in DOMAIN dirs
      <4>1. PICK j \in 1 .. i - 1 : dirs[j] = Measured!Front(dirs[i])
        BY <1>5, <2>2, <3>1 DEF Lists
      <4>2. j \in DOMAIN dirs
        BY <1>6, <3>1
      <4>3. QED
        BY <1>5, <3>1, <4>1, <4>2
    <3>2. CASE i = n + 1
      <4>1. PICK j \in DOMAIN dirs : dirs[j] = Measured!Front(p)
        BY <1>1
      <4>2. j \in 1 .. i - 1
        BY <1>6, <3>2
      <4>3. QED
        BY <1>5, <3>2, <4>1, <4>2
    <3>3. QED
      BY <1>6, <3>1, <3>2
  <2>3. \A x \in Measured!Entries : x \in Ends(d) \union Ends(items) => parent[x] \in Ends(d)
    BY <1>1, <1>5 DEF Lists
  <2>4. \A i \in DOMAIN items : \E j \in DOMAIN d : d[j] = Measured!Front(items[i])
    BY <1>5 DEF Lists
  <2>5. Listed(items, Measured!FilesToMove)
    BY DEF Lists
  <2>6. QED
    BY <1>5, <2>1, <2>2, <2>3, <2>4, <2>5 DEF Lists, S
<1>8. Frames(s, d, items)
  <2>1. stack \in Seq(Frame) /\ DOMAIN s = DOMAIN stack
    BY <1>2 DEF Frames
  <2>2. ASSUME NEW k \in DOMAIN s
        PROVE  s[k].left \intersect (Ends(d) \union Ends(items)) = {}
    <3>1. FrameOK(stack[k], dirs, items)
      BY <2>1, <2>2 DEF Frames
    <3>2. QED
      BY <1>2, <1>5, <2>2, <3>1 DEF FrameOK
  <2>3. QED
    BY <1>2, <1>5, <2>2, Kept
<1>9. n + 1 \in DOMAIN d
  BY <1>6
<1>10. QED
  BY <1>5, <1>7, <1>8, <1>9 DEF d, p, s

\* The call for it, on top of its caller's.
LEMMA DirEntered ==
    ASSUME Tree, Lists(dirs, items), Frames(stack, dirs, items),
           stack # <<>>, NEW e \in Measured!Top.left, kind[e] = "dir"
    PROVE  LET p == Append(Measured!Top.path, e)
               s == Append(Measured!Behind(e), [path |-> p, left |-> Measured!Inside(p)])
           IN  /\ Frames(s, Append(dirs, p), items)
               /\ Complete(stack, dirs, items) => Complete(s, Append(dirs, p), items)
<1> DEFINE p == Append(Measured!Top.path, e)
           d == Append(dirs, p)
           b == Measured!Behind(e)
           new == [path |-> p, left |-> Measured!Inside(p)]
           s == Append(b, new)
           n == Len(stack)
<1>1. /\ e \in Measured!Entries /\ parent[e] < e
      /\ parent[e] = Measured!End(Measured!Top.path)
      /\ e \notin Ends(dirs) \union Ends(items)
      /\ p \in Seq(Measured!Entries) /\ p # <<>> /\ Measured!InTree(p) /\ Measured!End(p) = e
  BY Taken
<1>2. /\ b \in Seq(Frame) /\ Len(b) = n
      /\ \A k \in DOMAIN b :
            /\ b[k].path = stack[k].path
            /\ \A x \in stack[k].left : x # e => x \in b[k].left
  BY LeftBehind
<1>3. /\ Ends(d) = Ends(dirs) \union {e} /\ Frames(b, d, items)
      /\ \E j \in DOMAIN d : d[j] = p
  BY DirTaken
<1>4. n \in DOMAIN stack /\ Measured!Top = stack[n] /\ n \in Nat /\ stack \in Seq(Frame)
      /\ DOMAIN stack = 1 .. n
  BY Uppermost DEF Frames
<1>5. Measured!Resolve(p) = e
  BY <1>1 DEF Measured!Resolve, Measured!End
<1>6. Measured!Inside(p) = {x \in Measured!Entries : parent[x] = e}
  BY <1>5 DEF Measured!Inside
<1> HIDE DEF p, d, b, n
<1>7. new \in Frame /\ new.path = p /\ new.left = {x \in Measured!Entries : parent[x] = e}
  BY <1>1, <1>6 DEF Frame
<1> HIDE DEF new
<1>8. /\ s \in Seq(Frame) /\ Len(s) = n + 1 /\ s[n + 1] = new
      /\ \A k \in 1 .. n : s[k] = b[k] /\ k \in DOMAIN b
      /\ DOMAIN s = 1 .. n + 1
  BY <1>2, <1>4, <1>7
<1> HIDE DEF s
<1>9. FrameOK(new, d, items)
  <2>1. ASSUME NEW x \in new.left
        PROVE  parent[x] = e /\ x \notin Ends(d) \union Ends(items)
    <3>1. x \in Measured!Entries /\ parent[x] = e
      BY <1>7
    <3>2. x # e
      BY <1>1, <3>1, Bounded DEF Measured!Entries
    <3>3. x \in Ends(dirs) \union Ends(items) => e \in Ends(dirs)
      BY <3>1 DEF Lists
    <3>4. QED
      BY <1>1, <1>3, <3>1, <3>2, <3>3
  <2>2. QED
    BY <1>1, <1>3, <1>5, <1>7, <2>1 DEF FrameOK
<1>10. \A k \in 1 .. n : k <= Measured!End(b[k].path) + 1 /\ Measured!End(b[k].path) <= parent[e]
  <2>1. ASSUME NEW k \in 1 .. n
        PROVE  k <= Measured!End(b[k].path) + 1 /\ Measured!End(b[k].path) <= parent[e]
    <3>1. k \in DOMAIN b /\ b[k].path = stack[k].path
      BY <1>2, <1>8
    <3>2. k <= Measured!End(b[k].path) + 1
      BY <1>3, <3>1 DEF Frames
    <3>3. stack[k].path \in Seq(Measured!Entries)
      BY <1>4, FrameEnd
    <3>4. Measured!End(stack[k].path) \in Nat
      BY <3>3, EndIsNumber, Bounded
    <3>5. k < n => Measured!End(stack[k].path) < Measured!End(stack[n].path)
      BY <1>4 DEF Frames
    <3>6. parent[e] = Measured!End(stack[n].path)
      BY <1>1, <1>4
    <3>7. stack[n].path \in Seq(Measured!Entries)
      BY <1>4, FrameEnd
    <3>8. Measured!End(stack[n].path) \in Nat
      BY <3>7, EndIsNumber, Bounded
    <3>9. QED
      BY <1>4, <3>1, <3>2, <3>4, <3>5, <3>6, <3>8
  <2>2. QED
    BY <2>1
<1>11. n \in 1 .. n /\ n + 1 <= e + 1 /\ e \in Nat
  <2>1. n \in 1 .. n /\ e \in Nat /\ parent[e] \in Nat
    <3>1. stack[n].path \in Seq(Measured!Entries)
      BY <1>4, FrameEnd
    <3>2. QED
      BY <1>1, <1>4, <3>1, EndIsNumber, Bounded DEF Measured!Entries
  <2>2. /\ n <= Measured!End(b[n].path) + 1 /\ Measured!End(b[n].path) <= parent[e]
        /\ Measured!End(b[n].path) \in Nat
    <3>1. b[n].path \in Seq(Measured!Entries)
      BY <1>2, <1>8, <2>1, FrameEnd
    <3>2. Measured!End(b[n].path) \in Nat
      BY <3>1, EndIsNumber, Bounded
    <3>3. QED
      BY <1>10, <2>1, <3>2
  <2>3. QED
    BY <1>1, <1>4, <2>1, <2>2
<1>12. \A j, k \in DOMAIN s : j < k => Measured!End(s[j].path) < Measured!End(s[k].path)
  <2>1. ASSUME NEW j \in DOMAIN s, NEW k \in DOMAIN s, j < k
        PROVE  Measured!End(s[j].path) < Measured!End(s[k].path)
    <3>1. j \in 1 .. n /\ s[j] = b[j] /\ j \in DOMAIN b
      BY <1>4, <1>8, <2>1
    <3>2. CASE k \in 1 .. n
      <4>1. s[k] = b[k] /\ k \in DOMAIN b
        BY <1>8, <3>2
      <4>2. QED
        BY <1>3, <2>1, <3>1, <4>1 DEF Frames
    <3>3. CASE k = n + 1
      <4>1. Measured!End(s[k].path) = e
        BY <1>1, <1>7, <1>8, <3>3
      <4>2. b[j].path \in Seq(Measured!Entries)
        BY <1>2, <3>1, FrameEnd
      <4>3. Measured!End(b[j].path) \in Nat /\ Measured!End(b[j].path) <= parent[e]
        BY <1>10, <3>1, <4>2, EndIsNumber, Bounded
      <4>4. parent[e] \in Nat
        <5>1. stack[n].path \in Seq(Measured!Entries)
          BY <1>4, FrameEnd
        <5>2. QED
          BY <1>1, <1>4, <5>1, EndIsNumber, Bounded
      <4>5. QED
        BY <1>1, <1>11, <3>1, <4>1, <4>3, <4>4
    <3>4. QED
      BY <1>4, <1>8, <3>2, <3>3
  <2>2. QED
    BY <2>1
<1>13. Frames(s, d, items)
  <2>1. ASSUME NEW k \in DOMAIN s
        PROVE  FrameOK(s[k], d, items) /\ k <= Measured!End(s[k].path) + 1
    <3>1. CASE k \in 1 .. n
      BY <1>3, <1>8, <3>1 DEF Frames
    <3>2. CASE k = n + 1
      BY <1>1, <1>7, <1>8, <1>9, <1>11, <3>2
    <3>3. QED
      BY <1>4, <1>8, <3>1, <3>2
  <2>2. QED
    BY <1>8, <1>12, <2>1 DEF Frames
<1>14. ASSUME Complete(stack, dirs, items) PROVE Complete(s, d, items)
  <2>1. ASSUME NEW x \in Wanted, parent[x] \in Ends(d)
        PROVE  x \in Ends(d) \union Ends(items) \/ \E k \in DOMAIN s : x \in s[k].left
    <3>1. CASE parent[x] = e
      <4>1. x \in new.left
        BY <1>7, <3>1 DEF Wanted, Measured!Directories, Measured!FilesToMove
      <4>2. n + 1 \in DOMAIN s /\ s[n + 1] = new
        BY <1>4, <1>8
      <4>3. QED
        BY <4>1, <4>2
    <3>2. CASE parent[x] \in Ends(dirs) /\ x # e
      <4>1. x \in Ends(dirs) \union Ends(items) \/ \E k \in DOMAIN stack : x \in stack[k].left
        BY <1>14, <3>2 DEF Complete
      <4>2. ASSUME NEW k \in DOMAIN stack, x \in stack[k].left
            PROVE  k \in DOMAIN s /\ x \in s[k].left
        <5>1. k \in 1 .. n /\ k \in DOMAIN s
          BY <1>4, <1>8, <4>2
        <5>2. QED
          BY <1>2, <1>8, <3>2, <4>2, <5>1
      <4>3. QED
        BY <1>3, <4>1, <4>2
    <3>3. QED
      BY <1>3, <2>1, <3>1, <3>2
  <2>2. QED
    BY <2>1 DEF Complete
<1>15. QED
  BY <1>13, <1>14 DEF s, d, b, p, new

\* A call that is done has forgotten nothing.
LEMMA Returned ==
    ASSUME Frames(stack, dirs, items), Complete(stack, dirs, items),
           stack # <<>>, Measured!Top.left = {}
    PROVE  /\ Frames(Measured!Front(stack), dirs, items)
           /\ Complete(Measured!Front(stack), dirs, items)
<1> DEFINE s == Measured!Front(stack)
           n == Len(stack)
<1>1. stack \in Seq(Frame) /\ n \in Nat /\ n # 0 /\ DOMAIN stack = 1 .. n
      /\ Measured!Top = stack[n]
  BY Uppermost, SMTT(20) DEF Frames
<1>2. /\ s \in Seq(Frame) /\ Len(s) = n - 1
      /\ \A k \in 1 .. n - 1 : s[k] = stack[k]
  BY <1>1, FrontShorter
<1> HIDE DEF s, n
<1>3. DOMAIN s = 1 .. n - 1 /\ \A k \in DOMAIN s : k \in DOMAIN stack /\ s[k] = stack[k]
  BY <1>1, <1>2
<1>4. Frames(s, dirs, items)
  BY <1>2, <1>3 DEF Frames
<1>5. \A x : \A k \in DOMAIN stack : x \in stack[k].left => k \in DOMAIN s /\ x \in s[k].left
  BY <1>1, <1>3
<1>6. Complete(s, dirs, items)
  BY <1>5 DEF Complete
<1>7. QED
  BY <1>4, <1>6 DEF s

-----------------------------------------------------------------------------
\* Where it lands is settled before anything is planned.
Landed ==
    /\ root = Measured!NoRoot =>
          dirs = <<>> /\ items = <<>> /\ stack = <<>> /\ outcome # "planned"
    /\ root # Measured!NoRoot =>
          /\ source # "nothing"
          /\ root = [at  |-> Measured!DirRoot,
                     own |-> source = "file" /\ (target # "path" \/ there = "dir")]
          /\ source = "dir" => dirs # <<>>
    /\ source # "file" => there = "nothing"

Walked ==
    /\ source = "dir" => /\ Lists(dirs, items) /\ Frames(stack, dirs, items)
                         /\ outcome # "error" => Complete(stack, dirs, items)
    /\ source # "dir" => dirs = <<>> /\ stack = <<>>

PlanInv == Measured!TransferPlanTypeOK /\ Tree /\ Landed /\ Walked

\* The tree stands still while it is walked.
LEMMA StandsStill ==
    ASSUME UNCHANGED <<parent, kind, walk>>, NEW d, NEW f, NEW s
    PROVE  /\ Tree' <=> Tree
           /\ Lists(d, f)' <=> Lists(d, f)
           /\ Frames(s, d, f)' <=> Frames(s, d, f)
           /\ Complete(s, d, f)' <=> Complete(s, d, f)
<1>1. parent' = parent /\ kind' = kind /\ walk' = walk
  OBVIOUS
<1>2. Tree' <=> Tree
  BY <1>1 DEF Tree, Measured!Entries, Measured!Kinds, Measured!FileKinds
<1>3. /\ Measured!Directories' = Measured!Directories
      /\ Measured!FilesToMove' = Measured!FilesToMove
      /\ Wanted' = Wanted
  BY <1>1 DEF Measured!Directories, Measured!FilesToMove, Measured!Entries, Wanted
<1>4. /\ \A q : Measured!InTree(q)' <=> Measured!InTree(q)
      /\ \A q : Measured!Resolve(q)' = Measured!Resolve(q)
      /\ \A q : Measured!End(q)' = Measured!End(q)
  BY <1>1 DEF Measured!InTree, Measured!End, Measured!Last, Measured!Resolve
<1>5. \A list, S : Listed(list, S)' <=> Listed(list, S)
  BY <1>4 DEF Listed
<1>6. Lists(d, f)' <=> Lists(d, f)
  BY <1>1, <1>3, <1>4, <1>5 DEF Lists, Ends
<1>7. \A frame : FrameOK(frame, d, f)' <=> FrameOK(frame, d, f)
  BY <1>1, <1>4 DEF FrameOK, Ends
<1>8. Frames(s, d, f)' <=> Frames(s, d, f)
  BY <1>4, <1>7 DEF Frames, Frame
<1>9. Complete(s, d, f)' <=> Complete(s, d, f)
  BY <1>1, <1>3, <1>4 DEF Complete, Ends
<1>10. QED
  BY <1>2, <1>6, <1>8, <1>9

LEMMA PlanInit == Measured!Init => PlanInv
<1> SUFFICES ASSUME Measured!Init PROVE PlanInv
  OBVIOUS
<1> USE Bounded DEF Measured!Init
<1>1. /\ parent \in [Measured!Entries -> 0 .. MaxEntries] /\ kind \in [Measured!Entries -> Measured!Kinds]
      /\ stack = <<>> /\ dirs = <<>> /\ items = <<>> /\ root = Measured!NoRoot /\ outcome = "walking"
  OBVIOUS
<1>2. Measured!TransferPlanTypeOK
  BY <1>1 DEF Measured!TransferPlanTypeOK
<1>3. Tree
  BY <1>1 DEF Tree
<1>4. Landed
  BY <1>1 DEF Landed
<1>5. Lists(dirs, items) /\ Frames(stack, dirs, items) /\ Complete(stack, dirs, items)
  <2>1. Ends(<<>>) = {}
    BY DEF Ends
  <2>2. Lists(<<>>, <<>>)
    BY <2>1 DEF Lists, Listed
  <2>3. Frames(<<>>, <<>>, <<>>)
    BY DEF Frames
  <2>4. Complete(<<>>, <<>>, <<>>)
    BY <2>1 DEF Complete
  <2>5. QED
    BY <1>1, <2>2, <2>3, <2>4
<1>6. QED
  BY <1>1, <1>2, <1>3, <1>4, <1>5 DEF PlanInv, Walked

\* The types that follow from the walk.
LEMMA WalkedTypes ==
    ASSUME NEW s, NEW d, NEW f, Lists(d, f), Frames(s, d, f)
    PROVE  /\ s \in Seq([path : Seq(Measured!Entries), left : SUBSET Measured!Entries])
           /\ Len(s) <= MaxEntries + 1
           /\ d \in Seq(Seq(Measured!Entries)) /\ f \in Seq(Seq(Measured!Entries))
<1>1. s \in Seq(Frame) /\ Len(s) \in Nat
  BY DEF Frames
<1>2. d \in Seq(Seq(Measured!Entries)) /\ f \in Seq(Seq(Measured!Entries))
  BY DEF Lists, Listed
<1>3. Len(s) <= MaxEntries + 1
  <2>1. CASE s = <<>>
    BY <2>1, Bounded
  <2>2. CASE s # <<>>
    <3>1. Len(s) \in DOMAIN s
      BY <1>1, <2>2
    <3>2. s[Len(s)].path \in Seq(Measured!Entries)
      BY <1>1, <3>1, FrameEnd
    <3>3. Len(s) <= Measured!End(s[Len(s)].path) + 1
      BY <3>1 DEF Frames
    <3>4. QED
      BY <1>1, <3>2, <3>3, EndIsNumber, Bounded
  <2>3. QED
    BY <2>1, <2>2
<1>4. QED
  BY <1>1, <1>2, <1>3 DEF Frame

\* A step that leaves what was given alone keeps the invariant if it keeps the walk.
LEMMA PlanStep ==
    ASSUME PlanInv, UNCHANGED Measured!given, source = "dir",
           Lists(dirs', items'), Frames(stack', dirs', items'),
           outcome' # "error" => Complete(stack', dirs', items'),
           outcome' \in {"walking", "planned", "error"}, stack' # <<>> => outcome' = "walking",
           dirs' # <<>>, root' = [at |-> Measured!DirRoot, own |-> FALSE]
    PROVE  PlanInv'
<1>1. /\ walk' = walk /\ source' = source /\ target' = target /\ there' = there
      /\ parent' = parent /\ kind' = kind
  BY DEF Measured!given
<1>2. Tree' /\ Lists(dirs, items)' /\ Frames(stack, dirs, items)'
      /\ (outcome' # "error" => Complete(stack, dirs, items)')
  BY <1>1, StandsStill DEF PlanInv
<1>3. Walked'
  BY <1>1, <1>2 DEF Walked
<1>4. root' \in Measured!Landings /\ root' # Measured!NoRoot
  BY DEF Measured!DirRoot, Measured!NoRoot, Measured!Landings
<1>5. Landed'
  <2>1. Measured!DirRoot' = Measured!DirRoot /\ Measured!NoRoot' = Measured!NoRoot
    BY <1>1 DEF Measured!DirRoot, Measured!NoRoot
  <2>2. QED
    BY <1>1, <1>4, <2>1 DEF Landed, PlanInv
<1>6. Measured!TransferPlanTypeOK'
  <2>1. /\ stack' \in Seq([path : Seq(Measured!Entries), left : SUBSET Measured!Entries])
        /\ Len(stack') <= MaxEntries + 1
        /\ dirs' \in Seq(Seq(Measured!Entries)) /\ items' \in Seq(Seq(Measured!Entries))
    BY WalkedTypes
  <2>2. /\ walk' \in {"upload", "download"}
        /\ source' \in {"dir", "file", "nothing"} /\ target' \in Measured!Targets
        /\ there' \in {"nothing", "file", "dir", "unknown"}
    BY <1>1 DEF PlanInv, Measured!TransferPlanTypeOK
  <2>3. parent' \in [Measured!Entries -> 0 .. MaxEntries] /\ kind' \in [Measured!Entries -> Measured!Kinds]
    BY <1>1 DEF PlanInv, Measured!TransferPlanTypeOK
  <2>4. root' \in Measured!Landings \union {Measured!NoRoot}
    BY <1>4
  <2>5. QED
    BY <2>1, <2>2, <2>3, <2>4 DEF Measured!TransferPlanTypeOK, Measured!Entries, Measured!Targets,
      Measured!Kinds, Measured!FileKinds, Measured!Landings, Measured!NoRoot
<1>7. QED
  BY <1>2, <1>3, <1>5, <1>6 DEF PlanInv

LEMMA PlanNext == PlanInv /\ [Measured!Next]_(Measured!vars) => PlanInv'
<1> SUFFICES ASSUME PlanInv, [Measured!Next]_(Measured!vars) PROVE PlanInv'
  OBVIOUS
<1>1. CASE Measured!BeginNothing
  <2>1. /\ walk' = walk /\ source' = source /\ target' = target /\ there' = there
        /\ parent' = parent /\ kind' = kind /\ root' = root /\ stack' = stack /\ dirs' = dirs
        /\ items' = items /\ outcome' = "error" /\ source = "nothing" /\ root = Measured!NoRoot
    BY <1>1 DEF Measured!BeginNothing, Measured!Unplanned, Measured!given
  <2>2. Tree' /\ Walked'
    BY <2>1, StandsStill DEF PlanInv, Walked
  <2>3. Landed'
    BY <2>1 DEF PlanInv, Landed, Measured!NoRoot
  <2>4. Measured!TransferPlanTypeOK'
    <3>1. stack' = <<>>
      BY <2>1 DEF PlanInv, Landed
    <3>2. QED
      BY <2>1, <3>1 DEF PlanInv, Measured!TransferPlanTypeOK, Measured!Entries, Measured!Targets,
         Measured!Kinds, Measured!FileKinds, Measured!Landings, Measured!NoRoot
  <2>5. QED
    BY <2>2, <2>3, <2>4 DEF PlanInv
<1>2. CASE Measured!BeginDir
  <2>1. /\ source = "dir" /\ root = Measured!NoRoot /\ UNCHANGED Measured!given
        /\ root' = [at |-> Measured!DirRoot, own |-> FALSE]
        /\ dirs' = Append(dirs, <<>>) /\ items' = items /\ outcome = "walking"
        /\ \/ /\ stack' = Append(<<>>, [path |-> <<>>, left |-> Measured!Inside(<<>>)])
              /\ outcome' = outcome
           \/ stack' = <<>> /\ outcome' = "error"
    BY <1>2 DEF Measured!BeginDir, Measured!Unplanned, Measured!Walk
  <2>2. dirs = <<>> /\ items = <<>> /\ stack = <<>>
    BY <2>1 DEF PlanInv, Landed
  <2>3. Lists(dirs, items)
    BY <2>1 DEF PlanInv, Walked
  <2>4. <<>> \in Seq(Measured!Entries) /\ Measured!InTree(<<>>) /\ Measured!End(<<>>) = 0
        /\ Measured!Resolve(<<>>) = 0
    BY DEF Measured!InTree, Measured!End, Measured!Resolve
  <2>5. Ends(dirs) = {} /\ Ends(items) = {}
    BY <2>2 DEF Ends
  <2>6. /\ Listed(dirs', {0} \union Measured!Directories) /\ Ends(dirs') = {0}
        /\ Len(dirs') = 1 /\ dirs'[1] = <<>> /\ dirs' \in Seq(Seq(Measured!Entries))
    <3>1. Listed(dirs, {0} \union Measured!Directories)
      BY <2>3 DEF Lists
    <3>2. Len(dirs) = 0 /\ 0 \notin Ends(dirs)
      BY <2>2, <2>5
    <3> DEFINE S == {0} \union Measured!Directories
    <3>3. 0 \in S
      OBVIOUS
    <3> HIDE DEF S
    <3>4. /\ Listed(Append(dirs, <<>>), S) /\ Ends(Append(dirs, <<>>)) = Ends(dirs) \union {0}
          /\ Len(Append(dirs, <<>>)) = Len(dirs) + 1 /\ Append(dirs, <<>>)[Len(dirs) + 1] = <<>>
      <4>1. Listed(dirs, S)
        BY <3>1 DEF S
      <4> DEFINE p == <<>>
      <4>2. /\ p \in Seq(Measured!Entries) /\ Measured!InTree(p) /\ Measured!End(p) \in S
            /\ Measured!End(p) \notin Ends(dirs) /\ Measured!End(p) = 0
        BY <2>4, <3>2, <3>3
      <4> HIDE DEF p
      <4>3. /\ Listed(Append(dirs, p), S) /\ Ends(Append(dirs, p)) = Ends(dirs) \union {0}
            /\ Len(Append(dirs, p)) = Len(dirs) + 1 /\ Append(dirs, p)[Len(dirs) + 1] = p
        BY <4>1, <4>2, Recorded
      <4>4. QED
        BY <4>3 DEF p
    <3>5. Listed(dirs', S) /\ Ends(dirs') = {0} /\ Len(dirs') = 1 /\ dirs'[1] = <<>>
      BY <2>1, <2>5, <3>2, <3>4
    <3>6. dirs' \in Seq(Seq(Measured!Entries))
      BY <3>5 DEF Listed
    <3>7. QED
      BY <3>5, <3>6 DEF S
  <2>7. DOMAIN dirs' = {1} /\ dirs' # <<>>
    BY <2>6
  <2>8. Lists(dirs', items')
    <3>1. Listed(items', Measured!FilesToMove) /\ DOMAIN items' = {} /\ Ends(items') = {}
      BY <2>1, <2>2, <2>3, <2>5 DEF Lists
    <3>2. \A e \in Measured!Entries : e # 0
      BY Bounded DEF Measured!Entries
    <3>3. QED
      BY <2>6, <2>7, <3>1, <3>2 DEF Lists
  <2>9. CASE stack' = <<>> /\ outcome' = "error"
    <3>1. Frames(stack', dirs', items')
      BY <2>9 DEF Frames
    <3>2. QED
      BY <2>1, <2>7, <2>8, <2>9, <3>1, PlanStep
  <2>10. CASE /\ stack' = Append(<<>>, [path |-> <<>>, left |-> Measured!Inside(<<>>)])
              /\ outcome' = outcome
    <3> DEFINE new == [path |-> <<>>, left |-> Measured!Inside(<<>>)]
    <3>1. new \in Frame /\ new.path = <<>> /\ new.left = {x \in Measured!Entries : parent[x] = 0}
      BY <2>4 DEF Frame, Measured!Inside
    <3> HIDE DEF new
    <3>2. stack' \in Seq(Frame) /\ DOMAIN stack' = {1} /\ stack'[1] = new /\ stack' # <<>>
      BY <2>10, <3>1 DEF new
    <3>3. FrameOK(new, dirs', items')
      <4>1. Ends(dirs') \union Ends(items') = {0}
        BY <2>1, <2>5, <2>6
      <4>2. \A x \in new.left : x # 0 /\ parent[x] = 0
        BY <3>1, Bounded DEF Measured!Entries
      <4>3. QED
        BY <2>4, <2>6, <2>7, <3>1, <4>1, <4>2 DEF FrameOK
    <3>4. Frames(stack', dirs', items')
      BY <2>4, <3>1, <3>2, <3>3 DEF Frames
    <3>5. Complete(stack', dirs', items')
      BY <2>6, <3>1, <3>2 DEF Complete, Wanted, Measured!Directories, Measured!FilesToMove
    <3>6. QED
      BY <2>1, <2>7, <2>8, <2>10, <3>2, <3>4, <3>5, PlanStep
  <2>11. QED
    BY <2>1, <2>9, <2>10
<1>3. CASE Measured!BeginFile
  <2>1. /\ walk' = walk /\ source' = source /\ target' = target /\ there' = there
        /\ parent' = parent /\ kind' = kind /\ stack' = stack /\ dirs' = dirs
        /\ items' = << <<>> >> /\ outcome' = "planned" /\ source = "file"
        /\ root' = [at |-> Measured!DirRoot, own |-> target # "path" \/ there = "dir"]
    BY <1>3 DEF Measured!BeginFile, Measured!given
  <2>2. dirs' = <<>> /\ stack' = <<>>
    BY <2>1 DEF PlanInv, Walked
  <2>3. Tree'
    BY <2>1, StandsStill DEF PlanInv
  <2>4. Walked'
    BY <2>1, <2>2 DEF Walked
  <2>5. root' \in Measured!Landings /\ root' # Measured!NoRoot
    BY <2>1 DEF Measured!DirRoot, Measured!NoRoot, Measured!Landings
  <2>6. Landed'
    <3>1. Measured!DirRoot' = Measured!DirRoot /\ Measured!NoRoot' = Measured!NoRoot
      BY <2>1 DEF Measured!DirRoot, Measured!NoRoot
    <3>2. QED
      BY <2>1, <2>5, <3>1 DEF Landed
  <2>7. Measured!TransferPlanTypeOK'
    <3>1. items' \in Seq(Seq(Measured!Entries))
      BY <2>1
    <3>2. QED
      BY <2>1, <2>2, <2>5, <3>1, Bounded DEF PlanInv, Measured!TransferPlanTypeOK, Measured!Entries,
        Measured!Targets, Measured!Kinds, Measured!FileKinds, Measured!Landings, Measured!NoRoot
  <2>8. QED
    BY <2>3, <2>4, <2>6, <2>7 DEF PlanInv
<1>4. ASSUME stack # <<>>
      PROVE  /\ source = "dir" /\ outcome = "walking" /\ dirs # <<>>
             /\ root = [at |-> Measured!DirRoot, own |-> FALSE]
             /\ Tree /\ Lists(dirs, items) /\ Frames(stack, dirs, items) /\ Complete(stack, dirs, items)
  <2>1. source = "dir" /\ outcome = "walking" /\ root # Measured!NoRoot
    BY <1>4 DEF PlanInv, Walked, Landed, Measured!TransferPlanTypeOK
  <2>2. QED
    BY <2>1 DEF PlanInv, Walked, Landed
<1>5. ASSUME NEW e \in Measured!Entries, Measured!TakeFile(e)
      PROVE  PlanInv'
  <2>1. /\ stack # <<>> /\ e \in Measured!Top.left /\ e \in Measured!FilesToMove
        /\ UNCHANGED Measured!given /\ root' = root /\ dirs' = dirs /\ outcome' = outcome
        /\ items' = Append(items, Append(Measured!Top.path, e)) /\ stack' = Measured!Behind(e)
    BY <1>5 DEF Measured!TakeFile, Measured!IsFile, Measured!FilesToMove
  <2>2. /\ Lists(dirs', items') /\ Frames(stack', dirs', items') /\ Complete(stack', dirs', items')
    BY <1>4, <2>1, FileTaken
  <2>3. QED
    BY <1>4, <2>1, <2>2, PlanStep
<1>6. ASSUME NEW e \in Measured!Entries, Measured!PassOver(e)
      PROVE  PlanInv'
  <2>1. /\ stack # <<>> /\ e \in Measured!Top.left /\ e \notin Wanted
        /\ UNCHANGED Measured!given /\ root' = root /\ dirs' = dirs /\ outcome' = outcome
        /\ items' = items /\ stack' = Measured!Behind(e)
    BY <1>6 DEF Measured!PassOver, Measured!IsFile, Measured!IsDir, Wanted, Measured!FilesToMove,
                Measured!Directories
  <2>2. /\ Lists(dirs', items') /\ Frames(stack', dirs', items') /\ Complete(stack', dirs', items')
    BY <1>4, <2>1, OverPassed
  <2>3. QED
    BY <1>4, <2>1, <2>2, PlanStep
<1>7. ASSUME NEW e \in Measured!Entries, Measured!TakeDir(e)
      PROVE  PlanInv'
  <2> DEFINE p == Append(Measured!Top.path, e)
             new == [path |-> p, left |-> Measured!Inside(p)]
  <2>1. /\ stack # <<>> /\ e \in Measured!Top.left /\ kind[e] = "dir"
        /\ UNCHANGED Measured!given /\ root' = root /\ dirs' = Append(dirs, p) /\ items' = items
        /\ \/ stack' = Append(Measured!Behind(e), new) /\ outcome' = outcome
           \/ stack' = <<>> /\ outcome' = "error"
    BY <1>7 DEF Measured!TakeDir, Measured!IsDir, Measured!Walk
  <2>2. Lists(dirs', items') /\ \E j \in DOMAIN dirs' : dirs'[j] = p
    BY <1>4, <2>1, DirTaken
  <2>3. dirs' # <<>>
    BY <2>2
  <2>4. CASE stack' = Append(Measured!Behind(e), new) /\ outcome' = outcome
    <3>1. Frames(stack', dirs', items') /\ Complete(stack', dirs', items')
      BY <1>4, <2>1, <2>4, DirEntered
    <3>2. QED
      BY <1>4, <2>1, <2>2, <2>3, <2>4, <3>1, PlanStep
  <2>5. CASE stack' = <<>> /\ outcome' = "error"
    <3>1. Frames(stack', dirs', items')
      BY <2>5 DEF Frames
    <3>2. QED
      BY <1>4, <2>1, <2>2, <2>3, <2>5, <3>1, PlanStep
  <2>6. QED
    BY <2>1, <2>4, <2>5
<1>8. CASE Measured!Return
  <2>1. /\ stack # <<>> /\ Measured!Top.left = {} /\ stack' = Measured!Front(stack)
        /\ outcome' = IF stack' = <<>> THEN "planned" ELSE "walking"
        /\ UNCHANGED Measured!given /\ root' = root /\ dirs' = dirs /\ items' = items
    BY <1>8 DEF Measured!Return
  <2>2. Frames(stack', dirs', items') /\ Complete(stack', dirs', items')
    BY <1>4, <2>1, Returned
  <2>3. QED
    BY <1>4, <2>1, <2>2, PlanStep
<1>9. CASE UNCHANGED Measured!vars
  <2>1. /\ walk' = walk /\ source' = source /\ target' = target /\ there' = there
        /\ parent' = parent /\ kind' = kind /\ root' = root /\ stack' = stack /\ dirs' = dirs
        /\ items' = items /\ outcome' = outcome
    BY <1>9 DEF Measured!vars
  <2>2. Tree' /\ Walked'
    BY <2>1, StandsStill DEF PlanInv, Walked
  <2>3. Landed'
    BY <2>1 DEF PlanInv, Landed, Measured!NoRoot, Measured!DirRoot
  <2>4. Measured!TransferPlanTypeOK'
    BY <2>1 DEF PlanInv, Measured!TransferPlanTypeOK, Measured!Entries, Measured!Targets,
         Measured!Kinds, Measured!FileKinds, Measured!Landings, Measured!NoRoot
  <2>5. QED
    BY <2>2, <2>3, <2>4 DEF PlanInv
<1>10. QED
  BY <1>1, <1>2, <1>3, <1>5, <1>6, <1>7, <1>8, <1>9 DEF Measured!Next

\* Of the directories that are missing from a finished plan none is the topmost, so
\* none is missing, and what is in them is there.
LEMMA Whole ==
    ASSUME Tree, Lists(dirs, items), Complete(<<>>, dirs, items), dirs # <<>>
    PROVE  /\ Measured!Directories \subseteq Ends(dirs)
           /\ Measured!FilesToMove \subseteq Ends(items)
<1> DEFINE missing == Measured!Directories \ Ends(dirs)
           upTo(e) == 0 .. e
           T == {upTo(e) : e \in missing}
           S == 0 .. MaxEntries
<1>1. ASSUME NEW e \in Wanted
      PROVE  /\ e \in Measured!Entries /\ parent[e] \in Nat /\ parent[e] < e /\ e \in Nat
             /\ parent[e] # 0 => parent[e] \in Measured!Directories
             /\ parent[e] \in Ends(dirs) => e \in Ends(dirs) \union Ends(items)
  <2>1. e \in Measured!Entries
    BY DEF Wanted, Measured!Directories, Measured!FilesToMove
  <2>2. parent[e] \in 0 .. MaxEntries /\ (parent[e] # 0 => parent[e] < e /\ kind[parent[e]] = "dir")
    BY <2>1 DEF Tree
  <2>3. e \in Nat /\ e # 0
    BY <2>1, Bounded DEF Measured!Entries
  <2>4. parent[e] \in Ends(dirs) => e \in Ends(dirs) \union Ends(items)
    BY DEF Complete
  <2>5. parent[e] # 0 => parent[e] \in Measured!Directories
    BY <2>2, Bounded DEF Measured!Directories, Measured!Entries
  <2>6. QED
    BY <2>1, <2>2, <2>3, <2>4, <2>5, Bounded
<1>2. ASSUME NEW e \in Measured!Entries, e \in Ends(items)
      PROVE  e \notin Measured!Directories
  BY <1>2 DEF Lists, Listed, Ends, Measured!FilesToMove, Measured!Directories
<1>3. 0 \in Ends(dirs)
  BY DEF Lists
<1>4. ASSUME NEW e \in missing
      PROVE  parent[e] \in missing /\ parent[e] < e /\ parent[e] \in Nat /\ e \in Nat
  <2>1. e \in Wanted /\ e \in Measured!Directories /\ e \notin Ends(dirs)
    BY <1>4 DEF Wanted
  <2>2. QED
    BY <1>1, <1>2, <1>3, <2>1
<1>5. missing = {}
  <2>1. SUFFICES ASSUME missing # {} PROVE FALSE
    OBVIOUS
  <2>2. IsFiniteSet(S)
    BY FS_Interval, Bounded
  <2>3. IsWellFoundedOn(StrictSubsetOrdering(S), SUBSET S)
    BY <2>2, FS_StrictSubsetOrderingWellFounded, FS_FiniteSubsetsOfFinite
  <2>4. \A e \in missing : upTo(e) \in SUBSET S
    BY Bounded DEF Measured!Directories, Measured!Entries
  <2>5. T \subseteq SUBSET S /\ T # {}
    BY <2>1, <2>4
  <2> HIDE DEF T, S, missing
  <2>6. PICK t \in T : \A u \in T : ~(<<u, t>> \in StrictSubsetOrdering(S))
    BY <2>3, <2>5, WFMin
  <2>7. PICK e \in missing : t = upTo(e)
    BY DEF T
  <2>8. parent[e] \in missing /\ parent[e] < e /\ parent[e] \in Nat /\ e \in Nat
    BY <1>4
  <2>9. upTo(parent[e]) \in T
    BY <2>8 DEF T
  <2>10. upTo(parent[e]) \subseteq upTo(e) /\ upTo(parent[e]) # upTo(e)
    <3>1. e \in upTo(e) /\ e \notin upTo(parent[e])
      BY <2>8
    <3>2. \A x \in upTo(parent[e]) : x \in upTo(e)
      BY <2>8
    <3>3. QED
      BY <3>1, <3>2
  <2>11. <<upTo(parent[e]), upTo(e)>> \in StrictSubsetOrdering(S)
    <3> DEFINE u == upTo(parent[e])
               v == upTo(e)
    <3>1. u \in SUBSET S /\ v \in SUBSET S /\ u \subseteq v /\ u # v
      BY <2>4, <2>8, <2>10
    <3> HIDE DEF u, v, upTo
    <3>2. <<u, v>> \in StrictSubsetOrdering(S)
      BY <3>1 DEF StrictSubsetOrdering
    <3>3. QED
      BY <3>2 DEF u, v
  <2>12. QED
    BY <2>6, <2>7, <2>9, <2>11
<1>6. Measured!Directories \subseteq Ends(dirs)
  BY <1>5
<1>7. ASSUME NEW e \in Measured!FilesToMove
      PROVE  e \in Ends(items)
  <2>1. e \in Wanted
    BY DEF Wanted
  <2>2. parent[e] \in Ends(dirs)
    BY <1>1, <1>3, <1>6, <2>1
  <2>3. e \notin Ends(dirs)
    <3>1. e \notin {0} \union Measured!Directories
      <4>1. e # 0
        BY <1>1, <2>1
      <4>2. kind[e] # "dir"
        BY DEF Measured!FilesToMove
      <4>3. QED
        BY <4>1, <4>2 DEF Measured!Directories
    <3>2. QED
      BY <3>1 DEF Lists, Listed, Ends
  <2>4. QED
    BY <1>1, <2>1, <2>2, <2>3
<1>8. QED
  BY <1>6, <1>7

LEMMA PlanHolds == PlanInv => Measured!PlanIsSound
<1> SUFFICES ASSUME PlanInv PROVE Measured!PlanIsSound
  OBVIOUS
<1>1. Measured!PlanIsTheTree
  <2>1. SUFFICES ASSUME outcome = "planned", source = "dir"
                 PROVE  /\ Measured!Holds(dirs, {0} \union Measured!Directories)
                        /\ Measured!Holds(items, Measured!FilesToMove)
    BY DEF Measured!PlanIsTheTree
  <2>2. stack = <<>> /\ Tree /\ Lists(dirs, items) /\ Complete(stack, dirs, items) /\ dirs # <<>>
    BY <2>1 DEF PlanInv, Measured!TransferPlanTypeOK, Walked, Landed
  <2>3. Measured!Directories \subseteq Ends(dirs) /\ Measured!FilesToMove \subseteq Ends(items)
    BY <2>2, Whole
  <2>4. 0 \in Ends(dirs)
    BY <2>2 DEF Lists
  <2>5. ASSUME NEW list, NEW S, Listed(list, S), S \subseteq Ends(list)
        PROVE  Measured!Holds(list, S)
    BY <2>5 DEF Measured!Holds, Listed, Ends
  <2>6. QED
    BY <2>2, <2>3, <2>4, <2>5 DEF Lists
<1>2. Measured!ParentsFirst
  <2>1. CASE source = "dir"
    <3>1. Lists(dirs, items)
      BY <2>1 DEF PlanInv, Walked
    <3>2. \A i \in DOMAIN dirs :
            dirs[i] # <<>> => \E j \in 1 .. i - 1 : dirs[j] = Measured!Front(dirs[i])
      BY <3>1 DEF Lists
    <3>3. \A i \in DOMAIN items : Measured!Front(items[i]) \in Measured!ToSet(dirs)
      BY <3>1 DEF Lists, Measured!ToSet
    <3>4. QED
      BY <3>2, <3>3 DEF Measured!ParentsFirst
  <2>2. CASE source # "dir"
    <3>1. dirs = <<>>
      BY <2>2 DEF PlanInv, Walked
    <3>2. QED
      BY <2>2, <3>1 DEF Measured!ParentsFirst
  <2>3. QED
    BY <2>1, <2>2
<1>3. Measured!LandsWhereSent
  <2>1. target \in Measured!Targets
    BY DEF PlanInv, Measured!TransferPlanTypeOK
  <2> DEFINE own == source = "file" /\ (target # "path" \/ there = "dir")
  <2>2. outcome = "planned" => root = [at |-> Measured!DirRoot, own |-> own]
    BY DEF PlanInv, Landed
  <2>3. own \in BOOLEAN /\ (own => source = "file" /\ (there = "dir" \/ target # "path"))
        /\ (source = "file" /\ there = "dir" => own)
    OBVIOUS
  <2>4. /\ Measured!DirRoot = "." <=> target = "none"
        /\ Measured!DirRoot = "/" <=> target = "/"
    BY <2>1 DEF Measured!DirRoot, Measured!Targets
  <2> HIDE DEF own
  <2>5. outcome = "planned" => root.at = Measured!DirRoot /\ root.own = own
    BY <2>2
  <2>6. QED
    BY <2>3, <2>4, <2>5 DEF Measured!LandsWhereSent
<1>4. QED
  BY <1>1, <1>2, <1>3 DEF Measured!PlanIsSound
-----------------------------------------------------------------------------
(* The lines of a transfer.                                                *)

\* The shape of the screen while nothing has disturbed the display: the cursor is on
\* the last row, and the rows of a display come in pairs.
Tidy ==
    /\ columns = width
    /\ row = Len(rows) /\ row >= 2
    /\ rows[1] = "typed"
    /\ \A k \in DOMAIN rows : rows[k] # "rest"
    /\ \A k \in DOMAIN rows : rows[k] = "file" <=> k < Len(rows) /\ rows[k + 1] = "all"
    /\ rows[row] = (IF drawn THEN "all" ELSE "blank")

Texts == {"typed", "file", "all", "rest", "log", "done", "blank"}

BarInv ==
    /\ columns \in Terminals /\ width \in Terminals /\ (width > 0 => columns > 0)
    /\ rows \in Seq(Texts) /\ row \in 2 .. Len(rows)
    /\ drawn \in BOOLEAN /\ disturbed \in BOOLEAN
    /\ disturbed = FALSE /\ width >= 12 => Tidy

\* A line as wide as the terminal, or not as wide, takes one row.
LEMMA OneRow ==
    ASSUME NEW w \in Nat, NEW c \in Nat, 1 <= w, w <= c
    PROVE  (w - 1) \div c = 0
  OBVIOUS

\* liveFrame fills the line and never overruns it, from the narrowest terminal on.
LEMMA FillsTheLine ==
    ASSUME NEW label \in Nat, NEW tail \in Nat, width \in Nat, width >= 12
    PROVE  Bar!LineWidth(label, tail) = width
<1> DEFINE tries == <<[label |-> label, tail |-> tail], [label |-> label, tail |-> 0],
                      [label |-> 0, tail |-> 0]>>
<1>1. \A k \in 1 .. 3 : Bar!Beside(tries[k]) \in Nat
  BY DEF Bar!Beside, Bar!liveIndent, Bar!liveGap
<1>2. Bar!Beside(tries[3]) + 10 <= width
  BY DEF Bar!Beside, Bar!liveIndent, Bar!liveGap
<1>3. \E k \in 1 .. 3 : Bar!Shown(label, tail) = tries[k] /\ Bar!Beside(tries[k]) + 10 <= width
  BY <1>2 DEF Bar!Shown, Bar!minBarWidth
<1>4. QED
  BY <1>1, <1>3 DEF Bar!LineWidth, Bar!minBarWidth

\* Writing on a row of the screen leaves a screen with every row it took.
LEMMA Written ==
    ASSUME NEW screen \in Seq(Texts), NEW r \in 1 .. Len(screen), NEW text \in Texts,
           NEW wide \in Nat \ {0}, columns \in Nat \ {0}
    PROVE  /\ Bar!EndOf(r, wide) \in Nat /\ Bar!EndOf(r, wide) >= r
           /\ Bar!Put(screen, r, text, wide) \in Seq(Texts)
           /\ Len(Bar!Put(screen, r, text, wide)) >= Bar!EndOf(r, wide)
           /\ Len(Bar!Put(screen, r, text, wide)) >= Len(screen)
<1> DEFINE more == (wide - 1) \div columns
           length == IF r + more > Len(screen) THEN r + more ELSE Len(screen)
<1>1. more \in Nat
  OBVIOUS
<1>2. length \in Nat /\ length >= r + more /\ length >= Len(screen)
  BY <1>1
<1>3. ASSUME NEW k \in 1 .. length
      PROVE  (IF k = r THEN text ELSE IF k \in r + 1 .. r + more THEN "rest" ELSE screen[k]) \in Texts
  <2>1. CASE k = r \/ k \in r + 1 .. r + more
    BY <2>1 DEF Texts
  <2>2. CASE k # r /\ k \notin r + 1 .. r + more
    <3>1. k \in 1 .. Len(screen)
      BY <1>1, <1>3, <2>2
    <3>2. QED
      BY <2>2, <3>1
  <2>3. QED
    BY <2>1, <2>2
<1>4. Bar!Put(screen, r, text, wide)
         = [k \in 1 .. length |->
              IF k = r THEN text ELSE IF k \in r + 1 .. r + more THEN "rest" ELSE screen[k]]
  BY DEF Bar!Put
<1> HIDE DEF more, length
<1>5. Bar!Put(screen, r, text, wide) \in Seq(Texts) /\ Len(Bar!Put(screen, r, text, wide)) = length
  BY <1>2, <1>3, <1>4
<1>6. Bar!EndOf(r, wide) = r + more
  BY DEF Bar!EndOf, more
<1>7. QED
  BY <1>1, <1>2, <1>5, <1>6

\* A line that fits takes the row it is written on and no other.
LEMMA WrittenInPlace ==
    ASSUME NEW screen \in Seq(Texts), NEW r \in 1 .. Len(screen), NEW text \in Texts,
           columns \in Nat \ {0}
    PROVE  /\ Bar!EndOf(r, columns) = r
           /\ Bar!Put(screen, r, text, columns) = [screen EXCEPT ![r] = text]
<1>1. (columns - 1) \div columns = 0
  BY OneRow
<1>2. Bar!Put(screen, r, text, columns)
         = [k \in 1 .. Len(screen) |->
              IF k = r THEN text ELSE IF k \in r + 1 .. r + 0 THEN "rest" ELSE screen[k]]
  BY <1>1 DEF Bar!Put
<1>3. QED
  BY <1>1, <1>2 DEF Bar!EndOf

LEMMA BarInit == Bar!LiveLinesAssumption /\ Bar!Init => BarInv
<1> SUFFICES ASSUME Bar!LiveLinesAssumption, Bar!Init
             PROVE  BarInv
  OBVIOUS
<1>1. rows \in Seq(Texts) /\ Len(rows) = 2 /\ rows[1] = "typed" /\ rows[2] = "blank"
  <2>1. rows = <<"typed", "blank">>
    BY DEF Bar!Init
  <2>2. "typed" \in Texts /\ "blank" \in Texts
    BY DEF Texts
  <2>3. \A S, a, b : a \in S /\ b \in S =>
            <<a, b>> \in Seq(S) /\ Len(<<a, b>>) = 2 /\ <<a, b>>[1] = a /\ <<a, b>>[2] = b
    OBVIOUS
  <2>4. QED
    BY <2>1, <2>2, <2>3
<1>2. /\ columns \in Terminals /\ width = columns /\ row = 2
      /\ drawn = FALSE /\ disturbed = FALSE
  BY DEF Bar!Init
<1>3. \A k \in DOMAIN rows : k = 1 \/ k = 2
  <2>1. \A k \in DOMAIN rows : k \in Nat /\ 1 <= k /\ k <= Len(rows)
    BY <1>1
  <2>2. QED
    BY <1>1, <2>1
<1>4. Tidy
  <2>1. ~(rows[1] = "file") /\ ~(rows[2] = "file") /\ ~(rows[2] = "all")
    BY <1>1
  <2>2. QED
    <3>1. \A k \in DOMAIN rows : rows[k] # "rest" /\ rows[k] # "file" /\ rows[k] # "all"
      BY <1>1, <1>3
    <3>2. \A k \in DOMAIN rows : k < Len(rows) => rows[k + 1] # "all"
      BY <1>1, <1>3
    <3>3. row = Len(rows) /\ row >= 2 /\ rows[row] = "blank" /\ drawn = FALSE
      BY <1>1, <1>2
    <3>4. QED
      BY <1>1, <1>2, <3>1, <3>2, <3>3 DEF Tidy
<1>5. columns \in Nat
  BY <1>2 DEF Bar!LiveLinesAssumption
<1>6. row \in 2 .. Len(rows)
  BY <1>1, <1>2
<1>7. QED
  BY <1>1, <1>2, <1>4, <1>5, <1>6 DEF BarInv

\* A frame: two lines, one under the other, from the row the last one began on.
LEMMA BarRedraws ==
    ASSUME Bar!LiveLinesAssumption, BarInv, Bar!Redraw
    PROVE  BarInv'
<1>1. PICK label \in LabelWidths, tail \in TailWidths :
          LET wide == Bar!LineWidth(label, tail)
              first == Bar!Put(rows, Bar!Top, "file", wide)
              second == Bar!EndOf(Bar!Top, wide) + 1
              padded == IF second > Len(first) THEN Append(first, "blank") ELSE first
              both == Bar!Put(padded, second, "all", wide)
          IN  rows' = both /\ row' = Bar!EndOf(second, wide)
  BY DEF Bar!Redraw
<1> DEFINE wide == Bar!LineWidth(label, tail)
           first == Bar!Put(rows, Bar!Top, "file", wide)
           second == Bar!EndOf(Bar!Top, wide) + 1
           padded == IF second > Len(first) THEN Append(first, "blank") ELSE first
<1>2. rows' = Bar!Put(padded, second, "all", wide) /\ row' = Bar!EndOf(second, wide)
  BY <1>1
<1>3. /\ columns' = columns /\ width' = width /\ disturbed' = disturbed /\ drawn' = TRUE
      /\ width > 0
  BY DEF Bar!Redraw
<1>4. /\ label \in Nat /\ tail \in Nat
      /\ columns \in Nat \ {0} /\ width \in Nat
  BY <1>3 DEF Bar!LiveLinesAssumption, BarInv
<1>5. wide \in Nat \ {0}
  <2>1. Bar!Beside(Bar!Shown(label, tail)) \in Nat
    BY <1>4 DEF Bar!Shown, Bar!Beside, Bar!liveIndent, Bar!liveGap
  <2>2. QED
    BY <1>4, <2>1 DEF Bar!LineWidth, Bar!minBarWidth
<1>6. rows \in Seq(Texts) /\ row \in 2 .. Len(rows)
  BY DEF BarInv
<1>7. Bar!Top \in 1 .. Len(rows)
  BY <1>6 DEF Bar!Top
<1>8. {"file", "all", "blank"} \subseteq Texts
  BY DEF Texts
<1>9. /\ first \in Seq(Texts) /\ second \in Nat /\ second >= 2
      /\ Len(first) >= second - 1
  BY <1>4, <1>5, <1>6, <1>7, <1>8, Written
<1> HIDE DEF wide, first, second
<1>10. padded \in Seq(Texts) /\ second \in 1 .. Len(padded)
  BY <1>8, <1>9
<1> HIDE DEF padded
<1>11. rows' \in Seq(Texts) /\ row' \in 2 .. Len(rows')
  BY <1>2, <1>4, <1>5, <1>8, <1>9, <1>10, Written
<1>12. ASSUME disturbed = FALSE, width >= 12
       PROVE  Tidy'
  <2>1. Tidy
    BY <1>12 DEF BarInv
  <2>2. wide = columns
    BY <1>4, <1>12, <2>1, FillsTheLine DEF wide, Tidy
  <2>3. second = Bar!Top + 1 /\ first = [rows EXCEPT ![Bar!Top] = "file"]
    BY <1>4, <1>6, <1>7, <1>8, <2>2, WrittenInPlace DEF first, second
  <2>4. row' = second /\ rows' = [padded EXCEPT ![second] = "all"]
    BY <1>2, <1>4, <1>8, <1>10, <2>2, WrittenInPlace
  <2>5. CASE drawn
    <3>1. Bar!Top = row - 1 /\ second = row /\ rows[row - 1] = "file" /\ rows[row] = "all"
      <4>1. Bar!Top = row - 1 /\ second = row
        BY <1>6, <2>3, <2>5 DEF Bar!Top
      <4>2. rows[row] = "all" /\ row = Len(rows)
        BY <2>1, <2>5 DEF Tidy
      <4>3. row - 1 \in DOMAIN rows /\ row - 1 < Len(rows) /\ (row - 1) + 1 = row
        BY <1>6, <4>2
      <4>4. rows[row - 1] = "file"
        BY <2>1, <4>2, <4>3 DEF Tidy
      <4>5. QED
        BY <4>1, <4>2, <4>4
    <3>2. first = rows
      BY <1>6, <1>7, <2>3, <3>1
    <3>3. padded = rows
      BY <1>6, <3>1, <3>2 DEF padded
    <3>4. rows' = rows /\ row' = row
      BY <1>6, <2>4, <3>1, <3>3
    <3>5. QED
      BY <1>3, <2>1, <2>5, <3>4 DEF Tidy
  <2>6. CASE ~drawn
    <3>1. Bar!Top = row /\ second = row + 1 /\ row = Len(rows) /\ rows[row] = "blank"
      BY <1>6, <2>1, <2>3, <2>6 DEF Tidy, Bar!Top
    <3>2. Len(first) = row
      BY <1>6, <1>7, <2>3, <3>1
    <3>3. padded = Append(first, "blank")
      BY <1>6, <3>1, <3>2 DEF padded
    <3>4. /\ Len(rows') = row + 1 /\ row' = row + 1 /\ rows'[row] = "file" /\ rows'[row + 1] = "all"
          /\ \A k \in 1 .. row - 1 : rows'[k] = rows[k]
      <4>1. /\ padded \in Seq(Texts) /\ Len(padded) = row + 1
            /\ padded[row] = "file" /\ \A k \in 1 .. row - 1 : padded[k] = rows[k]
        <5>1. first[row] = "file" /\ \A k \in 1 .. row - 1 : first[k] = rows[k]
          BY <1>6, <2>3, <3>1
        <5>2. QED
          BY <1>6, <1>9, <1>10, <3>2, <3>3, <5>1
      <4>2. row' = row + 1 /\ rows' = [padded EXCEPT ![row + 1] = "all"]
        BY <2>4, <3>1
      <4>3. QED
        BY <1>6, <4>1, <4>2
    <3>5. \A k \in 1 .. row - 1 : rows[k] = "file" <=> k < row /\ rows[k + 1] = "all"
      BY <1>6, <2>1, <3>1 DEF Tidy
    <3>6. rows[row - 1] # "file"
      BY <1>6, <3>1, <3>5
    <3>7. \A k \in DOMAIN rows' : rows'[k] = "file" <=> k < Len(rows') /\ rows'[k + 1] = "all"
      <4>1. TAKE k \in DOMAIN rows'
      <4>2. k \in 1 .. row + 1
        BY <1>11, <3>4
      <4>3. CASE k = row \/ k = row + 1
        BY <1>6, <3>4, <4>3
      <4>4. CASE k = row - 1
        BY <1>6, <3>4, <3>6, <4>2, <4>4
      <4>5. CASE k < row - 1
        <5>1. k \in 1 .. row - 1 /\ k + 1 \in 1 .. row - 1
          BY <1>6, <4>2, <4>5
        <5>2. QED
          BY <1>6, <3>4, <3>5, <5>1
      <4>6. QED
        BY <1>6, <4>2, <4>3, <4>4, <4>5
    <3>8. \A k \in DOMAIN rows' : rows'[k] # "rest"
      <4>1. TAKE k \in DOMAIN rows'
      <4>2. k \in 1 .. row - 1 \/ k = row \/ k = row + 1
        BY <1>6, <1>11, <3>4
      <4>3. QED
        BY <1>6, <2>1, <3>1, <3>4, <4>2 DEF Tidy
    <3>9. rows'[1] = "typed"
      BY <1>6, <2>1, <3>4 DEF Tidy
    <3>10. QED
      BY <1>3, <1>6, <2>1, <3>4, <3>7, <3>8, <3>9 DEF Tidy
  <2>7. drawn \in BOOLEAN => drawn \/ ~drawn
    OBVIOUS
  <2>8. QED
    BY <2>5, <2>6
<1>13. QED
  BY <1>3, <1>4, <1>11, <1>12 DEF BarInv

\* A row more under the cursor, which was on the last one or above it.
LEMMA Goes ==
    ASSUME NEW screen \in Seq(Texts), NEW r \in 1 .. Len(screen), Bar!GoTo(screen, r + 1)
    PROVE  /\ rows' \in Seq(Texts) /\ row' = r + 1 /\ row' \in 2 .. Len(rows')
           /\ r = Len(screen) => rows' = Append(screen, "blank")
<1>1. "blank" \in Texts
  BY DEF Texts
<1>2. QED
  BY <1>1 DEF Bar!GoTo

\* What is written on the last row, and another row under it, leaves the pairs above.
LEMMA NextRow ==
    ASSUME Tidy, rows \in Seq(Texts), NEW text \in Texts, text \notin {"file", "rest"},
           text = "all" <=> drawn,
           rows' = Append([rows EXCEPT ![row] = text], "blank"), row' = row + 1,
           drawn' = FALSE, columns' = width'
    PROVE  Tidy'
<1>1. /\ row \in Nat /\ row >= 2 /\ row = Len(rows)
      /\ Len(rows') = row + 1 /\ rows'[row + 1] = "blank" /\ rows'[row] = text
      /\ \A k \in 1 .. row - 1 : rows'[k] = rows[k]
      /\ rows' \in Seq(Texts)
  BY DEF Tidy, Texts
<1>2. \A k \in 1 .. row - 1 : rows[k] = "file" <=> rows[k + 1] = "all"
  <2>1. TAKE k \in 1 .. row - 1
  <2>2. k \in DOMAIN rows /\ k < Len(rows)
    BY <1>1
  <2>3. QED
    BY <2>2 DEF Tidy
<1>3. rows[row] = "all" <=> text = "all"
  BY DEF Tidy
<1>4. \A k \in DOMAIN rows' : rows'[k] = "file" <=> k < Len(rows') /\ rows'[k + 1] = "all"
  <2>1. TAKE k \in DOMAIN rows'
  <2>2. k \in 1 .. row + 1
    BY <1>1
  <2>3. CASE k = row \/ k = row + 1
    BY <1>1, <2>3
  <2>4. CASE k = row - 1
    BY <1>1, <1>2, <1>3, <2>2, <2>4
  <2>5. CASE k < row - 1
    <3>1. k \in 1 .. row - 1 /\ k + 1 \in 1 .. row - 1
      BY <1>1, <2>2, <2>5
    <3>2. QED
      BY <1>1, <1>2, <3>1
  <2>6. QED
    BY <1>1, <2>2, <2>3, <2>4, <2>5
<1>5. \A k \in DOMAIN rows' : rows'[k] # "rest"
  <2>1. TAKE k \in DOMAIN rows'
  <2>2. k \in 1 .. row - 1 \/ k = row \/ k = row + 1
    BY <1>1
  <2>3. QED
    BY <1>1, <2>2 DEF Tidy
<1>6. rows'[1] = "typed"
  BY <1>1 DEF Tidy
<1>7. QED
  BY <1>1, <1>4, <1>5, <1>6 DEF Tidy

LEMMA BarNext ==
    ASSUME Bar!LiveLinesAssumption, BarInv, [Bar!Next]_barVars
    PROVE  BarInv'
<1>1. rows \in Seq(Texts) /\ row \in 2 .. Len(rows)
  BY DEF BarInv
<1>2. CASE Bar!PrintDone
  <2>1. [rows EXCEPT ![row] = "done"] \in Seq(Texts) /\ Len([rows EXCEPT ![row] = "done"]) = Len(rows)
    BY <1>1 DEF Texts
  <2>2. rows' \in Seq(Texts) /\ row' \in 2 .. Len(rows')
    <3>1. Bar!GoTo([rows EXCEPT ![row] = "done"], row + 1)
      BY <1>2 DEF Bar!PrintDone
    <3>2. row \in 1 .. Len([rows EXCEPT ![row] = "done"])
      BY <1>1, <2>1
    <3>3. QED
      BY <2>1, <3>1, <3>2, Goes
  <2>3. columns' = columns /\ width' = width /\ disturbed' = disturbed /\ width = 0
        /\ drawn' = drawn
    BY <1>2 DEF Bar!PrintDone
  <2>4. QED
    BY <2>2, <2>3 DEF BarInv
<1>3. CASE Bar!Done
  <2>1. rows' \in Seq(Texts) /\ row' = row + 1 /\ row' \in 2 .. Len(rows')
        /\ (row = Len(rows) => rows' = Append(rows, "blank"))
    BY <1>1, <1>3, Goes DEF Bar!Done
  <2>2. /\ columns' = columns /\ width' = width /\ disturbed' = disturbed /\ drawn' = FALSE /\ drawn
    BY <1>3 DEF Bar!Done
  <2>3. ASSUME disturbed = FALSE, width >= 12
        PROVE  Tidy'
    <3>1. Tidy
      BY <2>3 DEF BarInv
    <3>2. row = Len(rows) /\ rows[row] = "all" /\ columns = width
      BY <2>2, <3>1 DEF Tidy
    <3>3. [rows EXCEPT ![row] = "all"] = rows
      BY <1>1, <3>2
    <3>4. "all" \in Texts
      BY DEF Texts
    <3>5. QED
      BY <1>1, <2>1, <2>2, <3>1, <3>2, <3>3, <3>4, NextRow
  <2>4. QED
    BY <2>1, <2>2, <2>3 DEF BarInv
<1>4. CASE Bar!Resize
  <2>1. /\ columns' \in Terminals \ {0} /\ width' = width /\ disturbed' = TRUE
        /\ rows' = rows /\ row' = row /\ drawn' = drawn
    BY <1>4 DEF Bar!Resize
  <2>2. columns' \in Nat
    BY <2>1 DEF Bar!LiveLinesAssumption
  <2>3. QED
    BY <2>1, <2>2 DEF BarInv
<1>5. CASE Bar!Log
  <2>1. [rows EXCEPT ![row] = "log"] \in Seq(Texts) /\ Len([rows EXCEPT ![row] = "log"]) = Len(rows)
    BY <1>1 DEF Texts
  <2>2. /\ rows' \in Seq(Texts) /\ row' = row + 1 /\ row' \in 2 .. Len(rows')
        /\ (row = Len(rows) => rows' = Append([rows EXCEPT ![row] = "log"], "blank"))
    <3>1. Bar!GoTo([rows EXCEPT ![row] = "log"], row + 1)
      BY <1>5 DEF Bar!Log
    <3>2. row \in 1 .. Len([rows EXCEPT ![row] = "log"])
      BY <1>1, <2>1
    <3>3. QED
      BY <2>1, <3>1, <3>2, Goes
  <2>3. /\ columns' = columns /\ width' = width /\ drawn' = drawn
        /\ disturbed' = (disturbed \/ drawn)
    BY <1>5 DEF Bar!Log
  <2>4. ASSUME disturbed' = FALSE, width >= 12
        PROVE  Tidy'
    <3>1. disturbed = FALSE /\ drawn = FALSE
      BY <2>3, <2>4 DEF BarInv
    <3>2. Tidy
      BY <2>4, <3>1 DEF BarInv
    <3>3. row = Len(rows) /\ columns = width
      BY <3>2 DEF Tidy
    <3>4. "log" \in Texts
      BY DEF Texts
    <3>5. QED
      BY <1>1, <2>2, <2>3, <3>1, <3>2, <3>3, <3>4, NextRow
  <2>5. QED
    BY <2>2, <2>3, <2>4 DEF BarInv
<1>6. CASE UNCHANGED barVars
  BY <1>6 DEF barVars, BarInv, Tidy
<1>7. QED
  BY <1>2, <1>3, <1>4, <1>5, <1>6, BarRedraws DEF Bar!Next

LEMMA BarRewrites == BarInv => Bar!RewritesInPlace
<1> SUFFICES ASSUME BarInv, ~disturbed, width >= 12
             PROVE  /\ rows[1] = "typed"
                    /\ \A k \in DOMAIN rows : rows[k] # "rest"
                    /\ \A k \in DOMAIN rows :
                          rows[k] = "file" <=> k < Len(rows) /\ rows[k + 1] = "all"
                    /\ drawn => rows[row] = "all" /\ row = Len(rows)
                    /\ ~drawn => rows[row] = "blank"
  BY DEF Bar!RewritesInPlace, Bar!Narrowest, Bar!liveIndent, Bar!minBarWidth
<1>1. Tidy
  BY DEF BarInv
<1>2. QED
  BY <1>1 DEF Tidy

-----------------------------------------------------------------------------
(* All of them, side by side.                                              *)

Carried == INSTANCE TransferProofs WITH Plans <- Apart

\* TransferProofs proves of the same runs: its copy of the module says the same.
LEMMA SameRuns ==
    /\ Carried!TransferAssumption <=> Moved!TransferAssumption
    /\ Carried!Init <=> Moved!Init
    /\ Carried!Next <=> Moved!Next
    /\ Carried!TransferTypeOK <=> Moved!TransferTypeOK
    /\ Carried!FailureIsClean <=> Moved!FailureIsClean
    /\ Carried!LastReportIsComplete <=> Moved!LastReportIsComplete
<1>1. Carried!MaxItems = Moved!MaxItems
  BY DEF Carried!MaxItems, Moved!MaxItems
<1>2. /\ \A p : Carried!ToSet(p) = Moved!ToSet(p)
      /\ \A p : Carried!Partial(p) = Moved!Partial(p)
  BY DEF Carried!ToSet, Moved!ToSet, Carried!Partial, Moved!Partial
<1>3. Carried!Dests = Moved!Dests
  BY <1>2 DEF Carried!Dests, Moved!Dests
<1>4. Carried!Paths = Moved!Paths
  BY <1>2, <1>3 DEF Carried!Paths, Moved!Paths
<1>5. Carried!Made = Moved!Made
  BY <1>1 DEF Carried!Made, Moved!Made
<1>6. /\ Carried!FileIds = Moved!FileIds /\ Carried!NotCancelled = Moved!NotCancelled
      /\ Carried!Previous = Moved!Previous /\ Carried!Whole = Moved!Whole
      /\ Carried!Half = Moved!Half
  BY <1>1, <1>4, <1>5 DEF Carried!FileIds, Moved!FileIds, Carried!NotCancelled, Moved!NotCancelled,
     Carried!Previous, Moved!Previous, Carried!Whole, Moved!Whole, Carried!Half, Moved!Half
<1>7. Carried!RunState = Moved!RunState
  BY <1>1, <1>6 DEF Carried!RunState, Moved!RunState
<1>8. Carried!TransferAssumption <=> Moved!TransferAssumption
  BY <1>1, <1>4, <1>5, <1>6 DEF Carried!TransferAssumption, Moved!TransferAssumption
<1>9. Carried!Init <=> Moved!Init
  BY <1>4, <1>6 DEF Carried!Init, Moved!Init
<1>10. Carried!TransferTypeOK <=> Moved!TransferTypeOK
  BY <1>4, <1>6, <1>7 DEF Carried!TransferTypeOK, Moved!TransferTypeOK
<1>11. /\ \A r : Carried!Dest(r) = Moved!Dest(r) /\ Carried!Target(r) = Moved!Target(r)
       /\ \A r : Carried!Cancelled(r) <=> Moved!Cancelled(r)
       /\ \A r, how : Carried!End(r, how) <=> Moved!End(r, how)
       /\ \A r : Carried!Finish(r) <=> Moved!Finish(r)
  BY <1>2, <1>6 DEF Carried!Dest, Moved!Dest, Carried!Target, Moved!Target, Carried!Cancelled,
     Moved!Cancelled, Carried!End, Moved!End, Carried!Finish, Moved!Finish
<1>12. /\ \A r : Carried!Cancel(r) <=> Moved!Cancel(r)
       /\ \A r : Carried!LinkDrops(r) <=> Moved!LinkDrops(r)
       /\ \A r : Carried!MakeDirs(r) <=> Moved!MakeDirs(r)
       /\ \A r : Carried!NextItem(r) <=> Moved!NextItem(r)
  BY <1>11 DEF Carried!Cancel, Moved!Cancel, Carried!LinkDrops, Moved!LinkDrops, Carried!MakeDirs,
     Moved!MakeDirs, Carried!NextItem, Moved!NextItem, Carried!given, Moved!given
<1>13. \A r : Carried!Open(r) <=> Moved!Open(r)
  BY <1>11 DEF Carried!Open, Moved!Open, Carried!given, Moved!given
<1>14. \A r : Carried!Packet(r) <=> Moved!Packet(r)
  BY <1>11 DEF Carried!Packet, Moved!Packet, Carried!given, Moved!given
<1>15. \A r : Carried!CopyEnds(r) <=> Moved!CopyEnds(r)
  BY <1>6 DEF Carried!CopyEnds, Moved!CopyEnds, Carried!given, Moved!given
<1>16. \A r : Carried!Fails(r) <=> Moved!Fails(r)
  BY <1>11 DEF Carried!Fails, Moved!Fails, Carried!given, Moved!given
<1>17. \A r : Carried!Close(r) <=> Moved!Close(r)
  BY <1>11 DEF Carried!Close, Moved!Close, Carried!given, Moved!given
<1>18. \A r : Carried!Place(r) <=> Moved!Place(r)
  BY <1>11 DEF Carried!Place, Moved!Place, Carried!given, Moved!given
<1>19. Carried!Next <=> Moved!Next
  BY <1>12, <1>13, <1>14, <1>15, <1>16, <1>17, <1>18
  DEF Carried!Next, Moved!Next, Carried!RunStep, Moved!RunStep
<1>20. \A q : Carried!IsHalf(q) <=> Moved!IsHalf(q)
  BY <1>6 DEF Carried!IsHalf, Moved!IsHalf
<1>21. \A q : Carried!AsFound(q) <=> Moved!AsFound(q)
  BY <1>6 DEF Carried!AsFound, Moved!AsFound
<1>22. Carried!NoHalfDownload <=> Moved!NoHalfDownload
  BY <1>2, <1>20 DEF Carried!NoHalfDownload, Moved!NoHalfDownload
<1>23. Carried!InterruptedLeavesAsFound <=> Moved!InterruptedLeavesAsFound
  BY <1>2, <1>5, <1>21 DEF Carried!InterruptedLeavesAsFound, Moved!InterruptedLeavesAsFound,
     Carried!Unfinished, Moved!Unfinished
<1>24. Carried!FailedUploadTakenBack <=> Moved!FailedUploadTakenBack
  BY <1>20, <1>21 DEF Carried!FailedUploadTakenBack, Moved!FailedUploadTakenBack
<1>25. Carried!CancelBeginsNothing <=> Moved!CancelBeginsNothing
  BY DEF Carried!CancelBeginsNothing, Moved!CancelBeginsNothing
<1>26. Carried!FailureIsClean <=> Moved!FailureIsClean
  BY <1>22, <1>23, <1>24, <1>25 DEF Carried!FailureIsClean, Moved!FailureIsClean
<1>27. Carried!LastReportIsComplete <=> Moved!LastReportIsComplete
  BY DEF Carried!LastReportIsComplete, Moved!LastReportIsComplete
<1>28. QED
  BY <1>8, <1>9, <1>10, <1>19, <1>26, <1>27

LEMMA ConstantsAre ==
    /\ Shell!MaxKeysAssumption /\ Files!AttemptsAssumption /\ Bar!LiveLinesAssumption
    /\ NoCloser \notin ProxyClosers /\ Carried!TransferAssumption
<1>1. /\ Shell!MaxKeysAssumption /\ Files!AttemptsAssumption /\ Bar!LiveLinesAssumption
      /\ Proxy!ProxyAssumption /\ Moved!TransferAssumption
  BY OperationsAssumption DEF OperationsAssumption
<1>2. QED
  BY <1>1, SameRuns DEF Proxy!ProxyAssumption

LEMMA AllBegin ==
    AllInit => /\ Init /\ Shell!Init /\ Command!Init /\ Files!Init /\ Proxy!Init
               /\ Measured!Init /\ Bar!Init /\ Moved!Init
  BY DEF AllInit

\* Whichever of them takes a step, the others rest.
LEMMA AllSteps ==
    ASSUME [AllNext]_allVars
    PROVE  /\ [Next]_vars
           /\ [Shell!Next]_shellVars /\ [Command!Next]_execVars /\ [Files!Next]_filesVars
           /\ [Proxy!Next]_proxyVars /\ [Measured!Next]_(Measured!vars) /\ [Bar!Next]_barVars
           /\ [Moved!Next]_runVars
<1>1. Measured!vars = planVars
  BY DEF Measured!vars, planVars
<1>2. Measured!vars' = planVars'
  BY DEF Measured!vars, planVars
<1>3. CASE UNCHANGED allVars
  BY <1>1, <1>2, <1>3 DEF allVars
<1>4. CASE AllNext
  BY <1>1, <1>2, <1>4 DEF AllNext
<1>5. QED
  BY <1>3, <1>4

\* A shell gives back the terminal and leaves nobody reading it, whatever way out Run
\* takes (session.go:117-128, 189-216); a file session closes its channels before its
\* connection, and holds neither when it is over (sftp.go:75-108,
\* filesession.go:114-135); a proxy command that was closed is reaped (conn.go:44-45).
THEOREM NothingIsKept == AllSpec => GivesBackWhatItTook
<1>1. AllSpec => []Shell!LocalSideRestored
  <2>1. AllInit => ShellInv
    BY AllBegin, ShellInit
  <2>2. ShellInv /\ [AllNext]_allVars => ShellInv'
    BY AllSteps, ShellNext
  <2>3. QED
    BY <2>1, <2>2, ShellRestored, PTL DEF AllSpec
<1>2. AllSpec => Files!LetsGoInOrder
  <2>1. AllInit => FilesInv
    BY AllBegin, ConstantsAre, FilesInit
  <2>2. FilesInv /\ [AllNext]_allVars =>
          /\ FilesInv'
          /\ [/\ Files!NothingLeftOpen'
              /\ filesPc' \in {"closed", "failed"} /\ filesPc # filesPc' => channels = {}]_(Files!vars)
    BY AllSteps, ConstantsAre, FilesNext, FilesLetGo
  <2>3. QED
    BY <2>1, <2>2, PTL DEF AllSpec, Files!LetsGoInOrder
<1>3. AllSpec => []Proxy!ProxyIsReaped
  <2>1. AllInit => ProxyInv
    BY AllBegin, ProxyInit
  <2>2. ProxyInv /\ [AllNext]_allVars => ProxyInv'
    BY AllSteps, ConstantsAre, ProxyNext
  <2>3. QED
    BY <2>1, <2>2, ProxyReaped, PTL DEF AllSpec
<1>4. QED
  BY <1>1, <1>2, <1>3, PTL DEF GivesBackWhatItTook

\* A command that finished is told to have finished, and one a cancellation cut short
\* to have been cancelled, however the two cross (exec.go:57-67).
THEOREM EndsAreTold == AllSpec => EndIsToldRight
<1>1. [AllNext]_allVars =>
        [execPc = "wait" /\ execPc' = "return" =>
            /\ result' = "ok" <=> heard = "success"
            /\ heard = "loss" /\ ctx = "canceled" => result' = "context canceled"]_(Command!vars)
  BY AllSteps, CommandTells
<1>2. QED
  BY <1>1, PTL DEF AllSpec, EndIsToldRight, Command!EndIsToldRight

\* A plan is the whole tree, once, parents first, and lands where it was sent, for a
\* tree of any size and shape, links back up it and all (transfer.go:116-324).
THEOREM PlansAreSound == AllSpec => []PlanIsSound
<1>1. AllInit => PlanInv
  BY AllBegin, PlanInit
<1>2. PlanInv /\ [AllNext]_allVars => PlanInv'
  BY AllSteps, PlanNext
<1>3. PlanInv => PlanIsSound
  BY PlanHolds DEF PlanIsSound
<1>4. QED
  BY <1>1, <1>2, <1>3, PTL DEF AllSpec

\* The runs of TransferProofs are these.
LEMMA RunsAreCarried == AllSpec => Carried!Spec
<1>1. AllInit => Carried!Init
  BY AllBegin, SameRuns
<1>2. [AllNext]_allVars => [Carried!Next]_(Carried!vars)
  <2>1. SUFFICES ASSUME [AllNext]_allVars PROVE [Carried!Next]_(Carried!vars)
    OBVIOUS
  <2>2. [Moved!Next]_runVars
    BY <2>1, AllSteps
  <2>3. QED
    BY <2>2, SameRuns DEF runVars, Carried!vars
<1>3. QED
  BY <1>1, <1>2, PTL DEF AllSpec, Carried!Spec

\* What fails or is cancelled leaves no half of a file, as long as no two files of the
\* runs get in each other's way (transfer.go:393-396, 449-452).
THEOREM FailuresAreClean == AllSpec /\ Carried!Separate => []FailureIsClean
<1>1. Carried!Spec /\ Carried!Separate => []Carried!FailureIsClean
  BY ConstantsAre, Carried!NoHalfIsLeft
<1>2. Carried!FailureIsClean => FailureIsClean
  BY SameRuns DEF FailureIsClean
<1>3. QED
  BY <1>1, <1>2, RunsAreCarried, PTL

\* The last report of a run carries every file and every byte (transfer.go:106-108,
\* 556-558), and each report is drawn over the one before it and over nothing else,
\* however wide the terminal and however long the names (progress.go:53-55, 96-97).
THEOREM ReportsShow == AllSpec => []ReportsAreShown
<1>1. Carried!Spec => [](Carried!TransferTypeOK /\ Carried!LastReportIsComplete)
  BY ConstantsAre, Carried!LastReportIsWhole
<1>2. Carried!LastReportIsComplete => Moved!LastReportIsComplete
  BY SameRuns
<1>3. AllInit => BarInv
  BY AllBegin, ConstantsAre, BarInit
<1>4. BarInv /\ [AllNext]_allVars => BarInv'
  BY AllSteps, ConstantsAre, BarNext
<1>5. Moved!LastReportIsComplete /\ Bar!RewritesInPlace => ReportsAreShown
  BY DEF ReportsAreShown
<1>6. QED
  BY <1>1, <1>2, <1>3, <1>4, <1>5, RunsAreCarried, BarRewrites, PTL DEF AllSpec

\* Every variable keeps its type; the calls of the walk, which is recursive, are never
\* more than the tree is deep (transfer.go:231-247).
THEOREM TypesAreKept == AllSpec => []OperationsTypeOK
<1>1. AllInit => /\ ShellInv /\ ShellKeys /\ Shell!FlagsOK /\ Command!ExecTypeOK
                 /\ FilesInv /\ ProxyInv /\ PlanInv /\ BarInv
  BY AllBegin, ConstantsAre, ShellInit, ShellKeysInit, ShellFlagsInit, CommandInit, FilesInit,
     ProxyInit, PlanInit, BarInit
<1>2. ShellInv /\ [AllNext]_allVars => ShellInv'
  BY AllSteps, ShellNext
<1>3. ShellKeys /\ [AllNext]_allVars => ShellKeys'
  BY AllSteps, ConstantsAre, ShellKeysNext
<1>4. Shell!FlagsOK /\ [AllNext]_allVars => Shell!FlagsOK'
  BY AllSteps, ShellFlagsNext
<1>5. Command!ExecTypeOK /\ [AllNext]_allVars => Command!ExecTypeOK'
  BY AllSteps, CommandNext
<1>6. FilesInv /\ [AllNext]_allVars => FilesInv'
  BY AllSteps, ConstantsAre, FilesNext
<1>7. ProxyInv /\ [AllNext]_allVars => ProxyInv'
  BY AllSteps, ConstantsAre, ProxyNext
<1>8. PlanInv /\ [AllNext]_allVars => PlanInv'
  BY AllSteps, PlanNext
<1>9. BarInv /\ [AllNext]_allVars => BarInv'
  BY AllSteps, ConstantsAre, BarNext
<1>10. Carried!Spec => [](Carried!TransferTypeOK /\ Carried!LastReportIsComplete)
  BY ConstantsAre, Carried!LastReportIsWhole
<1>11. (/\ ShellInv /\ ShellKeys /\ Shell!FlagsOK /\ Command!ExecTypeOK
        /\ FilesInv /\ ProxyInv /\ PlanInv /\ BarInv /\ Carried!TransferTypeOK)
          => OperationsTypeOK
  <2>1. SUFFICES ASSUME /\ ShellInv /\ ShellKeys /\ Shell!FlagsOK /\ Command!ExecTypeOK
                        /\ FilesInv /\ ProxyInv /\ PlanInv /\ BarInv /\ Carried!TransferTypeOK
                 PROVE  OperationsTypeOK
    OBVIOUS
  <2>2. Shell!SessionTypeOK
    BY <2>1 DEF ShellInv, ShellKeys, Shell!SessionTypeOK
  <2>3. Bar!LiveLinesTypeOK
    <3>1. row \in DOMAIN rows
      BY <2>1 DEF BarInv
    <3>2. QED
      BY <2>1, <3>1 DEF BarInv, Texts, Bar!LiveLinesTypeOK
  <2>4. QED
    BY <2>1, <2>2, <2>3, SameRuns DEF FilesInv, ProxyInv, PlanInv, OperationsTypeOK
<1>12. QED
  BY <1>1, <1>2, <1>3, <1>4, <1>5, <1>6, <1>7, <1>8, <1>9, <1>10, <1>11, RunsAreCarried, PTL
  DEF AllSpec

=============================================================================
