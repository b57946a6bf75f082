---------------------------- MODULE BrowserProofs ----------------------------
(***************************************************************************)
(* The host browser is right for lists, trees, terminals and texts of any  *)
(* size, any number of calls on the hosts file and of file views.          *)
(*                                                                         *)
(* The table of hosts: its cursor is on a row, and its window shows it.    *)
(* The terminal: no log, proxy command or prompt meets a frame.            *)
(* The hosts file: calls that do not overlap add or remove one host each.  *)
(* The panes: what is shown is of the directory named, and stepping up     *)
(* lands on the folder left.  The argument is by pane: a pane rests, is    *)
(* placed, takes a listing or waits for one, and a step of the view is one *)
(* of these for each side.                                                 *)
(* The frame: the columns are cut one by one until they fit.  That takes   *)
(* an induction on the turns of the loop, which AllNumbers gives.          *)
(***************************************************************************)
EXTENDS MCBrowser, Sequences, FiniteSetTheorems, WellFoundedInduction, TLAPS

-----------------------------------------------------------------------------
(* The table of hosts.                                                     *)

\* The types, and a cursor on a row while there is one: only a resize moves nothing,
\* and it touches nothing these two rest on.
TableInv == HostTableTypeOK /\ CursorOnARow

(* How many rows there are, and where clampScroll puts the window.         *)

\* A list of n on a terminal of height h has room for a row, and for its labels and
\* the line that counts the rest besides, wherever the table is more than its labels.
LEMMA RowsFit ==
    ASSUME NEW h \in Nat, NEW n \in Nat
    PROVE  /\ Rows(n, h) \in Nat \ {0}
           /\ listHeight(h) > tableHeaderLines =>
                 tableHeaderLines + Rows(n, h) + (IF Overflow(n, h) THEN 1 ELSE 0)
                     <= listHeight(h)
  BY DEF Rows, Overflow, Room, listHeight, listChrome, tableHeaderLines, Max

\* Whatever window it starts from, clampScroll shows row c, and leaves no line empty
\* with a row hidden above.
LEMMA ClampShows ==
    ASSUME NEW n \in Nat, NEW c \in 0 .. n - 1, NEW o \in Nat, NEW rows \in Nat \ {0}
    PROVE  /\ Clamped(c, o, n, rows) <= c /\ c < Clamped(c, o, n, rows) + rows
           /\ Clamped(c, o, n, rows) > 0 => Clamped(c, o, n, rows) + rows <= n
  BY DEF Clamped, Max, Min

\* It stays in the list, for the row -1 of an empty list too.
LEMMA ClampStays ==
    ASSUME NEW n \in Nat, NEW c \in Int, NEW o \in Nat, NEW rows \in Nat \ {0}
    PROVE  Clamped(c, o, n, rows) \in 0 .. n
  BY DEF Clamped, Max, Min

(* Every way the list is shown again.                                      *)

\* Where the cursor may be put in a list of n: on a row, or at 0 or -1 without one.
Places(n) == IF n = 0 THEN {-1, 0} ELSE 0 .. n - 1

LEMMA InRangeIsAPlace ==
    ASSUME NEW c \in Int, NEW n \in Nat
    PROVE  InRange(c, n) \in Places(n)
  BY DEF InRange, Places, Max, Min

\* Show, from any window, onto a place of a list that is short enough.
LEMMA ShowIsRight ==
    ASSUME HostTableAssumption, height \in Nat, height' = height,
           NEW n \in 0 .. MaxHosts, NEW c \in Places(n), NEW o \in Nat, Show(c, o, n)
    PROVE  /\ count' \in 0 .. MaxHosts /\ cursor' \in -1 .. MaxHosts
           /\ offset' \in 0 .. MaxHosts
           /\ CursorOnARow'
           /\ count' > 0 => Drawn(cursor)' /\ (offset > 0 => offset + Rows(count, height) <= count)'
<1> DEFINE rows == Rows(n, height)
           at == Clamped(c, o, n, rows)
<1>1. n \in Nat /\ n <= MaxHosts /\ MaxHosts \in Nat
  BY DEF HostTableAssumption
<1>2. c \in Int /\ c >= -1 /\ c <= MaxHosts /\ (n > 0 => c \in 0 .. n - 1)
  BY <1>1 DEF Places
<1>3. rows \in Nat \ {0}
  BY <1>1, RowsFit
<1>4. at \in 0 .. n
  BY <1>1, <1>2, <1>3, ClampStays
<1>5. n > 0 => /\ at <= c /\ c < at + rows
               /\ at > 0 => at + rows <= n
  BY <1>1, <1>2, <1>3, ClampShows
<1>6. cursor' = c /\ count' = n /\ offset' = at
  BY DEF Show
<1>7. Rows(count, height)' = rows
  BY <1>6 DEF Rows, Overflow, Room, listHeight
<1> HIDE DEF rows, at
<1> QED
  BY <1>1, <1>2, <1>4, <1>5, <1>6, <1>7 DEF CursorOnARow, Drawn

\* A step shows the list again from some window, or leaves cursor, window and list.
LEMMA StepsShow ==
    ASSUME HostTableAssumption, TableInv, Next
    PROVE  \/ /\ UNCHANGED height /\ asked' \in BOOLEAN
              /\ \E n \in 0 .. MaxHosts : \E c \in Places(n), o \in Nat : Show(c, o, n)
           \/ /\ UNCHANGED <<cursor, offset, count>>
              /\ height' \in Heights \union {0} /\ asked' \in BOOLEAN
<1>0. /\ MaxHosts \in Nat /\ height \in Nat /\ count \in 0 .. MaxHosts /\ cursor \in Int
      /\ offset \in Nat /\ asked \in BOOLEAN /\ height \in Heights \union {0}
      /\ count > 0 => cursor \in 0 .. count - 1
  BY DEF TableInv, HostTableTypeOK, CursorOnARow, HostTableAssumption
<1>1. CASE \E h \in Heights : Resize(h)
  BY <1>0, <1>1 DEF Resize
<1>2. CASE \E delta \in {-1, 1, -pageSize, pageSize} : Move(delta)
  <2>1. pageSize \in Int
    <3>1. Rows(count, height) \in Int
      BY <1>0, RowsFit
    <3> QED BY <3>1 DEF pageSize, Max
  <2>2. PICK delta \in {-1, 1, -pageSize, pageSize} : Move(delta)
    BY <1>2
  <2>3. delta \in Int
    BY <2>1
  <2> DEFINE c == Min(Max(cursor + delta, 0), count - 1)
  <2>4. count > 0 /\ c \in Places(count)
    BY <1>0, <2>2, <2>3 DEF Move, Places, Max, Min
  <2>5. Show(c, offset, count) /\ UNCHANGED <<height, asked>>
    BY <2>2 DEF Move
  <2> QED BY <1>0, <2>4, <2>5
<1>3. CASE \E c \in {0, count - 1} : Jump(c)
  <2>1. PICK c \in {0, count - 1} : Jump(c)
    BY <1>3
  <2>2. c \in Places(count)
    BY <1>0, <2>1 DEF Places
  <2> QED BY <1>0, <2>1, <2>2 DEF Jump
<1>4. CASE \E n \in 0 .. MaxHosts : Filter(n) \/ HostAdded(n) \/ HostRemoved(n)
  <2>1. PICK n \in 0 .. MaxHosts : Filter(n) \/ HostAdded(n) \/ HostRemoved(n)
    BY <1>4
  <2>2. n \in Nat /\ 0 \in Nat
    BY <1>0
  <2>3. InRange(cursor, n) \in Places(n)
    BY <1>0, <2>2, InRangeIsAPlace
  <2>4. CASE Filter(n)
    BY <1>0, <2>2, <2>3, <2>4 DEF Filter
  <2>5. CASE HostAdded(n)
    <3> DEFINE o == Clamped(InRange(cursor, n), 0, n, Rows(n, height))
    <3>1. PICK c \in {InRange(cursor, n)} \union 0 .. n - 1 : Show(c, o, n)
      BY <2>5 DEF HostAdded
    <3>2. c \in Places(n)
      BY <2>2, <2>3, <3>1 DEF Places
    <3>3. o \in Nat
      <4>1. Rows(n, height) \in Nat \ {0}
        BY <1>0, <2>2, RowsFit
      <4>2. InRange(cursor, n) \in Int
        BY <2>2, <2>3 DEF Places
      <4>3. o \in 0 .. n
        BY <2>2, <4>1, <4>2, ClampStays
      <4> QED BY <2>2, <4>3
    <3>4. UNCHANGED height /\ asked' \in BOOLEAN
      BY <2>5 DEF HostAdded
    <3> HIDE DEF o
    <3> QED BY <2>1, <3>1, <3>2, <3>3, <3>4
  <2>6. CASE HostRemoved(n)
    <3> DEFINE c == Min(Max(cursor, 0), Max(n - 1, 0))
    <3>1. c \in Places(n)
      BY <1>0, <2>2 DEF Places, Max, Min
    <3>2. Show(c, offset, n) /\ UNCHANGED <<height, asked>>
      BY <2>6 DEF HostRemoved
    <3> QED BY <1>0, <2>1, <3>1, <3>2
  <2> QED BY <2>1, <2>4, <2>5, <2>6
<1>5. CASE Ask \/ Answer
  BY <1>0, <1>5 DEF Ask, Answer
<1> QED BY <1>1, <1>2, <1>3, <1>4, <1>5 DEF Next

LEMMA TableInit ==
    ASSUME HostTableAssumption, Init
    PROVE  TableInv
<1>1. MaxHosts \in Nat /\ count \in 0 .. MaxHosts /\ cursor = 0 /\ offset = 0
  BY DEF HostTableAssumption, Init
<1>2. cursor \in -1 .. MaxHosts /\ offset \in 0 .. MaxHosts
  BY <1>1
<1>3. CursorOnARow
  BY <1>1 DEF CursorOnARow
<1> QED BY <1>1, <1>2, <1>3 DEF Init, TableInv, HostTableTypeOK

\* A step keeps the invariant, and shows the cursor's row if it moved anything.
LEMMA TableStep ==
    ASSUME HostTableAssumption, TableInv, [Next]_tableVars
    PROVE  /\ TableInv'
           /\ <<cursor, offset, count>>' # <<cursor, offset, count>> /\ count' > 0
                 => Drawn(cursor)' /\ (offset > 0 => offset + Rows(count, height) <= count)'
<1>0. height \in Nat /\ height \in Heights \union {0} /\ HostTableTypeOK /\ CursorOnARow
  BY DEF TableInv, HostTableTypeOK, HostTableAssumption
<1>1. CASE UNCHANGED height /\ asked' \in BOOLEAN
           /\ \E n \in 0 .. MaxHosts : \E c \in Places(n), o \in Nat : Show(c, o, n)
  <2>1. PICK n \in 0 .. MaxHosts : \E c \in Places(n), o \in Nat : Show(c, o, n)
    BY <1>1
  <2>2. height' = height /\ asked' \in BOOLEAN
    BY <1>1
  <2>3. /\ count' \in 0 .. MaxHosts /\ cursor' \in -1 .. MaxHosts
        /\ offset' \in 0 .. MaxHosts
        /\ CursorOnARow'
        /\ count' > 0 => Drawn(cursor)' /\ (offset > 0 => offset + Rows(count, height) <= count)'
    BY <1>0, <2>1, <2>2, ShowIsRight
  <2> QED BY <1>0, <2>2, <2>3 DEF TableInv, HostTableTypeOK
<1>2. CASE UNCHANGED <<cursor, offset, count>>
           /\ height' \in Heights \union {0} /\ asked' \in BOOLEAN
  BY <1>0, <1>2 DEF TableInv, HostTableTypeOK, CursorOnARow
<1>3. CASE UNCHANGED tableVars
  BY <1>0, <1>3 DEF tableVars, TableInv, HostTableTypeOK, CursorOnARow
<1> QED BY <1>1, <1>2, <1>3, StepsShow

\* What is drawn fits the lines of the table, in every state of the right types.
LEMMA TableFits ==
    ASSUME HostTableAssumption, HostTableTypeOK
    PROVE  FrameFits
<1>1. height \in Nat /\ count \in Nat /\ offset \in Nat
  BY DEF HostTableAssumption, HostTableTypeOK
<1> DEFINE rows == Rows(count, height)
           more == IF Overflow(count, height) THEN 1 ELSE 0
           drawn == Min(rows, Max(count - offset, 0))
<1>2. rows \in Nat /\ (listHeight(height) > tableHeaderLines =>
                           tableHeaderLines + rows + more <= listHeight(height))
  BY <1>1, RowsFit
<1>3. drawn \in Nat /\ drawn <= rows /\ more \in {0, 1} /\ listHeight(height) \in Nat
  BY <1>1, <1>2 DEF Min, Max, listHeight, listChrome
<1> HIDE DEF rows, more, drawn
<1>4. listHeight(height) > tableHeaderLines =>
          tableHeaderLines + drawn + more <= listHeight(height)
  BY <1>2, <1>3 DEF tableHeaderLines
<1> QED BY <1>4 DEF FrameFits, rows, more, drawn

-----------------------------------------------------------------------------
(* The terminal.                                                           *)

\* While frames are drawn, and before, the log goes elsewhere and with it the stderr
\* of every proxy command; only the session asks, and the frame waits for its end.
ClearInv ==
    /\ Screen!TerminalTypeOK
    /\ screen = "shell" <=> main # "running"
    /\ main = "start" => logger = "stderr" /\ output = "stderr" /\ logFile = "closed"
    /\ main \in {"detached", "running", "over"} => logger = output /\ logger # "stderr"
    /\ main \in {"restoring", "back", "returned"} => logger = "stderr"
    /\ main \in {"back", "returned"} => output = "stderr"
    /\ logFile = "closed" => logger # "file" /\ output # "file"
    /\ main \in {"start", "detached"} => dial = [d \in Screen!Dials |-> "none"]
    /\ main \in {"start", "detached", "running"} => \A d \in Screen!Dials : proxy[d] # "stderr"
    /\ \A v \in Views : dial[v] # "asking"
    /\ screen # "session" => dial[TheSession] \in {"none", "done"}

LEMMA TerminalBegins == ASSUME Screen!TerminalAssumption, Screen!Init PROVE ClearInv
<1>1. Screen!TerminalTypeOK
  BY DEF Screen!Init, Screen!TerminalTypeOK, Screen!Sinks
<1>2. QED
  BY <1>1 DEF Screen!Init, ClearInv, Screen!Dials

\* The browser's own steps.
LEMMA MainIsClear ==
    ASSUME Screen!TerminalAssumption, ClearInv,
           \/ Screen!Detach \/ Screen!Run \/ Screen!Quit
           \/ Screen!RestoreLogger \/ Screen!RestoreOutput \/ Screen!CloseOut
    PROVE  ClearInv'
<1>1. CASE Screen!Detach
  BY <1>1 DEF Screen!Detach, ClearInv, Screen!TerminalTypeOK, Screen!Sinks, Screen!Dials
<1>2. CASE Screen!Run
  BY <1>2 DEF Screen!Run, ClearInv, Screen!TerminalTypeOK, Screen!Dials
<1>3. CASE Screen!Quit
  BY <1>3 DEF Screen!Quit, ClearInv, Screen!TerminalTypeOK
<1>4. CASE Screen!RestoreLogger
  BY <1>4 DEF Screen!RestoreLogger, ClearInv, Screen!TerminalTypeOK, Screen!Sinks
<1>5. CASE Screen!RestoreOutput
  BY <1>5 DEF Screen!RestoreOutput, ClearInv, Screen!TerminalTypeOK, Screen!Sinks
<1>6. CASE Screen!CloseOut
  BY <1>6 DEF Screen!CloseOut, ClearInv, Screen!TerminalTypeOK
<1>7. QED
  BY <1>1, <1>2, <1>3, <1>4, <1>5, <1>6

\* Those of dials: of a view, which is never asking, or of the session.
LEMMA DialsAreClear ==
    ASSUME Screen!TerminalAssumption, ClearInv,
           \/ Screen!StartSession
           \/ \E v \in Views : Screen!OpenView(v)
           \/ \E d \in Screen!Dials : \/ Screen!StartProxy(d) \/ Screen!Refused(d)
                                      \/ Screen!Answered(d) \/ Screen!Connected(d)
                                      \/ Screen!Over(d)
    PROVE  ClearInv'
<1> USE DEF ClearInv, Screen!TerminalTypeOK, Screen!Dials
<1>0. TheSession \notin Views
  BY DEF Screen!TerminalAssumption
<1>1. CASE Screen!StartSession
  BY <1>0, <1>1 DEF Screen!StartSession, Screen!loopIsFree
<1>2. CASE \E v \in Views : Screen!OpenView(v)
  BY <1>0, <1>2 DEF Screen!OpenView, Screen!loopIsFree
<1>3. ASSUME NEW d \in Screen!Dials, Screen!StartProxy(d) PROVE ClearInv'
  BY <1>0, <1>3 DEF Screen!StartProxy
<1>4. ASSUME NEW d \in Screen!Dials, Screen!Refused(d) PROVE ClearInv'
  BY <1>0, <1>4 DEF Screen!Refused
<1>5. ASSUME NEW d \in Screen!Dials, Screen!Answered(d) PROVE ClearInv'
  BY <1>0, <1>5 DEF Screen!Answered
<1>6. ASSUME NEW d \in Screen!Dials, Screen!Connected(d) PROVE ClearInv'
  BY <1>0, <1>6 DEF Screen!Connected
<1>7. ASSUME NEW d \in Screen!Dials, Screen!Over(d) PROVE ClearInv'
  BY <1>0, <1>7 DEF Screen!Over
<1>8. QED
  BY <1>1, <1>2, <1>3, <1>4, <1>5, <1>6, <1>7

LEMMA TerminalStays ==
    ASSUME Screen!TerminalAssumption, ClearInv, [Screen!Next]_screenVars
    PROVE  ClearInv'
<1>1. CASE Screen!Next
  BY <1>1, MainIsClear, DialsAreClear DEF Screen!Next
<1>2. CASE UNCHANGED screenVars
  BY <1>2 DEF screenVars, ClearInv, Screen!TerminalTypeOK
<1>3. QED
  BY <1>1, <1>2

\* That is what is promised of the terminal.
LEMMA TerminalAnswers ==
    ASSUME Screen!TerminalAssumption, ClearInv
    PROVE  Screen!TerminalIsClear
<1>1. Screen!FrameIsAlone
  BY DEF ClearInv, Screen!TerminalTypeOK, Screen!FrameIsAlone, Screen!Dials
<1>2. Screen!SessionIsAlone
  BY DEF ClearInv, Screen!TerminalTypeOK, Screen!SessionIsAlone, Screen!Dials
<1>3. Screen!LinesComeBack
  BY DEF ClearInv, Screen!LinesComeBack
<1>4. QED
  BY <1>1, <1>2, <1>3 DEF Screen!TerminalIsClear

-----------------------------------------------------------------------------
(* The event loop and the hosts file.                                      *)

\* What the question and the calls are about is a host that could be listed.
LoopInv ==
    /\ Stored!HostsFileTypeOK /\ Loop!BrowserTypeOK
    /\ mode = "confirm" => pending \in Aliases
    /\ \A j \in Jobs : jobs[j].stage \notin {"idle", "told"} => jobs[j].alias \in Aliases

\* A job that holds nothing.
LEMMA BlankIsJob ==
    ASSUME NEW stage \in Stored!Stages
    PROVE  Stored!Blank(stage) \in Stored!Job /\ Stored!Blank(stage).stage = stage
<1>1. Stored!Empty \in Stored!Counts
  BY DEF Stored!Empty, Stored!Counts
<1>2. QED
  BY <1>1 DEF Stored!Blank, Stored!Job

\* The browser's state as a step that keeps to the types leaves it.
LEMMA LoopStays ==
    ASSUME Stored!HostsFileAssumption, LoopInv, [Loop!Next]_loopVars
    PROVE  LoopInv'
<1> USE DEF LoopInv, Loop!BrowserTypeOK, Loop!Modes
<1>a. Loop!Files!Counts = Stored!Counts
  BY DEF Loop!Files!Counts, Stored!Counts
<1>0. NoAlias \notin Aliases
  BY DEF Stored!HostsFileAssumption
<1>s. ASSUME UNCHANGED <<file, jobs>> PROVE Stored!HostsFileTypeOK'
  BY <1>s DEF Stored!HostsFileTypeOK
<1>1. CASE Loop!OpenForm
  BY <1>1, <1>s, <1>a DEF Loop!OpenForm, Loop!Goes, Loop!Listens, Loop!program, Loop!Cleared, Loop!screen
<1>2. CASE Loop!CancelForm
  BY <1>2, <1>s, <1>a DEF Loop!CancelForm, Loop!Goes, Loop!Listens, Loop!program, Loop!Cleared, Loop!screen
<1>3. CASE Loop!CancelRemove
  BY <1>3, <1>s, <1>a DEF Loop!CancelRemove, Loop!Goes, Loop!Listens, Loop!program, Loop!Cleared, Loop!screen
<1>4. CASE Loop!Refuse
  BY <1>4, <1>s, <1>a DEF Loop!Refuse, Loop!Goes, Loop!Listens, Loop!program, Loop!Cleared, Loop!screen
<1>5. CASE Loop!OpenHelp
  BY <1>5, <1>s, <1>a DEF Loop!OpenHelp, Loop!Goes, Loop!Listens, Loop!program, Loop!Cleared, Loop!screen
<1>6. CASE Loop!CloseHelp
  BY <1>6, <1>s, <1>a DEF Loop!CloseHelp, Loop!Goes, Loop!Listens, Loop!program, Loop!Cleared, Loop!screen
<1>7. CASE Loop!OpenFiles
  BY <1>7, <1>s, <1>a DEF Loop!OpenFiles, Loop!Goes, Loop!Listens, Loop!program, Loop!Cleared, Loop!screen
<1>8. CASE Loop!CloseFiles
  BY <1>8, <1>s, <1>a DEF Loop!CloseFiles, Loop!Goes, Loop!Listens, Loop!program, Loop!Cleared, Loop!screen
<1>9. CASE Loop!Connect
  BY <1>9, <1>s, <1>a DEF Loop!Connect, Loop!Goes, Loop!Listens, Loop!program, Loop!Cleared, Loop!screen
<1>10. CASE Loop!EndSession
  BY <1>10, <1>s, <1>a DEF Loop!EndSession, Loop!Goes, Loop!Listens, Loop!program, Loop!Cleared, Loop!screen
<1>11. CASE Loop!SessionFinished
  BY <1>11, <1>s, <1>a DEF Loop!SessionFinished, Loop!Goes, Loop!Listens, Loop!program, Loop!Cleared, Loop!screen
<1>12. CASE Loop!Quit
  BY <1>12, <1>s, <1>a DEF Loop!Quit, Loop!Goes, Loop!Listens, Loop!program, Loop!Cleared, Loop!screen
<1>13. ASSUME NEW a \in Aliases, Loop!AskRemove(a) PROVE LoopInv'
  BY <1>13, <1>s, <1>a DEF Loop!AskRemove, Loop!Goes, Loop!Listens, Loop!program, Loop!Cleared
<1>b. ASSUME NEW j \in Jobs, NEW kind \in {"add", "remove"}, NEW a \in Aliases,
             Loop!Files!Begin(j, kind, a)
      PROVE  /\ Stored!HostsFileTypeOK'
             /\ \A i \in Jobs : jobs'[i].stage \notin {"idle", "told"} => jobs'[i].alias \in Aliases
  BY <1>b DEF Loop!Files!Begin, Stored!HostsFileTypeOK, Stored!Job, Stored!Stages
<1>14. ASSUME NEW j \in Jobs, NEW a \in Aliases, Loop!SubmitForm(j, a) PROVE LoopInv'
  BY <1>14, <1>a, <1>b DEF Loop!SubmitForm, Loop!Goes, Loop!Listens, Loop!program, Loop!Cleared
<1>15. ASSUME NEW j \in Jobs, Loop!RemoveHost(j) PROVE LoopInv'
  BY <1>15, <1>a, <1>b DEF Loop!RemoveHost, Loop!Goes, Loop!Listens, Loop!program, Loop!Cleared
<1>c. ASSUME NEW j \in Jobs, NEW stage \in Stored!Stages, jobs[j].stage \notin {"idle", "told"},
             Loop!Files!Advance(j, stage), UNCHANGED file
      PROVE  /\ Stored!HostsFileTypeOK'
             /\ \A i \in Jobs : jobs'[i].stage \notin {"idle", "told"} => jobs'[i].alias \in Aliases
  BY <1>c DEF Loop!Files!Advance, Stored!HostsFileTypeOK, Stored!Job
<1>16. ASSUME NEW j \in Jobs, Loop!JobRuns(j) PROVE LoopInv'
  <2>0. UNCHANGED <<mode, helpFor, pending, hosts, viewOpen, status, session, quit>>
    BY <1>16 DEF Loop!JobRuns, Loop!screen, Loop!program
  <2>1. CASE Loop!Files!CheckClash(j)
    BY <2>0, <2>1, <1>a, <1>c DEF Loop!Files!CheckClash, Stored!Stages
  <2>2. CASE Loop!Files!ReadFile(j)
    <3>1. CASE Loop!Files!Advance(j, "failed")
      BY <2>0, <2>2, <3>1, <1>a, <1>c DEF Loop!Files!ReadFile, Stored!Stages
    <3>2. CASE jobs' = [jobs EXCEPT ![j].body = file, ![j].stage = "write"]
      BY <2>0, <2>2, <3>2, <1>a
      DEF Loop!Files!ReadFile, Stored!HostsFileTypeOK, Stored!Job, Stored!Stages
    <3>3. QED
      BY <2>2, <3>1, <3>2 DEF Loop!Files!ReadFile
  <2>3. CASE Loop!Files!WriteFile(j)
    <3>1. CASE Loop!Files!Advance(j, "failed") /\ UNCHANGED file
      BY <2>0, <2>3, <3>1, <1>a, <1>c DEF Loop!Files!WriteFile, Stored!Stages
    <3>2. CASE /\ file' = Loop!Files!Edited(jobs[j].kind, jobs[j].body, jobs[j].alias)
               /\ jobs' = [jobs EXCEPT ![j].stage = "list", ![j].written = TRUE]
      <4> DEFINE body == jobs[j].body
                 alias == jobs[j].alias
                 new == IF jobs[j].kind = "add" THEN body[alias] + 1 ELSE 0
                 job == [jobs[j] EXCEPT !.stage = "list", !.written = TRUE]
      <4>1. body \in [Aliases -> Nat] /\ alias \in Aliases /\ jobs[j] \in Stored!Job
        BY <2>3 DEF Loop!Files!WriteFile, Stored!HostsFileTypeOK, Stored!Job, Stored!Counts
      <4>2. file' \in [Aliases -> Nat]
        <5>1. new \in Nat
          BY <4>1
        <5>2. file' = [body EXCEPT ![alias] = new]
          BY <3>2 DEF Loop!Files!Edited
        <5> HIDE DEF body, alias, new
        <5>3. QED
          BY <4>1, <5>1, <5>2
      <4>3. jobs' \in [Jobs -> Stored!Job]
        <5>1. job \in Stored!Job
          <6>1. job = [jobs[j] EXCEPT !.stage = "list", !.written = TRUE]
            OBVIOUS
          <6> HIDE DEF job, body, alias, new
          <6>2. QED
            BY <4>1, <6>1, TRUE \in BOOLEAN DEF Stored!Job, Stored!Stages
        <5>2. jobs' = [jobs EXCEPT ![j] = job]
          BY <3>2
        <5> HIDE DEF job
        <5>3. QED
          BY <5>1, <5>2 DEF Stored!HostsFileTypeOK
      <4>4. \A i \in Jobs : jobs'[i].stage \notin {"idle", "told"} => jobs'[i].alias \in Aliases
        BY <2>3, <3>2 DEF Loop!Files!WriteFile, Stored!HostsFileTypeOK, Stored!Job
      <4>5. QED
        BY <2>0, <4>2, <4>3, <4>4, <1>a DEF Stored!HostsFileTypeOK, Stored!Counts
    <3>3. QED
      BY <2>3, <3>1, <3>2 DEF Loop!Files!WriteFile
  <2>4. CASE Loop!Files!ListHosts(j)
    <3>1. CASE Loop!Files!Advance(j, "failed")
      BY <2>0, <2>4, <3>1, <1>a, <1>c DEF Loop!Files!ListHosts, Stored!Stages
    <3>2. CASE jobs' = [jobs EXCEPT ![j].hosts = file, ![j].stage = "done"]
      BY <2>0, <2>4, <3>2, <1>a
      DEF Loop!Files!ListHosts, Stored!HostsFileTypeOK, Stored!Job, Stored!Stages
    <3>3. QED
      BY <2>4, <3>1, <3>2 DEF Loop!Files!ListHosts
  <2>5. QED
    BY <1>16, <2>1, <2>2, <2>3, <2>4 DEF Loop!JobRuns, Loop!Files!JobStep
<1>17. ASSUME NEW j \in Jobs, Loop!HostAdded(j) \/ Loop!HostRemoved(j) PROVE LoopInv'
  <2>1. /\ Loop!Files!Tell(j) /\ status' = j
        /\ UNCHANGED <<helpFor, pending, viewOpen, session, quit>>
    BY <1>17 DEF Loop!HostAdded, Loop!HostRemoved, Loop!Answered, Loop!Listens, Loop!program
  <2>2. mode' \in {mode, "list"} /\ hosts' \in {hosts, jobs[j].hosts}
    BY <1>17 DEF Loop!HostAdded, Loop!HostRemoved
  <2>3. jobs[j].hosts \in Stored!Counts
    BY DEF Stored!HostsFileTypeOK, Stored!Job
  <2>4. /\ Stored!HostsFileTypeOK'
        /\ \A i \in Jobs : jobs'[i].stage \notin {"idle", "told"} => jobs'[i].alias \in Aliases
    <3> DEFINE blank == Stored!Blank("told")
    <3>1. jobs' = [jobs EXCEPT ![j] = blank] /\ file' = file
      BY <2>1 DEF Loop!Files!Tell, Loop!Files!Blank, Loop!Files!Empty, Stored!Blank, Stored!Empty
    <3>2. blank \in Stored!Job /\ blank.stage = "told"
      BY BlankIsJob DEF Stored!Stages
    <3> HIDE DEF blank
    <3>3. QED
      BY <3>1, <3>2 DEF Stored!HostsFileTypeOK
  <2>5. QED
    BY <2>1, <2>2, <2>3, <2>4, <1>a
<1>18. CASE UNCHANGED loopVars
  BY <1>18, <1>s, <1>a DEF loopVars
<1>19. QED
  BY <1>1, <1>2, <1>3, <1>4, <1>5, <1>6, <1>7, <1>8, <1>9, <1>10, <1>11, <1>12, <1>13, <1>14,
     <1>15, <1>16, <1>17, <1>18
  DEF Loop!Next

LEMMA LoopBegins == ASSUME Stored!HostsFileAssumption, Loop!Init PROVE LoopInv
<1>1. file \in Stored!Counts /\ Stored!Empty \in Stored!Counts
  BY DEF Loop!Init, Loop!Files!Init, Stored!Counts, Stored!Empty
<1>2. jobs \in [Jobs -> Stored!Job] /\ \A j \in Jobs : jobs[j].stage = "idle"
  <2> DEFINE job == Stored!Blank("idle")
  <2>1. job \in Stored!Job /\ job.stage = "idle"
    BY BlankIsJob DEF Stored!Stages
  <2>2. jobs = [j \in Jobs |-> job]
    BY DEF Loop!Init, Loop!Files!Init, Loop!Files!Blank, Loop!Files!Empty, Stored!Blank, Stored!Empty
  <2> HIDE DEF job
  <2>3. QED
    BY <2>1, <2>2
<1>3. hosts \in Loop!Files!Counts
  BY <1>1 DEF Loop!Init, Loop!Files!Counts, Stored!Counts
<1>4. QED
  BY <1>1, <1>2, <1>3
  DEF Loop!Init, LoopInv, Stored!HostsFileTypeOK, Loop!BrowserTypeOK, Loop!Modes

\* One call at a time: what it is about to write it has read from the file as it is,
\* an add once it found its alias free, a removal once it found it taken.
OneInv ==
    /\ LoopInv
    /\ \A i, j \in Jobs : i \in Stored!Active /\ j \in Stored!Active => i = j
    /\ \A j \in Jobs :
          /\ jobs[j].kind = "add" /\ jobs[j].stage \in {"read", "write"} =>
                jobs[j].alias \notin Stored!Listed(file)
          /\ jobs[j].kind = "remove" /\ jobs[j].stage = "write" =>
                jobs[j].alias \in Stored!Listed(file)
          /\ jobs[j].stage = "write" => jobs[j].body = file

\* Nobody is at work when a call begins.
LEMMA BeginsAlone ==
    ASSUME Stored!HostsFileAssumption, MaxActive = 1,
           NEW j, NEW kind, NEW a, Loop!Files!Begin(j, kind, a)
    PROVE  Stored!Active = {}
<1>1. Stored!Active \subseteq Jobs /\ IsFiniteSet(Jobs)
  BY DEF Stored!Active, Stored!HostsFileAssumption, Stored!IsFiniteSet, IsFiniteSet
<1>2. IsFiniteSet(Stored!Active)
  BY <1>1, FS_Subset
<1>3. Stored!Active = Loop!Files!Active
  BY DEF Stored!Active, Loop!Files!Active
<1>4. Cardinality(Stored!Active) < 1
  BY <1>3 DEF Loop!Files!Begin, Loop!Files!Cardinality, Cardinality
<1>6. Cardinality(Stored!Active) \in Nat
  BY <1>2, FS_CardinalityType
<1>5. QED
  BY <1>2, <1>4, <1>6, FS_EmptySet

Listing == Stored!Listed(file)

\* A host comes to be listed, or ceases to, or nothing changes with it.
ListStep == (\E a \in Aliases : Stored!HostList!Add(a) \/ Stored!HostList!Remove(a))
            \/ UNCHANGED Listing

\* The steps of a call.
LEMMA CallIsOne ==
    ASSUME Stored!HostsFileAssumption, MaxActive = 1, OneInv, LoopInv', NEW j \in Jobs,
           \/ \E kind \in {"add", "remove"}, a \in Aliases : Loop!Files!Begin(j, kind, a)
           \/ Loop!Files!JobStep(j)
    PROVE  OneInv' /\ ListStep
<1>0. /\ jobs \in [Jobs -> Stored!Job] /\ file \in [Aliases -> Nat]
      /\ \A i \in Jobs : jobs[i].stage \notin {"idle", "told"} => jobs[i].alias \in Aliases
      /\ \A i \in Jobs : jobs[i] \in Stored!Job
  BY DEF OneInv, LoopInv, Stored!HostsFileTypeOK, Stored!Counts
<1>s. \A f : Loop!Files!Listed(f) = Stored!Listed(f)
  BY DEF Loop!Files!Listed, Stored!Listed
<1>1. ASSUME NEW kind \in {"add", "remove"}, NEW a \in Aliases, Loop!Files!Begin(j, kind, a)
      PROVE  OneInv' /\ ListStep
  <2>1. Stored!Active = {}
    BY <1>1, BeginsAlone
  <2>2. UNCHANGED Listing
    BY <1>1 DEF Loop!Files!Begin, Listing
  <2>3. \A i \in Jobs : i # j => jobs'[i] = jobs[i]
    BY <1>0, <1>1 DEF Loop!Files!Begin
  <2>4. jobs'[j].stage \in {"check", "read"} /\ (jobs'[j].kind = "add" => jobs'[j].stage = "check")
    BY <1>0, <1>1 DEF Loop!Files!Begin, Stored!Job
  <2>5. file' = file
    BY <1>1 DEF Loop!Files!Begin
  <2>6. QED
    BY <2>1, <2>2, <2>3, <2>4, <2>5 DEF OneInv, Stored!Active, ListStep, Listing
<1>2. CASE Loop!Files!JobStep(j)
  <2>1. jobs[j].stage \in {"check", "read", "write", "list"}
    BY <1>2 DEF Loop!Files!JobStep, Loop!Files!CheckClash, Loop!Files!ReadFile,
                Loop!Files!WriteFile, Loop!Files!ListHosts
  <2>2. \A i \in Jobs : jobs[i].stage \in {"check", "read", "write", "list"} => i = j
    BY <2>1 DEF OneInv, Stored!Active
  <2>3. \A i \in Jobs : i # j => jobs'[i] = jobs[i]
    BY <1>0, <1>2 DEF Loop!Files!JobStep, Loop!Files!CheckClash, Loop!Files!ReadFile,
                Loop!Files!WriteFile, Loop!Files!ListHosts, Loop!Files!Advance
  <2>4. CASE Loop!Files!WriteFile(j) /\ jobs'[j].stage = "list"
    <3> DEFINE alias == jobs[j].alias
    <3>1. jobs[j].stage = "write" /\ jobs[j].body = file /\ alias \in Aliases
      BY <1>0, <2>4 DEF Loop!Files!WriteFile, OneInv
    <3>2. file' = Loop!Files!Edited(jobs[j].kind, file, alias)
      BY <1>0, <2>4, <3>1 DEF Loop!Files!WriteFile, Loop!Files!Advance, Stored!Job
    <3>3. ASSUME jobs[j].kind = "add" PROVE ListStep
      <4>1. alias \notin Stored!Listed(file)
        BY <3>1, <3>3 DEF OneInv
      <4>2. file' = [file EXCEPT ![alias] = file[alias] + 1]
        BY <3>2, <3>3 DEF Loop!Files!Edited
      <4> HIDE DEF alias
      <4>3. Stored!Listed(file') = Stored!Listed(file) \union {alias}
        BY <1>0, <3>1, <4>2 DEF Stored!Listed
      <4>4. Stored!HostList!Add(alias)
        BY <4>1, <4>3 DEF Stored!HostList!Add, Stored!Listed
      <4>5. QED
        BY <3>1, <4>4 DEF ListStep
    <3>4. ASSUME jobs[j].kind = "remove" PROVE ListStep
      <4>1. alias \in Stored!Listed(file)
        BY <3>1, <3>4 DEF OneInv
      <4>2. file' = [file EXCEPT ![alias] = 0]
        BY <3>2, <3>4 DEF Loop!Files!Edited
      <4> HIDE DEF alias
      <4>3. Stored!Listed(file') = Stored!Listed(file) \ {alias}
        BY <1>0, <3>1, <4>2 DEF Stored!Listed
      <4>4. Stored!HostList!Remove(alias)
        BY <4>1, <4>3 DEF Stored!HostList!Remove, Stored!Listed
      <4>5. QED
        BY <3>1, <4>4 DEF ListStep
    <3>5. ListStep
      BY <1>0, <3>3, <3>4 DEF Stored!Job
    <3>6. OneInv'
      BY <2>2, <2>3, <2>4 DEF OneInv, Stored!Active
    <3>7. QED
      BY <3>5, <3>6
  <2>5. CASE file' = file /\ jobs'[j].stage \in {"failed", "done", "list"}
    BY <2>2, <2>3, <2>5 DEF OneInv, Stored!Active, ListStep, Listing
  <2>6. CASE Loop!Files!CheckClash(j) /\ jobs'[j].stage = "read"
    <3>1. jobs[j].alias \notin Stored!Listed(file)
      BY <1>0, <1>s, <2>6 DEF Loop!Files!CheckClash, Loop!Files!Advance, Stored!Job
    <3>2. jobs'[j].alias = jobs[j].alias /\ file' = file
      BY <1>0, <2>6 DEF Loop!Files!CheckClash, Loop!Files!Advance, Stored!Job
    <3>3. QED
      BY <2>2, <2>3, <2>6, <3>1, <3>2 DEF OneInv, Stored!Active, ListStep, Listing
  <2>7. CASE Loop!Files!ReadFile(j) /\ jobs'[j].stage = "write"
    <3>1. /\ jobs[j].stage = "read"
          /\ jobs[j].kind = "remove" => jobs[j].alias \in Stored!Listed(file)
          /\ jobs' = [jobs EXCEPT ![j].body = file, ![j].stage = "write"] /\ file' = file
      BY <1>0, <1>s, <2>7 DEF Loop!Files!ReadFile, Loop!Files!Advance, Stored!Job
    <3>2. /\ jobs'[j].alias = jobs[j].alias /\ jobs'[j].kind = jobs[j].kind
          /\ jobs'[j].body = file
      BY <1>0, <3>1 DEF Stored!Job
    <3>3. jobs[j].kind = "add" => jobs[j].alias \notin Stored!Listed(file)
      BY <3>1 DEF OneInv
    <3>4. QED
      BY <2>2, <2>3, <2>7, <3>1, <3>2, <3>3 DEF OneInv, Stored!Active, ListStep, Listing
  <2>8. QED
    <3>1. CASE Loop!Files!CheckClash(j)
      BY <1>0, <2>5, <2>6, <3>1 DEF Loop!Files!CheckClash, Loop!Files!Advance, Stored!Job
    <3>2. CASE Loop!Files!ReadFile(j)
      BY <1>0, <2>5, <2>7, <3>2 DEF Loop!Files!ReadFile, Loop!Files!Advance, Stored!Job
    <3>3. CASE Loop!Files!WriteFile(j)
      BY <1>0, <2>4, <2>5, <3>3 DEF Loop!Files!WriteFile, Loop!Files!Advance, Stored!Job
    <3>4. CASE Loop!Files!ListHosts(j)
      BY <1>0, <2>5, <3>4 DEF Loop!Files!ListHosts, Loop!Files!Advance, Stored!Job
    <3>5. QED
      BY <1>2, <3>1, <3>2, <3>3, <3>4 DEF Loop!Files!JobStep
<1>3. QED
  BY <1>1, <1>2

\* And those of the browser, which calls nobody but them.
LEMMA OneStays ==
    ASSUME Stored!HostsFileAssumption, MaxActive = 1, OneInv, [Loop!Next]_loopVars
    PROVE  OneInv' /\ ListStep
<1>0. LoopInv' /\ LoopInv
  BY LoopStays DEF OneInv
<1>1. CASE UNCHANGED <<file, jobs>>
  BY <1>0, <1>1 DEF OneInv, Stored!Active, ListStep, Listing
<1>2. CASE \E j \in Jobs : \/ \E a \in Aliases : Loop!SubmitForm(j, a)
                           \/ Loop!RemoveHost(j) \/ Loop!JobRuns(j)
  <2>1. ASSUME NEW j \in Jobs, Loop!RemoveHost(j)
        PROVE  pending \in Aliases /\ Loop!Files!Begin(j, "remove", pending)
    BY <1>0, <2>1 DEF Loop!RemoveHost, Loop!Goes, Loop!Listens, LoopInv
  <2>2. QED
    BY <1>0, <1>2, <2>1, CallIsOne DEF Loop!SubmitForm, Loop!JobRuns
<1>3. ASSUME NEW j \in Jobs, Loop!HostAdded(j) \/ Loop!HostRemoved(j) PROVE OneInv' /\ ListStep
  <2>1. jobs' = [jobs EXCEPT ![j] = Stored!Blank("told")] /\ file' = file
    BY <1>3 DEF Loop!HostAdded, Loop!HostRemoved, Loop!Answered, Loop!Files!Tell,
                Loop!Files!Blank, Loop!Files!Empty, Stored!Blank, Stored!Empty
  <2>2. jobs \in [Jobs -> Stored!Job]
    BY <1>0 DEF LoopInv, Stored!HostsFileTypeOK
  <2>3. jobs'[j].stage = "told" /\ \A i \in Jobs : i # j => jobs'[i] = jobs[i]
    BY <2>1, <2>2, BlankIsJob DEF Stored!Stages
  <2>4. QED
    BY <1>0, <2>1, <2>3 DEF OneInv, Stored!Active, ListStep, Listing
<1>4. QED
  <2>1. CASE UNCHANGED loopVars
    BY <1>1, <2>1 DEF loopVars
  <2>2. CASE Loop!Next
    <3>1. \/ \E j \in Jobs : \/ \E a \in Aliases : Loop!SubmitForm(j, a)
                             \/ Loop!RemoveHost(j) \/ Loop!JobRuns(j)
          \/ \E j \in Jobs : Loop!HostAdded(j) \/ Loop!HostRemoved(j)
          \/ UNCHANGED <<file, jobs>>
      BY <2>2 DEF Loop!Next, Loop!OpenForm, Loop!CancelForm, Loop!CancelRemove, Loop!OpenHelp,
                  Loop!CloseHelp, Loop!OpenFiles, Loop!CloseFiles, Loop!AskRemove, Loop!Refuse,
                  Loop!Connect, Loop!EndSession, Loop!SessionFinished, Loop!Quit
    <3>2. QED
      BY <1>1, <1>2, <1>3, <3>1
  <2>3. QED
    BY <2>1, <2>2

LEMMA OneBegins == ASSUME LoopInv, Loop!Init PROVE OneInv /\ Listing \subseteq Aliases
<1>1. \A j \in Jobs : jobs[j].stage = "idle"
  BY DEF Loop!Init, Loop!Files!Init, Loop!Files!Blank
<1>2. QED
  BY <1>1 DEF OneInv, Stored!Active, Listing, Stored!Listed

-----------------------------------------------------------------------------
(* The panes: paths, listings and the rows of one.                         *)

\* A trail is a sequence of folders, not too long.
LEMMA TrailIsSeq ==
    ASSUME Columns!PanesAssumption, NEW t
    PROVE  t \in Columns!Trails <=> t \in Seq(Folders) /\ Len(t) <= MaxDepth
<1>0. MaxDepth \in Nat
  BY DEF Columns!PanesAssumption
<1>1. ASSUME t \in Columns!Trails PROVE t \in Seq(Folders) /\ Len(t) <= MaxDepth
  <2>1. PICK n \in 0 .. MaxDepth : t \in [1 .. n -> Folders]
    BY <1>1 DEF Columns!Trails
  <2>2. n \in Nat /\ n <= MaxDepth
    BY <1>0, <2>1
  <2>3. QED
    BY <2>1, <2>2
<1>2. ASSUME t \in Seq(Folders), Len(t) <= MaxDepth PROVE t \in Columns!Trails
  <2>1. Len(t) \in 0 .. MaxDepth /\ t \in [1 .. Len(t) -> Folders]
    BY <1>0, <1>2
  <2>2. QED
    BY <2>1 DEF Columns!Trails
<1>3. QED
  BY <1>1, <1>2

LEMMA EmptyTrail == ASSUME Columns!PanesAssumption PROVE <<>> \in Columns!Trails
<1> DEFINE t == <<>>
<1>1. t \in Seq(Folders) /\ Len(t) = 0 /\ 0 <= MaxDepth
  BY DEF Columns!PanesAssumption
<1> HIDE DEF t
<1>2. t \in Columns!Trails
  BY <1>1, TrailIsSeq
<1>3. QED
  BY <1>2 DEF t

\* The directory above one is a directory, shorter unless it is the same.
LEMMA ParentIsAbove ==
    ASSUME Columns!PanesAssumption, NEW dir \in Columns!Paths
    PROVE  /\ Columns!Parent(dir) \in Columns!Dirs
           /\ Columns!Base(dir) \in Columns!Names \union {Columns!NoName}
           /\ dir \in Columns!Dirs =>
                 Columns!Parent(dir) = dir \/ Len(Columns!Parent(dir).trail) < Len(dir.trail)
<1>0. MaxDepth \in Nat
  BY DEF Columns!PanesAssumption
<1>1. CASE dir = NoDir
  <2>1. <<>> \in Columns!Trails
    BY EmptyTrail
  <2>2. Columns!Parent(dir) \in Columns!Dirs
    BY <1>1, <2>1 DEF Columns!Parent, Columns!Dot, Columns!Dirs
  <2>3. QED
    BY <1>1, <2>2 DEF Columns!Base, Columns!PanesAssumption
<1>2. CASE dir # NoDir
  <2>1. dir \in Columns!Dirs /\ dir.trail \in Seq(Folders) /\ Len(dir.trail) <= MaxDepth
    BY <1>2, TrailIsSeq DEF Columns!Paths, Columns!Dirs
  <2>2. CASE dir.trail = <<>>
    BY <1>2, <2>1, <2>2 DEF Columns!Parent, Columns!Base
  <2>3. CASE dir.trail # <<>>
    <3> DEFINE t == Columns!Front(dir.trail)
    <3>1. Len(dir.trail) \in Nat /\ Len(dir.trail) > 0
      BY <2>1, <2>3
    <3>2. t \in Seq(Folders) /\ Len(t) = Len(dir.trail) - 1
      BY <2>1, <3>1 DEF Columns!Front
    <3>3. t \in Columns!Trails
      <4> HIDE DEF t
      <4>1. QED
        BY <1>0, <2>1, <3>1, <3>2, TrailIsSeq
    <3>4. Columns!Parent(dir) = [dir EXCEPT !.trail = t]
      BY <1>2, <2>3 DEF Columns!Parent
    <3>5. Columns!Base(dir) \in Folders
      BY <1>2, <2>1, <2>3, <3>1 DEF Columns!Base, Columns!Last
    <3> HIDE DEF t
    <3>6. Columns!Parent(dir) \in Columns!Dirs /\ Columns!Parent(dir).trail = t
      BY <2>1, <3>3, <3>4 DEF Columns!Dirs
    <3>7. QED
      BY <2>1, <3>1, <3>2, <3>5, <3>6 DEF Columns!Names
  <2>4. QED
    BY <2>2, <2>3
<1>3. QED
  BY <1>1, <1>2

\* One of its folders is one too, longer, while there is depth left.
LEMMA ChildIsBelow ==
    ASSUME Columns!PanesAssumption, NEW dir \in Columns!Dirs, Len(dir.trail) < MaxDepth,
           NEW name \in Folders
    PROVE  /\ Columns!Child(dir, name) \in Columns!Dirs
           /\ Len(Columns!Child(dir, name).trail) = Len(dir.trail) + 1
<1> DEFINE t == Append(dir.trail, name)
<1>0. MaxDepth \in Nat /\ dir.trail \in Seq(Folders)
  BY TrailIsSeq DEF Columns!PanesAssumption, Columns!Dirs
<1>1. t \in Seq(Folders) /\ Len(t) = Len(dir.trail) + 1 /\ Len(dir.trail) \in Nat
  BY <1>0
<1>2. Columns!Child(dir, name) = [dir EXCEPT !.trail = t]
  BY DEF Columns!Child
<1> HIDE DEF t
<1>3. t \in Columns!Trails
  BY <1>0, <1>1, TrailIsSeq
<1>4. QED
  BY <1>1, <1>2, <1>3 DEF Columns!Dirs

LEMMA HomesAreDirs ==
    ASSUME Columns!PanesAssumption
    PROVE  /\ Columns!Home \in Columns!Dirs /\ Columns!Dot \in Columns!Dirs
           /\ Columns!Home # Columns!Dot
           /\ Columns!Home # NoDir /\ Columns!Dot # NoDir
<1>1. <<>> \in Columns!Trails
  BY EmptyTrail
<1>2. Columns!Home \in Columns!Dirs /\ Columns!Dot \in Columns!Dirs
  BY <1>1 DEF Columns!Home, Columns!Dot, Columns!Dirs
<1>3. Columns!Home.rooted # Columns!Dot.rooted
  BY DEF Columns!Home, Columns!Dot
<1>4. QED
  BY <1>2, <1>3 DEF Columns!PanesAssumption

\* A listing is of names, and has folders only where there is depth left.
LEMMA ListingsAreShort ==
    ASSUME Columns!PanesAssumption, NEW dir \in Columns!Dirs,
           NEW entries \in Columns!Listings(dir)
    PROVE  /\ entries \in Seq(Columns!Names)
           /\ \A i \in DOMAIN entries : entries[i] \in Folders => Len(dir.trail) < MaxDepth
<1>1. PICK n \in 0 .. Columns!Cardinality(Columns!Names) : entries \in [1 .. n -> Columns!Names]
  BY DEF Columns!Listings, Columns!AllSorted
<1>2. PICK c \in Contents : Columns!Range(entries) = IF Len(dir.trail) < MaxDepth THEN c
                                                                               ELSE c \ Folders
  BY DEF Columns!Listings
<1>3. entries \in Seq(Columns!Names)
  BY <1>1
<1>4. \A i \in DOMAIN entries : entries[i] \in Columns!Range(entries)
  BY DEF Columns!Range
<1>5. QED
  BY <1>2, <1>3, <1>4

\* The rows of a listing can be counted.
LEMMA RowsAreCounted ==
    ASSUME NEW p, NEW S, p.entries \in Seq(S), NEW side, NEW f, NEW q
    PROVE  LET V == Columns!VisibleIn(side, p, f, q)
           IN  /\ V \subseteq 1 .. Len(p.entries) /\ Columns!Cardinality(V) \in Nat
               /\ Columns!Cardinality(V) = 0 <=> V = {}
               /\ V = DOMAIN p.entries => Columns!Cardinality(V) = Len(p.entries)
<1> DEFINE V == Columns!VisibleIn(side, p, f, q)
<1>1. V \subseteq 1 .. Len(p.entries) /\ Len(p.entries) \in Nat
      /\ DOMAIN p.entries = 1 .. Len(p.entries)
  BY DEF Columns!VisibleIn
<1>2. IsFiniteSet(1 .. Len(p.entries)) /\ Cardinality(1 .. Len(p.entries)) = Len(p.entries)
  <2>1. \A n \in Nat : IsFiniteSet(1 .. n) /\ Cardinality(1 .. n) = n
    BY FS_Interval
  <2>2. QED
    BY <1>1, <2>1
<1>3. Columns!Cardinality(V) = Cardinality(V)
  BY DEF Columns!Cardinality, Cardinality
<1> HIDE DEF V
<1>4. IsFiniteSet(V)
  BY <1>1, <1>2, FS_Subset
<1>5. Cardinality(V) \in Nat /\ (Cardinality(V) = 0 <=> V = {})
  BY <1>4, FS_CardinalityType, FS_EmptySet
<1>6. /\ V \subseteq 1 .. Len(p.entries) /\ Columns!Cardinality(V) \in Nat
      /\ Columns!Cardinality(V) = 0 <=> V = {}
      /\ V = DOMAIN p.entries => Columns!Cardinality(V) = Len(p.entries)
  BY <1>1, <1>2, <1>3, <1>5
<1>7. QED
  BY <1>6 DEF V

LEMMA PaneHasRows ==
    ASSUME Columns!PanesAssumption, paneHeight \in PaneHeights \union {0}
    PROVE  Columns!paneRows \in Nat \ {0}
<1>1. paneHeight \in Nat
  BY DEF Columns!PanesAssumption
<1>2. QED
  BY <1>1 DEF Columns!paneRows, Columns!chrome, Columns!AtLeast

\* A pane whose cursor a key has moved and clampScroll has not yet seen.
WidePane ==
    [cwd : Columns!Paths, listed : Columns!Paths, entries : Seq(Columns!Names), cursor : Int,
     offset : Nat, pending : Columns!Paths, reveal : Columns!Names \union {Columns!NoName}]

\* The cursor counts the rows there are, and is in the window over n of them.
Counts(p, V) == IF V = {} THEN p.cursor = 0 /\ p.offset = 0 ELSE p.cursor < Columns!Cardinality(V)

Shown(p, n) ==
    /\ p.offset <= p.cursor /\ p.cursor < p.offset + Columns!paneRows
    /\ p.offset > 0 => p.offset + Columns!paneRows <= n

SameBut(r, p) ==
    /\ r.cwd = p.cwd /\ r.listed = p.listed /\ r.entries = p.entries
    /\ r.pending = p.pending /\ r.reveal = p.reveal

\* clampScroll moves cursor and window to where both are right, and the cursor only if
\* it must.
LEMMA ClampedPane ==
    ASSUME Columns!PanesAssumption, paneHeight \in PaneHeights \union {0},
           NEW p \in WidePane, NEW side, NEW f, NEW q
    PROVE  LET r == Columns!ClampScroll(side, p, f, q)
               V == Columns!VisibleIn(side, p, f, q)
           IN  /\ r \in Columns!Pane /\ SameBut(r, p)
               /\ Columns!VisibleIn(side, r, f, q) = V
               /\ Counts(r, V) /\ Shown(r, Columns!Cardinality(V))
               /\ 0 <= p.cursor /\ p.cursor < Columns!Cardinality(V) => r.cursor = p.cursor
<1> DEFINE r == Columns!ClampScroll(side, p, f, q)
           V == Columns!VisibleIn(side, p, f, q)
           n == Columns!Cardinality(V)
           rows == Columns!paneRows
           c == Columns!AtMost(n - 1, Columns!AtLeast(0, p.cursor))
           follow == IF c < p.offset THEN c
                     ELSE IF c >= p.offset + rows THEN c - rows + 1 ELSE p.offset
           o == Columns!AtMost(Columns!AtLeast(0, n - rows), Columns!AtLeast(0, follow))
<1>1. p.entries \in Seq(Columns!Names) /\ p.cursor \in Int /\ p.offset \in Nat
  BY DEF WidePane
<1>2. n \in Nat /\ (n = 0 <=> V = {})
  BY <1>1, RowsAreCounted
<1>3. rows \in Nat \ {0}
  BY PaneHasRows
<1>4. r = IF n = 0 THEN [p EXCEPT !.cursor = 0, !.offset = 0]
                   ELSE [p EXCEPT !.cursor = c, !.offset = o]
  BY DEF Columns!ClampScroll
<1>5. n # 0 => /\ c \in Nat /\ o \in Nat /\ c < n /\ o <= c /\ c < o + rows
               /\ o > 0 => o + rows <= n
               /\ 0 <= p.cursor /\ p.cursor < n => c = p.cursor
  <2> HIDE DEF n, rows, V
  <2>1. QED
    BY <1>1, <1>2, <1>3, SMTT(20) DEF Columns!AtMost, Columns!AtLeast
<1> HIDE DEF r, n, rows, V, c, o, follow
<1>6. CASE n = 0
  <2>1. r = [p EXCEPT !.cursor = 0, !.offset = 0]
    BY <1>4, <1>6
  <2>2. r \in Columns!Pane /\ SameBut(r, p) /\ r.cursor = 0 /\ r.offset = 0
    BY <2>1 DEF WidePane, Columns!Pane, SameBut
  <2>3. Columns!VisibleIn(side, r, f, q) = V
    BY <2>2 DEF V, Columns!VisibleIn, SameBut
  <2>4. Counts(r, V) /\ Shown(r, n)
    BY <1>2, <1>3, <1>6, <2>2 DEF Counts, Shown, rows
  <2>5. QED
    BY <1>1, <1>6, <2>2, <2>3, <2>4 DEF r, n, V
<1>7. CASE n # 0
  <2>1. r = [p EXCEPT !.cursor = c, !.offset = o]
    BY <1>4, <1>7
  <2>2. r \in Columns!Pane /\ SameBut(r, p) /\ r.cursor = c /\ r.offset = o
    BY <1>5, <1>7, <2>1 DEF WidePane, Columns!Pane, SameBut
  <2>3. Columns!VisibleIn(side, r, f, q) = V
    BY <2>2 DEF V, Columns!VisibleIn, SameBut
  <2>4. Counts(r, V)
    BY <1>2, <1>5, <1>7, <2>2 DEF Counts, n
  <2>5. Shown(r, n)
    BY <1>5, <1>7, <2>2 DEF Shown, rows
  <2>6. QED
    BY <1>5, <1>7, <2>2, <2>3, <2>4, <2>5 DEF r, n, V
<1>8. QED
  BY <1>6, <1>7

\* What holds of the pane on side: of a listing there can be, over the directories the
\* pane is in and was in; the remote one remembers where it is stepping back from.
PaneInv(side, p, f, q) ==
    /\ p \in Columns!Pane
    /\ \A i \in DOMAIN p.entries : p.entries[i] \in Folders =>
          p.listed \in Columns!Dirs /\ Len(p.listed.trail) < MaxDepth
    /\ Counts(p, Columns!VisibleIn(side, p, f, q))
    /\ side = "local" =>
          /\ p.cwd \in Columns!Dirs
          /\ p.listed \in Columns!Dirs => Len(p.cwd.trail) <= Len(p.listed.trail) + 1
    /\ side = "remote" =>
          /\ p.listed = p.cwd
          /\ p.pending \notin {NoDir, p.cwd} /\ p.pending = Columns!Parent(p.cwd) =>
                p.reveal = Columns!Base(p.cwd)

PanesInv ==
    /\ Columns!PanesTypeOK
    /\ \A side \in Columns!Sides : PaneInv(side, panes[side], focus, query)
    /\ panes["remote"].pending # NoDir => Columns!BagIn(panes["remote"].pending, replies)
    /\ ~ready => panes["remote"].cwd = NoDir /\ panes["remote"].pending = NoDir

\* What a step may do to the pane on side: no row that moved is left off screen, and
\* stepping back up lands on the folder left.
Follows(side) == Columns!placed(side)' # Columns!placed(side) => Columns!Framed(side)'

LandsOn(side) ==
    LET left == Columns!Base(panes[side].cwd)
        p == panes[side]'
    IN  /\ p.cwd # panes[side].cwd /\ p.cwd = Columns!Parent(panes[side].cwd)
        /\ p.reveal = Columns!NoName /\ left \in Columns!Range(p.entries)
        /\ Columns!visible(side)' = DOMAIN p.entries
        => p.entries[p.cursor + 1] = left

PaneStep(side) ==
    /\ PaneInv(side, panes'[side], focus', query')
    /\ Follows(side) /\ LandsOn(side)

\* A pane that is left alone, and whose rows are.
LEMMA PaneRests ==
    ASSUME NEW side \in Columns!Sides, PaneInv(side, panes[side], focus, query),
           panes'[side] = panes[side], (side = focus') <=> (side = focus),
           side = focus => query' = query
    PROVE  PaneStep(side)
<1>1. \A p : Columns!VisibleIn(side, p, focus', query') = Columns!VisibleIn(side, p, focus, query)
  BY DEF Columns!VisibleIn
<1>2. Columns!visible(side)' = Columns!visible(side)
  BY <1>1 DEF Columns!visible
<1>3. Columns!placed(side)' = Columns!placed(side)
  BY <1>2 DEF Columns!placed
<1>4. QED
  BY <1>1, <1>3 DEF PaneStep, PaneInv, Follows, LandsOn

\* A pane that clampScroll has placed, after the cursor, the filter or the keyboard moved.
LEMMA PaneIsPlaced ==
    ASSUME Columns!PanesAssumption, Columns!PanesTypeOK, UNCHANGED Columns!size,
           NEW side \in Columns!Sides, PaneInv(side, panes[side], focus, query),
           NEW b \in WidePane, SameBut(b, panes[side]),
           panes'[side] = Columns!ClampScroll(side, b, focus', query')
    PROVE  PaneStep(side)
<1> DEFINE r == panes'[side]
           V == Columns!VisibleIn(side, b, focus', query')
<1>1. /\ r \in Columns!Pane /\ SameBut(r, b) /\ Columns!VisibleIn(side, r, focus', query') = V
      /\ Counts(r, V) /\ Shown(r, Columns!Cardinality(V))
  BY ClampedPane DEF Columns!PanesTypeOK
<1>2. SameBut(r, panes[side])
  BY <1>1 DEF SameBut
<1>3. PaneInv(side, r, focus', query')
  BY <1>1, <1>2 DEF PaneInv, SameBut
<1>4. Columns!visible(side)' = V
  BY <1>1 DEF Columns!visible
<1>5. Columns!paneRows' = Columns!paneRows
  BY DEF Columns!size, Columns!paneRows, Columns!chrome
<1>6. Columns!Framed(side)'
  BY <1>1, <1>4, <1>5 DEF Columns!Framed, Columns!rows, Shown
<1>7. LandsOn(side)
  BY <1>2 DEF LandsOn, SameBut
<1>8. QED
  BY <1>3, <1>6, <1>7 DEF PaneStep, Follows

\* Where the cursor goes in a listing: onto the entry looked for, if it is there.
LEMMA RevealedIsThere ==
    ASSUME NEW p, NEW S, NEW entries \in Seq(S), p.cursor \in Int
    PROVE  /\ Columns!Revealed(p, entries) \in Int
           /\ p.reveal \in Columns!Range(entries) =>
                 /\ Columns!Revealed(p, entries) + 1 \in 1 .. Len(entries)
                 /\ entries[Columns!Revealed(p, entries) + 1] = p.reveal
<1>1. CASE p.reveal \in Columns!Range(entries)
  <2> DEFINE at == CHOOSE i \in 1 .. Len(entries) : entries[i] = p.reveal
  <2>1. \E i \in 1 .. Len(entries) : entries[i] = p.reveal
    BY <1>1 DEF Columns!Range
  <2>2. at \in 1 .. Len(entries) /\ entries[at] = p.reveal
    BY <2>1
  <2>3. Columns!Revealed(p, entries) = at - 1
    BY <1>1 DEF Columns!Revealed
  <2> HIDE DEF at
  <2>4. QED
    BY <2>2, <2>3
<1>2. CASE p.reveal \notin Columns!Range(entries)
  BY <1>2 DEF Columns!Revealed
<1>3. QED
  BY <1>1, <1>2

\* A pane that takes a listing.
LEMMA PaneIsFilled ==
    ASSUME Columns!PanesAssumption, Columns!PanesTypeOK,
           UNCHANGED <<focus, query, Columns!size>>,
           NEW side \in Columns!Sides, NEW b \in Columns!Pane,
           NEW dir \in Columns!Dirs, NEW entries \in Columns!Listings(dir),
           panes'[side] = Columns!ClampScroll(side, Columns!Filled(b, dir, entries), focus, query),
           side = "remote" => b.pending = NoDir,
           dir # panes[side].cwd /\ dir = Columns!Parent(panes[side].cwd) =>
              b.reveal = Columns!Base(panes[side].cwd)
    PROVE  PaneStep(side) /\ panes'[side].pending = b.pending /\ panes'[side].cwd = dir
<1> DEFINE w == Columns!Filled(b, dir, entries)
           r == panes'[side]
           V == Columns!VisibleIn(side, w, focus, query)
           at == Columns!Revealed(b, entries)
<1>1. /\ entries \in Seq(Columns!Names)
      /\ \A i \in DOMAIN entries : entries[i] \in Folders => Len(dir.trail) < MaxDepth
  BY ListingsAreShort
<1>2. /\ at \in Int
      /\ b.reveal \in Columns!Range(entries) =>
            at + 1 \in 1 .. Len(entries) /\ entries[at + 1] = b.reveal
  BY <1>1, RevealedIsThere DEF Columns!Pane
<1>3. /\ w \in WidePane
      /\ w.cwd = dir /\ w.listed = dir /\ w.entries = entries /\ w.cursor = at
      /\ w.reveal = Columns!NoName /\ w.pending = b.pending
  <2> HIDE DEF at
  <2>1. w = [b EXCEPT !.cwd = dir, !.listed = dir, !.entries = entries,
                      !.cursor = at, !.reveal = Columns!NoName]
    BY DEF Columns!Filled, at
  <2> HIDE DEF w
  <2>2. QED
    BY <1>1, <1>2, <2>1 DEF Columns!Pane, WidePane, Columns!Paths
<1> HIDE DEF w
<1>4. /\ r \in Columns!Pane /\ SameBut(r, w) /\ Columns!VisibleIn(side, r, focus, query) = V
      /\ Counts(r, V) /\ Shown(r, Columns!Cardinality(V))
      /\ 0 <= w.cursor /\ w.cursor < Columns!Cardinality(V) => r.cursor = w.cursor
  BY <1>3, ClampedPane DEF Columns!PanesTypeOK, w
<1>5. V = DOMAIN w.entries => Columns!Cardinality(V) = Len(w.entries)
  BY <1>1, <1>3, RowsAreCounted
<1> HIDE DEF r, V, at
<1>6. /\ r.cwd = dir /\ r.listed = dir /\ r.entries = entries /\ r.pending = b.pending
      /\ r.reveal = Columns!NoName
  BY <1>3, <1>4 DEF SameBut
<1>7. PaneInv(side, r, focus, query)
  <2>1. \A i \in DOMAIN r.entries : r.entries[i] \in Folders =>
          r.listed \in Columns!Dirs /\ Len(r.listed.trail) < MaxDepth
    BY <1>1, <1>6
  <2>2. Counts(r, Columns!VisibleIn(side, r, focus, query))
    BY <1>4
  <2>3. r.cwd \in Columns!Dirs /\ Len(r.cwd.trail) <= Len(r.listed.trail) + 1
    BY <1>6, TrailIsSeq DEF Columns!Dirs
  <2>4. side = "remote" => r.listed = r.cwd /\ r.pending = NoDir
    BY <1>6
  <2>5. QED
    BY <1>4, <2>1, <2>2, <2>3, <2>4 DEF PaneInv
<1>8. Columns!visible(side)' = V /\ panes[side]' = r
  BY <1>4 DEF Columns!visible, r
<1>9. Columns!paneRows' = Columns!paneRows
  BY DEF Columns!size, Columns!paneRows, Columns!chrome
<1>10. Columns!Framed(side)'
  BY <1>4, <1>8, <1>9 DEF Columns!Framed, Columns!rows, Shown
<1>11. LandsOn(side)
  <2> DEFINE left == Columns!Base(panes[side].cwd)
  <2>1. SUFFICES ASSUME dir # panes[side].cwd, dir = Columns!Parent(panes[side].cwd),
                        left \in Columns!Range(entries), V = DOMAIN entries
                 PROVE  entries[r.cursor + 1] = left
    BY <1>6, <1>8 DEF LandsOn
  <2>2. b.reveal = left
    BY <2>1
  <2>3. at + 1 \in 1 .. Len(entries) /\ entries[at + 1] = left
    BY <1>2, <2>1, <2>2
  <2>4. r.cursor = at
    BY <1>1, <1>2, <1>3, <1>4, <1>5, <2>1, <2>3
  <2>5. QED
    BY <2>3, <2>4
<1>12. QED
  BY <1>6, <1>7, <1>10, <1>11 DEF PaneStep, Follows, r

\* A pane that a key leaves as b while its listing is read, or refused: of the old
\* listing, with the cursor where it was or back at the top.
LEMMA PaneWaits ==
    ASSUME Columns!PanesAssumption, Columns!PanesTypeOK,
           UNCHANGED <<focus, query, Columns!size>>,
           NEW side \in Columns!Sides, PaneInv(side, panes[side], focus, query),
           NEW b \in Columns!Pane, panes'[side] = b, b.listed = panes[side].listed,
           b.entries = panes[side].entries,
           \/ b.cursor = panes[side].cursor /\ b.offset = panes[side].offset
           \/ b.cursor = 0 /\ b.offset = 0,
           side = "local" =>
              /\ b.cwd \in Columns!Dirs
              /\ b.listed \in Columns!Dirs => Len(b.cwd.trail) <= Len(b.listed.trail) + 1
              /\ \/ b.cwd = panes[side].cwd
                 \/ b.cwd # Columns!Parent(panes[side].cwd)
                 \/ b.reveal = Columns!Base(panes[side].cwd),
           side = "remote" =>
              /\ b.cwd = panes[side].cwd
              /\ b.pending \notin {NoDir, b.cwd} /\ b.pending = Columns!Parent(b.cwd) =>
                    b.reveal = Columns!Base(b.cwd)
    PROVE  PaneStep(side)
<1> DEFINE V == Columns!VisibleIn(side, panes[side], focus, query)
<1>1. Columns!VisibleIn(side, b, focus, query) = V
  BY DEF Columns!VisibleIn
<1>2. Columns!Cardinality(V) \in Nat /\ (Columns!Cardinality(V) = 0 <=> V = {})
  BY RowsAreCounted DEF PaneInv, Columns!Pane
<1>3. Counts(b, V)
  BY <1>2 DEF PaneInv, Counts
<1>4. PaneInv(side, b, focus, query)
  BY <1>1, <1>3 DEF PaneInv
<1>5. Columns!visible(side)' = V /\ Columns!visible(side) = V
  BY <1>1 DEF Columns!visible
<1>6. Columns!paneRows' \in Nat \ {0} /\ Columns!paneRows' = Columns!paneRows
  BY PaneHasRows DEF Columns!size, Columns!paneRows, Columns!chrome, Columns!PanesTypeOK
<1>7. Follows(side)
  <2>1. CASE b.cursor = panes[side].cursor /\ b.offset = panes[side].offset
    BY <1>5, <2>1 DEF Follows, Columns!placed
  <2>2. CASE b.cursor = 0 /\ b.offset = 0
    BY <1>6, <2>2 DEF Follows, Columns!Framed
  <2>3. QED
    BY <2>1, <2>2
<1>8. LandsOn(side)
  <2>1. ASSUME b.reveal = Columns!NoName, b.reveal = Columns!Base(panes[side].cwd)
        PROVE  Columns!Base(panes[side].cwd) \notin Columns!Range(b.entries)
    <3>1. b.entries \in Seq(Columns!Names)
      BY DEF Columns!Pane
    <3>2. \A i \in DOMAIN b.entries : b.entries[i] \in Columns!Names
      BY <3>1
    <3>3. Columns!NoName \notin Columns!Names
      BY DEF Columns!PanesAssumption
    <3>4. QED
      BY <2>1, <3>2, <3>3 DEF Columns!Range
  <2>2. QED
    BY <2>1 DEF LandsOn, Columns!Sides
<1>9. QED
  BY <1>4, <1>7, <1>8 DEF PaneStep

\* What a step keeps, and does.
PanesStep ==
    /\ PanesInv'
    /\ \A side \in Columns!Sides : Follows(side) /\ LandsOn(side)

\* The listings that are out, when one more is asked for or one has come.
LEMMA RepliesAreABag ==
    ASSUME Columns!IsABag(replies), NEW dir,
           \/ replies' = Columns!(+)(replies, Columns!SetToBag({dir}))
           \/ replies' = Columns!(-)(replies, Columns!SetToBag({dir}))
           \/ UNCHANGED replies
    PROVE  /\ Columns!IsABag(replies')
           /\ DOMAIN replies' \subseteq DOMAIN replies \union {dir}
           /\ DOMAIN replies \subseteq DOMAIN replies' \union {dir}
           /\ replies' = Columns!(+)(replies, Columns!SetToBag({dir})) => dir \in DOMAIN replies'
<1>1. CASE replies' = Columns!(+)(replies, Columns!SetToBag({dir}))
  BY <1>1 DEF Columns!(+), Columns!SetToBag, Columns!IsABag
<1>2. CASE replies' = Columns!(-)(replies, Columns!SetToBag({dir}))
  <2> DEFINE less == [e \in DOMAIN replies |-> IF e \in {dir} THEN replies[e] - 1 ELSE replies[e]]
  <2>1. replies' = [e \in {d \in DOMAIN less : less[d] > 0} |-> less[e]]
    BY <1>2 DEF Columns!(-), Columns!SetToBag
  <2>2. \A e \in DOMAIN replies : less[e] \in Int /\ (e # dir => less[e] = replies[e])
    BY DEF Columns!IsABag
  <2>3. DOMAIN less = DOMAIN replies
    OBVIOUS
  <2> HIDE DEF less
  <2>4. DOMAIN replies' = {d \in DOMAIN replies : less[d] > 0}
    BY <2>1, <2>3
  <2>5. \A e \in DOMAIN replies' : replies'[e] = less[e]
    BY <2>1, <2>3
  <2>6. Columns!IsABag(replies')
    BY <2>1, <2>2, <2>3 DEF Columns!IsABag
  <2>7. \A e \in DOMAIN replies : e # dir => less[e] > 0
    BY <2>2 DEF Columns!IsABag
  <2>8. QED
    BY <2>4, <2>6, <2>7, <1>2, <1>1
<1>3. CASE UNCHANGED replies
  BY <1>1, <1>3
<1>4. QED
  BY <1>1, <1>2, <1>3

\* Both panes have taken a step, and what is asked for with it is one of Paths.
LEMMA BothStep ==
    ASSUME PanesInv, panes' \in [Columns!Sides -> Columns!Pane],
           PaneStep("local"), PaneStep("remote"),
           focus' \in Columns!Sides, query' \in Queries \union {Columns!Names},
           filtering' \in BOOLEAN, ready' \in BOOLEAN, narrow' \in BOOLEAN,
           paneHeight' \in PaneHeights \union {0},
           NEW dir \in Columns!Paths,
           \/ replies' = Columns!(+)(replies, Columns!SetToBag({dir}))
           \/ replies' = Columns!(-)(replies, Columns!SetToBag({dir}))
           \/ UNCHANGED replies,
           \/ panes'["remote"].pending = NoDir
           \/ panes'["remote"].pending = panes["remote"].pending /\ UNCHANGED replies
           \/ panes'["remote"].pending = panes["remote"].pending
              /\ panes["remote"].pending # dir
           \/ panes'["remote"].pending = dir
              /\ replies' = Columns!(+)(replies, Columns!SetToBag({dir})),
           ~ready' => panes'["remote"].cwd = NoDir /\ panes'["remote"].pending = NoDir
    PROVE  PanesStep
<1>1. Columns!IsABag(replies) /\ DOMAIN replies \subseteq Columns!Paths
  BY DEF PanesInv, Columns!PanesTypeOK, Columns!BagToSet
<1>2. /\ Columns!IsABag(replies')
      /\ DOMAIN replies' \subseteq DOMAIN replies \union {dir}
      /\ DOMAIN replies \subseteq DOMAIN replies' \union {dir}
      /\ replies' = Columns!(+)(replies, Columns!SetToBag({dir})) => dir \in DOMAIN replies'
  BY <1>1, RepliesAreABag
<1>3. Columns!PanesTypeOK'
  BY <1>1, <1>2 DEF Columns!PanesTypeOK, Columns!BagToSet
<1>4. (panes["remote"].pending # NoDir => Columns!BagIn(panes["remote"].pending, replies))'
  BY <1>2 DEF PanesInv, Columns!BagIn, Columns!BagToSet
<1>5. (\A side \in Columns!Sides : PaneInv(side, panes[side], focus, query))'
  BY DEF PaneStep, Columns!Sides, PaneInv, Counts, Columns!VisibleIn, Columns!Parent, Columns!Base
<1>6. (~ready => panes["remote"].cwd = NoDir /\ panes["remote"].pending = NoDir)'
  OBVIOUS
<1>7. \A side \in Columns!Sides : Follows(side) /\ LandsOn(side)
  BY DEF PaneStep, Columns!Sides
<1>8. PanesInv'
  BY <1>3, <1>4, <1>5, <1>6 DEF PanesInv
<1>9. QED
  BY <1>7, <1>8 DEF PanesStep

\* What is known to begin with, by side.
LEMMA PanesAre ==
    ASSUME PanesInv
    PROVE  /\ Columns!PanesTypeOK /\ panes \in [Columns!Sides -> Columns!Pane]
           /\ panes["local"] \in Columns!Pane /\ panes["remote"] \in Columns!Pane
           /\ PaneInv("local", panes["local"], focus, query)
           /\ PaneInv("remote", panes["remote"], focus, query)
           /\ focus \in Columns!Sides /\ query \in Queries \union {Columns!Names}
           /\ filtering \in BOOLEAN /\ ready \in BOOLEAN /\ narrow \in BOOLEAN
           /\ paneHeight \in PaneHeights \union {0}
           /\ "local" \in Columns!Sides /\ "remote" \in Columns!Sides
           /\ ~ready => panes["remote"].cwd = NoDir /\ panes["remote"].pending = NoDir
           /\ Columns!Pane \subseteq WidePane
           /\ NoDir \in Columns!Paths
<1>1. Columns!Pane \subseteq WidePane
  BY DEF Columns!Pane, WidePane
<1>2. Columns!PanesTypeOK
  BY DEF PanesInv
<1>3. QED
  BY <1>1, <1>2 DEF PanesInv, Columns!PanesTypeOK, Columns!Sides, Columns!Paths

\* A step of one pane beside which the other rests.
LEMMA OneRests ==
    ASSUME PanesInv, UNCHANGED <<focus, query>>, NEW side \in Columns!Sides,
           panes'[side] = panes[side]
    PROVE  PaneStep(side)
  BY PaneRests DEF PanesInv

LEMMA PanesResize ==
    ASSUME Columns!PanesAssumption, PanesInv,
           NEW h \in PaneHeights, NEW n \in BOOLEAN, Columns!Resize(h, n)
    PROVE  PanesStep
<1>1. /\ paneHeight' \in PaneHeights \union {0} /\ narrow' \in BOOLEAN
      /\ UNCHANGED <<panes, focus, query, filtering, ready, replies>>
  BY DEF Columns!Resize
<1>2. PaneStep("local") /\ PaneStep("remote")
  BY <1>1, PanesAre, OneRests
<1>3. QED
  BY <1>1, <1>2, PanesAre, BothStep

LEMMA PanesGetSession ==
    ASSUME Columns!PanesAssumption, PanesInv, Columns!ApplySession
    PROVE  PanesStep
<1> DEFINE p == panes["remote"]
           b == [[p EXCEPT !.cursor = 0, !.offset = 0] EXCEPT !.pending = Columns!Home]
<1>1. /\ ~ready /\ ready' = TRUE /\ panes' = [panes EXCEPT !["remote"] = b]
      /\ replies' = Columns!(+)(replies, Columns!SetToBag({Columns!Home}))
      /\ UNCHANGED <<focus, query, filtering, Columns!size>>
  BY DEF Columns!ApplySession, Columns!LoadInto
<1>2. Columns!Home \in Columns!Paths /\ Columns!Home # NoDir
      /\ Columns!Home # Columns!Parent(NoDir)
  BY HomesAreDirs DEF Columns!Paths, Columns!Parent
<1>3. p \in Columns!Pane /\ p.cwd = NoDir
  BY <1>1, PanesAre
<1> HIDE DEF p
<1>4. /\ b \in Columns!Pane /\ b.listed = p.listed /\ b.entries = p.entries
      /\ b.cwd = p.cwd /\ b.cursor = 0 /\ b.offset = 0 /\ b.pending = Columns!Home
  BY <1>2, <1>3 DEF Columns!Pane
<1> HIDE DEF b
<1>5. panes'["remote"] = b /\ panes'["local"] = panes["local"]
      /\ panes' \in [Columns!Sides -> Columns!Pane]
  BY <1>1, <1>4, PanesAre
<1>6. PaneStep("remote")
  BY <1>1, <1>2, <1>3, <1>4, <1>5, PanesAre, PaneWaits DEF p
<1>7. PaneStep("local")
  BY <1>1, <1>5, PanesAre, OneRests
<1>8. UNCHANGED narrow /\ UNCHANGED paneHeight
  BY <1>1 DEF Columns!size
<1>9. QED
  BY <1>1, <1>2, <1>4, <1>5, <1>6, <1>7, <1>8, PanesAre, BothStep

LEMMA PanesGetEntries ==
    ASSUME Columns!PanesAssumption, PanesInv,
           NEW dir \in Columns!BagToSet(replies), Columns!ApplyEntries(dir)
    PROVE  PanesStep
<1> DEFINE p == panes["remote"]
           b == [p EXCEPT !.pending = NoDir]
<1>1. /\ replies' = Columns!(-)(replies, Columns!SetToBag({dir}))
      /\ UNCHANGED <<focus, query, filtering, ready, Columns!size>>
      /\ \/ dir # p.pending /\ UNCHANGED panes
         \/ dir = p.pending /\ panes' = [panes EXCEPT !["remote"] = b]
         \/ /\ dir = p.pending /\ dir # NoDir
            /\ \E entries \in Columns!Listings(dir) :
                  panes' = [panes EXCEPT !["remote"] =
                      Columns!ClampScroll("remote", Columns!Filled(b, dir, entries), focus, query)]
  BY DEF Columns!ApplyEntries
<1>2. dir \in Columns!Paths
  BY DEF PanesInv, Columns!PanesTypeOK
<1>3. p \in Columns!Pane /\ PaneInv("remote", p, focus, query) /\ (~ready => p.pending = NoDir /\ p.cwd = NoDir)
  BY PanesAre
<1>4. UNCHANGED narrow /\ UNCHANGED paneHeight
  BY <1>1 DEF Columns!size
<1>5. /\ b \in Columns!Pane /\ b.listed = p.listed /\ b.entries = p.entries /\ b.cwd = p.cwd
      /\ b.cursor = p.cursor /\ b.offset = p.offset /\ b.reveal = p.reveal /\ b.pending = NoDir
  <2> HIDE DEF p
  <2>1. QED
    BY <1>3 DEF Columns!Pane, Columns!Paths
<1> HIDE DEF b
<1>6. ASSUME dir # p.pending, UNCHANGED panes PROVE PanesStep
  <2>1. PaneStep("local") /\ PaneStep("remote")
    BY <1>1, <1>6, PanesAre, OneRests
  <2>2. QED
    BY <1>1, <1>2, <1>3, <1>4, <1>6, <2>1, PanesAre, BothStep
<1>7. ASSUME panes' = [panes EXCEPT !["remote"] = b] PROVE PanesStep
  <2>1. panes'["remote"] = b /\ panes'["local"] = panes["local"]
        /\ panes' \in [Columns!Sides -> Columns!Pane]
    BY <1>5, <1>7, PanesAre
  <2>2. PaneStep("local")
    BY <1>1, <2>1, PanesAre, OneRests
  <2>3. PaneStep("remote")
    BY <1>1, <1>3, <1>5, <2>1, PanesAre, PaneWaits
  <2>4. QED
    BY <1>1, <1>2, <1>3, <1>4, <1>5, <2>1, <2>2, <2>3, PanesAre, BothStep
<1>8. ASSUME dir = p.pending, dir # NoDir, NEW entries \in Columns!Listings(dir),
             panes' = [panes EXCEPT !["remote"] =
                Columns!ClampScroll("remote", Columns!Filled(b, dir, entries), focus, query)]
      PROVE  PanesStep
  <2>0. dir \in Columns!Dirs
    BY <1>2, <1>8 DEF Columns!Paths
  <2>1. /\ panes'["remote"] =
             Columns!ClampScroll("remote", Columns!Filled(b, dir, entries), focus, query)
        /\ panes'["local"] = panes["local"]
        /\ panes' = [panes EXCEPT !["remote"] = panes'["remote"]]
    BY <1>8, PanesAre
  <2>2. dir # p.cwd /\ dir = Columns!Parent(p.cwd) => b.reveal = Columns!Base(p.cwd)
    BY <1>3, <1>5, <1>8 DEF PaneInv
  <2>3. /\ PaneStep("remote") /\ panes'["remote"].pending = NoDir
    BY <1>1, <1>5, <2>0, <2>1, <2>2, PanesAre, PaneIsFilled
  <2>4. PaneStep("local")
    BY <1>1, <2>1, PanesAre, OneRests
  <2>5. panes' \in [Columns!Sides -> Columns!Pane]
    BY <2>1, <2>3, PanesAre DEF PaneStep, PaneInv
  <2>6. ready
    BY <1>3, <1>8
  <2>7. QED
    BY <1>1, <1>2, <1>4, <2>3, <2>4, <2>5, <2>6, PanesAre, BothStep
<1>9. QED
  BY <1>1, <1>6, <1>7, <1>8

\* A key that moves the cursor of the focused pane, or what the filter matches.
LEMMA FocusIsPlaced ==
    ASSUME Columns!PanesAssumption, PanesInv, UNCHANGED <<focus, ready, replies, Columns!size>>,
           filtering' \in BOOLEAN, query' \in Queries \union {Columns!Names}, NEW row \in Int,
           panes' = [panes EXCEPT ![focus] =
              Columns!ClampScroll(focus, [@ EXCEPT !.cursor = row], focus, query')]
    PROVE  PanesStep
<1> DEFINE p == panes[focus]
           b == [p EXCEPT !.cursor = row]
<1>1. p \in Columns!Pane
  BY PanesAre
<1>2. b \in WidePane /\ SameBut(b, p)
  <2> HIDE DEF p
  <2>1. QED
    BY <1>1 DEF Columns!Pane, WidePane, SameBut
<1>3. panes'[focus] = Columns!ClampScroll(focus, b, focus, query')
      /\ panes' = [panes EXCEPT ![focus] = panes'[focus]]
  BY PanesAre
<1> HIDE DEF b
<1>0. PICK s \in Columns!Sides : s = focus
  BY PanesAre
<1>4. PaneStep(s)
  <2>1. PaneInv(s, panes[s], focus, query) /\ SameBut(b, panes[s])
    BY <1>0, <1>2 DEF PanesInv
  <2>2. panes'[s] = Columns!ClampScroll(s, b, focus', query')
    BY <1>0, <1>3
  <2>3. QED
    BY <1>2, <2>1, <2>2, PanesAre, PaneIsPlaced
<1>5. ASSUME NEW side \in Columns!Sides, side # s PROVE PaneStep(side) /\ panes'[side] = panes[side]
  <2>1. panes'[side] = panes[side]
    BY <1>0, <1>3, <1>5, PanesAre
  <2>2. QED
    BY <1>0, <1>5, <2>1, PaneRests DEF PanesInv
<1>6. panes'[focus] \in Columns!Pane /\ SameBut(panes'[focus], p)
  BY <1>2, <1>3, PanesAre, ClampedPane DEF SameBut
<1>7. panes' \in [Columns!Sides -> Columns!Pane]
  BY <1>3, <1>6, PanesAre
<1>8. panes'["remote"].pending = panes["remote"].pending /\ panes'["remote"].cwd = panes["remote"].cwd
  BY <1>0, <1>5, <1>6, PanesAre DEF SameBut
<1>9. PaneStep("local") /\ PaneStep("remote")
  BY <1>4, <1>5, PanesAre
<1>10. UNCHANGED narrow /\ UNCHANGED paneHeight
  BY DEF Columns!size
<1>11. QED
  BY <1>7, <1>8, <1>9, <1>10, PanesAre, BothStep

LEMMA PanesCursor ==
    ASSUME Columns!PanesAssumption, PanesInv,
           NEW row \in Columns!rowsAsked, Columns!CursorTo(row)
    PROVE  PanesStep
<1>1. Columns!paneRows \in Int /\ panes[focus].cursor \in Int
  BY PanesAre, PaneHasRows DEF Columns!Pane
<1>2. Columns!rows(focus) \in Int
  <2>1. panes[focus].entries \in Seq(Columns!Names)
    BY PanesAre DEF Columns!Pane
  <2>2. QED
    BY <2>1, RowsAreCounted DEF Columns!rows, Columns!visible
<1>3. row \in Int
  BY <1>1, <1>2 DEF Columns!rowsAsked
<1>4. QED
  BY <1>3, PanesAre, FocusIsPlaced DEF Columns!CursorTo

LEMMA PanesNarrow ==
    ASSUME Columns!PanesAssumption, PanesInv, filtering' \in BOOLEAN,
           NEW q \in Queries \union {Columns!Names}, Columns!Narrow(q)
    PROVE  PanesStep
<1> DEFINE p == panes[focus]
<1>1. p \in Columns!Pane
  BY PanesAre
<1>2. p = [p EXCEPT !.cursor = p.cursor] /\ p.cursor \in Int
  <2> HIDE DEF p
  <2>1. QED
    BY <1>1 DEF Columns!Pane
<1>3. panes' = [panes EXCEPT ![focus] = Columns!ClampScroll(focus, p, focus, q)]
      /\ query' = q /\ UNCHANGED <<focus, ready, replies, Columns!size>>
  BY DEF Columns!Narrow
<1>4. QED
  BY <1>2, <1>3, PanesAre, FocusIsPlaced

LEMMA PanesSwitch ==
    ASSUME Columns!PanesAssumption, PanesInv, Columns!SwitchPane
    PROVE  PanesStep
<1>1. /\ focus' = Columns!Other(focus) /\ filtering' = FALSE
      /\ panes' = [side \in Columns!Sides |-> Columns!ClampScroll(side, panes[side], focus', query)]
      /\ UNCHANGED <<query, ready, replies, Columns!size>>
  BY DEF Columns!SwitchPane
<1>2. focus' \in Columns!Sides
  BY <1>1 DEF Columns!Other, Columns!Sides
<1>3. ASSUME NEW side \in Columns!Sides
      PROVE  PaneStep(side) /\ panes'[side] \in Columns!Pane /\ SameBut(panes'[side], panes[side])
  <2>1. panes[side] \in WidePane /\ SameBut(panes[side], panes[side])
    BY PanesAre DEF SameBut
  <2>2. panes'[side] = Columns!ClampScroll(side, panes[side], focus', query')
    BY <1>1
  <2>3. PaneStep(side)
    BY <1>1, <2>1, <2>2, PaneIsPlaced DEF PanesInv
  <2>4. QED
    BY <2>1, <2>2, <2>3, PanesAre, ClampedPane
<1>4. panes' \in [Columns!Sides -> Columns!Pane]
  BY <1>1, <1>3
<1>5. UNCHANGED narrow /\ UNCHANGED paneHeight
  BY <1>1 DEF Columns!size
<1>6. QED
  BY <1>1, <1>2, <1>3, <1>4, <1>5, PanesAre, BothStep DEF SameBut

\* A key that goes to dir, with p what it made of the pane on the way.
LEMMA PanesWalk ==
    ASSUME Columns!PanesAssumption, PanesInv,
           NEW p \in Columns!Pane, NEW dir \in Columns!Paths,
           p.cwd = panes[focus].cwd, p.listed = panes[focus].listed,
           p.entries = panes[focus].entries, p.pending = panes[focus].pending,
           \/ p.cursor = panes[focus].cursor /\ p.offset = panes[focus].offset
           \/ p.cursor = 0 /\ p.offset = 0,
           focus = "local" =>
              /\ dir \in Columns!Dirs
              /\ p.listed \in Columns!Dirs => Len(dir.trail) <= Len(p.listed.trail) + 1,
           dir \notin {NoDir, p.cwd} /\ dir = Columns!Parent(p.cwd) =>
              p.reveal = Columns!Base(p.cwd),
           Columns!Walk(p, dir)
    PROVE  PanesStep
<1>1. UNCHANGED <<focus, query, filtering, ready, Columns!size>>
  BY DEF Columns!Walk
<1>2. UNCHANGED narrow /\ UNCHANGED paneHeight
  BY <1>1 DEF Columns!size
<1>3. CASE focus = "local"
  <2> DEFINE b == [p EXCEPT !.cwd = dir]
  <2>1. /\ UNCHANGED replies
        /\ \/ panes' = [panes EXCEPT !["local"] = b]
           \/ \E entries \in Columns!Listings(b.cwd) :
                 panes' = [panes EXCEPT !["local"] =
                     Columns!ClampScroll("local", Columns!Filled(b, b.cwd, entries), focus, query)]
    BY <1>3 DEF Columns!Walk, Columns!ReloadLocal
  <2>2. /\ b \in Columns!Pane /\ b.cwd = dir /\ b.listed = p.listed /\ b.entries = p.entries
        /\ b.cursor = p.cursor /\ b.offset = p.offset /\ b.reveal = p.reveal
    BY DEF Columns!Pane
  <2> HIDE DEF b
  <2>3. dir # NoDir /\ dir \in Columns!Dirs
    BY <1>3 DEF Columns!PanesAssumption
  <2>4. ASSUME panes' = [panes EXCEPT !["local"] = panes'["local"]],
               panes'["local"] \in Columns!Pane, PaneStep("local")
        PROVE  PanesStep
    <3>1. panes' \in [Columns!Sides -> Columns!Pane] /\ panes'["remote"] = panes["remote"]
      BY <2>4, PanesAre
    <3>2. PaneStep("remote")
      BY <1>1, <3>1, PanesAre, OneRests
    <3>3. QED
      BY <1>1, <1>2, <2>1, <2>4, <3>1, <3>2, PanesAre, BothStep
  <2>5. CASE panes' = [panes EXCEPT !["local"] = b]
    <3>1. panes'["local"] = b /\ panes' = [panes EXCEPT !["local"] = panes'["local"]]
      BY <2>5, PanesAre
    <3>2. \/ b.cwd = panes["local"].cwd
          \/ b.cwd # Columns!Parent(panes["local"].cwd)
          \/ b.reveal = Columns!Base(panes["local"].cwd)
      BY <1>3, <2>2, <2>3
    <3>3. PaneStep("local")
      BY <1>1, <1>3, <2>2, <2>3, <3>1, <3>2, PanesAre, PaneWaits
    <3>4. QED
      BY <2>2, <2>4, <3>1, <3>3
  <2>6. ASSUME NEW entries \in Columns!Listings(b.cwd),
               panes' = [panes EXCEPT !["local"] =
                   Columns!ClampScroll("local", Columns!Filled(b, b.cwd, entries), focus, query)]
        PROVE  PanesStep
    <3>1. /\ panes'["local"] =
                Columns!ClampScroll("local", Columns!Filled(b, dir, entries), focus, query)
          /\ panes' = [panes EXCEPT !["local"] = panes'["local"]]
      BY <2>2, <2>6, PanesAre
    <3>2. dir # panes["local"].cwd /\ dir = Columns!Parent(panes["local"].cwd) =>
              b.reveal = Columns!Base(panes["local"].cwd)
      BY <1>3, <2>2, <2>3
    <3>3. PaneStep("local")
      BY <1>1, <2>2, <2>3, <2>6, <3>1, <3>2, PanesAre, PaneIsFilled
    <3>4. QED
      BY <2>4, <3>1, <3>3 DEF PaneStep, PaneInv
  <2>7. QED
    BY <2>1, <2>5, <2>6
<1>4. ASSUME focus = "remote", NEW b \in Columns!Pane, panes' = [panes EXCEPT !["remote"] = b],
             b.cwd = p.cwd, b.listed = p.listed, b.entries = p.entries,
             b.cursor = p.cursor, b.offset = p.offset, b.reveal = p.reveal,
             \/ b.pending = dir /\ replies' = Columns!(+)(replies, Columns!SetToBag({dir})) /\ ready
             \/ ~ready /\ b.pending = p.pending /\ UNCHANGED replies
      PROVE  PanesStep
  <2>1. panes'["remote"] = b /\ panes'["local"] = panes["local"]
        /\ panes' \in [Columns!Sides -> Columns!Pane]
    BY <1>4, PanesAre
  <2>2. b.pending \notin {NoDir, b.cwd} /\ b.pending = Columns!Parent(b.cwd) =>
           b.reveal = Columns!Base(b.cwd)
    BY <1>4, PanesAre
  <2>3. PaneStep("remote")
    BY <1>1, <1>4, <2>1, <2>2, PanesAre, PaneWaits
  <2>4. PaneStep("local")
    BY <1>1, <2>1, PanesAre, OneRests
  <2>5. ~ready => b.cwd = NoDir /\ b.pending = NoDir
    BY <1>4, PanesAre
  <2>6. QED
    BY <1>1, <1>2, <1>4, <2>1, <2>3, <2>4, <2>5, PanesAre, BothStep
<1>5. CASE focus = "remote" /\ ready
  <2> DEFINE b == [p EXCEPT !.pending = dir]
  <2>1. /\ panes' = [panes EXCEPT !["remote"] = b]
        /\ replies' = Columns!(+)(replies, Columns!SetToBag({dir}))
    BY <1>5 DEF Columns!Walk, Columns!LoadInto
  <2>2. /\ b \in Columns!Pane /\ b.cwd = p.cwd /\ b.listed = p.listed /\ b.entries = p.entries
        /\ b.cursor = p.cursor /\ b.offset = p.offset /\ b.reveal = p.reveal /\ b.pending = dir
    BY DEF Columns!Pane
  <2> HIDE DEF b
  <2>3. QED
    BY <1>4, <1>5, <2>1, <2>2
<1>6. CASE focus = "remote" /\ ~ready
  BY <1>4, <1>6 DEF Columns!Walk
<1>7. QED
  BY <1>3, <1>5, <1>6, PanesAre DEF Columns!Sides

LEMMA PanesDescend ==
    ASSUME Columns!PanesAssumption, PanesInv, Columns!Descend
    PROVE  PanesStep
<1> DEFINE q == panes[focus]
           p == [q EXCEPT !.cursor = 0, !.offset = 0, !.reveal = Columns!NoName]
           dir == Columns!Child(q.listed, Columns!current)
<1>1. Columns!current \in Folders /\ Columns!Walk(p, dir)
  BY DEF Columns!Descend
<1>2. q \in Columns!Pane /\ PaneInv(focus, q, focus, query)
  BY PanesAre DEF PanesInv
<1>3. \E i \in DOMAIN q.entries : q.entries[i] = Columns!current
  <2> DEFINE at == {i \in Columns!visible(focus) : Columns!rowOf(focus, i) = q.cursor}
  <2>1. Columns!NoName \notin Folders
    BY DEF Columns!PanesAssumption, Columns!Names
  <2>2. Columns!current = IF at = {} THEN Columns!NoName ELSE q.entries[CHOOSE i \in at : TRUE]
    BY DEF Columns!current
  <2>3. at \subseteq DOMAIN q.entries
    BY DEF Columns!visible, Columns!VisibleIn
  <2> HIDE DEF at, q
  <2>4. at # {} => (CHOOSE i \in at : TRUE) \in at
    OBVIOUS
  <2>5. QED
    BY <1>1, <2>1, <2>2, <2>3, <2>4
<1>4. q.listed \in Columns!Dirs /\ Len(q.listed.trail) < MaxDepth
  BY <1>1, <1>2, <1>3 DEF PaneInv
<1>5. dir \in Columns!Dirs /\ Len(dir.trail) = Len(q.listed.trail) + 1
  BY <1>1, <1>4, ChildIsBelow
<1>6. q.cwd \in Columns!Dirs /\ Len(q.cwd.trail) <= Len(q.listed.trail) + 1
      /\ (focus = "remote" => q.cwd = q.listed) /\ focus \in {"local", "remote"}
  BY <1>2, <1>4, PanesAre, TrailIsSeq DEF PaneInv, Columns!Sides, Columns!Dirs
<1>7. /\ Len(q.cwd.trail) \in Nat /\ Len(q.listed.trail) \in Nat
      /\ Len(Columns!Parent(q.cwd).trail) \in Nat
  <2>1. \A d \in Columns!Dirs : Len(d.trail) \in Nat
    BY TrailIsSeq DEF Columns!Dirs
  <2>2. Columns!Parent(q.cwd) \in Columns!Dirs
    BY <1>6, ParentIsAbove DEF Columns!Paths
  <2>3. QED
    BY <1>4, <1>6, <2>1, <2>2
<1> HIDE DEF q, dir
<1>8. dir = Columns!Parent(q.cwd) => dir = q.cwd
  BY <1>5, <1>6, <1>7, ParentIsAbove DEF Columns!Paths
<1>9. /\ p \in Columns!Pane /\ p.cwd = q.cwd /\ p.listed = q.listed /\ p.entries = q.entries
      /\ p.pending = q.pending /\ p.cursor = 0 /\ p.offset = 0
  BY <1>2 DEF Columns!Pane
<1> HIDE DEF p
<1>10. dir \in Columns!Paths /\ Len(dir.trail) <= Len(p.listed.trail) + 1
  BY <1>5, <1>7, <1>9 DEF Columns!Paths
<1>11. QED
  BY <1>1, <1>5, <1>8, <1>9, <1>10, PanesWalk DEF q

LEMMA PanesGoUp ==
    ASSUME Columns!PanesAssumption, PanesInv, Columns!GoUp
    PROVE  PanesStep
<1> DEFINE q == panes[focus]
           p == [q EXCEPT !.reveal = Columns!Base(q.cwd)]
           dir == Columns!Parent(q.cwd)
<1>1. Columns!Walk(p, dir)
  BY DEF Columns!GoUp
<1>2. q \in Columns!Pane /\ PaneInv(focus, q, focus, query)
  BY PanesAre DEF PanesInv
<1> HIDE DEF q
<1>3. dir \in Columns!Dirs /\ Columns!Base(q.cwd) \in Columns!Names \union {Columns!NoName}
      /\ (q.cwd \in Columns!Dirs => dir = q.cwd \/ Len(dir.trail) < Len(q.cwd.trail))
  BY <1>2, ParentIsAbove DEF Columns!Pane
<1>4. \A d \in Columns!Dirs : Len(d.trail) \in Nat
  BY TrailIsSeq DEF Columns!Dirs
<1>5. focus = "local" /\ q.listed \in Columns!Dirs => Len(dir.trail) <= Len(q.listed.trail) + 1
  BY <1>2, <1>3, <1>4 DEF PaneInv
<1>6. /\ p \in Columns!Pane /\ p.cwd = q.cwd /\ p.listed = q.listed /\ p.entries = q.entries
      /\ p.pending = q.pending /\ p.cursor = q.cursor /\ p.offset = q.offset
      /\ p.reveal = Columns!Base(q.cwd)
  BY <1>2, <1>3 DEF Columns!Pane
<1> HIDE DEF p, dir
<1>7. dir \in Columns!Paths
  BY <1>3 DEF Columns!Paths
<1>8. QED
  BY <1>1, <1>3, <1>5, <1>6, <1>7, PanesWalk DEF q

LEMMA PanesReload ==
    ASSUME Columns!PanesAssumption, PanesInv, Columns!Reload
    PROVE  PanesStep
<1> DEFINE q == panes[focus]
<1>1. Columns!Walk(q, q.cwd)
  BY DEF Columns!Reload
<1>2. q \in Columns!Pane /\ PaneInv(focus, q, focus, query)
  BY PanesAre DEF PanesInv
<1>3. q.cwd \in Columns!Paths
  BY <1>2 DEF Columns!Pane
<1>4. focus = "local" => /\ q.cwd \in Columns!Dirs
                         /\ q.listed \in Columns!Dirs => Len(q.cwd.trail) <= Len(q.listed.trail) + 1
  BY <1>2 DEF PaneInv
<1>5. QED
  BY <1>1, <1>2, <1>3, <1>4, PanesWalk

-----------------------------------------------------------------------------
LEMMA PanesNext ==
    ASSUME Columns!PanesAssumption, PanesInv, Columns!Next
    PROVE  PanesStep
<1>1. CASE \E h \in PaneHeights, n \in BOOLEAN : Columns!Resize(h, n)
  BY <1>1, PanesResize
<1>2. CASE Columns!ApplySession
  BY <1>2, PanesGetSession
<1>3. CASE \E dir \in Columns!BagToSet(replies) : Columns!ApplyEntries(dir)
  BY <1>3, PanesGetEntries
<1>4. CASE \E row \in Columns!rowsAsked : Columns!CursorTo(row)
  BY <1>4, PanesCursor
<1>5. CASE Columns!SwitchPane
  BY <1>5, PanesSwitch
<1>6. CASE Columns!StartFilter \/ Columns!KeepFilter \/ Columns!ClearFilter
           \/ \E q \in Queries : Columns!Type(q)
  <2>1. PICK q \in Queries \union {Columns!Names} :
           filtering' \in BOOLEAN /\ Columns!Narrow(q)
    <3>1. query \in Queries \union {Columns!Names}
      BY PanesAre
    <3>2. QED
      BY <1>6, <3>1 DEF Columns!StartFilter, Columns!KeepFilter, Columns!ClearFilter, Columns!Type
  <2>2. QED
    BY <2>1, PanesNarrow
<1>7. CASE Columns!Descend \/ Columns!GoUp \/ Columns!Reload
  BY <1>7, PanesDescend, PanesGoUp, PanesReload
<1>8. QED
  BY <1>1, <1>2, <1>3, <1>4, <1>5, <1>6, <1>7 DEF Columns!Next, Columns!Key

\* Nothing moves unless something happens.
LEMMA PanesStay ==
    ASSUME Columns!PanesAssumption, PanesInv, [Columns!Next]_paneVars
    PROVE  PanesInv' /\ [\A side \in Columns!Sides : Follows(side) /\ LandsOn(side)]_paneVars
<1>1. CASE Columns!Next
  BY <1>1, PanesNext DEF PanesStep
<1>2. CASE UNCHANGED paneVars
  <2>1. /\ UNCHANGED <<panes, focus, query, filtering, ready, replies, paneHeight, narrow>>
    BY <1>2 DEF paneVars
  <2>2. \A side \in Columns!Sides : PaneInv(side, panes'[side], focus', query')
    BY <2>1 DEF PanesInv
  <2>3. (\A side \in Columns!Sides : PaneInv(side, panes[side], focus, query))'
    BY <2>2 DEF PaneInv, Counts, Columns!VisibleIn, Columns!Parent, Columns!Base
  <2>4. Columns!PanesTypeOK'
    BY <2>1 DEF PanesInv, Columns!PanesTypeOK
  <2>5. (panes["remote"].pending # NoDir => Columns!BagIn(panes["remote"].pending, replies))'
    BY <2>1 DEF PanesInv, Columns!BagIn, Columns!BagToSet
  <2>6. (~ready => panes["remote"].cwd = NoDir /\ panes["remote"].pending = NoDir)'
    BY <2>1 DEF PanesInv
  <2>7. PanesInv'
    BY <2>3, <2>4, <2>5, <2>6 DEF PanesInv
  <2>8. QED
    BY <1>2, <2>7
<1>3. QED
  BY <1>1, <1>2

\* A pane whose cursor is at the top, of a listing there can be.
LEMMA PaneBegins ==
    ASSUME NEW p \in Columns!Pane, NEW side, NEW f, NEW q, p.cursor = 0, p.offset = 0,
           \A i \in DOMAIN p.entries : p.entries[i] \in Folders =>
              p.listed \in Columns!Dirs /\ Len(p.listed.trail) < MaxDepth
    PROVE  /\ Counts(p, Columns!VisibleIn(side, p, f, q))
           /\ side = "local" /\ p.cwd = Columns!Home /\ p.cwd \in Columns!Dirs
              /\ p.listed \in {NoDir, Columns!Home} /\ NoDir \notin Columns!Dirs =>
                 PaneInv(side, p, f, q)
           /\ side = "remote" /\ p.listed = p.cwd /\ p.pending = NoDir => PaneInv(side, p, f, q)
<1> DEFINE V == Columns!VisibleIn(side, p, f, q)
<1>1. Columns!Cardinality(V) \in Nat /\ (Columns!Cardinality(V) = 0 <=> V = {})
  BY RowsAreCounted DEF Columns!Pane
<1> HIDE DEF V
<1>2. Counts(p, V)
  BY <1>1 DEF Counts
<1>3. Len(Columns!Home.trail) = 0
  BY DEF Columns!Home
<1>4. QED
  BY <1>2, <1>3 DEF PaneInv, V

LEMMA PanesBegin ==
    ASSUME Columns!PanesAssumption, Columns!Init
    PROVE  PanesInv
<1> DEFINE none == Columns!NoPane
           some == [none EXCEPT !.cwd = Columns!Home]
           full(entries) == Columns!Filled(none, Columns!Home, entries)
<1>0. Columns!Home \in Columns!Dirs /\ Columns!Dirs \subseteq Columns!Paths /\ NoDir \in Columns!Paths
      /\ NoDir \notin Columns!Dirs
  BY HomesAreDirs DEF Columns!Paths, Columns!PanesAssumption
<1>1. /\ none \in Columns!Pane /\ none.cwd = NoDir /\ none.listed = NoDir /\ none.entries = <<>>
      /\ none.cursor = 0 /\ none.offset = 0 /\ none.pending = NoDir
      /\ none.reveal = Columns!NoName
  BY <1>0 DEF Columns!NoPane, Columns!Pane
<1> HIDE DEF none
<1>2. /\ some \in Columns!Pane /\ some.cwd = Columns!Home /\ some.listed = NoDir
      /\ some.entries = <<>> /\ some.cursor = 0 /\ some.offset = 0
  BY <1>0, <1>1 DEF Columns!Pane
<1>3. ASSUME NEW entries \in Columns!Listings(Columns!Home)
      PROVE  LET p == full(entries)
             IN  /\ p \in Columns!Pane /\ p.cwd = Columns!Home /\ p.listed = Columns!Home
                 /\ p.entries = entries /\ p.cursor = 0 /\ p.offset = 0
                 /\ \A i \in DOMAIN p.entries : p.entries[i] \in Folders =>
                       p.listed \in Columns!Dirs /\ Len(p.listed.trail) < MaxDepth
  <2>1. entries \in Seq(Columns!Names)
        /\ \A i \in DOMAIN entries : entries[i] \in Folders => Len(Columns!Home.trail) < MaxDepth
    BY <1>0, <1>3, ListingsAreShort
  <2>2. Columns!Revealed(none, entries) = 0
    <3>1. \A i \in DOMAIN entries : entries[i] \in Columns!Names
      BY <2>1
    <3>2. Columns!NoName \notin Columns!Names
      BY DEF Columns!PanesAssumption
    <3>3. QED
      BY <1>1, <3>1, <3>2 DEF Columns!Revealed, Columns!Range
  <2>3. full(entries) = [none EXCEPT !.cwd = Columns!Home, !.listed = Columns!Home,
                             !.entries = entries, !.cursor = 0, !.reveal = Columns!NoName]
    BY <2>2 DEF Columns!Filled
  <2>4. QED
    BY <1>0, <1>1, <2>1, <2>3 DEF Columns!Pane
<1>4. ASSUME NEW l \in Columns!Pane,
             panes = [side \in Columns!Sides |-> IF side = "local" THEN l ELSE none],
             l.cwd = Columns!Home, l.listed \in {NoDir, Columns!Home}, l.cursor = 0, l.offset = 0,
             \A i \in DOMAIN l.entries : l.entries[i] \in Folders =>
                l.listed \in Columns!Dirs /\ Len(l.listed.trail) < MaxDepth
      PROVE  PanesInv
  <2>1. panes["local"] = l /\ panes["remote"] = none /\ panes \in [Columns!Sides -> Columns!Pane]
    BY <1>1, <1>4 DEF Columns!Sides
  <2>2. PaneInv("local", l, focus, query)
    BY <1>0, <1>4, PaneBegins
  <2>3. PaneInv("remote", none, focus, query)
    BY <1>1, PaneBegins
  <2>4. Columns!IsABag(replies) /\ Columns!BagToSet(replies) \subseteq Columns!Paths
    BY DEF Columns!Init, Columns!EmptyBag, Columns!IsABag, Columns!BagToSet, Columns!SetToBag
  <2>5. Columns!PanesTypeOK
    BY <2>1, <2>4 DEF Columns!Init, Columns!PanesTypeOK
  <2>6. QED
    BY <1>1, <2>1, <2>2, <2>3, <2>5 DEF PanesInv, Columns!Sides
<1> HIDE DEF some, full
<1>5. CASE panes = [side \in Columns!Sides |-> IF side = "local" THEN some ELSE none]
  BY <1>2, <1>4, <1>5
<1>6. ASSUME NEW entries \in Columns!Listings(Columns!Home),
             panes = [side \in Columns!Sides |-> IF side = "local" THEN full(entries) ELSE none]
      PROVE  PanesInv
  BY <1>3, <1>4, <1>6
<1>7. QED
  BY <1>5, <1>6 DEF Columns!Init, some, full, none

-----------------------------------------------------------------------------
(* The frame: iterating a step, which is what a recursive function does.   *)

\* A set with 0 and the successor of each of its numbers has all of them.
LEMMA AllNumbers ==
    ASSUME NEW T, 0 \in T, \A n \in Nat : n \in T => n + 1 \in T
    PROVE  Nat \subseteq T
<1> DEFINE Less == OpToRel(<, Nat)
           Out == Nat \ T
<1>1. SUFFICES ASSUME Out # {} PROVE FALSE
  OBVIOUS
<1>2. PICK x \in Out : \A y \in Out : <<y, x>> \notin Less
  <2>1. IsWellFoundedOn(Less, Nat) /\ Out \in SUBSET Nat
    BY NatLessThanWellFounded
  <2> HIDE DEF Less, Out
  <2>2. QED
    BY <1>1, <2>1, WFMin
<1>3. \A y \in Out : ~(y < x)
  BY <1>2 DEF OpToRel
<1>4. x \in Nat /\ x \notin T /\ x # 0 /\ x - 1 \in Nat
  OBVIOUS
<1>5. x - 1 \in T
  BY <1>3, <1>4
<1>6. QED
  BY <1>4, <1>5

\* h is g, taken from a as often as its place says.
Iterates(h, dom, g, a) ==
    \A i \in dom : h[i] = IF i = 0 THEN a ELSE g[h[i - 1]]

\* There is one way to iterate, as far as two of them go.
LEMMA IterationIsOne ==
    ASSUME NEW g, NEW a, NEW m \in Nat, NEW n \in Nat, NEW h, NEW k,
           Iterates(h, 0 .. m, g, a), Iterates(k, 0 .. n, g, a)
    PROVE  \A i \in Nat : i <= m /\ i <= n => h[i] = k[i]
<1> DEFINE T == {i \in Nat : i <= m /\ i <= n => h[i] = k[i]}
<1>1. 0 \in T
  BY DEF Iterates
<1>2. ASSUME NEW i \in Nat, i \in T PROVE i + 1 \in T
  <2>1. i + 1 # 0 /\ (i + 1) - 1 = i
    OBVIOUS
  <2>2. QED
    BY <1>2, <2>1 DEF Iterates
<1> HIDE DEF T
<1>3. Nat \subseteq T
  BY <1>1, <1>2, AllNumbers
<1>4. QED
  BY <1>3 DEF T

\* And a step can be iterated for ever.
LEMMA IterationIs ==
    ASSUME NEW S, NEW g \in [S -> S], NEW a \in S
    PROVE  \E f \in [Nat -> S] : Iterates(f, Nat, g, a)
<1> DEFINE Good(n) == {h \in [0 .. n -> S] : Iterates(h, 0 .. n, g, a)}
           T == {n \in Nat : Good(n) # {}}
<1>1. 0 \in T
  <2> DEFINE h == [i \in 0 .. 0 |-> a]
  <2>1. h \in Good(0)
    BY DEF Iterates
  <2>2. QED
    BY <2>1
<1>2. ASSUME NEW n \in Nat, n \in T PROVE n + 1 \in T
  <2>1. PICK h \in [0 .. n -> S] : Iterates(h, 0 .. n, g, a)
    BY <1>2
  <2> DEFINE k == [i \in 0 .. n + 1 |-> IF i = n + 1 THEN g[h[n]] ELSE h[i]]
  <2>2. k \in [0 .. n + 1 -> S]
    BY <2>1
  <2>3. ASSUME NEW i \in 0 .. n + 1 PROVE k[i] = IF i = 0 THEN a ELSE g[k[i - 1]]
    BY <2>1 DEF Iterates
  <2> HIDE DEF k
  <2>4. k \in Good(n + 1)
    BY <2>2, <2>3 DEF Iterates
  <2>5. QED
    BY <2>4
<1>3. Nat \subseteq T
  <2> HIDE DEF T
  <2>1. QED
    BY <1>1, <1>2, AllNumbers
<1> DEFINE at(n) == CHOOSE h : h \in Good(n)
           f == [n \in Nat |-> at(n)[n]]
<1>4. ASSUME NEW n \in Nat PROVE at(n) \in [0 .. n -> S] /\ Iterates(at(n), 0 .. n, g, a)
  <2>1. at(n) \in Good(n)
    BY <1>3
  <2>2. QED
    BY <2>1
<1> HIDE DEF T, Good, at
<1>5. f \in [Nat -> S]
  <2>1. \A n \in Nat : at(n)[n] \in S
    BY <1>4
  <2>2. QED
    BY <2>1
<1>6. ASSUME NEW n \in Nat PROVE f[n] = IF n = 0 THEN a ELSE g[f[n - 1]]
  <2>1. CASE n = 0
    BY <1>4, <2>1 DEF Iterates
  <2>2. CASE n # 0
    <3>1. n - 1 \in Nat /\ n - 1 <= n /\ n - 1 <= n - 1 /\ n \in 0 .. n
      BY <2>2
    <3>2. at(n)[n] = g[at(n)[n - 1]]
      BY <1>4, <2>2, <3>1 DEF Iterates
    <3>3. at(n)[n - 1] = at(n - 1)[n - 1]
      BY <1>4, <3>1, IterationIsOne
    <3>4. QED
      BY <2>2, <3>1, <3>2, <3>3
  <2>3. QED
    BY <2>1, <2>2
<1>7. QED
  BY <1>5, <1>6 DEF Iterates

-----------------------------------------------------------------------------
(* The columns.                                                            *)

\* The columns left when the first n are given up.
Rest(n) == {c \in 1 .. 5 : (c = 5 => n < 1) /\ (c = 4 => n < 2) /\ (c = 2 => n < 3)}

ColumnsTyped == cells \in [1 .. 5 -> Nat] /\ width \in Nat

LEMMA MeasuresAre ==
    ASSUME ColumnsTyped
    PROVE  /\ DOMAIN Fitted!Columns = 1 .. 5
           /\ Fitted!Measured \in [1 .. 5 -> 4 .. 32]
           /\ Len(Fitted!dropOrder) = 3
           /\ Fitted!budget \in Nat /\ Fitted!contentWidth = Fitted!budget + 2
           /\ width = 0 \/ width >= Fitted!Narrowest => Fitted!budget >= 14
<1>1. DOMAIN Fitted!Columns = 1 .. 5 /\ Len(Fitted!dropOrder) = 3
  BY DEF Fitted!Columns, Fitted!dropOrder
<1>2. Fitted!Measured \in [1 .. 5 -> 4 .. 32]
  BY <1>1 DEF ColumnsTyped, Fitted!Measured, Fitted!Min, Fitted!Max, Fitted!headerWidth,
              Fitted!maxColumnWidth
<1>3. /\ Fitted!budget \in Nat /\ Fitted!contentWidth = Fitted!budget + 2
      /\ width = 0 \/ width >= Fitted!Narrowest => Fitted!budget >= 14
  BY DEF ColumnsTyped, Fitted!budget, Fitted!contentWidth, Fitted!Max, Fitted!margin,
         Fitted!rowIndent, Fitted!minContentWidth, Fitted!Narrowest, Fitted!minColumnWidth,
         Fitted!columnGap
<1>4. QED
  BY <1>1, <1>2, <1>3

LEMMA AfterIs ==
    ASSUME ColumnsTyped, NEW n \in 0 .. 3
    PROVE  Fitted!After(n) = [c \in Rest(n) |-> Fitted!Measured[c]]
<1> DEFINE gone == {Fitted!dropOrder[i] : i \in 1 .. n}
           left == {d \in DOMAIN Fitted!Columns : Fitted!Columns[d] \notin gone}
<1>1. /\ Fitted!Columns[1] = "name" /\ Fitted!Columns[2] = "user" /\ Fitted!Columns[3] = "host"
      /\ Fitted!Columns[4] = "port" /\ Fitted!Columns[5] = "tags"
  BY DEF Fitted!Columns
<1>2. Fitted!dropOrder[1] = "tags" /\ Fitted!dropOrder[2] = "port" /\ Fitted!dropOrder[3] = "user"
  BY DEF Fitted!dropOrder
<1>3. \A x : x \in gone <=> \/ x = "tags" /\ n >= 1
                            \/ x = "port" /\ n >= 2
                            \/ x = "user" /\ n >= 3
  <2>1. \A i \in 1 .. n : i \in {1, 2, 3}
    OBVIOUS
  <2>2. \A x : x \in gone => \/ x = "tags" /\ n >= 1
                             \/ x = "port" /\ n >= 2
                             \/ x = "user" /\ n >= 3
    BY <1>2, <2>1
  <2>3. n >= 1 => "tags" \in gone
    BY <1>2
  <2>4. n >= 2 => "port" \in gone
    BY <1>2
  <2>5. n >= 3 => "user" \in gone
    BY <1>2
  <2> HIDE DEF gone
  <2>6. QED
    BY <2>2, <2>3, <2>4, <2>5
<1>4. Fitted!After(n) = [c \in left |-> Fitted!Measured[c]]
  BY DEF Fitted!After
<1> HIDE DEF gone
<1>5. \A d \in 1 .. 5 : d = 1 \/ d = 2 \/ d = 3 \/ d = 4 \/ d = 5
  OBVIOUS
<1>6. left = Rest(n)
  BY <1>1, <1>3, <1>5, MeasuresAre DEF Rest
<1> HIDE DEF left
<1>7. QED
  BY <1>4, <1>6

\* The columns given up are the first that let the rest fit, or all that may be.
LEMMA DroppedIs ==
    /\ Fitted!Dropped \in 0 .. 3
    /\ Fitted!Dropped = 3 \/ Fitted!Fits(Fitted!After(Fitted!Dropped))
    /\ \A m \in 0 .. Fitted!Dropped - 1 : ~Fitted!Fits(Fitted!After(m))
<1> DEFINE Right(n) == /\ n = 3 \/ Fitted!Fits(Fitted!After(n))
                       /\ \A m \in 0 .. n - 1 : ~Fitted!Fits(Fitted!After(m))
<1>1. \E n \in 0 .. 3 : Right(n)
  <2>0. /\ \A m \in 0 .. 0 - 1 : FALSE
        /\ \A m \in 0 .. 1 - 1 : m = 0
        /\ \A m \in 0 .. 2 - 1 : m = 0 \/ m = 1
        /\ \A m \in 0 .. 3 - 1 : m = 0 \/ m = 1 \/ m = 2
    OBVIOUS
  <2>1. CASE Fitted!Fits(Fitted!After(0))
    BY <2>0, <2>1
  <2>2. CASE ~Fitted!Fits(Fitted!After(0)) /\ Fitted!Fits(Fitted!After(1))
    BY <2>0, <2>2
  <2>3. CASE ~Fitted!Fits(Fitted!After(0)) /\ ~Fitted!Fits(Fitted!After(1))
             /\ Fitted!Fits(Fitted!After(2))
    BY <2>0, <2>3
  <2>4. CASE ~Fitted!Fits(Fitted!After(0)) /\ ~Fitted!Fits(Fitted!After(1))
             /\ ~Fitted!Fits(Fitted!After(2))
    BY <2>0, <2>4
  <2>5. QED
    BY <2>1, <2>2, <2>3, <2>4
<1>2. Len(Fitted!dropOrder) = 3
  BY DEF Fitted!dropOrder
<1>3. Fitted!Dropped = CHOOSE n \in 0 .. 3 : Right(n)
  BY <1>2 DEF Fitted!Dropped
<1> HIDE DEF Right
<1>4. Fitted!Dropped \in 0 .. 3 /\ Right(Fitted!Dropped)
  BY <1>1, <1>3
<1>5. QED
  BY <1>4 DEF Right

\* Of some of the columns one is the first of the widest.
LEMMA WidestIs ==
    ASSUME NEW D \in SUBSET (1 .. 5), D # {}, NEW w \in [D -> 0 .. 32]
    PROVE  /\ Fitted!Widest(w) \in D
           /\ \A d \in D : w[d] <= w[Fitted!Widest(w)]
<1> DEFINE Less == OpToRel(<, Nat)
           keys == {(32 - w[c]) * 8 + c : c \in D}
<1>1. keys \in SUBSET Nat /\ keys # {}
  <2>1. \A c \in D : (32 - w[c]) * 8 + c \in Nat
    OBVIOUS
  <2>2. QED
    BY <2>1
<1>2. PICK k \in keys : \A j \in keys : <<j, k>> \notin Less
  <2>1. IsWellFoundedOn(Less, Nat)
    BY NatLessThanWellFounded
  <2> HIDE DEF Less, keys
  <2>2. QED
    BY <1>1, <2>1, WFMin
<1>3. \A j \in keys : ~(j < k)
  <2> HIDE DEF keys
  <2>1. QED
    BY <1>1, <1>2 DEF OpToRel
<1>4. PICK c \in D : k = (32 - w[c]) * 8 + c
  BY <1>2
<1>5. \A d \in D : w[d] < w[c] \/ (w[d] = w[c] /\ c <= d)
  <2>1. TAKE d \in D
  <2>2. ~((32 - w[d]) * 8 + d < (32 - w[c]) * 8 + c)
    BY <1>3, <1>4
  <2>3. w[d] \in 0 .. 32 /\ w[c] \in 0 .. 32 /\ c \in 1 .. 5 /\ d \in 1 .. 5
    OBVIOUS
  <2>4. QED
    BY <2>2, <2>3
<1> HIDE DEF keys
<1>6. DOMAIN w = D
  OBVIOUS
<1> DEFINE First(e) == \A d \in D : w[d] < w[e] \/ (w[d] = w[e] /\ e <= d)
<1>7. Fitted!Widest(w) = CHOOSE e \in D : First(e)
  BY <1>6 DEF Fitted!Widest
<1>8. First(c)
  BY <1>5
<1> HIDE DEF First
<1>9. Fitted!Widest(w) \in D /\ First(Fitted!Widest(w))
  BY <1>7, <1>8
<1>10. \A d \in D : w[d] <= w[Fitted!Widest(w)]
  <2>1. TAKE d \in D
  <2> DEFINE e == Fitted!Widest(w)
  <2>2. e \in D /\ (w[d] < w[e] \/ (w[d] = w[e] /\ e <= d))
    BY <1>9 DEF First
  <2> HIDE DEF e
  <2>3. w[d] \in Int /\ w[e] \in Int
    BY <2>2
  <2>4. w[d] <= w[e]
    BY <2>2, <2>3
  <2>5. QED
    BY <2>4 DEF e
<1>11. QED
  BY <1>9, <1>10

\* A column one narrower makes a row one narrower.
LEMMA RowNarrows ==
    ASSUME NEW D \in SUBSET (1 .. 5), NEW w \in [D -> 0 .. 32], NEW c \in D, w[c] > 0
    PROVE  /\ Fitted!totalWidth(w) \in Int
           /\ [w EXCEPT ![c] = @ - 1] \in [D -> 0 .. 32]
           /\ Fitted!totalWidth([w EXCEPT ![c] = @ - 1]) = Fitted!totalWidth(w) - 1
<1> DEFINE v == [w EXCEPT ![c] = @ - 1]
           t(i) == IF i \in DOMAIN w THEN Fitted!columnGap + w[i] ELSE 0
           u(i) == IF i \in DOMAIN v THEN Fitted!columnGap + v[i] ELSE 0
<1>1. v \in [D -> 0 .. 32] /\ v[c] = w[c] - 1 /\ \A i \in D : i # c => v[i] = w[i]
  OBVIOUS
<1>2. /\ Fitted!totalWidth(w) = t(1) + t(2) + t(3) + t(4) + t(5) - Fitted!columnGap
      /\ Fitted!totalWidth(v) = u(1) + u(2) + u(3) + u(4) + u(5) - Fitted!columnGap
  BY DEF Fitted!totalWidth
<1>3. Fitted!columnGap = 2
  BY DEF Fitted!columnGap
<1>4. \A i \in 1 .. 5 : t(i) \in Int /\ u(i) = IF i = c THEN t(i) - 1 ELSE t(i)
  <2> HIDE DEF v
  <2>1. QED
    BY <1>1, <1>3
<1>5. c = 1 \/ c = 2 \/ c = 3 \/ c = 4 \/ c = 5
  OBVIOUS
<1> HIDE DEF t, u, v
<1>6. Fitted!totalWidth(w) \in Int
  BY <1>2, <1>3, <1>4
<1>7. Fitted!totalWidth(v) = Fitted!totalWidth(w) - 1
  BY <1>2, <1>3, <1>4, <1>5
<1>8. QED
  BY <1>1, <1>6, <1>7 DEF v

\* Columns of M that are k narrower in all: none is cut below the least width there is,
\* and of those cut none is by two narrower than any other.
CutBy(D, M, w, k) ==
    /\ w \in [D -> 0 .. 32]
    /\ \A c \in D : w[c] <= M[c] /\ (w[c] < M[c] => w[c] >= 6)
    /\ \A c, d \in D : w[c] < M[c] => w[d] <= w[c] + 1
    /\ Fitted!totalWidth(w) = Fitted!totalWidth(M) - k

LEMMA TrimIsOne ==
    ASSUME NEW D \in SUBSET (1 .. 5), D # {}, NEW M \in [D -> 0 .. 32], NEW w, NEW k \in Nat,
           CutBy(D, M, w, k)
    PROVE  \/ CutBy(D, M, Fitted!Trim(w), k + 1)
           \/ Fitted!Trim(w) = w /\ \A c \in D : w[c] <= 6
<1> DEFINE c == Fitted!Widest(w)
           v == [w EXCEPT ![c] = @ - 1]
<1>1. w \in [D -> 0 .. 32]
  BY DEF CutBy
<1>2. c \in D /\ \A d \in D : w[d] <= w[c]
  BY <1>1, WidestIs
<1>3. Fitted!Trim(w) = IF w[c] <= 6 THEN w ELSE v
  BY DEF Fitted!Trim, Fitted!minColumnWidth
<1> HIDE DEF c
<1>4. CASE w[c] <= 6
  <2>1. \A d \in D : w[d] \in Int
    BY <1>1
  <2>2. \A d \in D : w[d] <= 6
    BY <1>2, <1>4, <2>1
  <2>3. QED
    BY <1>3, <1>4, <2>2
<1>5. CASE ~(w[c] <= 6)
  <2>0. \A d \in D : w[d] \in Int /\ M[d] \in Int
    BY <1>1
  <2>1. w[c] > 6
    BY <1>2, <1>5, <2>0
  <2>2. /\ Fitted!totalWidth(w) \in Int /\ v \in [D -> 0 .. 32]
        /\ Fitted!totalWidth(v) = Fitted!totalWidth(w) - 1
    <3>1. w[c] > 0
      BY <1>2, <2>0, <2>1
    <3>2. QED
      BY <1>1, <1>2, <3>1, RowNarrows
  <2>3. v[c] = w[c] - 1 /\ \A d \in D : d # c => v[d] = w[d]
    BY <1>1, <1>2
  <2> HIDE DEF v
  <2>4. \A d \in D : v[d] <= M[d] /\ (v[d] < M[d] => v[d] >= 6)
    <3>1. TAKE d \in D
    <3>2. CASE d = c
      BY <1>2, <2>0, <2>1, <2>3, <3>2 DEF CutBy
    <3>3. CASE d # c
      BY <1>2, <2>0, <2>3, <3>3 DEF CutBy
    <3>4. QED
      BY <3>2, <3>3
  <2>5. \A d, e \in D : v[d] < M[d] => v[e] <= v[d] + 1
    <3>1. TAKE d, e \in D
    <3>2. v[e] <= w[e] /\ w[e] <= w[c] /\ w[d] \in Int /\ w[e] \in Int /\ w[c] \in Int
          /\ v[e] \in Int /\ v[d] \in Int
      BY <1>2, <2>0, <2>2, <2>3
    <3>3. CASE d = c
      BY <1>2, <2>3, <3>2, <3>3
    <3>4. CASE d # c
      <4>1. v[d] = w[d] /\ (w[d] < M[d] => w[e] <= w[d] + 1)
        BY <2>3, <3>4 DEF CutBy
      <4>2. QED
        BY <3>2, <4>1
    <3>5. QED
      BY <3>3, <3>4
  <2>6. Fitted!totalWidth(v) = Fitted!totalWidth(M) - (k + 1)
    <3>1. Fitted!totalWidth(w) = Fitted!totalWidth(M) - k
      BY DEF CutBy
    <3>2. Fitted!totalWidth(M) \in Int
      <4>1. \A i \in D : M[i] \in Int
        OBVIOUS
      <4>2. QED
        BY <4>1 DEF Fitted!totalWidth, Fitted!columnGap
    <3>3. QED
      BY <2>2, <3>1, <3>2
  <2>7. CutBy(D, M, v, k + 1)
    BY <2>2, <2>4, <2>5, <2>6 DEF CutBy
  <2>8. QED
    BY <1>3, <1>5, <2>7
<1>6. QED
  BY <1>4, <1>5

\* trimToFit is its loop, from the columns left.
LEMMA TrimmedIs ==
    ASSUME NEW D \in SUBSET (1 .. 5), D # {}, Fitted!After(Fitted!Dropped) \in [D -> 0 .. 32]
    PROVE  /\ Fitted!Trimmed[0] = Fitted!After(Fitted!Dropped)
           /\ \A n \in Nat : /\ Fitted!Trimmed[n] \in [D -> 0 .. 32]
                             /\ Fitted!Trimmed[n + 1] = Fitted!Trim(Fitted!Trimmed[n])
<1> DEFINE S == [D -> 0 .. 32]
           a == Fitted!After(Fitted!Dropped)
           g == [w \in S |-> Fitted!Trim(w)]
           Is(f) == f = [n \in Nat |-> IF n = 0 THEN a ELSE Fitted!Trim(f[n - 1])]
<1>1. ASSUME NEW w \in S PROVE Fitted!Trim(w) \in S
  <2> DEFINE c == Fitted!Widest(w)
  <2>1. c \in D
    BY WidestIs
  <2>2. Fitted!Trim(w) = IF w[c] <= 6 THEN w ELSE [w EXCEPT ![c] = @ - 1]
    BY DEF Fitted!Trim, Fitted!minColumnWidth
  <2> HIDE DEF c
  <2>3. QED
    BY <2>1, <2>2
<1>2. g \in [S -> S]
  BY <1>1
<1>3. PICK f \in [Nat -> S] : Iterates(f, Nat, g, a)
  <2> HIDE DEF S, g, a
  <2>1. a \in S
    BY DEF S, a
  <2>2. QED
    BY <1>2, <2>1, IterationIs
<1>4. Is(f)
  <2>1. \A n \in Nat : f[n] = IF n = 0 THEN a ELSE Fitted!Trim(f[n - 1])
    <3>1. TAKE n \in Nat
    <3>2. n # 0 => g[f[n - 1]] = Fitted!Trim(f[n - 1])
      BY <1>3
    <3>3. QED
      BY <1>3, <3>2 DEF Iterates
  <2> HIDE DEF a
  <2>2. QED
    BY <1>3, <2>1
<1>5. Fitted!Trimmed = CHOOSE h : Is(h)
  BY DEF Fitted!Trimmed
<1> HIDE DEF Is, S, g
<1>6. Is(Fitted!Trimmed)
  BY <1>4, <1>5
<1>7. \A n \in Nat : Fitted!Trimmed[n] = IF n = 0 THEN a ELSE Fitted!Trim(Fitted!Trimmed[n - 1])
  <2> DEFINE h == Fitted!Trimmed
  <2>1. h = [n \in Nat |-> IF n = 0 THEN a ELSE Fitted!Trim(h[n - 1])]
    BY <1>6 DEF Is
  <2> HIDE DEF h, a
  <2>2. \A n \in Nat : h[n] = IF n = 0 THEN a ELSE Fitted!Trim(h[n - 1])
    BY <2>1
  <2>3. QED
    BY <2>2 DEF h
<1>8. \A n \in Nat : Fitted!Trimmed[n + 1] = Fitted!Trim(Fitted!Trimmed[n])
  <2>1. TAKE n \in Nat
  <2>2. n + 1 \in Nat /\ n + 1 # 0 /\ (n + 1) - 1 = n
    OBVIOUS
  <2>3. QED
    BY <1>7, <2>2
<1> DEFINE T == {n \in Nat : Fitted!Trimmed[n] \in S}
<1>9. 0 \in T
  BY <1>7 DEF S
<1>10. \A n \in Nat : n \in T => n + 1 \in T
  BY <1>1, <1>8
<1> HIDE DEF T
<1>11. Nat \subseteq T
  BY <1>9, <1>10, AllNumbers
<1>12. QED
  BY <1>7, <1>8, <1>11 DEF T, S

\* After n turns n is cut off the row, or no column is left to cut.
LEMMA TrimmedCuts ==
    ASSUME NEW D \in SUBSET (1 .. 5), D # {}, NEW M \in [D -> 0 .. 32],
           Fitted!After(Fitted!Dropped) = M, NEW n \in Nat
    PROVE  \E k \in 0 .. n : /\ CutBy(D, M, Fitted!Trimmed[n], k)
                             /\ k = n \/ \A c \in D : Fitted!Trimmed[n][c] <= 6
<1> DEFINE Right(i) == \E k \in 0 .. i : /\ CutBy(D, M, Fitted!Trimmed[i], k)
                                         /\ k = i \/ \A c \in D : Fitted!Trimmed[i][c] <= 6
           T == {i \in Nat : Right(i)}
<1>0. /\ Fitted!Trimmed[0] = M
      /\ \A i \in Nat : Fitted!Trimmed[i + 1] = Fitted!Trim(Fitted!Trimmed[i])
  BY TrimmedIs
<1>1. 0 \in T
  <2>1. \A c \in D : M[c] \in Int
    OBVIOUS
  <2>2. Fitted!totalWidth(M) \in Int
    BY <2>1 DEF Fitted!totalWidth, Fitted!columnGap
  <2>3. CutBy(D, M, M, 0)
    BY <2>1, <2>2 DEF CutBy
  <2>4. 0 \in 0 .. 0
    OBVIOUS
  <2>5. QED
    BY <1>0, <2>3, <2>4
<1>2. ASSUME NEW i \in Nat, i \in T PROVE i + 1 \in T
  <2> DEFINE w == Fitted!Trimmed[i]
  <2>1. PICK k \in 0 .. i : CutBy(D, M, w, k) /\ (k = i \/ \A c \in D : w[c] <= 6)
    BY <1>2
  <2>2. Fitted!Trimmed[i + 1] = Fitted!Trim(w)
    BY <1>0
  <2>3. k \in Nat /\ k \in 0 .. i + 1
    OBVIOUS
  <2> HIDE DEF w
  <2>4. \/ CutBy(D, M, Fitted!Trim(w), k + 1)
        \/ Fitted!Trim(w) = w /\ \A c \in D : w[c] <= 6
    BY <2>1, <2>3, TrimIsOne
  <2>5. CASE Fitted!Trim(w) = w /\ \A c \in D : w[c] <= 6
    BY <2>1, <2>2, <2>3, <2>5
  <2>6. CASE CutBy(D, M, Fitted!Trim(w), k + 1) /\ k = i
    <3>1. i + 1 \in 0 .. i + 1
      OBVIOUS
    <3>2. QED
      BY <2>2, <2>6, <3>1
  <2>7. CASE CutBy(D, M, Fitted!Trim(w), k + 1) /\ \A c \in D : w[c] <= 6
    <3>1. w \in [D -> 0 .. 32]
      BY <2>1 DEF CutBy
    <3>2. Fitted!Trim(w) = w
      <4>1. Fitted!Widest(w) \in D
        BY <3>1, WidestIs
      <4>2. QED
        BY <2>7, <4>1 DEF Fitted!Trim, Fitted!minColumnWidth
    <3>3. QED
      BY <2>1, <2>2, <2>3, <2>7, <3>2
  <2>8. QED
    BY <2>1, <2>4, <2>5, <2>6, <2>7
<1> HIDE DEF T
<1>3. Nat \subseteq T
  BY <1>1, <1>2, AllNumbers
<1>4. QED
  BY <1>3 DEF T

\* What is laid out: the columns left, cut until the row fits or none can be cut.
LEMMA LayoutIs ==
    ASSUME ColumnsTyped
    PROVE  LET n == Fitted!Dropped
               M == Fitted!After(n)
               w == Fitted!tableLayout
               over == Fitted!totalWidth(M) - Fitted!budget
           IN  /\ Rest(n) \in SUBSET (1 .. 5) /\ 1 \in Rest(n) /\ 3 \in Rest(n)
               /\ M \in [Rest(n) -> 4 .. 32]
               /\ M = [c \in Rest(n) |-> Fitted!Measured[c]]
               /\ Fitted!totalWidth(M) \in Int /\ Fitted!budget \in Nat
               /\ over <= 0 => w = M
               /\ \E k \in Nat : /\ CutBy(Rest(n), M, w, k)
                                 /\ over > 0 => k <= over
                                 /\ k = over \/ over <= 0 \/ \A c \in Rest(n) : w[c] <= 6
<1> DEFINE n == Fitted!Dropped
           D == Rest(n)
           M == Fitted!After(n)
           w == Fitted!tableLayout
           over == Fitted!totalWidth(M) - Fitted!budget
           turns == Fitted!Max(over, 0)
<1>1. n \in 0 .. 3
  BY DroppedIs
<1>2. D \in SUBSET (1 .. 5) /\ 1 \in D /\ 3 \in D
  BY DEF Rest
<1>3. M = [c \in D |-> Fitted!Measured[c]]
  BY <1>1, AfterIs
<1> HIDE DEF n, D, M
<1>4. M \in [D -> 4 .. 32] /\ M \in [D -> 0 .. 32]
  <2>1. \A c \in D : Fitted!Measured[c] \in 4 .. 32 /\ Fitted!Measured[c] \in 0 .. 32
    BY <1>2, MeasuresAre
  <2>2. QED
    BY <1>3, <2>1
<1>5. Fitted!totalWidth(M) \in Int /\ Fitted!budget \in Nat
  <2>1. \A c \in D : M[c] \in Int
    BY <1>4
  <2>2. QED
    BY <1>4, <2>1, MeasuresAre DEF Fitted!totalWidth, Fitted!columnGap
<1>6. w = Fitted!Trimmed[turns]
  BY DEF Fitted!tableLayout, n, M
<1>7. turns \in Nat /\ (over > 0 => turns = over) /\ (over <= 0 => turns = 0)
  BY <1>5 DEF Fitted!Max
<1>8. Fitted!Trimmed[0] = M
  BY <1>2, <1>4, TrimmedIs DEF M, n
<1> HIDE DEF w, turns
<1>9. PICK k \in 0 .. turns : /\ CutBy(D, M, w, k)
                              /\ k = turns \/ \A c \in D : w[c] <= 6
  BY <1>2, <1>4, <1>6, <1>7, TrimmedCuts DEF M, n
<1>10. over <= 0 => w = M
  BY <1>6, <1>7, <1>8
<1>11. k \in Nat /\ (over > 0 => k <= over) /\ (k = over \/ over <= 0 \/ \A c \in D : w[c] <= 6)
  BY <1>5, <1>7, <1>9
<1>12. QED
  BY <1>2, <1>3, <1>4, <1>5, <1>9, <1>10, <1>11 DEF n, D, M, w

LEMMA LayoutFits ==
    ASSUME ColumnsTyped
    PROVE  Fitted!RowFits /\ Fitted!CutEvenly
<1> DEFINE n == Fitted!Dropped
           D == Rest(n)
           M == Fitted!After(n)
           w == Fitted!tableLayout
           over == Fitted!totalWidth(M) - Fitted!budget
<1>1. /\ D \in SUBSET (1 .. 5) /\ 1 \in D /\ 3 \in D /\ M \in [D -> 4 .. 32]
      /\ M = [c \in D |-> Fitted!Measured[c]]
      /\ Fitted!totalWidth(M) \in Int /\ Fitted!budget \in Nat /\ (over <= 0 => w = M)
  BY LayoutIs
<1>2. PICK k \in Nat : /\ CutBy(D, M, w, k)
                       /\ over > 0 => k <= over
                       /\ k = over \/ over <= 0 \/ \A c \in D : w[c] <= 6
  BY LayoutIs
<1>3. n = 3 \/ over <= 0
  <2>1. n = 3 \/ Fitted!Fits(M)
    BY DroppedIs
  <2>2. Fitted!Fits(M) => over <= 0
    BY <1>1 DEF Fitted!Fits
  <2>3. QED
    BY <2>1, <2>2
<1>4. n = 3 => D = {1, 3}
  BY DEF Rest
<1> HIDE DEF n, D, M, w
<1>5. /\ w \in [D -> 0 .. 32] /\ \A c \in D : w[c] <= M[c]
      /\ \A c, d \in D : w[c] < M[c] => w[d] <= w[c] + 1
      /\ Fitted!totalWidth(w) = Fitted!totalWidth(M) - k
  BY <1>2 DEF CutBy
<1>6. Fitted!RowFits
  <2>1. /\ Fitted!rowIndent = 2 /\ Fitted!contentWidth = Fitted!budget + 2
        /\ width = 0 \/ width >= Fitted!Narrowest => Fitted!budget >= 14
    BY MeasuresAre DEF Fitted!rowIndent
  <2>2. Fitted!totalWidth(w) \in Int
    BY <1>1, <1>5
  <2>3. width = 0 \/ width >= Fitted!Narrowest => Fitted!totalWidth(w) <= Fitted!budget
    <3>1. CASE over <= 0
      BY <1>1, <1>5, <3>1
    <3>2. CASE over > 0 /\ k = over
      BY <1>1, <1>5, <3>2
    <3>3. CASE over > 0 /\ \A c \in D : w[c] <= 6
      <4>1. D = {1, 3} /\ w[1] <= 6 /\ w[3] <= 6 /\ w[1] \in Int /\ w[3] \in Int
        BY <1>1, <1>3, <1>4, <1>5, <3>3
      <4>2. Fitted!totalWidth(w) = 2 + w[1] + 0 + (2 + w[3]) + 0 + 0 - 2
        BY <1>5, <4>1 DEF Fitted!totalWidth, Fitted!columnGap
      <4>3. Fitted!totalWidth(w) \in Int /\ Fitted!totalWidth(w) <= 14
        BY <4>1, <4>2
      <4>4. QED
        BY <1>1, <2>1, <4>3
    <3>4. over > 0 \/ over <= 0
      BY <1>1
    <3>5. QED
      BY <1>2, <3>1, <3>2, <3>3, <3>4
  <2>4. QED
    BY <1>1, <2>1, <2>2, <2>3 DEF Fitted!RowFits, w
<1>7. Fitted!CutEvenly
  <2> DEFINE cut == {c \in DOMAIN w : w[c] < Fitted!Measured[c]}
  <2>1. DOMAIN w = D /\ \A c \in D : M[c] = Fitted!Measured[c]
    BY <1>1, <1>5
  <2>2. \A c \in cut, d \in D : w[d] <= w[c] + 1
    BY <1>5, <2>1
  <2>3. cut # {} => Fitted!totalWidth(w) >= Fitted!budget
    <3>1. ASSUME over <= 0 PROVE cut = {}
      <4>1. \A c \in D : ~(M[c] < M[c])
        BY <1>1
      <4>2. QED
        BY <1>1, <2>1, <3>1, <4>1
    <3>2. over > 0 => Fitted!totalWidth(w) >= Fitted!budget
      BY <1>1, <1>2, <1>5
    <3>3. over > 0 \/ over <= 0
      BY <1>1
    <3>4. QED
      BY <3>1, <3>2, <3>3
  <2>4. QED
    BY <2>1, <2>2, <2>3 DEF Fitted!CutEvenly, w
<1>8. QED
  BY <1>6, <1>7

LEMMA GivenUpIs == ASSUME ColumnsTyped PROVE Fitted!GivenUpInOrder
<1> DEFINE n == Fitted!Dropped
           D == Rest(n)
           layout == DOMAIN Fitted!tableLayout
           left == {Fitted!Columns[c] : c \in layout}
           drop == Fitted!dropOrder
<1>1. layout = D /\ 1 \in D /\ 3 \in D
  BY LayoutIs DEF CutBy
<1>2. n \in 0 .. 3 /\ \A m \in 0 .. n - 1 : ~Fitted!Fits(Fitted!After(m))
  BY DroppedIs
<1>3. /\ Fitted!Columns[1] = "name" /\ Fitted!Columns[2] = "user" /\ Fitted!Columns[3] = "host"
      /\ Fitted!Columns[4] = "port" /\ Fitted!Columns[5] = "tags"
      /\ DOMAIN Fitted!Columns = 1 .. 5
  BY DEF Fitted!Columns
<1>4. drop[1] = "tags" /\ drop[2] = "port" /\ drop[3] = "user" /\ DOMAIN drop = 1 .. 3
      /\ Len(drop) = 3
  BY DEF Fitted!dropOrder
<1>5. \A c \in 1 .. 5 : c = 1 \/ c = 2 \/ c = 3 \/ c = 4 \/ c = 5
  OBVIOUS
<1>6. D \subseteq 1 .. 5 /\ (5 \in D <=> n < 1) /\ (4 \in D <=> n < 2) /\ (2 \in D <=> n < 3)
  BY DEF Rest
<1> HIDE DEF n, drop
<1>7. {"name", "host"} \subseteq left
  BY <1>1, <1>3
<1>8. \A i \in DOMAIN drop : drop[i] \in left <=> i > n
  <2>1. "tags" \in left <=> 5 \in D
    BY <1>1, <1>3, <1>5, <1>6
  <2>2. "port" \in left <=> 4 \in D
    BY <1>1, <1>3, <1>5, <1>6
  <2>3. "user" \in left <=> 2 \in D
    BY <1>1, <1>3, <1>5, <1>6
  <2> HIDE DEF left, D, layout
  <2>4. \A i \in 1 .. 3 : i = 1 \/ i = 2 \/ i = 3
    OBVIOUS
  <2>5. QED
    BY <1>2, <1>4, <1>6, <2>1, <2>2, <2>3, <2>4
<1>9. n > 0 => ~Fitted!Fits([c \in layout \union {d \in DOMAIN Fitted!Columns :
                                                      Fitted!Columns[d] = drop[n]}
                                |-> Fitted!Measured[c]])
  <2>1. SUFFICES ASSUME n > 0
                 PROVE  ~Fitted!Fits([c \in layout \union {d \in DOMAIN Fitted!Columns :
                                                              Fitted!Columns[d] = drop[n]}
                                         |-> Fitted!Measured[c]])
    OBVIOUS
  <2>2. n - 1 \in 0 .. 3 /\ n - 1 \in 0 .. n - 1 /\ (n = 1 \/ n = 2 \/ n = 3)
    BY <1>2, <2>1
  <2>3. {d \in DOMAIN Fitted!Columns : Fitted!Columns[d] = drop[n]} =
           IF n = 1 THEN {5} ELSE IF n = 2 THEN {4} ELSE {2}
    <3>1. CASE n = 1
      BY <1>3, <1>4, <1>5, <3>1
    <3>2. CASE n = 2
      BY <1>3, <1>4, <1>5, <3>2
    <3>3. CASE n = 3
      BY <1>3, <1>4, <1>5, <3>3
    <3>4. QED
      BY <2>2, <3>1, <3>2, <3>3
  <2>4. D \union (IF n = 1 THEN {5} ELSE IF n = 2 THEN {4} ELSE {2}) = Rest(n - 1)
    BY <2>2 DEF Rest
  <2>5. Fitted!After(n - 1) = [c \in Rest(n - 1) |-> Fitted!Measured[c]]
    BY <2>2, AfterIs
  <2> HIDE DEF D, layout
  <2>6. QED
    BY <1>1, <1>2, <2>2, <2>3, <2>4, <2>5
<1>10. QED
  BY <1>2, <1>4, <1>7, <1>8, <1>9 DEF Fitted!GivenUpInOrder, drop

LEMMA FieldIsDrawn ==
    ASSUME form \in 0 .. 5, frameHeight \in Nat
    PROVE  Fitted!FocusIsDrawn
  BY DEF Fitted!FocusIsDrawn, Fitted!Drawn, Fitted!Start, Fitted!formRows, Fitted!listHeight,
         Fitted!listChrome, Fitted!Above, Fitted!Fields, Fitted!Min, Fitted!Max

\* The frame fits, whatever is measured: as long as the types are right, in every state.
LEMMA FrameAlwaysFits ==
    ASSUME Fitted!FrameAssumption, Fitted!FrameTypeOK
    PROVE  Fitted!FrameFits
<1>1. ColumnsTyped
  <2>1. DOMAIN Fitted!Columns = 1 .. 5
    BY DEF Fitted!Columns
  <2>2. QED
    BY <2>1 DEF Fitted!FrameAssumption, Fitted!FrameTypeOK, ColumnsTyped
<1>2. form \in 0 .. 5 /\ frameHeight \in Nat
  BY DEF Fitted!FrameAssumption, Fitted!FrameTypeOK, Fitted!Fields
<1>3. QED
  BY <1>1, <1>2, LayoutFits, GivenUpIs, FieldIsDrawn DEF Fitted!FrameFits

LEMMA FrameBegins == ASSUME Fitted!Init PROVE Fitted!FrameTypeOK
  BY DEF Fitted!Init, Fitted!FrameTypeOK, Fitted!Fields

LEMMA FrameStays ==
    ASSUME Fitted!FrameAssumption, Fitted!FrameTypeOK, [Fitted!Next]_frameVars
    PROVE  Fitted!FrameTypeOK'
<1>1. CASE Fitted!FocusOn
  <2>1. PICK step \in {1, 4} : form' = ((form - 1 + step) % 5) + 1
    BY <1>1 DEF Fitted!FocusOn, Fitted!Fields
  <2>2. form - 1 + step \in Int
    BY DEF Fitted!FrameTypeOK, Fitted!Fields
  <2>3. form' \in 0 .. 5
    BY <2>1, <2>2
  <2>4. QED
    BY <1>1, <2>3 DEF Fitted!FocusOn, Fitted!FrameTypeOK, Fitted!Fields
<1>2. CASE Fitted!Resize \/ Fitted!Relist \/ Fitted!OpenForm \/ Fitted!CloseForm
  BY <1>2 DEF Fitted!Resize, Fitted!Relist, Fitted!OpenForm, Fitted!CloseForm,
              Fitted!FrameTypeOK, Fitted!Fields
<1>3. CASE UNCHANGED frameVars
  BY <1>3 DEF frameVars, Fitted!FrameTypeOK
<1>4. QED
  BY <1>1, <1>2, <1>3 DEF Fitted!Next

-----------------------------------------------------------------------------
(* Together.                                                               *)

\* Whichever takes a step, the others rest.
LEMMA AllSteps ==
    ASSUME [AllNext]_allVars
    PROVE  /\ [Loop!Next]_loopVars /\ [Next]_tableVars /\ [Columns!Next]_paneVars
           /\ [Screen!Next]_screenVars /\ [Fitted!Next]_frameVars
  BY DEF AllNext, allVars, WalkPanes

LEMMA AllBegin ==
    ASSUME AllInit
    PROVE  /\ LoopInv /\ Loop!Init /\ TableInv /\ PanesInv /\ ClearInv /\ Fitted!FrameTypeOK
  BY BrowserAssumption, LoopBegins, TableInit, PanesBegin, TerminalBegins, FrameBegins
  DEF AllInit

\* The screen is the browser's, whole: nothing writes to the terminal beside a frame or a
\* session, nor reads from it, what is written once the browser is gone is read, and the
\* frame fits, with the field that is typed on, whatever is listed on whatever terminal
\* (browser.go:142-148, 967-1035, zlog.go:68-84, hostform.go:163-166).
THEOREM ScreenStays == AllSpec => []ScreenIsWhole
<1>1. AllInit => ClearInv /\ Fitted!FrameTypeOK
  BY AllBegin
<1>2. ClearInv /\ Fitted!FrameTypeOK /\ [AllNext]_allVars => (ClearInv /\ Fitted!FrameTypeOK)'
  BY BrowserAssumption, AllSteps, TerminalStays, FrameStays
<1>3. ClearInv /\ Fitted!FrameTypeOK => ScreenIsWhole
  BY BrowserAssumption, TerminalAnswers, FrameAlwaysFits DEF ScreenIsWhole
<1>4. QED
  BY <1>1, <1>2, <1>3, PTL DEF AllSpec

\* In every reachable state the cursor is on a row while there is one, and each key,
\* filter and new list leaves it drawn and no line empty with a host hidden above, for
\* lists of any length on terminals of any height (browser.go:905-919, 1118-1121).
THEOREM WindowFollows == AllSpec => WindowFollowsCursor
<1>1. AllInit => TableInv
  BY AllBegin
<1>2. TableInv /\ [AllNext]_allVars => TableInv'
  BY BrowserAssumption, AllSteps, TableStep
<1>3. TableInv => CursorOnARow /\ FrameFits
  BY BrowserAssumption, TableFits DEF TableInv
<1>4. TableInv /\ [AllNext]_allVars =>
          [<<cursor, offset, count>>' # <<cursor, offset, count>> /\ count' > 0
             => Drawn(cursor)' /\ (offset > 0 => offset + Rows(count, height) <= count)'
          ]_tableVars
  BY BrowserAssumption, AllSteps, TableStep
<1>5. QED
  BY <1>1, <1>2, <1>3, <1>4, PTL DEF AllSpec, WindowFollowsCursor

\* The remote pane shows the files of the directory it names, stepping up with no filter on
\* lands on the folder left, and each step but a resize keeps a cursor it moved, or whose rows
\* it changed, on a row that is drawn, for any trees, filters and terminals, and
\* however many listings are out (filebrowser.go:136-138, 344-351, 528-546).
THEOREM PanesKeep == AllSpec => PanesKeepTheirPlace
<1>1. AllInit => PanesInv
  BY AllBegin
<1>2. PanesInv /\ [AllNext]_allVars => PanesInv'
  BY BrowserAssumption, AllSteps, PanesStay
<1>3. PanesInv => Columns!RemoteShowsItsListing
  BY DEF PanesInv, PaneInv, Columns!RemoteShowsItsListing, Columns!Sides
<1>4. PanesInv => Columns!CursorCountsRows
  BY DEF PanesInv, PaneInv, Counts, Columns!CursorCountsRows, Columns!visible, Columns!rows
<1>5. PanesInv /\ [AllNext]_allVars =>
         [\A side \in Columns!Sides :
             LET left == Columns!Base(panes[side].cwd)
                 p == panes[side]'
             IN  /\ p.cwd # panes[side].cwd /\ p.cwd = Columns!Parent(panes[side].cwd)
                 /\ p.reveal = Columns!NoName /\ left \in Columns!Range(p.entries)
                 /\ Columns!visible(side)' = DOMAIN p.entries
                 => p.entries[p.cursor + 1] = left]_(Columns!paneVars)
  BY BrowserAssumption, AllSteps, PanesStay DEF LandsOn, paneVars, Columns!paneVars
<1>6. PanesInv /\ [AllNext]_allVars =>
         [\A side \in Columns!Sides :
             Columns!placed(side)' # Columns!placed(side) => Columns!Framed(side)']_(Columns!paneVars)
  BY BrowserAssumption, AllSteps, PanesStay DEF Follows, paneVars, Columns!paneVars
<1>7. QED
  BY <1>1, <1>2, <1>3, <1>4, <1>5, <1>6, PTL
  DEF AllSpec, PanesKeepTheirPlace, Columns!StepsBackOntoIt, Columns!PanesFollowCursor

\* Calls that do not overlap are adds and removals of one host each, though a write, or
\* the reading after it, may fail, whatever is pressed meanwhile (connect.go:106-139).
THEOREM ListIsKept == MaxActive = 1 => (AllSpec => ImplementsHostList)
<1> SUFFICES ASSUME MaxActive = 1 PROVE AllSpec => ImplementsHostList
  OBVIOUS
<1>1. AllInit => OneInv /\ Stored!Listed(file) \subseteq Aliases
  BY AllBegin, OneBegins DEF Listing
<1>2. OneInv /\ [AllNext]_allVars => OneInv'
  BY BrowserAssumption, AllSteps, OneStays
<1>3. OneInv /\ [AllNext]_allVars =>
         [\E a \in Aliases : Stored!HostList!Add(a) \/ Stored!HostList!Remove(a)
         ]_(Stored!Listed(file))
  BY BrowserAssumption, AllSteps, OneStays DEF ListStep, Listing
<1>4. QED
  BY <1>1, <1>2, <1>3, PTL DEF AllSpec, Stored!HostList!Spec, Stored!ImplementsHostList,
     ImplementsHostList

\* Every variable keeps its type, however many calls are at work on the file.
THEOREM TypesAreKept == AllSpec => []BrowserTypeOK
<1>1. AllInit => LoopInv /\ TableInv /\ PanesInv /\ ClearInv /\ Fitted!FrameTypeOK
  BY AllBegin
<1>2. LoopInv /\ TableInv /\ PanesInv /\ ClearInv /\ Fitted!FrameTypeOK /\ [AllNext]_allVars =>
         (LoopInv /\ TableInv /\ PanesInv /\ ClearInv /\ Fitted!FrameTypeOK)'
  BY BrowserAssumption, AllSteps, LoopStays, TableStep, PanesStay, TerminalStays, FrameStays
<1>3. LoopInv /\ TableInv /\ PanesInv /\ ClearInv /\ Fitted!FrameTypeOK => BrowserTypeOK
  BY DEF LoopInv, TableInv, PanesInv, ClearInv, BrowserTypeOK
<1>4. QED
  BY <1>1, <1>2, <1>3, PTL DEF AllSpec

=============================================================================
