------------------------------ MODULE Browser -------------------------------
(***************************************************************************)
(* The host browser's event loop (internal/ui/browser.go): its five modes, *)
(* the delete question, the add form, and the commands that write the      *)
(* hosts file (module HostsFile) on goroutines of their own and answer in  *)
(* any order.  Of the file view (module FileView) only whether it is open  *)
(* is kept, of the list (module HostTable) which hosts it holds, and of    *)
(* the status line whose sentence it is.                                   *)
(***************************************************************************)
EXTENDS Naturals

CONSTANTS
    Aliases,  \* names a host can be given
    NoAlias,  \* the empty host
    Jobs,     \* bound: the calls of AddHost and RemoveHost the user asks for
    MaxActive \* bound: how many of them are between their first and last step

VARIABLES
    file, jobs, \* the hosts file and the commands on it: see HostsFile
    mode,       \* browserModel.mode
    helpFor,    \* the mode the help goes back to
    pending,    \* the host the delete question is about
    hosts,      \* browserModel.hosts: how many of them have each alias
    viewOpen,   \* browserModel.files.opened
    status,     \* browserModel.status: the call whose answer it holds, or "none"
    session,    \* the shell launched from the list, until its end is heard of
    quit        \* browserModel.quit

screen == <<mode, helpFor, pending, hosts, viewOpen, status>>
program == <<session, quit>>
vars == <<file, jobs, screen, program>>

Files == INSTANCE HostsFile

Modes == {"list", "files", "form", "confirm", "help"}

BrowserTypeOK ==
    /\ mode \in Modes /\ helpFor \in {"list", "files"}
    /\ pending \in Aliases \union {NoAlias}
    /\ hosts \in Files!Counts
    /\ viewOpen \in BOOLEAN
    /\ status \in Jobs \union {"none"}
    /\ session \in {"none", "running", "ended"}
    /\ quit \in BOOLEAN

Init ==
    /\ Files!Init
    /\ mode = "list" /\ helpFor = "list"
    /\ pending = NoAlias
    /\ hosts = file
    /\ viewOpen = FALSE
    /\ status = "none" /\ session = "none" /\ quit = FALSE

\* The event loop takes keys and messages: it has not ended, and is not inside
\* p.exec, where it stays as long as a session has the terminal.
Listens == ~quit /\ session # "running" /\ UNCHANGED program

Goes(from, to) == Listens /\ mode = from /\ mode' = to

\* A sentence of nobody's call, or none, takes the status line.
Cleared == status' = "none"

-----------------------------------------------------------------------------
(* Keys.                                                                   *)

\* A; enter, which leaves the form up until the answer comes; esc.
OpenForm ==
    /\ Goes("list", "form") /\ Cleared
    /\ UNCHANGED <<file, jobs, helpFor, pending, hosts, viewOpen>>

SubmitForm(j, a) ==
    /\ Goes("form", "form") /\ Cleared
    /\ Files!Begin(j, "add", a)
    /\ UNCHANGED <<helpFor, pending, hosts, viewOpen>>

CancelForm ==
    /\ Goes("form", "list") /\ Cleared
    /\ UNCHANGED <<file, jobs, helpFor, pending, hosts, viewOpen>>

\* Enter on fields that Validate refuses; X on a host of the user's own config.
Refuse ==
    /\ Goes("form", "form") \/ Goes("list", "list")
    /\ Cleared
    /\ UNCHANGED <<file, jobs, helpFor, pending, hosts, viewOpen>>

\* X on the row of a; y; any other key.
AskRemove(a) ==
    /\ Goes("list", "confirm") /\ Cleared
    /\ a \in Files!Listed(hosts)
    /\ pending' = a
    /\ UNCHANGED <<file, jobs, helpFor, hosts, viewOpen>>

RemoveHost(j) ==
    /\ Goes("confirm", "list") /\ Cleared
    /\ Files!Begin(j, "remove", pending)
    /\ pending' = NoAlias
    /\ UNCHANGED <<helpFor, hosts, viewOpen>>

CancelRemove ==
    /\ Goes("confirm", "list") /\ Cleared
    /\ pending' = NoAlias
    /\ UNCHANGED <<file, jobs, helpFor, hosts, viewOpen>>

\* ? in the list or the file view, and ? or esc in the help.
OpenHelp ==
    /\ Goes("list", "help") \/ Goes("files", "help")
    /\ helpFor' = mode
    /\ UNCHANGED <<file, jobs, pending, hosts, viewOpen, status>>

CloseHelp ==
    /\ Goes("help", helpFor)
    /\ UNCHANGED <<file, jobs, helpFor, pending, hosts, viewOpen, status>>

\* U or D on a row, and esc in the file view, whose own status goes to the list.
OpenFiles ==
    /\ Goes("list", "files") /\ Cleared
    /\ Files!Listed(hosts) # {}
    /\ viewOpen' = TRUE
    /\ UNCHANGED <<file, jobs, helpFor, pending, hosts>>

CloseFiles ==
    /\ Goes("files", "list") /\ Cleared
    /\ viewOpen' = FALSE
    /\ UNCHANGED <<file, jobs, helpFor, pending, hosts>>

\* Enter on a row: execMsg comes at once, and the loop is in p.exec.  Bound: the end
\* of the last shell has been heard of.
Connect ==
    /\ ~quit /\ session = "none" /\ session' = "running"
    /\ mode = "list" /\ Files!Listed(hosts) # {}
    /\ UNCHANGED <<file, jobs, screen, quit>>

\* ctrl+c in every mode; q and esc in the list.
Quit ==
    /\ ~quit /\ session # "running"
    /\ quit' = TRUE
    /\ UNCHANGED <<file, jobs, screen, session>>

-----------------------------------------------------------------------------
(* Messages.                                                               *)

\* The shell ends, which sets the loop free, and sessionFinishedMsg, which takes its
\* turn with the others.
EndSession ==
    /\ session = "running" /\ session' = "ended"
    /\ UNCHANGED <<file, jobs, screen, quit>>

SessionFinished ==
    /\ ~quit /\ session = "ended" /\ session' = "none" /\ Cleared
    /\ UNCHANGED <<file, jobs, mode, helpFor, pending, hosts, viewOpen, quit>>

Answered(j, kind) ==
    /\ Listens
    /\ jobs[j].kind = kind /\ Files!Tell(j)
    /\ status' = j

\* Fault: an answer is only heard while the form that asked is up.
HostAddedInForm(j) ==
    /\ mode = "form"
    /\ Answered(j, "add")
    /\ IF jobs[j].stage = "failed"
          THEN UNCHANGED <<hosts, mode>>
          ELSE hosts' = jobs[j].hosts /\ mode' = "list"
    /\ UNCHANGED <<helpFor, pending, viewOpen>>

\* hostAddedMsg: a failure leaves the form up; otherwise the list is shown,
\* whatever the user is looking at by now.
HostAdded(j) ==
    /\ Answered(j, "add")
    /\ IF jobs[j].stage = "failed"
          THEN UNCHANGED <<hosts, mode>>
          ELSE hosts' = jobs[j].hosts /\ mode' = "list"
    /\ UNCHANGED <<helpFor, pending, viewOpen>>

\* hostRemovedMsg: a failure leaves the list as it was.
HostRemoved(j) ==
    /\ Answered(j, "remove")
    /\ hosts' = IF jobs[j].stage = "failed" THEN hosts ELSE jobs[j].hosts
    /\ UNCHANGED <<mode, helpFor, pending, viewOpen>>

JobRuns(j) == Files!JobStep(j) /\ UNCHANGED <<screen, program>>

Next ==
    \/ OpenForm \/ CancelForm \/ CancelRemove \/ Refuse
    \/ OpenHelp \/ CloseHelp \/ OpenFiles \/ CloseFiles
    \/ Connect \/ EndSession \/ SessionFinished \/ Quit
    \/ \E a \in Aliases : AskRemove(a)
    \/ \E j \in Jobs :
          \/ \E a \in Aliases : SubmitForm(j, a)
          \/ RemoveHost(j) \/ JobRuns(j) \/ HostAdded(j) \/ HostRemoved(j)

\* Commands run while the program does.  A message is handed over in its turn, the
\* first to wait being the first to be taken, so it is not passed over for ever by
\* a loop that listens again and again.  The user need press no key, nor end a shell.
Fairness ==
    \A j \in Jobs :
        /\ WF_vars(~quit /\ JobRuns(j))
        /\ SF_vars(HostAdded(j) \/ HostRemoved(j))

Spec == Init /\ [][Next]_vars
FairSpec == Spec /\ Fairness

-----------------------------------------------------------------------------
\* Every add and delete the user asks for is answered wherever the user has gone
\* meanwhile (browser.go:281-285): its sentence gets to the status line, which the
\* list and the form draw, unless the user quits or stays in a shell.
CallsAreAnswered ==
    []<>(session # "running") =>
        \A j \in Jobs : jobs[j].stage \notin {"idle", "told"} ~> status = j \/ quit

\* No other list is shown than one that a call read once its write was done; what
\* failed has none (browser.go:337-341, 357-364).
ListIsAnAnswer ==
    [][hosts' # hosts =>
          \E j \in Jobs : /\ jobs[j].written /\ hosts' = jobs[j].hosts
                         /\ jobs[j].stage = "done" /\ jobs'[j].stage = "told"]_vars

AnswersArrive == CallsAreAnswered /\ ListIsAnAnswer

(* Claims of the code that do not hold.                                    *)

\* browser.go:597-598 says closing the view is the only way out of it.  An add
\* that comes back late shows the list over an open view; opening another then
\* drops the first one's session and transfer without closing them.
OpenViewIsShown ==
    viewOpen => mode = "files" \/ (mode = "help" /\ helpFor = "files")

\* browser.go:208-210 says a question can never outlive the row it was asked
\* about.  The answer to an earlier delete of that row takes it away.
QuestionHasRow == mode = "confirm" => pending \in Files!Listed(hosts)

\* browser.go:357-359 says the reason of a delete that failed is in the status line.
\* The file view and the question stand in its place, and closing them writes over
\* what came meanwhile, which was never drawn.
AnswersAreDrawn ==
    [][status' # status /\ status # "none" => mode \notin {"files", "confirm"}]_vars

\* browser.go:366 says the list is rebuilt from what the file holds now.  Of two
\* answers delivered the other way round, the last leaves what it held before.
Quiet == \A j \in Jobs : jobs[j].stage \in {"idle", "told"}
ListIsRebuilt == [][hosts' # hosts /\ Quiet' => hosts' = file]_vars

=============================================================================
