------------------------------ MODULE FileView ------------------------------
(***************************************************************************)
(* The file view of the browser (internal/ui/filebrowser.go, and the parts *)
(* of browser.go that open, close and feed it): one event loop that owns   *)
(* filesModel, and the goroutines that dial, list and transfer for it and  *)
(* report back by messages in any order.  Views, and the sessions they     *)
(* dial, are numbered in the order the user opens them; the code has no    *)
(* such number, and no message carries one.                                *)
(*                                                                         *)
(* Left out: the local pane, cursors, the filter line and what is drawn.   *)
(***************************************************************************)
EXTENDS Naturals, FiniteSets

CONSTANTS
    Dirs,         \* remote directories, the same names on every host
    Home,         \* the one a login lands in
    NoDir,        \* the empty string: no directory
    MaxViews,     \* bound: how often the user opens the view
    MaxTransfers, \* bound: how many transfers are started
    MaxListings,  \* bound: no key asks for a listing while so many are out
    Buffer        \* capacity of a transfer's events channel (progressBuffer)

ASSUME FileViewAssumption ==
    /\ Home \in Dirs /\ NoDir \notin Dirs
    /\ MaxViews \in Nat /\ MaxTransfers \in Nat /\ MaxListings \in Nat
    /\ Buffer \in Nat \ {0}

VARIABLES
    mode,      \* what the browser shows: "list" or "files"
    files,     \* browserModel.files
    view,      \* how many views were opened, and so the number of the last
    opens,     \* per view: its openCmd and the session that came of it
    lists,     \* listings between the key and their reply's delivery
    xfers,     \* per transfer: its goroutine, channels, readers and messages
    drawn,     \* the transfer whose report was drawn last
    asked,     \* the last directory the pane asked for, and whether
    answered,  \* the pane took a listing for it since
    over       \* "no", "quit" (ctrl+c) or "crashed" (a nil dereference)

vars == <<mode, files, view, opens, lists, xfers, drawn, asked, answered, over>>
pane == <<asked, answered>>

Views == 1 .. MaxViews
Transfers == 1 .. MaxTransfers
Paths == Dirs \union {NoDir}

OpenState == [state : {"none", "dialing", "opened", "refused", "held", "closed", "failed"},
              cancelled : BOOLEAN]
Listing == [from : Views, path : Paths, stage : {"spawned", "reading", "ok", "error"}]
Transfer == [state : {"none", "spawned", "running", "done", "collected"},
             from : 0 .. MaxViews, generation : Nat, cancelled : BOOLEAN,
             buffered : 0 .. Buffer, readers : Nat, reports : Nat, outcomes : Nat]
FilesModel == [opened : BOOLEAN, session : 0 .. MaxViews, cwd : Paths, pending : Paths,
               generation : Nat, running : 0 .. MaxTransfers, cancel : BOOLEAN]

\* filesModel{}: no session, no transfer, and the count of transfers back at 0.
NoFiles == [opened |-> FALSE, session |-> 0, cwd |-> NoDir, pending |-> NoDir,
            generation |-> 0, running |-> 0, cancel |-> FALSE]
NoTransfer == [state |-> "none", from |-> 0, generation |-> 0, cancelled |-> FALSE,
               buffered |-> 0, readers |-> 0, reports |-> 0, outcomes |-> 0]

FileViewTypeOK ==
    /\ mode \in {"list", "files"}
    /\ files \in FilesModel
    /\ view \in 0 .. MaxViews
    /\ opens \in [Views -> OpenState]
    /\ lists \subseteq Listing
    /\ xfers \in [Transfers -> Transfer]
    /\ drawn \in 0 .. MaxTransfers
    /\ asked \in Paths /\ answered \in BOOLEAN
    /\ over \in {"no", "quit", "crashed"}

Init ==
    /\ mode = "list"
    /\ files = NoFiles
    /\ view = 0
    /\ opens = [v \in Views |-> [state |-> "none", cancelled |-> FALSE]]
    /\ lists = {}
    /\ xfers = [t \in Transfers |-> NoTransfer]
    /\ drawn = 0
    /\ asked = NoDir /\ answered = FALSE
    /\ over = "no"

-----------------------------------------------------------------------------
(* Opening the view, and the dial behind it.                               *)

\* U or D on a host: newFilesModel replaces whatever files held.
OpenFiles ==
    /\ mode = "list" /\ view < MaxViews
    /\ mode' = "files"
    /\ view' = view + 1
    /\ files' = [NoFiles EXCEPT !.opened = TRUE]
    /\ opens' = [opens EXCEPT ![view + 1].state = "dialing"]
    /\ asked' = NoDir /\ answered' = FALSE
    /\ UNCHANGED <<lists, xfers, drawn, over>>

\* The RemoteSessionFunc returns.  SFTP and RealPath take no context, so a
\* session can still come of a dial that was cancelled.
DialEnds(v) ==
    /\ opens[v].state = "dialing"
    /\ \E outcome \in {"opened", "refused"} : opens' = [opens EXCEPT ![v].state = outcome]
    /\ UNCHANGED <<mode, files, view, lists, xfers, drawn, pane, over>>

\* loadInto(dir) with the session s in hand.
LoadInto(m, s, dir) ==
    /\ files' = [m EXCEPT !.session = s, !.pending = dir]
    /\ lists' = lists \union {[from |-> s, path |-> dir, stage |-> "spawned"]}
    /\ asked' = dir /\ answered' = FALSE

\* Fault: a session is adopted whether or not a view is up.
ApplySessionAlways(v) ==
    /\ opens[v].state \in {"opened", "refused"}
    /\ IF opens[v].state = "refused"
          THEN /\ opens' = [opens EXCEPT ![v].state = "failed"]
               /\ UNCHANGED <<files, lists, pane>>
          ELSE /\ opens' = [opens EXCEPT ![v].state = "held"]
               /\ LoadInto(files, v, Home)
    /\ UNCHANGED <<mode, view, xfers, drawn, over>>

\* remoteOpenedMsg, applySession.  The message does not say which view asked.
ApplySession(v) ==
    /\ opens[v].state \in {"opened", "refused"}
    /\ IF opens[v].state = "refused" \/ ~files.opened
          THEN /\ opens' = [opens EXCEPT ![v].state =
                               IF @ = "opened" THEN "closed" ELSE "failed"]
               /\ UNCHANGED <<files, lists, pane>>
          ELSE /\ opens' = [opens EXCEPT ![v].state = "held"]
               /\ LoadInto(files, v, Home)
    /\ UNCHANGED <<mode, view, xfers, drawn, over>>

-----------------------------------------------------------------------------
(* Listings.                                                               *)

\* enter, left or r in the remote pane: the directory itself, a child or its
\* parent.  Before the first listing has arrived the pane is nowhere, r asks
\* for "", and left asks for ".", which is the home directory again.
AskListing(dir) ==
    /\ mode = "files"
    /\ files.session # 0 /\ Cardinality(lists) < MaxListings
    /\ dir \in IF files.cwd = NoDir THEN {NoDir, Home} ELSE Dirs
    /\ LoadInto(files, files.session, dir)
    /\ UNCHANGED <<mode, view, opens, xfers, drawn, over>>

\* The goroutine of loadCmd reads remoteSession.sftp, which Close has set to nil.
ListingStarts(l) ==
    /\ l.stage = "spawned"
    /\ IF opens[l.from].state = "closed"
          THEN over' = "crashed" /\ UNCHANGED lists
          ELSE /\ lists' = (lists \ {l}) \union {[l EXCEPT !.stage = "reading"]}
               /\ UNCHANGED over
    /\ UNCHANGED <<mode, files, view, opens, xfers, drawn, pane>>

\* The server answers, or the session has gone.  No server lists "".
ListingEnds(l) ==
    /\ l.stage = "reading"
    /\ \E stage \in {"error"} \union (IF l.path = NoDir THEN {} ELSE {"ok"}) :
          lists' = (lists \ {l}) \union {[l EXCEPT !.stage = stage]}
    /\ UNCHANGED <<mode, files, view, opens, xfers, drawn, pane, over>>

\* Fault: applyEntries does not ask which directory the reply is of.
ApplyEntriesAny(l) ==
    /\ l.stage \in {"ok", "error"}
    /\ lists' = lists \ {l}
    /\ files' = [files EXCEPT !.pending = NoDir,
                              !.cwd = IF l.stage = "ok" THEN l.path ELSE @]
    /\ answered' = (answered \/ l.stage = "ok")
    /\ UNCHANGED <<mode, view, opens, xfers, drawn, asked, over>>

\* remoteEntriesMsg, applyEntries: a reply for a directory the pane is not
\* waiting for is dropped; a failed one leaves the pane where it was.
ApplyEntries(l) ==
    /\ l.stage \in {"ok", "error"}
    /\ lists' = lists \ {l}
    /\ IF l.path # files.pending
          THEN UNCHANGED <<files, answered>>
          ELSE /\ files' = [files EXCEPT !.pending = NoDir,
                                         !.cwd = IF l.stage = "ok" THEN l.path ELSE @]
               /\ answered' = (answered \/ l.stage = "ok")
    /\ UNCHANGED <<mode, view, opens, xfers, drawn, asked, over>>

-----------------------------------------------------------------------------
(* Transfers.                                                              *)

\* c, or enter on a file: beginTransfer starts the producer and the one reader.
BeginTransfer(t) ==
    /\ mode = "files"
    /\ files.running = 0 /\ files.session # 0
    /\ xfers[t].state = "none" /\ \A u \in 1 .. t - 1 : xfers[u].state # "none"
    /\ files' = [files EXCEPT !.generation = @ + 1, !.running = t, !.cancel = TRUE]
    /\ xfers' = [xfers EXCEPT ![t] = [NoTransfer EXCEPT
                    !.state = "spawned", !.from = files.session,
                    !.generation = files.generation + 1, !.readers = 1]]
    /\ UNCHANGED <<mode, view, opens, lists, drawn, pane, over>>

\* The producer's goroutine reads remoteSession.sftp.
TransferStarts(t) ==
    /\ xfers[t].state = "spawned"
    /\ IF opens[xfers[t].from].state = "closed"
          THEN over' = "crashed" /\ UNCHANGED xfers
          ELSE xfers' = [xfers EXCEPT ![t].state = "running"] /\ UNCHANGED over
    /\ UNCHANGED <<mode, files, view, opens, lists, drawn, pane>>

\* events <- p; a full buffer blocks the producer until the reader takes one or
\* the transfer is cancelled.
Report(t) ==
    /\ xfers[t].state = "running" /\ xfers[t].buffered < Buffer
    /\ xfers' = [xfers EXCEPT ![t].buffered = @ + 1]
    /\ UNCHANGED <<mode, files, view, opens, lists, drawn, pane, over>>

\* Fault: the send is not also a select on ctx.Done.
TransferEndsUnlessFull(t) ==
    /\ xfers[t].state = "running"
    /\ xfers[t].buffered < Buffer
    /\ xfers' = [xfers EXCEPT ![t].state = "done"]
    /\ UNCHANGED <<mode, files, view, opens, lists, drawn, pane, over>>

\* Transfer returns: done <- err and close(events).
TransferEnds(t) ==
    /\ xfers[t].state = "running"
    /\ xfers[t].buffered < Buffer \/ xfers[t].cancelled
    /\ xfers' = [xfers EXCEPT ![t].state = "done"]
    /\ UNCHANGED <<mode, files, view, opens, lists, drawn, pane, over>>

\* Fault: the read does not wait for a report.
WaitForNothing(t) ==
    /\ xfers[t].readers > 0
    /\ xfers' = [xfers EXCEPT ![t].readers = @ - 1, ![t].buffered = @ - 1,
                              ![t].reports = @ + 1]
    /\ UNCHANGED <<mode, files, view, opens, lists, drawn, pane, over>>

\* The command of waitForTransfer: one report, or the end of the transfer.
WaitForTransfer(t) ==
    /\ xfers[t].readers > 0
    /\ \/ /\ xfers[t].buffered > 0
          /\ xfers' = [xfers EXCEPT ![t].readers = @ - 1, ![t].buffered = @ - 1,
                                    ![t].reports = @ + 1]
       \/ /\ xfers[t].buffered = 0 /\ xfers[t].state = "done"
          /\ xfers' = [xfers EXCEPT ![t].readers = @ - 1, ![t].state = "collected",
                                    ![t].outcomes = @ + 1]
    /\ UNCHANGED <<mode, files, view, opens, lists, drawn, pane, over>>

\* A message is taken for the running transfer's when the counts agree.
TakenFor(t) == files.running # 0 /\ xfers[t].generation = files.generation

\* Fault: a report is drawn but the next read is not asked for.
DrawProgressOnce(t) ==
    /\ xfers[t].reports > 0
    /\ xfers' = [xfers EXCEPT ![t].reports = @ - 1]
    /\ drawn' = IF TakenFor(t) THEN t ELSE drawn
    /\ UNCHANGED <<mode, files, view, opens, lists, pane, over>>

\* transferProgressMsg: drawn, and the next read armed on the events in hand.
DrawProgress(t) ==
    /\ xfers[t].reports > 0
    /\ IF TakenFor(t)
          THEN /\ drawn' = t
               /\ xfers' = [[xfers EXCEPT ![t].reports = @ - 1]
                               EXCEPT ![files.running].readers = @ + 1]
          ELSE /\ xfers' = [xfers EXCEPT ![t].reports = @ - 1]
               /\ UNCHANGED drawn
    /\ UNCHANGED <<mode, files, view, opens, lists, pane, over>>

\* transferDoneMsg: applyTransferOutcome gives the keys back.
ApplyOutcome(t) ==
    /\ xfers[t].outcomes > 0
    /\ xfers' = [xfers EXCEPT ![t].outcomes = @ - 1]
    /\ IF TakenFor(t)
          THEN /\ drawn' = t
               /\ files' = [files EXCEPT !.cancel = FALSE, !.running = 0]
          ELSE UNCHANGED <<drawn, files>>
    /\ UNCHANGED <<mode, view, opens, lists, pane, over>>

-----------------------------------------------------------------------------
(* Backing out.                                                            *)

\* esc while a transfer can be cancelled: the context goes, the bars stay.
CancelTransfer ==
    /\ mode = "files" /\ files.cancel
    /\ xfers' = [xfers EXCEPT ![files.running].cancelled = TRUE]
    /\ files' = [files EXCEPT !.cancel = FALSE]
    /\ UNCHANGED <<mode, view, opens, lists, drawn, pane, over>>

\* Fault: close does not stop the dial that may still be out.
CloseLeavesDial ==
    /\ xfers' = IF files.cancel
                   THEN [xfers EXCEPT ![files.running].cancelled = TRUE] ELSE xfers
    /\ opens' = [v \in Views |->
                    [opens[v] EXCEPT !.state = IF v = files.session THEN "closed" ELSE @]]

\* What filesModel.close does to the world: the transfer's context, the session
\* and the context of the dial of the view this model was built for.
Close ==
    /\ xfers' = IF files.cancel
                   THEN [xfers EXCEPT ![files.running].cancelled = TRUE] ELSE xfers
    /\ opens' = [v \in Views |->
                    [state |-> IF v = files.session THEN "closed" ELSE opens[v].state,
                     cancelled |-> opens[v].cancelled \/ v = view]]

\* esc otherwise: closeFiles.  A transfer that was cancelled may still be ending.
LeaveFiles ==
    /\ mode = "files" /\ ~files.cancel
    /\ Close
    /\ files' = NoFiles
    /\ mode' = "list"
    /\ asked' = NoDir /\ answered' = FALSE
    /\ UNCHANGED <<view, lists, drawn, over>>

\* ctrl+c, or q and esc in the list.  The model the program hands back is a
\* browserModel, and closeView is a method of *browserModel, so RunHostBrowser's
\* assertion to viewCloser fails and nothing is closed.
Quit ==
    /\ over' = "quit"
    /\ UNCHANGED <<mode, files, view, opens, lists, xfers, drawn, pane>>

-----------------------------------------------------------------------------
FileViewKey ==
    \/ \E dir \in Paths : AskListing(dir)
    \/ \E t \in Transfers : BeginTransfer(t)
    \/ CancelTransfer \/ LeaveFiles

FileViewMessage ==
    \/ \E v \in Views : ApplySession(v)
    \/ \E l \in lists : ApplyEntries(l)
    \/ \E t \in Transfers : DrawProgress(t) \/ ApplyOutcome(t)

FileViewGoroutine ==
    \/ \E v \in Views : DialEnds(v)
    \/ \E l \in lists : ListingStarts(l) \/ ListingEnds(l)
    \/ \E t \in Transfers :
          TransferStarts(t) \/ Report(t) \/ TransferEnds(t) \/ WaitForTransfer(t)

Next ==
    /\ over = "no"
    /\ OpenFiles \/ FileViewKey \/ FileViewMessage \/ FileViewGoroutine \/ Quit

(***************************************************************************)
(* Messages are delivered and goroutines that can run do.  A dial and a    *)
(* transfer are only assumed to end once their context is cancelled; a     *)
(* host may otherwise take for ever, and the user need press nothing.      *)
(***************************************************************************)
Fairness ==
    /\ \A v \in Views :
          /\ WF_vars(over = "no" /\ ApplySession(v))
          /\ WF_vars(over = "no" /\ opens[v].cancelled /\ DialEnds(v))
    /\ \A t \in Transfers :
          /\ WF_vars(over = "no" /\ (TransferStarts(t) \/ WaitForTransfer(t)))
          /\ WF_vars(over = "no" /\ xfers[t].cancelled /\ TransferEnds(t))
          /\ WF_vars(over = "no" /\ DrawProgress(t))
          /\ WF_vars(over = "no" /\ ApplyOutcome(t))

Spec == Init /\ [][Next]_vars
FairSpec == Spec /\ Fairness

-----------------------------------------------------------------------------
(* What holds within one view, and what of it survives the next.           *)

\* A session that was opened and not closed is the one the view on screen
\* browses with; one that arrives after its view came down is closed, not leaked
\* (browser.go:287-296, filebrowser.go:317-325).
SessionIsOwned ==
    \A v \in Views : opens[v].state = "held" => files.opened /\ files.session = v

\* Exactly one reader, or the message it made, is in flight for the running
\* transfer, and never two for any (filebrowser.go:716-717).
OneReader ==
    \A t \in Transfers :
        LET inFlight == xfers[t].readers + xfers[t].reports + xfers[t].outcomes
        IN  inFlight <= 1 /\ (files.running = t => inFlight = 1)

\* Whatever order replies come back in, a pane that has been answered shows the
\* directory it asked for last (filebrowser.go:344-346).
PaneShowsAsked == answered => files.pending = NoDir /\ files.cwd = asked

\* Backing out to the list lets go of the session, of a dial still out and of a
\* transfer still running, unless the user opens a view again first
\* (filebrowser.go:253-258, browser.go:597-600).
LeavingReleases ==
    mode = "list" ~> \/ over # "no" \/ mode = "files"
                     \/ /\ \A v \in Views : opens[v].state \in {"none", "failed", "closed"}
                        /\ \A t \in Transfers : xfers[t].state \in {"none", "done", "collected"}

\* A transfer that was cancelled ends, also when nobody reads its reports any
\* more and its channel is full (filebrowser.go:727-736).
CancelledTransfersEnd ==
    \A t \in Transfers :
        xfers[t].cancelled ~> (over # "no" \/ xfers[t].state \in {"done", "collected"})

(* Claims of the code that do not hold.                                    *)

\* browser.go:287-293 says a session that arrives after its view has closed is
\* closed rather than leaked.  A view opened meanwhile adopts it: that view then
\* browses another host's files, until its own session replaces it.
LateSessionIsClosed ==
    \A v \in Views : opens[v].state = "held" => ~opens[v].cancelled

\* filebrowser.go:172-174 says a report from a transfer the user has moved past
\* cannot be drawn over its successor.  The count restarts with every view.
ReportsAreCurrent == [][drawn' # drawn => drawn' = files.running]_vars

\* filebrowser.go:379-381 says a key that asks the host something does nothing
\* rather than reach a nil session.  The check is made at the key; the goroutine
\* reads the field after the view may have closed the session.
NoNilSession == over # "crashed"

\* browser.go:153-155 and 758-759 say that the session and any transfer still
\* running are released when the program ends.
QuitReleases ==
    over = "quit" => /\ \A v \in Views : opens[v].state # "held"
                     /\ \A t \in Transfers : xfers[t].state # "running" \/ xfers[t].cancelled

=============================================================================
