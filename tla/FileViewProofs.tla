--------------------------- MODULE FileViewProofs ---------------------------
(***************************************************************************)
(* The safety of FileView for any number of directories, of transfers and  *)
(* of listings under way, and any capacity of the channel of reports.      *)
(* That the pane shows what it asked for is proved for any number of       *)
(* views, one after the other; who owns the session and who reads the      *)
(* reports, for one, as the code keeps neither across views (see           *)
(* LateSessionIsClosed and ReportsAreCurrent).                             *)
(***************************************************************************)
EXTENDS FileView, TLAPS

\* What the keys and the messages do to filesModel, to a dial and to a transfer.
LEMMA FilesTyped ==
    ASSUME NEW m \in FilesModel, NEW s \in 0 .. MaxViews, NEW dir \in Paths, NEW at \in Paths,
           NEW t \in 0 .. MaxTransfers, NEW c \in BOOLEAN, NEW g \in Nat
    PROVE  /\ [m EXCEPT !.session = s, !.pending = dir] \in FilesModel
           /\ [m EXCEPT !.pending = dir, !.cwd = at] \in FilesModel
           /\ [m EXCEPT !.generation = g, !.running = t, !.cancel = c] \in FilesModel
           /\ [m EXCEPT !.cancel = c, !.running = t] \in FilesModel
           /\ [m EXCEPT !.cancel = c] \in FilesModel
           /\ [m EXCEPT !.opened = c] \in FilesModel
  BY DEF FilesModel

\* The outcome of the running transfer gives the keys back.
LEMMA FilesReleased ==
    ASSUME NEW m \in FilesModel
    PROVE  [m EXCEPT !.cancel = FALSE, !.running = 0] \in FilesModel
<1>1. 0 \in 0 .. MaxTransfers
  BY FileViewAssumption
<1>2. QED
  BY <1>1 DEF FilesModel

\* The model of a view that is not there.
LEMMA NoFilesTyped == NoFiles \in FilesModel
  BY FileViewAssumption DEF NoFiles, FilesModel, Paths

\* A transfer that has not begun.
LEMMA NoTransferTyped == NoTransfer \in Transfer
  BY FileViewAssumption DEF NoTransfer, Transfer

\* A dial moves on.
LEMMA OpenTyped ==
    ASSUME opens \in [Views -> OpenState], NEW v \in Views,
           NEW s \in {"none", "dialing", "opened", "refused", "held", "closed", "failed"}
    PROVE  [opens EXCEPT ![v].state = s] \in [Views -> OpenState]
<1>1. [opens[v] EXCEPT !.state = s] \in OpenState
  BY DEF OpenState
<1>2. QED
  BY <1>1

\* A transfer moves on.
LEMMA XferTyped ==
    ASSUME xfers \in [Transfers -> Transfer], NEW t, NEW x \in Transfer
    PROVE  [xfers EXCEPT ![t] = x] \in [Transfers -> Transfer]
  OBVIOUS

\* Every variable of the view keeps its type: no message, in whatever order,
\* counts a reader, a report or a place in the channel below nothing
\* (filebrowser.go:718-760).
THEOREM Typing == Spec => []FileViewTypeOK
<1>1. Init => FileViewTypeOK
  <2> SUFFICES ASSUME Init PROVE FileViewTypeOK
    OBVIOUS
  <2>1. opens \in [Views -> OpenState]
    BY DEF Init, OpenState
  <2>2. xfers \in [Transfers -> Transfer]
    BY NoTransferTyped DEF Init
  <2>3. lists \subseteq Listing
    BY DEF Init
  <2>4. view \in 0 .. MaxViews /\ drawn \in 0 .. MaxTransfers
    BY FileViewAssumption DEF Init
  <2>5. QED
    BY <2>1, <2>2, <2>3, <2>4, NoFilesTyped DEF Init, FileViewTypeOK, Paths
<1>2. FileViewTypeOK /\ [Next]_vars => FileViewTypeOK'
  <2> SUFFICES ASSUME FileViewTypeOK, [Next]_vars PROVE FileViewTypeOK'
    OBVIOUS
  <2> USE FileViewAssumption DEF FileViewTypeOK, pane
  <2>1. CASE OpenFiles
    <3>1. files' \in FilesModel
      BY <2>1, NoFilesTyped, FilesTyped DEF OpenFiles
    <3>2. view + 1 \in Views /\ view' \in 0 .. MaxViews
      BY <2>1 DEF OpenFiles, Views
    <3>3. opens' \in [Views -> OpenState]
      BY <2>1, <3>2, OpenTyped DEF OpenFiles
    <3>4. QED
      BY <2>1, <3>1, <3>2, <3>3 DEF OpenFiles, Paths
  <2>2. ASSUME NEW v \in Views, DialEnds(v)
        PROVE  FileViewTypeOK'
    <3>1. PICK outcome \in {"opened", "refused"} :
                opens' = [opens EXCEPT ![v].state = outcome]
      BY <2>2 DEF DialEnds
    <3>2. opens' \in [Views -> OpenState]
      BY <3>1, OpenTyped
    <3>3. QED
      BY <2>2, <3>2 DEF DialEnds
  <2>3. ASSUME NEW s \in Views, NEW dir \in Paths, LoadInto(files, s, dir)
        PROVE  /\ files' \in FilesModel /\ lists' \subseteq Listing
               /\ asked' \in Paths /\ answered' \in BOOLEAN
    <3>1. [from |-> s, path |-> dir, stage |-> "spawned"] \in Listing
      BY DEF Listing
    <3>2. s \in 0 .. MaxViews
      BY DEF Views
    <3>3. files' \in FilesModel
      BY <2>3, <3>2, FilesTyped DEF LoadInto
    <3>4. QED
      BY <2>3, <3>1, <3>3 DEF LoadInto
  <2>4. ASSUME NEW v \in Views, ApplySession(v)
        PROVE  FileViewTypeOK'
    <3>1. opens' \in [Views -> OpenState]
      <4>1. CASE opens[v].state = "refused" \/ ~files.opened
        BY <2>4, <4>1, OpenTyped DEF ApplySession
      <4>2. QED
        BY <2>4, <4>1, OpenTyped DEF ApplySession
    <3>2. CASE LoadInto(files, v, Home)
      BY <2>4, <2>3, <3>1, <3>2 DEF ApplySession, Paths
    <3>3. CASE UNCHANGED <<files, lists, pane>>
      BY <2>4, <3>1, <3>3 DEF ApplySession
    <3>4. QED
      BY <2>4, <3>2, <3>3 DEF ApplySession
  <2>5. ASSUME NEW dir \in Paths, AskListing(dir)
        PROVE  FileViewTypeOK'
    <3>1. files.session \in Views
      BY <2>5 DEF AskListing, FilesModel, Views
    <3>2. QED
      BY <2>5, <2>3, <3>1 DEF AskListing
  <2>6. ASSUME NEW l \in lists, ListingStarts(l) \/ ListingEnds(l) \/ ApplyEntries(l)
        PROVE  FileViewTypeOK'
    <3>1. ASSUME NEW s \in {"spawned", "reading", "ok", "error"}
          PROVE  [l EXCEPT !.stage = s] \in Listing
      BY DEF Listing
    <3>2. CASE ListingStarts(l)
      BY <3>1, <3>2 DEF ListingStarts
    <3>3. CASE ListingEnds(l)
      BY <3>1, <3>3 DEF ListingEnds
    <3>4. CASE ApplyEntries(l)
      <4>1. l.path \in Paths /\ files.cwd \in Paths /\ NoDir \in Paths
        BY DEF Listing, FilesModel, Paths
      <4>2. ASSUME NEW at \in Paths
            PROVE  [files EXCEPT !.pending = NoDir, !.cwd = at] \in FilesModel
        BY <4>1 DEF FilesModel
      <4>3. files' \in FilesModel
        BY <3>4, <4>1, <4>2 DEF ApplyEntries
      <4>4. QED
        BY <3>4, <4>3 DEF ApplyEntries
    <3>5. QED
      BY <2>6, <3>2, <3>3, <3>4
  <2>7. ASSUME NEW t \in Transfers, BeginTransfer(t)
        PROVE  FileViewTypeOK'
    <3>1. /\ files.generation + 1 \in Nat /\ t \in 0 .. MaxTransfers
          /\ files.session \in 0 .. MaxViews
      BY DEF FilesModel, Transfers
    <3>2. files' \in FilesModel
      BY <2>7, <3>1, FilesTyped DEF BeginTransfer
    <3>3. [NoTransfer EXCEPT !.state = "spawned", !.from = files.session,
              !.generation = files.generation + 1, !.readers = 1] \in Transfer
      BY <3>1, NoTransferTyped DEF Transfer
    <3>4. xfers' \in [Transfers -> Transfer]
      BY <2>7, <3>3, XferTyped DEF BeginTransfer
    <3>5. QED
      BY <2>7, <3>2, <3>4 DEF BeginTransfer
  <2>8. ASSUME NEW t \in Transfers, TransferStarts(t) \/ Report(t) \/ TransferEnds(t)
        PROVE  FileViewTypeOK'
    <3>1. xfers[t] \in Transfer
      OBVIOUS
    <3>2. CASE TransferStarts(t)
      <4>1. [xfers[t] EXCEPT !.state = "running"] \in Transfer
        BY <3>1 DEF Transfer
      <4>2. xfers' \in [Transfers -> Transfer]
        BY <3>2, <4>1, XferTyped DEF TransferStarts
      <4>3. QED
        BY <3>2, <4>2 DEF TransferStarts
    <3>3. CASE Report(t)
      <4>1. [xfers[t] EXCEPT !.buffered = @ + 1] \in Transfer
        BY <3>1, <3>3 DEF Transfer, Report
      <4>2. xfers' \in [Transfers -> Transfer]
        BY <3>3, <4>1, XferTyped DEF Report
      <4>3. QED
        BY <3>3, <4>2 DEF Report
    <3>4. CASE TransferEnds(t)
      <4>1. [xfers[t] EXCEPT !.state = "done"] \in Transfer
        BY <3>1 DEF Transfer
      <4>2. xfers' \in [Transfers -> Transfer]
        BY <3>4, <4>1, XferTyped DEF TransferEnds
      <4>3. QED
        BY <3>4, <4>2 DEF TransferEnds
    <3>5. QED
      BY <2>8, <3>2, <3>3, <3>4
  <2>9. ASSUME NEW t \in Transfers, WaitForTransfer(t)
        PROVE  FileViewTypeOK'
    <3>1. xfers[t] \in Transfer
      OBVIOUS
    <3>2. /\ xfers[t].readers > 0 => xfers[t].readers - 1 \in Nat
          /\ xfers[t].buffered > 0 => xfers[t].buffered - 1 \in 0 .. Buffer
          /\ xfers[t].reports + 1 \in Nat /\ xfers[t].outcomes + 1 \in Nat
      BY <3>1 DEF Transfer
    <3>3. ASSUME NEW n \in Nat, NEW r \in Nat
          PROVE  /\ \A b \in 0 .. Buffer :
                       [xfers[t] EXCEPT !.readers = n, !.buffered = b, !.reports = r] \in Transfer
                 /\ [xfers[t] EXCEPT !.readers = n, !.state = "collected", !.outcomes = r]
                       \in Transfer
      BY <3>1 DEF Transfer
    <3>4. xfers' \in [Transfers -> Transfer]
      <4>1. CASE xfers[t].buffered > 0 /\ xfers' = [xfers EXCEPT
                    ![t].readers = @ - 1, ![t].buffered = @ - 1, ![t].reports = @ + 1]
        <5>1. [xfers[t] EXCEPT !.readers = @ - 1, !.buffered = @ - 1, !.reports = @ + 1]
              \in Transfer
          BY <2>9, <4>1, <3>2, <3>3 DEF WaitForTransfer
        <5>2. QED
          BY <4>1, <5>1, XferTyped
      <4>2. CASE xfers' = [xfers EXCEPT
                    ![t].readers = @ - 1, ![t].state = "collected", ![t].outcomes = @ + 1]
        <5>1. [xfers[t] EXCEPT !.readers = @ - 1, !.state = "collected", !.outcomes = @ + 1]
              \in Transfer
          BY <2>9, <4>2, <3>2, <3>3 DEF WaitForTransfer
        <5>2. QED
          BY <4>2, <5>1, XferTyped
      <4>3. QED
        BY <2>9, <4>1, <4>2 DEF WaitForTransfer
    <3>5. QED
      BY <2>9, <3>4 DEF WaitForTransfer
  <2>10. ASSUME NEW t \in Transfers, DrawProgress(t)
        PROVE  FileViewTypeOK'
    <3>1. t \in 0 .. MaxTransfers
      BY DEF Transfers
    <3>2. xfers[t].reports > 0 => [xfers[t] EXCEPT !.reports = @ - 1] \in Transfer
      BY DEF Transfer
    <3>3. ASSUME NEW xs \in [Transfers -> Transfer], NEW u \in Transfers
          PROVE  [xs EXCEPT ![u].readers = @ + 1] \in [Transfers -> Transfer]
      <4>1. [xs[u] EXCEPT !.readers = @ + 1] \in Transfer
        BY DEF Transfer
      <4>2. QED
        BY <4>1
    <3>4. xfers' \in [Transfers -> Transfer]
      <4>1. [xfers EXCEPT ![t].reports = @ - 1] \in [Transfers -> Transfer]
        BY <2>10, <3>2, XferTyped DEF DrawProgress
      <4>2. TakenFor(t) => files.running \in Transfers
        BY DEF TakenFor, FilesModel, Transfers
      <4>3. QED
        BY <2>10, <3>3, <4>1, <4>2 DEF DrawProgress
    <3>5. QED
      BY <2>10, <3>1, <3>4 DEF DrawProgress
  <2>11. ASSUME NEW t \in Transfers, ApplyOutcome(t)
         PROVE  FileViewTypeOK'
    <3>1. t \in 0 .. MaxTransfers
      BY DEF Transfers
    <3>2. xfers[t].outcomes > 0 => [xfers[t] EXCEPT !.outcomes = @ - 1] \in Transfer
      BY DEF Transfer
    <3>3. xfers' \in [Transfers -> Transfer]
      BY <2>11, <3>2, XferTyped DEF ApplyOutcome
    <3>4. files' \in FilesModel
      <4>1. [files EXCEPT !.cancel = FALSE, !.running = 0] \in FilesModel
        BY FilesReleased
      <4>2. QED
        BY <2>11, <4>1 DEF ApplyOutcome
    <3>5. QED
      BY <2>11, <3>1, <3>3, <3>4 DEF ApplyOutcome
  <2>12. ASSUME NEW xs, xs \in {xfers, [xfers EXCEPT ![files.running].cancelled = TRUE]}
         PROVE  xs \in [Transfers -> Transfer]
    <3>1. CASE files.running \in Transfers
      <4>1. [xfers[files.running] EXCEPT !.cancelled = TRUE] \in Transfer
        BY <3>1 DEF Transfer
      <4>2. QED
        BY <2>12, <4>1, XferTyped
    <3>2. CASE files.running \notin Transfers
      BY <2>12, <3>2
    <3>3. QED
      BY <3>1, <3>2
  <2>13. CASE CancelTransfer
    <3>1. files' \in FilesModel
      BY <2>13, FilesTyped DEF CancelTransfer
    <3>2. QED
      BY <2>13, <2>12, <3>1 DEF CancelTransfer
  <2>14. CASE LeaveFiles
    <3>1. opens' \in [Views -> OpenState]
      BY <2>14 DEF LeaveFiles, Close, OpenState
    <3>2. xfers' \in [Transfers -> Transfer]
      BY <2>14, <2>12 DEF LeaveFiles, Close
    <3>3. QED
      BY <2>14, <3>1, <3>2, NoFilesTyped DEF LeaveFiles, Paths
  <2>15. CASE Quit \/ UNCHANGED vars
    BY <2>15 DEF Quit, vars
  <2>16. QED
    BY <2>1, <2>2, <2>4, <2>5, <2>6, <2>7, <2>8, <2>9, <2>10, <2>11, <2>13, <2>14, <2>15
    DEF Next, FileViewKey, FileViewMessage, FileViewGoroutine
<1>3. QED
  BY <1>1, <1>2, PTL DEF Spec

-----------------------------------------------------------------------------
\* A reply that was read is of a directory, and the pane waits for the directory
\* it asked for last, or for none.
PaneInv ==
    /\ \A l \in lists : l.stage = "ok" => l.path # NoDir
    /\ files.pending \in {NoDir, asked}
    /\ PaneShowsAsked

\* Asking for a directory, the pane waits for just that.
LEMMA Asked ==
    ASSUME files \in FilesModel, PaneInv, NEW s, NEW dir \in Paths, LoadInto(files, s, dir)
    PROVE  PaneInv'
<1>1. files'.pending = dir /\ asked' = dir /\ ~answered'
  BY DEF LoadInto, FilesModel
<1>2. \A l \in lists' : l.stage = "ok" => l.path # NoDir
  BY DEF LoadInto, PaneInv
<1>3. QED
  BY <1>1, <1>2 DEF PaneInv, PaneShowsAsked

\* Replies in any order, from any view: the pane shows what was asked for last
\* (filebrowser.go:344-351).
THEOREM Shown == Spec => []PaneShowsAsked
<1>1. Init => PaneInv
  BY DEF Init, PaneInv, PaneShowsAsked, NoFiles
<1>2. FileViewTypeOK /\ PaneInv /\ [Next]_vars => PaneInv'
  <2> SUFFICES ASSUME FileViewTypeOK, PaneInv, [Next]_vars PROVE PaneInv'
    OBVIOUS
  <2> USE DEF PaneInv, PaneShowsAsked, FileViewTypeOK, FilesModel, Listing, pane
  <2>1. CASE OpenFiles \/ LeaveFiles
    BY <2>1 DEF OpenFiles, LeaveFiles, NoFiles
  <2>2. ASSUME NEW v \in Views, ApplySession(v)
        PROVE  PaneInv'
    <3>1. CASE LoadInto(files, v, Home)
      BY <2>2, <3>1, Asked, FileViewAssumption DEF Views, Paths
    <3>2. CASE UNCHANGED <<files, lists, pane>>
      BY <2>2, <3>2
    <3>3. QED
      BY <2>2, <3>1, <3>2 DEF ApplySession
  <2>3. ASSUME NEW dir \in Paths, AskListing(dir)
        PROVE  PaneInv'
    BY <2>3, Asked DEF AskListing
  <2>4. ASSUME NEW l \in lists, ListingStarts(l) \/ ListingEnds(l)
        PROVE  PaneInv'
    BY <2>4 DEF ListingStarts, ListingEnds
  <2>5. ASSUME NEW l \in lists, ApplyEntries(l)
        PROVE  PaneInv'
    BY <2>5 DEF ApplyEntries
  <2>6. ASSUME NEW t \in Transfers, BeginTransfer(t) \/ ApplyOutcome(t)
        PROVE  PaneInv'
    <3>1. files'.pending = files.pending /\ files'.cwd = files.cwd
      BY <2>6 DEF BeginTransfer, ApplyOutcome
    <3>2. UNCHANGED <<lists, pane>>
      BY <2>6 DEF BeginTransfer, ApplyOutcome
    <3>3. QED
      BY <3>1, <3>2
  <2>7. CASE CancelTransfer
    BY <2>7 DEF CancelTransfer
  <2>8. CASE UNCHANGED <<files, lists, asked, answered>>
    BY <2>8
  <2>9. QED
    BY <2>1, <2>2, <2>3, <2>4, <2>5, <2>6, <2>7, <2>8
    DEF Next, FileViewKey, FileViewMessage, FileViewGoroutine, Quit, DialEnds, vars,
        TransferStarts, Report, TransferEnds, WaitForTransfer, DrawProgress
<1>3. PaneInv => PaneShowsAsked
  BY DEF PaneInv
<1>4. QED
  BY <1>1, <1>2, <1>3, Typing, PTL DEF Spec

-----------------------------------------------------------------------------
\* No dial comes before its view, and a session is held by the view it came to.
SessionInv ==
    /\ view = 0 => mode = "list" /\ \A v \in Views : opens[v].state = "none"
    /\ SessionIsOwned

\* Within one view, the session that came of its dial is the view's or closed,
\* whenever the answer comes and the user leaves (browser.go:287-296,
\* filebrowser.go:315-325).
THEOREM Owned == MaxViews = 1 => (Spec => []SessionIsOwned)
<1> SUFFICES ASSUME MaxViews = 1 PROVE Spec => []SessionIsOwned
  OBVIOUS
<1>1. Init => SessionInv
  BY DEF Init, SessionInv, SessionIsOwned, Views
<1>2. FileViewTypeOK /\ SessionInv /\ [Next]_vars => SessionInv'
  <2> SUFFICES ASSUME FileViewTypeOK, SessionInv, [Next]_vars PROVE SessionInv'
    OBVIOUS
  <2> USE DEF SessionInv, SessionIsOwned, FileViewTypeOK, FilesModel, OpenState, Views
  <2>1. CASE OpenFiles
    BY <2>1 DEF OpenFiles
  <2>2. ASSUME NEW v \in Views, DialEnds(v)
        PROVE  SessionInv'
    BY <2>2 DEF DialEnds
  <2>3. ASSUME NEW v \in Views, ApplySession(v)
        PROVE  SessionInv'
    <3>1. view # 0 /\ view' = view /\ \A w \in Views : w = v
      BY <2>3 DEF ApplySession
    <3>2. CASE opens[v].state = "refused" \/ ~files.opened
      <4>1. opens'[v].state \in {"closed", "failed"}
        BY <2>3, <3>2 DEF ApplySession
      <4>2. QED
        BY <3>1, <4>1
    <3>3. CASE ~(opens[v].state = "refused" \/ ~files.opened)
      <4>1. files'.session = v /\ files'.opened
        BY <2>3, <3>3 DEF ApplySession, LoadInto
      <4>2. QED
        BY <3>1, <4>1
    <3>4. QED
      BY <3>2, <3>3
  <2>4. ASSUME NEW dir \in Paths, AskListing(dir)
        PROVE  SessionInv'
    BY <2>4 DEF AskListing, LoadInto
  <2>5. ASSUME NEW l \in lists, ApplyEntries(l)
        PROVE  SessionInv'
    BY <2>5 DEF ApplyEntries
  <2>6. ASSUME NEW t \in Transfers, BeginTransfer(t) \/ ApplyOutcome(t)
        PROVE  SessionInv'
    BY <2>6 DEF BeginTransfer, ApplyOutcome
  <2>7. CASE CancelTransfer
    BY <2>7 DEF CancelTransfer
  <2>8. CASE LeaveFiles
    <3>1. \A v \in Views :
             opens'[v].state = IF v = files.session THEN "closed" ELSE opens[v].state
      BY <2>8 DEF LeaveFiles, Close
    <3>2. view' # 0
      BY <2>8 DEF LeaveFiles
    <3>3. QED
      BY <3>1, <3>2
  <2>9. CASE UNCHANGED <<mode, files, view, opens>>
    BY <2>9
  <2>10. QED
    BY <2>1, <2>2, <2>3, <2>4, <2>5, <2>6, <2>7, <2>8, <2>9
    DEF Next, FileViewKey, FileViewMessage, FileViewGoroutine, Quit, vars, ListingStarts,
        ListingEnds, TransferStarts, Report, TransferEnds, WaitForTransfer, DrawProgress
<1>3. SessionInv => SessionIsOwned
  BY DEF SessionInv
<1>4. QED
  BY <1>1, <1>2, <1>3, Typing, PTL DEF Spec

-----------------------------------------------------------------------------
InFlight(t) == xfers[t].readers + xfers[t].reports + xfers[t].outcomes

\* The transfers of one view have counts of their own, up to the model's; one that
\* was not begun has no reader and no message.
CountsInv ==
    /\ view = 0 => mode = "list" /\ ~files.opened /\ \A t \in Transfers : xfers[t].state = "none"
    /\ mode = "list" => files.running = 0
    /\ \A t \in Transfers :
          /\ xfers[t].state = "none" => InFlight(t) = 0 /\ files.running # t
          /\ mode = "files" /\ xfers[t].state # "none" => xfers[t].generation <= files.generation
          /\ files.running = t => xfers[t].generation = files.generation
    /\ \A t, u \in Transfers :
          /\ xfers[t].state # "none" /\ xfers[u].state # "none"
          /\ xfers[t].generation = xfers[u].generation
          => t = u

ReaderInv == CountsInv /\ OneReader

\* What does not move a message from one transfer to another, nor begin or end one,
\* leaves everything as it should be.
LEMMA Moved ==
    ASSUME xfers \in [Transfers -> Transfer], ReaderInv,
           mode' = mode, view' = view, view = 0 => files'.opened = files.opened,
           files'.running = files.running, files'.generation = files.generation,
           \A t \in Transfers :
              /\ xfers'[t].state = "none" <=> xfers[t].state = "none"
              /\ xfers'[t].generation = xfers[t].generation
              /\ InFlight(t)' = InFlight(t)
    PROVE  ReaderInv'
  BY DEF ReaderInv, CountsInv, OneReader, InFlight

\* Whose message is taken for the running transfer's, is the running transfer.
LEMMA TakenIsRunning ==
    ASSUME FileViewTypeOK, ReaderInv, NEW t \in Transfers, InFlight(t) # 0
    PROVE  TakenFor(t) <=> files.running = t
<1>1. files.running \in 0 .. MaxTransfers /\ xfers[t].state # "none"
  BY DEF FileViewTypeOK, FilesModel, ReaderInv, CountsInv
<1>2. CASE files.running = 0
  BY <1>2 DEF TakenFor, Transfers
<1>3. CASE files.running # 0
  <2>1. files.running \in Transfers
    BY <1>1, <1>3 DEF Transfers
  <2>2. xfers[files.running].state # "none"
    BY <2>1 DEF ReaderInv, CountsInv
  <2>3. QED
    BY <1>1, <1>3, <2>1, <2>2 DEF TakenFor, ReaderInv, CountsInv
<1>4. QED
  BY <1>2, <1>3

\* The counts of a transfer are numbers.
LEMMA Counted ==
    ASSUME FileViewTypeOK, NEW t \in Transfers
    PROVE  /\ xfers[t] \in Transfer
           /\ xfers[t].readers \in Nat /\ xfers[t].reports \in Nat
           /\ xfers[t].outcomes \in Nat /\ xfers[t].generation \in Nat
           /\ files.generation \in Nat /\ files.running \in 0 .. MaxTransfers
  BY DEF FileViewTypeOK, Transfer, FilesModel

\* Each transfer of a view has one reader at a time, whichever report or outcome of
\* whichever transfer is delivered when (filebrowser.go:293-303, 752-760).
THEOREM Read == MaxViews = 1 => (Spec => []OneReader)
<1> SUFFICES ASSUME MaxViews = 1 PROVE Spec => []OneReader
  OBVIOUS
<1>1. Init => ReaderInv
  BY DEF Init, ReaderInv, CountsInv, InFlight, OneReader, NoFiles, NoTransfer, Transfers
<1>2. FileViewTypeOK /\ ReaderInv /\ [Next]_vars => ReaderInv'
  <2> SUFFICES ASSUME FileViewTypeOK, ReaderInv, [Next]_vars PROVE ReaderInv'
    OBVIOUS
  <2>0. xfers \in [Transfers -> Transfer] /\ files \in FilesModel
    BY DEF FileViewTypeOK
  <2>1. CASE OpenFiles
    <3>1. view = 0 /\ view' = 1 /\ mode' = "files" /\ xfers' = xfers
      BY <2>1 DEF OpenFiles, FileViewTypeOK
    <3>2. files'.running = 0 /\ files'.generation = 0
      BY <2>1 DEF OpenFiles, NoFiles
    <3>3. \A t \in Transfers : xfers[t].state = "none" /\ t # 0
      BY <3>1 DEF ReaderInv, CountsInv, Transfers
    <3>4. QED
      BY <3>1, <3>2, <3>3 DEF ReaderInv, CountsInv, InFlight, OneReader
  <2>2. ASSUME NEW s, NEW dir, LoadInto(files, s, dir)
        PROVE  files'.running = files.running /\ files'.generation = files.generation
    BY <2>0, <2>2 DEF LoadInto, FilesModel
  <2>3. ASSUME NEW v \in Views, ApplySession(v)
        PROVE  ReaderInv'
    <3>1. CASE UNCHANGED files
      BY <2>0, <2>3, <3>1, Moved DEF ApplySession, InFlight
    <3>2. CASE files.opened /\ LoadInto(files, v, Home)
      <4>1. view # 0
        BY <3>2 DEF ReaderInv, CountsInv
      <4>2. QED
        BY <2>0, <2>2, <2>3, <3>2, <4>1, Moved DEF ApplySession, InFlight
    <3>3. QED
      BY <2>3, <3>1, <3>2 DEF ApplySession
  <2>4. ASSUME NEW dir \in Paths, AskListing(dir)
        PROVE  ReaderInv'
    <3>1. view # 0
      BY <2>4 DEF AskListing, ReaderInv, CountsInv
    <3>2. QED
      BY <2>0, <2>2, <2>4, <3>1, Moved DEF AskListing, InFlight
  <2>5. ASSUME NEW l \in lists, ApplyEntries(l)
        PROVE  ReaderInv'
    <3>1. /\ files'.running = files.running /\ files'.generation = files.generation
          /\ files'.opened = files.opened
      BY <2>0, <2>5 DEF ApplyEntries, FilesModel
    <3>2. QED
      BY <2>0, <2>5, <3>1, Moved DEF ApplyEntries, InFlight
  <2>6. ASSUME NEW t \in Transfers, BeginTransfer(t)
        PROVE  ReaderInv'
    <3> DEFINE x == [NoTransfer EXCEPT !.state = "spawned", !.from = files.session,
                        !.generation = files.generation + 1, !.readers = 1]
    <3>1. /\ mode = "files" /\ mode' = "files" /\ view # 0 /\ view' = view
          /\ files.running = 0 /\ xfers[t].state = "none" /\ xfers' = [xfers EXCEPT ![t] = x]
      BY <2>6 DEF BeginTransfer, ReaderInv, CountsInv
    <3>2. files'.running = t /\ files'.generation = files.generation + 1
      BY <2>0, <2>6 DEF BeginTransfer, FilesModel
    <3>3. /\ x.state = "spawned" /\ x.generation = files.generation + 1
          /\ x.readers + x.reports + x.outcomes = 1
      BY DEF NoTransfer
    <3>4. xfers'[t] = x /\ \A u \in Transfers : u # t => xfers'[u] = xfers[u]
      BY <2>0, <3>1
    <3>5. InFlight(t)' = 1 /\ \A u \in Transfers : u # t => InFlight(u)' = InFlight(u)
      BY <3>3, <3>4 DEF InFlight
    <3>6. \A u \in Transfers : u # t /\ xfers[u].state # "none"
             => xfers[u].generation <= files.generation
      BY <3>1 DEF ReaderInv, CountsInv
    <3>7. QED
      BY <3>1, <3>2, <3>3, <3>4, <3>5, <3>6, Counted DEF ReaderInv, CountsInv, OneReader, InFlight
  <2>7. ASSUME NEW t \in Transfers, TransferStarts(t) \/ Report(t) \/ TransferEnds(t)
        PROVE  ReaderInv'
    <3>1. mode' = mode /\ view' = view /\ files' = files
      BY <2>7 DEF TransferStarts, Report, TransferEnds
    <3>2. \A u \in Transfers :
             /\ xfers'[u].state = "none" <=> xfers[u].state = "none"
             /\ xfers'[u].generation = xfers[u].generation
             /\ xfers'[u].readers = xfers[u].readers /\ xfers'[u].reports = xfers[u].reports
             /\ xfers'[u].outcomes = xfers[u].outcomes
      BY <2>0, <2>7 DEF TransferStarts, Report, TransferEnds, Transfer
    <3>3. QED
      BY <2>0, <3>1, <3>2, Moved DEF InFlight
  <2>8. ASSUME NEW t \in Transfers, WaitForTransfer(t)
        PROVE  ReaderInv'
    <3>1. mode' = mode /\ view' = view /\ files' = files
      BY <2>8 DEF WaitForTransfer
    <3>2. xfers[t].state # "none"
      BY <2>8, Counted DEF WaitForTransfer, ReaderInv, CountsInv, InFlight
    <3>3. \A u \in Transfers : u # t => xfers'[u] = xfers[u]
      BY <2>0, <2>8 DEF WaitForTransfer
    <3>4. /\ xfers'[t].state # "none" /\ xfers'[t].generation = xfers[t].generation
          /\ xfers'[t].readers = xfers[t].readers - 1
          /\ \/ /\ xfers'[t].reports = xfers[t].reports + 1
                /\ xfers'[t].outcomes = xfers[t].outcomes
             \/ /\ xfers'[t].reports = xfers[t].reports
                /\ xfers'[t].outcomes = xfers[t].outcomes + 1
      BY <2>0, <2>8, <3>2 DEF WaitForTransfer, Transfer
    <3>5. InFlight(t)' = InFlight(t) /\ \A u \in Transfers : u # t => InFlight(u)' = InFlight(u)
      BY <3>3, <3>4, Counted DEF InFlight
    <3>6. QED
      BY <2>0, <3>1, <3>2, <3>3, <3>4, <3>5, Moved
  <2>9. ASSUME NEW t \in Transfers, DrawProgress(t)
        PROVE  ReaderInv'
    <3>1. mode' = mode /\ view' = view /\ files' = files
      BY <2>9 DEF DrawProgress
    <3>2. InFlight(t) = 1 /\ xfers[t].state # "none"
      BY <2>9, Counted DEF DrawProgress, ReaderInv, CountsInv, OneReader, InFlight
    <3>3. \A u \in Transfers : u # t /\ (TakenFor(t) => u # files.running) => xfers'[u] = xfers[u]
      BY <2>0, <2>9 DEF DrawProgress
    <3>4. CASE files.running = t
      <4>1. /\ xfers'[t].state = xfers[t].state /\ xfers'[t].generation = xfers[t].generation
            /\ xfers'[t].readers = xfers[t].readers + 1
            /\ xfers'[t].reports = xfers[t].reports - 1
            /\ xfers'[t].outcomes = xfers[t].outcomes
        BY <2>0, <2>9, <3>2, <3>4, TakenIsRunning DEF DrawProgress, Transfer
      <4>2. InFlight(t)' = InFlight(t) /\ \A u \in Transfers : u # t => InFlight(u)' = InFlight(u)
        BY <3>3, <3>4, <4>1, Counted DEF InFlight
      <4>3. QED
        BY <2>0, <3>1, <3>3, <3>4, <4>1, <4>2, Moved
    <3>5. CASE files.running # t
      <4>1. /\ xfers'[t].state = xfers[t].state /\ xfers'[t].generation = xfers[t].generation
            /\ xfers'[t].readers = xfers[t].readers
            /\ xfers'[t].reports = xfers[t].reports - 1
            /\ xfers'[t].outcomes = xfers[t].outcomes
        BY <2>0, <2>9, <3>2, <3>5, TakenIsRunning DEF DrawProgress, Transfer
      <4>2. \A u \in Transfers : u # t => xfers'[u] = xfers[u] /\ InFlight(u)' = InFlight(u)
        BY <3>2, <3>3, <3>5, TakenIsRunning DEF InFlight
      <4>3. InFlight(t)' = 0
        BY <3>2, <4>1, Counted DEF InFlight
      <4>4. QED
        BY <3>1, <3>2, <3>5, <4>1, <4>2, <4>3 DEF ReaderInv, CountsInv, OneReader, InFlight
    <3>6. QED
      BY <3>4, <3>5
  <2>10. ASSUME NEW t \in Transfers, ApplyOutcome(t)
         PROVE  ReaderInv'
    <3>1. mode' = mode /\ view' = view
      BY <2>10 DEF ApplyOutcome
    <3>2. InFlight(t) = 1 /\ xfers[t].state # "none" /\ view # 0
      <4>1. InFlight(t) = 1
        BY <2>10, Counted DEF ApplyOutcome, ReaderInv, OneReader, InFlight
      <4>2. QED
        BY <4>1 DEF ReaderInv, CountsInv
    <3>3. files'.running = (IF files.running = t THEN 0 ELSE files.running)
          /\ files'.generation = files.generation
      <4>1. files' = IF files.running = t THEN [files EXCEPT !.cancel = FALSE, !.running = 0]
                                          ELSE files
        BY <2>10, <3>2, TakenIsRunning DEF ApplyOutcome
      <4>2. QED
        BY <2>0, <4>1 DEF FilesModel
    <3>4. /\ xfers'[t].state = xfers[t].state /\ xfers'[t].generation = xfers[t].generation
          /\ xfers'[t].readers = xfers[t].readers /\ xfers'[t].reports = xfers[t].reports
          /\ xfers'[t].outcomes = xfers[t].outcomes - 1
      BY <2>0, <2>10 DEF ApplyOutcome, Transfer
    <3>5. \A u \in Transfers : u # t => xfers'[u] = xfers[u] /\ InFlight(u)' = InFlight(u)
      BY <2>0, <2>10 DEF ApplyOutcome, InFlight
    <3>6. InFlight(t)' = 0 /\ \A u \in Transfers : u # 0
      BY <3>2, <3>4, Counted DEF InFlight, Transfers
    <3>7. QED
      BY <3>1, <3>2, <3>3, <3>4, <3>5, <3>6 DEF ReaderInv, CountsInv, OneReader, InFlight
  <2>11. CASE CancelTransfer
    <3>1. view # 0 /\ mode' = mode /\ view' = view
      BY <2>11 DEF CancelTransfer, ReaderInv, CountsInv
    <3>2. files'.running = files.running /\ files'.generation = files.generation
      BY <2>0, <2>11 DEF CancelTransfer, FilesModel
    <3>3. \A u \in Transfers :
             /\ xfers'[u].state = xfers[u].state /\ xfers'[u].generation = xfers[u].generation
             /\ xfers'[u].readers = xfers[u].readers /\ xfers'[u].reports = xfers[u].reports
             /\ xfers'[u].outcomes = xfers[u].outcomes
      BY <2>0, <2>11 DEF CancelTransfer, Transfer
    <3>4. QED
      BY <2>0, <3>1, <3>2, <3>3, Moved DEF InFlight
  <2>12. CASE LeaveFiles
    <3>1. /\ mode' = "list" /\ view' = view /\ files' = NoFiles /\ xfers' = xfers
          /\ view # 0
      BY <2>12 DEF LeaveFiles, Close, ReaderInv, CountsInv
    <3>2. files'.running = 0 /\ \A u \in Transfers : u # 0
      BY <3>1 DEF NoFiles, Transfers
    <3>3. QED
      BY <3>1, <3>2 DEF ReaderInv, CountsInv, OneReader, InFlight
  <2>13. CASE UNCHANGED <<mode, files, view, xfers>>
    BY <2>13 DEF ReaderInv, CountsInv, OneReader, InFlight
  <2>14. QED
    BY <2>1, <2>3, <2>4, <2>5, <2>6, <2>7, <2>8, <2>9, <2>10, <2>11, <2>12, <2>13
    DEF Next, FileViewKey, FileViewMessage, FileViewGoroutine, Quit, vars, DialEnds,
        ListingStarts, ListingEnds
<1>3. ReaderInv => OneReader
  BY DEF ReaderInv
<1>4. QED
  BY <1>1, <1>2, <1>3, Typing, PTL DEF Spec

=============================================================================
