------------------------------ MODULE MCBrowser ------------------------------
(***************************************************************************)
(* The host browser for TLC: its event loop over the hosts file (Browser,  *)
(* HostsFile), the table it draws (HostTable), the panes of its file view  *)
(* (Panes), walked one at a time, the terminal all of it is drawn on       *)
(* (Terminal) and how it fits there (Frame).  None decides what another    *)
(* does next, so each runs with the others at rest: the instance has the   *)
(* sum of their states, not the product.                                   *)
(***************************************************************************)
EXTENDS HostTable

CONSTANTS Aliases, NoAlias, Jobs, MaxActive,
          Folders, Leaves, MaxDepth, NoDir, PaneHeights, MaxReplies,
          Views, TheSession,
          Widths, FrameHeights, NameWidths, OtherWidths

VARIABLES
    part, \* which of the runs
    file, jobs, mode, helpFor, pending, hosts, viewOpen, status, session, quit,
    panes, focus, query, filtering, ready, replies, paneHeight, narrow,
    main, screen, logger, output, logFile, dial, proxy,
    width, frameHeight, cells, form

\* What a directory may hold, and what the filter may match.
Contents == {Folders \union Leaves, {CHOOSE n \in Folders \union Leaves : TRUE}, {}}
Queries == {Leaves \union {CHOOSE n \in Folders : \A m \in Folders : n >= m}}

\* How wide the columns are: the alias, user, address, port and tags.
Cells == {<<a, 9, h, p, t>> : a \in NameWidths, h \in NameWidths, p \in OtherWidths, t \in OtherWidths}

Stored == INSTANCE HostsFile
Loop == INSTANCE Browser
Columns == INSTANCE Panes WITH Files <- Leaves, Heights <- PaneHeights, height <- paneHeight
Screen == INSTANCE Terminal
Fitted == INSTANCE Frame WITH height <- frameHeight, CellWidths <- Cells

ASSUME BrowserAssumption ==
    /\ Stored!HostsFileAssumption /\ HostTableAssumption
    /\ Columns!PanesAssumption /\ Screen!TerminalAssumption
    /\ Fitted!FrameAssumption

loopVars == <<file, jobs, mode, helpFor, pending, hosts, viewOpen, status, session, quit>>
paneVars == <<panes, focus, query, filtering, ready, replies, paneHeight, narrow>>
screenVars == <<main, screen, logger, output, logFile, dial, proxy>>
frameVars == <<width, frameHeight, cells, form>>
allVars == <<part, loopVars, tableVars, paneVars, screenVars, frameVars>>

AllInit ==
    /\ part \in {"loop", "table", "local", "remote", "screen", "frame"}
    /\ Loop!Init /\ (part # "loop" => file = Stored!Empty)
    /\ Init /\ (part # "table" => count = 0)
    /\ Columns!Init
    /\ part # "local" => panes["local"].entries = <<>>
    /\ part \notin {"local", "remote"} =>
          focus = "local" /\ paneHeight = 0 /\ ~narrow
    /\ Screen!Init
    /\ Fitted!Init /\ (part # "frame" => cells = <<4, 9, 4, 4, 4>>)

\* One pane is walked and the other is there: local until the session comes, and
\* remote beside a local pane that shows nothing.
WalkPanes ==
    /\ Columns!Next
    /\ part = "local" => ~ready'
    /\ part = "remote" => panes'["local"] = panes["local"]

AllNext ==
    /\ UNCHANGED part
    /\ \/ part = "loop" /\ Loop!Next /\ UNCHANGED <<tableVars, paneVars, screenVars, frameVars>>
       \/ part = "table" /\ Next /\ UNCHANGED <<loopVars, paneVars, screenVars, frameVars>>
       \/ /\ part \in {"local", "remote"} /\ WalkPanes
          /\ UNCHANGED <<loopVars, tableVars, screenVars, frameVars>>
       \/ /\ part = "screen" /\ Screen!Next
          /\ UNCHANGED <<loopVars, tableVars, paneVars, frameVars>>
       \/ /\ part = "frame" /\ Fitted!Next
          /\ UNCHANGED <<loopVars, tableVars, paneVars, screenVars>>

\* Commands run and their messages are delivered, as in Browser.
AllSpec == AllInit /\ [][AllNext]_allVars /\ Loop!Fairness

-----------------------------------------------------------------------------
\* The types of the modules.
BrowserTypeOK ==
    /\ Loop!BrowserTypeOK /\ Stored!HostsFileTypeOK /\ HostTableTypeOK
    /\ Columns!PanesTypeOK /\ Screen!TerminalTypeOK /\ Fitted!FrameTypeOK

\* Every add and delete is answered, wherever the user has gone, unless the user quits
\* or stays in a shell (browser.go:281-285), and what failed leaves the list (337-341,
\* 357-364).
AnswersArrive == Loop!AnswersArrive

\* Calls that do not overlap are adds and removals of one host each, in the file
\* (connect.go:106-139, hosts.go:125-184), whatever is pressed meanwhile.
ImplementsHostList == Stored!ImplementsHostList

\* The remote pane shows the files of the directory it names and waits for what was asked,
\* stepping up leaves the cursor where the user came from if no filter is on
\* (filebrowser.go:136-138, 344-351), and after any step but a resize the row under it is
\* on screen (filebrowser.go:528-546).
PanesKeepTheirPlace ==
    []Columns!RemoteShowsItsListing /\ Columns!StepsBackOntoIt /\ Columns!PanesFollowCursor

\* The screen is the browser's, whole: nothing writes to the terminal beside a frame or a
\* session, nor reads from it, and what is written once the browser is gone is read
\* (browser.go:142-148, zlog.go:68-84); and the frame fits, with the field that is typed on (browser.go:967-1035,
\* hostform.go:163-166).
ScreenIsWhole == Screen!TerminalIsClear /\ Fitted!FrameFits

=============================================================================
