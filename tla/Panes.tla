-------------------------------- MODULE Panes --------------------------------
(***************************************************************************)
(* The two panes of the file view (filesModel, filePane, in               *)
(* internal/ui/filebrowser.go): where each is, the listing it holds, the   *)
(* cursor and the window over it, the filter that follows the keyboard,    *)
(* and the remote listings on their way back.  The session, the transfers  *)
(* and leaving the view are in module FileView; what a transfer is of, is  *)
(* here (Request).                                                         *)
(*                                                                         *)
(* A name is a number, and the order of the numbers that of the names.     *)
(* Rows are numbered from 0, as in the code, and entries from 1.  A query  *)
(* is the set of names it matches.  What a directory holds is asked anew   *)
(* whenever it is read.                                                    *)
(***************************************************************************)
EXTENDS Integers, SequencesExt, Bags

CONSTANTS
    Folders, Files,  \* names of directories, and of anything else
    Contents,        \* what a directory may hold: sets of names
    MaxDepth,        \* bound: how deep a tree goes
    Queries,         \* what the filter may match; Names stands for none
    NoDir,           \* the empty string: no directory
    Heights,         \* heights of the terminal; 0 before it has reported one
    MaxReplies       \* bound: no key asks for a listing while so many are out

Names == Folders \union Files
NoName == 0

VARIABLES
    panes,     \* filesModel.panes
    focus,     \* the pane with the keyboard
    query,     \* what the filter matches
    filtering, \* whether its line is up and takes the keys
    ready,     \* filesModel.session # nil
    replies,   \* directories whose listing is on its way back
    height,    \* filesModel.height
    narrow     \* too narrow for two columns: the paths take two lines

paneVars == <<panes, focus, query, filtering, ready, replies, height, narrow>>
size == <<height, narrow>>

Sides == {"local", "remote"}
Other(side) == IF side = "local" THEN "remote" ELSE "local"

\* A clean path: from the root, or from wherever the server puts one that does
\* not say (".").
Trails == UNION {[1 .. n -> Folders] : n \in 0 .. MaxDepth}
Dirs == [rooted : BOOLEAN, trail : Trails]
Paths == Dirs \union {NoDir}
Home == [rooted |-> TRUE, trail |-> <<>>]
Dot == [rooted |-> FALSE, trail |-> <<>>]

PanesAssumption ==
    /\ Names \subseteq Nat \ {NoName} /\ Folders \intersect Files = {}
    /\ Contents \subseteq SUBSET Names /\ Contents # {}
    /\ Queries \subseteq SUBSET Names
    /\ MaxDepth \in Nat /\ MaxReplies \in Nat /\ Heights \subseteq Nat
    /\ NoDir \notin Dirs

\* path.Dir and path.Base.  "." and "/" are their own parents, and no entry has
\* their names.
Parent(dir) ==
    IF dir = NoDir THEN Dot
    ELSE IF dir.trail = <<>> THEN dir ELSE [dir EXCEPT !.trail = Front(@)]
Base(dir) == IF dir = NoDir \/ dir.trail = <<>> THEN NoName ELSE Last(dir.trail)
Child(dir, name) == [dir EXCEPT !.trail = Append(@, name)]

AtLeast(low, x) == IF x < low THEN low ELSE x
AtMost(high, x) == IF x > high THEN high ELSE x

\* sortEntries: the directories first, each kind by name.
Sorted(entries) ==
    \A i, j \in DOMAIN entries : i < j =>
        \/ entries[i] \in Folders /\ entries[j] \in Files
        \/ (entries[i] \in Folders <=> entries[j] \in Folders) /\ entries[i] < entries[j]

AllSorted ==
    {entries \in UNION {[1 .. n -> Names] : n \in 0 .. Cardinality(Names)} : Sorted(entries)}

\* What a read of dir may give: directories lie no deeper than MaxDepth.
Listings(dir) ==
    {entries \in AllSorted :
        \E c \in Contents :
           Range(entries) = IF Len(dir.trail) < MaxDepth THEN c ELSE c \ Folders}

\* listed is the directory the paths of the entries were made of.
Pane == [cwd : Paths, listed : Paths, entries : Seq(Names), cursor : Nat, offset : Nat,
         pending : Paths, reveal : Names \union {NoName}]
NoPane == [cwd |-> NoDir, listed |-> NoDir, entries |-> <<>>, cursor |-> 0, offset |-> 0,
           pending |-> NoDir, reveal |-> NoName]

PanesTypeOK ==
    /\ panes \in [Sides -> Pane]
    /\ focus \in Sides /\ query \in Queries \union {Names}
    /\ filtering \in BOOLEAN /\ ready \in BOOLEAN /\ narrow \in BOOLEAN
    /\ IsABag(replies) /\ BagToSet(replies) \subseteq Paths
    /\ height \in Heights \union {0}

-----------------------------------------------------------------------------
(* What of a pane is drawn.                                                *)

\* topLines, bottomLines: the header, two rules, the paths, two lines of progress,
\* the status and the keys.
chrome == IF narrow THEN 9 ELSE 8
paneRows == IF height = 0 THEN 10 ELSE AtLeast(1, height - chrome)

\* Which of the entries of p on side are drawn, with the keyboard at f and query q.
VisibleIn(side, p, f, q) == {i \in DOMAIN p.entries : side = f => p.entries[i] \in q}

visible(side) == VisibleIn(side, panes[side], focus, query)
rows(side) == Cardinality(visible(side))
rowOf(side, i) == Cardinality({j \in visible(side) : j < i})

\* clampScroll: the cursor inside the rows drawn, the window around the cursor.
ClampScroll(side, p, f, q) ==
    LET count == Cardinality(VisibleIn(side, p, f, q))
        c == AtMost(count - 1, AtLeast(0, p.cursor))
        follow == IF c < p.offset THEN c
                  ELSE IF c >= p.offset + paneRows THEN c - paneRows + 1 ELSE p.offset
    IN  IF count = 0
           THEN [p EXCEPT !.cursor = 0, !.offset = 0]
           ELSE [p EXCEPT !.cursor = c,
                          !.offset = AtMost(AtLeast(0, count - paneRows), AtLeast(0, follow))]

\* current: the name under the cursor of the focused pane, NoName without one.
current ==
    LET at == {i \in visible(focus) : rowOf(focus, i) = panes[focus].cursor}
    IN  IF at = {} THEN NoName ELSE panes[focus].entries[CHOOSE i \in at : TRUE]

-----------------------------------------------------------------------------
(* Listings.                                                               *)

\* Where a listing puts the cursor of p: on the entry to be revealed, counted in
\* the listing, whatever the filter leaves of it.
Revealed(p, entries) ==
    IF p.reveal \in Range(entries)
        THEN (CHOOSE i \in 1 .. Len(entries) : entries[i] = p.reveal) - 1
        ELSE p.cursor

\* p takes entries for the listing of dir.
Filled(p, dir, entries) ==
    [p EXCEPT !.cwd = dir, !.listed = dir, !.entries = entries,
              !.cursor = Revealed(p, entries), !.reveal = NoName]

\* reloadLocal, with p the pane as the key left it: read at once, or refused.
ReloadLocal(p) ==
    /\ \/ panes' = [panes EXCEPT !["local"] = p]
       \/ \E entries \in Listings(p.cwd) :
             panes' = [panes EXCEPT !["local"] =
                          ClampScroll("local", Filled(p, p.cwd, entries), focus, query)]
    /\ UNCHANGED replies

\* loadInto, with p the pane as the key left it.
LoadInto(p, dir) ==
    /\ panes' = [panes EXCEPT !["remote"] = [p EXCEPT !.pending = dir]]
    /\ replies' = replies (+) SetToBag({dir})

\* applySession: the remote pane opens where the login landed.
ApplySession ==
    /\ ~ready
    /\ ready' = TRUE
    /\ LoadInto([panes["remote"] EXCEPT !.cursor = 0, !.offset = 0], Home)
    /\ UNCHANGED <<focus, query, filtering, size>>

\* remoteEntriesMsg, applyEntries: dropped unless it is of the directory waited
\* for; the listing refused, or drawn.  No server lists "".
ApplyEntries(dir) ==
    LET p == [panes["remote"] EXCEPT !.pending = NoDir]
    IN  /\ BagIn(dir, replies)
        /\ replies' = replies (-) SetToBag({dir})
        /\ \/ dir # panes["remote"].pending /\ UNCHANGED panes
           \/ dir = panes["remote"].pending /\ panes' = [panes EXCEPT !["remote"] = p]
           \/ /\ dir = panes["remote"].pending /\ dir # NoDir
              /\ \E entries \in Listings(dir) :
                    panes' = [panes EXCEPT !["remote"] =
                                 ClampScroll("remote", Filled(p, dir, entries), focus, query)]
        /\ UNCHANGED <<focus, query, filtering, ready, size>>

-----------------------------------------------------------------------------
(* Keys.                                                                   *)

\* newFilesModel: the local pane is read at once, the remote one waits.
Init ==
    /\ panes = [side \in Sides |-> IF side = "local" THEN [NoPane EXCEPT !.cwd = Home]
                                                     ELSE NoPane]
       \/ \E entries \in Listings(Home) :
             panes = [side \in Sides |-> IF side = "local" THEN Filled(NoPane, Home, entries)
                                                           ELSE NoPane]
    /\ focus \in Sides
    /\ query = Names /\ filtering = FALSE
    /\ ready = FALSE
    /\ replies = EmptyBag
    /\ height \in Heights \union {0} /\ narrow \in BOOLEAN

\* tea.WindowSizeMsg: the size is noted, and the windows are left where they are.
Resize(h, n) ==
    /\ height' = h /\ narrow' = n
    /\ UNCHANGED <<panes, focus, query, filtering, ready, replies>>

\* cursorTo, for the arrows, the page keys, home and end.
CursorTo(row) ==
    /\ ~filtering
    /\ panes' = [panes EXCEPT ![focus] =
                    ClampScroll(focus, [@ EXCEPT !.cursor = row], focus, query)]
    /\ UNCHANGED <<focus, query, filtering, ready, replies, size>>

rowsAsked ==
    LET c == panes[focus].cursor
    IN  {c - 1, c + 1, c - paneRows, c + paneRows, 0, rows(focus) - 1}

\* tab, also out of the filter line: the filter goes along with the keyboard.
SwitchPane ==
    LET f == Other(focus)
    IN  /\ focus' = f
        /\ panes' = [side \in Sides |-> ClampScroll(side, panes[side], f, query)]
        /\ filtering' = FALSE
        /\ UNCHANGED <<query, ready, replies, size>>

\* The filter matches q from now on.
Narrow(q) ==
    /\ query' = q
    /\ panes' = [panes EXCEPT ![focus] = ClampScroll(focus, @, focus, q)]
    /\ UNCHANGED <<focus, ready, replies, size>>

StartFilter == ~filtering /\ filtering' = TRUE /\ Narrow(Names)
Type(q) == filtering /\ filtering' = TRUE /\ Narrow(q)
KeepFilter == filtering /\ filtering' = FALSE /\ Narrow(query)
ClearFilter == (filtering \/ query # Names) /\ filtering' = FALSE /\ Narrow(Names)

mayAsk == BagCardinality(replies) < MaxReplies

\* The focused pane becomes p, and asks for dir if it has whom to ask.
Walk(p, dir) ==
    /\ ~filtering
    /\ IF focus = "local" THEN ReloadLocal([p EXCEPT !.cwd = dir])
       ELSE IF ready THEN mayAsk /\ LoadInto(p, dir)
       ELSE panes' = [panes EXCEPT ![focus] = p] /\ UNCHANGED replies
    /\ UNCHANGED <<focus, query, filtering, ready, size>>

\* enter on a directory: openEntry, descend.
Descend ==
    /\ current \in Folders
    /\ Walk([panes[focus] EXCEPT !.cursor = 0, !.offset = 0, !.reveal = NoName],
            Child(panes[focus].listed, current))

\* Fault: the directory left is not the one to be revealed.
GoUpUnrevealed ==
    LET cwd == panes[focus].cwd
    IN  /\ Parent(cwd) # cwd
        /\ Walk([panes[focus] EXCEPT !.reveal = NoName], Parent(cwd))

\* left: goUp.
GoUp ==
    LET cwd == panes[focus].cwd
    IN  /\ Parent(cwd) # cwd
        /\ Walk([panes[focus] EXCEPT !.reveal = Base(cwd)], Parent(cwd))

\* r: reload.
Reload == Walk(panes[focus], panes[focus].cwd)

Key ==
    \/ \E row \in rowsAsked : CursorTo(row)
    \/ SwitchPane
    \/ StartFilter \/ KeepFilter \/ ClearFilter
    \/ \E q \in Queries : Type(q)
    \/ Descend \/ GoUp \/ Reload

Next ==
    \/ \E h \in Heights, n \in BOOLEAN : Resize(h, n)
    \/ ApplySession
    \/ \E dir \in BagToSet(replies) : ApplyEntries(dir)
    \/ Key

Spec == Init /\ [][Next]_paneVars

-----------------------------------------------------------------------------
\* The rows of a pane that has any are the ones the cursor counts through, the
\* filter's while it is narrowed: enter and c act on a row that is drawn.
CursorCountsRows ==
    \A side \in Sides :
        IF visible(side) = {} THEN panes[side].cursor = 0 /\ panes[side].offset = 0
                              ELSE panes[side].cursor < rows(side)

placed(side) == <<panes[side].cursor, panes[side].offset,
                  [i \in visible(side) |-> panes[side].entries[i]]>>

Framed(side) ==
    LET p == panes[side]
    IN  /\ p.offset <= p.cursor /\ p.cursor < p.offset + paneRows
        /\ p.offset > 0 => p.offset + paneRows <= rows(side)

\* Whatever moved the rows of a pane, a key in it, a query, the keyboard leaving
\* it or a listing arriving while the user is elsewhere, its cursor is on a row
\* that is drawn and no line is left empty with an entry hidden above it
\* (filebrowser.go:528-546).
PanesFollowCursor ==
    /\ []CursorCountsRows
    /\ [][\A side \in Sides : placed(side)' # placed(side) => Framed(side)']_paneVars

\* The files under the remote path are that directory's, and what the pane waits
\* for is on its way, whatever was asked, refused and answered in between: the
\* reply that is waited for is never the one dropped (filebrowser.go:344-351).
RemoteShowsItsListing ==
    LET p == panes["remote"]
    IN  p.listed = p.cwd /\ (p.pending # NoDir => BagIn(p.pending, replies))

\* Stepping back up out of a directory leaves the cursor on it, if it is still
\* there and no query hides rows, however long the listing took and whatever else
\* was asked for first (filebrowser.go:136-138).
StepsBackOntoIt ==
    [][\A side \in Sides :
          LET left == Base(panes[side].cwd)
              p == panes[side]'
          IN  /\ p.cwd # panes[side].cwd /\ p.cwd = Parent(panes[side].cwd)
              /\ p.reveal = NoName /\ left \in Range(p.entries)
              /\ visible(side)' = DOMAIN p.entries
              => p.entries[p.cursor + 1] = left]_paneVars

\* What enter on a file and c ask beginTransfer for: the entry's own path, and a
\* name in the other pane's directory.
Request == [from |-> Child(panes[focus].listed, current), into |-> panes[Other(focus)].cwd]

(* Claims of the code that do not hold.                                    *)

\* filebrowser.go:123-124 says the directory the pane names is the one it shows.
\* descend and goUp name the new one before it is read: refused, the local pane
\* holds the old files under the new path, and a download goes where the path says.
PathIsOfTheRows ==
    \A side \in Sides : panes[side].entries # <<>> => panes[side].listed = panes[side].cwd

\* filebrowser.go:136-138 without the condition on the query: reveal is looked for
\* in the whole listing while the cursor counts the rows that match.
StepsBackUnderAFilter ==
    [][\A side \in Sides :
          LET left == Base(panes[side].cwd)
              p == panes[side]'
          IN  /\ p.cwd # panes[side].cwd /\ p.cwd = Parent(panes[side].cwd)
              /\ p.reveal = NoName
              => \A i \in visible(side)' :
                    p.entries[i] = left => rowOf(side, i)' = p.cursor]_paneVars

=============================================================================
