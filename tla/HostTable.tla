----------------------------- MODULE HostTable ------------------------------
(***************************************************************************)
(* The window of the host list (internal/ui/browser.go): which of the      *)
(* hosts that match the filter are drawn, where the cursor is, and how the *)
(* two follow keys, the filter, new lists and the size of the terminal.    *)
(* Rows are numbered from 0, as in the code; which host a row is, is left  *)
(* to module Browser.                                                      *)
(***************************************************************************)
EXTENDS Integers

CONSTANTS
    MaxHosts, \* bound: the longest list
    Heights   \* heights of the terminal; 0 before it has reported one

HostTableAssumption == MaxHosts \in Nat /\ Heights \subseteq Nat

VARIABLES
    height, \* browserModel.height
    count,  \* len(visible): hosts that match the filter
    cursor, \* the row under the cursor
    offset, \* the first row drawn
    asked   \* the delete question is up, about the row under the cursor

tableVars == <<height, count, cursor, offset, asked>>

Max(a, b) == IF a >= b THEN a ELSE b
Min(a, b) == IF a <= b THEN a ELSE b

HostTableTypeOK ==
    /\ height \in Heights \union {0}
    /\ count \in 0 .. MaxHosts
    /\ cursor \in -1 .. MaxHosts \* -1 after end on an empty list
    /\ offset \in 0 .. MaxHosts
    /\ asked \in BOOLEAN

listChrome == 6
tableHeaderLines == 2
listHeight(h) == IF h = 0 THEN 10 ELSE Max(h - listChrome, 1)

\* How many rows are drawn of n, and whether a line counts the rest.
Room(h) == Max(listHeight(h) - tableHeaderLines, 1)
Overflow(n, h) == n > Room(h) /\ Room(h) > 1

Rows(n, h) == IF Overflow(n, h) THEN Room(h) - 1 ELSE Room(h)

\* Fault: a cursor below the window is scrolled to one row too late.
ClampedLate(c, o, n, rows) ==
    LET follow == IF c < o THEN c ELSE IF c > o + rows THEN c - rows + 1 ELSE o
    IN  Max(Min(follow, Max(n - rows, 0)), 0)

\* clampScroll: the offset that shows row c of n, moving the window at o no more
\* than it must.
Clamped(c, o, n, rows) ==
    LET follow == IF c < o THEN c ELSE IF c >= o + rows THEN c - rows + 1 ELSE o
    IN  Max(Min(follow, Max(n - rows, 0)), 0)

Init ==
    /\ height = 0
    /\ count \in 0 .. MaxHosts
    /\ cursor = 0
    /\ offset = 0
    /\ asked = FALSE

\* The cursor goes to row c of a list of n, and clampScroll follows it from o.
Show(c, o, n) ==
    /\ cursor' = c
    /\ count' = n
    /\ offset' = Clamped(c, o, n, Rows(n, height))

\* tea.WindowSizeMsg: the size is noted, and the window is left where it is.
Resize(h) ==
    /\ height' = h
    /\ UNCHANGED <<count, cursor, offset, asked>>

pageSize == Max(Rows(count, height), 1)

\* Fault: nothing stops the cursor at the last row.
MoveUnstopped(delta) ==
    /\ ~asked /\ count > 0
    /\ Show(Max(cursor + delta, 0), offset, count)
    /\ UNCHANGED <<height, asked>>

\* up, down, pgup and pgdown.
Move(delta) ==
    /\ ~asked /\ count > 0
    /\ Show(Min(Max(cursor + delta, 0), count - 1), offset, count)
    /\ UNCHANGED <<height, asked>>

\* home and end, which do not ask whether there is a row.
Jump(c) ==
    /\ ~asked
    /\ c \in {0, count - 1}
    /\ Show(c, offset, count)
    /\ UNCHANGED <<height, asked>>

\* applyFilter leaves the cursor in range of the n hosts that match now.
InRange(c, n) == Max(Min(c, n - 1), 0)

Filter(n) ==
    /\ ~asked
    /\ Show(InRange(cursor, n), 0, n)
    /\ UNCHANGED <<height, asked>>

\* hostAdded: the list as it reads after an add, refiltered, and the new host
\* revealed at row c unless the filter hides it.  The question, if one is up,
\* goes with the mode.
HostAdded(n) ==
    /\ \E c \in {InRange(cursor, n)} \union 0 .. n - 1 :
          Show(c, Clamped(InRange(cursor, n), 0, n, Rows(n, height)), n)
    /\ asked' = FALSE
    /\ UNCHANGED height

\* hostRemoved: the cursor and the window stay where they were, as far as the
\* list that came back allows.
HostRemoved(n) ==
    /\ Show(Min(Max(cursor, 0), Max(n - 1, 0)), offset, n)
    /\ UNCHANGED <<height, asked>>

\* X on a row, and the key that answers it.
Ask == ~asked /\ cursor \in 0 .. count - 1 /\ asked' = TRUE /\ UNCHANGED <<height, count, cursor, offset>>
Answer == asked /\ asked' = FALSE /\ UNCHANGED <<height, count, cursor, offset>>

Next ==
    \/ \E h \in Heights : Resize(h)
    \/ \E delta \in {-1, 1, -pageSize, pageSize} : Move(delta)
    \/ \E c \in {0, count - 1} : Jump(c)
    \/ \E n \in 0 .. MaxHosts : Filter(n) \/ HostAdded(n) \/ HostRemoved(n)
    \/ Ask \/ Answer

Spec == Init /\ [][Next]_tableVars

-----------------------------------------------------------------------------
Drawn(c) == offset <= c /\ c < offset + Rows(count, height)

\* Whatever becomes of the list under it, the cursor is on a row while there is
\* one: enter, X and U act on a host (browser.go:772-777, 372-374).
CursorOnARow == count > 0 => cursor \in 0 .. count - 1

\* The labels, the rows drawn and the line that counts the rest fit the lines of
\* the table wherever a row fits at all, so that the key hints are never pushed
\* off the bottom (browser.go:1118-1121, 1149-1150).
FrameFits ==
    LET drawn == Min(Rows(count, height), Max(count - offset, 0))
    IN  listHeight(height) > tableHeaderLines =>
            tableHeaderLines + drawn + (IF Overflow(count, height) THEN 1 ELSE 0)
                <= listHeight(height)

\* Each key, filter and new list leaves the cursor on a row, its row on screen and
\* no line of the window empty while a host is hidden above it, also after the
\* terminal has been resized any number of times (browser.go:905-919).
WindowFollowsCursor ==
    /\ [](CursorOnARow /\ FrameFits)
    /\ [][<<cursor, offset, count>>' # <<cursor, offset, count>> /\ count' > 0
             => Drawn(cursor)' /\ (offset > 0 => offset + Rows(count, height) <= count)']_tableVars

(* A claim of the code that does not hold.                                 *)

\* browser.go:112-114 says the row a delete is asked about is still on screen,
\* under the cursor.  A terminal made smaller can have left it outside.
AskedRowIsOnScreen == asked => Drawn(cursor)

=============================================================================
