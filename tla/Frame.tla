------------------------------- MODULE Frame -------------------------------
(***************************************************************************)
(* How the browser fits into its terminal: the columns of the host table   *)
(* (tableLayout, trimToFit, internal/ui/browser.go), and the fields of the *)
(* add form in the lines that are left (lines, internal/ui/hostform.go;    *)
(* formView, cutFrame, browser.go).  What a cell or a field says is here   *)
(* as wide as it is.                                                       *)
(***************************************************************************)
EXTENDS Integers, Sequences

CONSTANTS
    Widths,      \* of the terminal; 0 before it has reported one
    FrameHeights,
    CellWidths   \* of the widest text in each column, over the hosts that match

VARIABLES
    width, height, \* of the terminal
    cells,         \* a width for each column
    form           \* the field the keyboard is on, 0 while the list is up

vars == <<width, height, cells, form>>

Max(a, b) == IF a >= b THEN a ELSE b
Min(a, b) == IF a <= b THEN a ELSE b

Columns == <<"name", "user", "host", "port", "tags">>
Fields == 5

FrameAssumption ==
    /\ Widths \subseteq Nat /\ FrameHeights \subseteq Nat
    /\ CellWidths \subseteq [DOMAIN Columns -> Nat]

FrameTypeOK ==
    /\ width \in Widths \union {0} /\ height \in FrameHeights \union {0}
    /\ cells \in CellWidths
    /\ form \in 0..Fields

-----------------------------------------------------------------------------
(* The columns.                                                            *)

margin == 2
rowIndent == 2
columnGap == 2
headerWidth == 4 \* of every label, in either language
maxColumnWidth == 32
minColumnWidth == 6
minContentWidth == 10

\* contentWidth, of a terminal that has reported its width or has not.
contentWidth == Max((IF width = 0 THEN 80 ELSE Max(width, margin)) - margin, minContentWidth)

budget == contentWidth - rowIndent

\* A column is as wide as what is in it, up to a point.
Measured == [c \in DOMAIN Columns |-> Min(Max(headerWidth, cells[c]), maxColumnWidth)]

\* The columns of a row that has any, and the gaps between them.
totalWidth(widths) ==
    LET taken(c) == IF c \in DOMAIN widths THEN columnGap + widths[c] ELSE 0
    IN  taken(1) + taken(2) + taken(3) + taken(4) + taken(5) - columnGap

\* The columns that may be given up, in that order.
dropOrder == <<"tags", "port", "user">>

Fits(widths) == totalWidth(widths) <= budget

\* What is left when the first n are gone.
After(n) ==
    LET gone == {dropOrder[i] : i \in 1..n}
    IN  [c \in {d \in DOMAIN Columns : Columns[d] \notin gone} |-> Measured[c]]

\* Columns go one at a time until the row fits or only those that must stay are left.
Dropped ==
    CHOOSE n \in 0..Len(dropOrder) :
       /\ n = Len(dropOrder) \/ Fits(After(n))
       /\ \A m \in 0..n - 1 : ~Fits(After(m))

\* The first of the widest columns.
Widest(widths) ==
    CHOOSE c \in DOMAIN widths :
       \A d \in DOMAIN widths : widths[d] < widths[c] \/ (widths[d] = widths[c] /\ c <= d)

\* trimToFit: a turn of its loop, and n of them.
Trim(widths) ==
    LET c == Widest(widths)
    IN  IF widths[c] <= minColumnWidth THEN widths ELSE [widths EXCEPT ![c] = @ - 1]

Trimmed[n \in Nat] == IF n = 0 THEN After(Dropped) ELSE Trim(Trimmed[n - 1])

\* Fault: one column pays for all.
LayoutOfOne ==
    LET left == After(Dropped)
        c == Widest(left)
        over == totalWidth(left) - budget
    IN  IF over <= 0 THEN left ELSE [left EXCEPT ![c] = Max(@ - over, minColumnWidth)]

\* tableLayout: the columns of a row and their widths.
tableLayout ==
    LET over == totalWidth(After(Dropped)) - budget
    IN  Trimmed[Max(over, 0)]

-----------------------------------------------------------------------------
(* The lines of the add form.                                              *)

listChrome == 6
listHeight == IF height = 0 THEN 10 ELSE Max(Max(height, listChrome) - listChrome, 1)

\* The lines hostForm is given, and the lines of the frame around it.
formRows == 2 + listHeight
Above == 2
Below == 2

\* Fault: the fields are drawn from the first on, wherever the keyboard is.
StartAtTop == 1

\* The first field drawn.
Start == IF Fields > formRows THEN Min(form, Fields - formRows + 1) ELSE 1

\* The fields on screen: those lines draws, less what cutFrame takes off the bottom.
Drawn ==
    LET lines == IF height = 0 THEN formRows ELSE Min(Max(height, Above) - Above, formRows)
    IN  {f \in 1..Fields : f >= Start /\ f < Start + lines}

-----------------------------------------------------------------------------
Init ==
    /\ width = 0 /\ height = 0 /\ form = 0
    /\ cells \in CellWidths

\* tea.WindowSizeMsg.
Resize ==
    /\ width' \in Widths /\ height' \in FrameHeights
    /\ UNCHANGED <<cells, form>>

\* The filter, an add or a removal leave other hosts to be measured.
Relist ==
    /\ form = 0
    /\ cells' \in CellWidths
    /\ UNCHANGED <<width, height, form>>

OpenForm == form = 0 /\ form' = 1 /\ UNCHANGED <<width, height, cells>>

\* focusOn, the field after or before, wrapping at either end.
FocusOn ==
    /\ form # 0
    /\ \E step \in {1, Fields - 1} : form' = ((form - 1 + step) % Fields) + 1
    /\ UNCHANGED <<width, height, cells>>

CloseForm == form # 0 /\ form' = 0 /\ UNCHANGED <<width, height, cells>>

Next == Resize \/ Relist \/ OpenForm \/ FocusOn \/ CloseForm

Spec == Init /\ [][Next]_vars

-----------------------------------------------------------------------------
(* Properties.                                                             *)

\* The narrowest terminal on which an alias and an address have their least width.
Narrowest == margin + rowIndent + 2 * minColumnWidth + columnGap

\* No row is wider than its line, on which it would wrap and take a line of the frame
\* (browser.go:986-998, 1020-1035, 1198-1200).
RowFits ==
    width = 0 \/ width >= Narrowest => rowIndent + totalWidth(tableLayout) <= contentWidth

\* The alias and the address stay; the others are given up the least wanted first, and
\* none of which the row would have had room for (browser.go:944-946).
GivenUpInOrder ==
    LET layout == DOMAIN tableLayout
        left == {Columns[c] : c \in layout}
    IN  /\ {"name", "host"} \subseteq left
        /\ \E n \in 0..Len(dropOrder) :
              /\ \A i \in DOMAIN dropOrder : dropOrder[i] \in left <=> i > n
              /\ n > 0 => ~Fits([c \in layout \union {d \in DOMAIN Columns : Columns[d] = dropOrder[n]}
                                    |-> Measured[c]])

\* What is short is taken off the widest columns alike, and no more than is short
\* (browser.go:1020-1021).
CutEvenly ==
    LET layout == tableLayout
        cut == {c \in DOMAIN layout : layout[c] < Measured[c]}
    IN  /\ \A c \in cut, d \in DOMAIN layout : layout[d] <= layout[c] + 1
        /\ cut # {} => totalWidth(layout) >= budget

\* The field the keyboard is on is drawn (hostform.go:163-166).
FocusIsDrawn == form # 0 /\ (height = 0 \/ height >= Above + 3) => form \in Drawn

\* What the browser draws fits its terminal and leaves out the right things.
FrameFits == RowFits /\ GivenUpInOrder /\ CutEvenly /\ FocusIsDrawn

(* Claims of the code that do not hold.                                    *)

\* hostform.go:163-165 says that "the one being typed on is always drawn".  The lines
\* are counted for a terminal of five lines or more: on a shorter one cutFrame takes the
\* last fields off.
FocusIsAlwaysDrawn == form # 0 => form \in Drawn

=============================================================================
