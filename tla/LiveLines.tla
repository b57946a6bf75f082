----------------------------- MODULE LiveLines ------------------------------
(***************************************************************************)
(* The progress of a transfer on the command line                          *)
(* (internal/ui/progress.go): two lines that are drawn over and over in    *)
(* place, by moving the cursor back up by one row.  A line wider than the  *)
(* terminal takes more rows than that.                                     *)
(*                                                                         *)
(* The terminal is the rows from the one above the cursor, where the       *)
(* command was typed, on down; it scrolls as far as it has to.             *)
(***************************************************************************)
EXTENDS Naturals, Sequences

CONSTANTS
    Terminals,   \* widths of the terminal; 0 stands for a file or a pipe
    LabelWidths, \* of the wider of the two labels
    TailWidths,  \* of the wider of "rate, time left" and "files, bytes"
    MaxRows      \* bound on what is printed

LiveLinesAssumption ==
    /\ Terminals \subseteq Nat /\ LabelWidths \subseteq 1..24 /\ TailWidths \subseteq Nat \ {0}
    /\ MaxRows \in Nat

VARIABLES
    columns,  \* the width of the terminal
    width,    \* TransferProgress.width, taken when the transfer began
    rows,     \* what is on each row
    row,      \* the row of the cursor
    drawn,    \* TransferProgress.drawn
    disturbed \* something other than the display has written or been resized

vars == <<columns, width, rows, row, drawn, disturbed>>

LiveLinesTypeOK ==
    /\ columns \in Terminals /\ width \in Terminals
    /\ rows \in Seq({"typed", "file", "all", "rest", "log", "done", "blank"})
    /\ row \in DOMAIN rows
    /\ drawn \in BOOLEAN /\ disturbed \in BOOLEAN

-----------------------------------------------------------------------------
(* liveFrame: how wide the two lines are.                                  *)

liveIndent == 2
liveGap == 2
minBarWidth == 10

\* The columns of a line beside its bar.
Beside(parts) == liveIndent + (IF parts.label = 0 THEN 0 ELSE parts.label + liveGap)
                            + (IF parts.tail = 0 THEN 0 ELSE parts.tail + liveGap)

\* The tails are given up before the labels, and both before the bar.
Shown(label, tail) ==
    LET tries == <<[label |-> label, tail |-> tail], [label |-> label, tail |-> 0],
                   [label |-> 0, tail |-> 0]>>
        roomy(k) == Beside(tries[k]) + minBarWidth <= width
    IN  IF roomy(1) THEN tries[1] ELSE IF roomy(2) THEN tries[2] ELSE tries[3]

\* Fault: the gap beside the tail is not counted.
LineWidthUncounted(label, tail) ==
    LET parts == Shown(label, tail)
        left == Beside(parts) + minBarWidth
    IN  (IF width > left THEN width ELSE left) + (IF parts.tail = 0 THEN 0 ELSE liveGap)

\* The bar takes what is left of the line, ten columns at the least.
LineWidth(label, tail) ==
    LET left == Beside(Shown(label, tail)) + minBarWidth
    IN  IF width > left THEN width ELSE left

-----------------------------------------------------------------------------
(* Writing to the terminal.                                                *)

\* What is written at row r: a text, and as many rows more as it is too wide by.
Put(screen, r, text, wide) ==
    LET more == (wide - 1) \div columns
    IN  [k \in 1..(IF r + more > Len(screen) THEN r + more ELSE Len(screen)) |->
           IF k = r THEN text ELSE IF k \in r + 1..r + more THEN "rest" ELSE screen[k]]

EndOf(r, wide) == r + ((wide - 1) \div columns)

\* The cursor goes to row r, which a newline has made if there was none.
GoTo(screen, r) ==
    /\ row' = r
    /\ rows' = IF r > Len(screen) THEN Append(screen, "blank") ELSE screen

Init ==
    /\ columns \in Terminals /\ width = columns
    /\ rows = <<"typed", "blank">> /\ row = 2
    /\ drawn = FALSE /\ disturbed = FALSE

\* Fault: the first frame of all, too, goes back up.
TopAlways == row - 1

\* The row the next frame begins on.
Top == IF drawn THEN row - 1 ELSE row

\* Update, on a terminal: both lines are wiped and written.
Redraw ==
    /\ width > 0
    /\ \E label \in LabelWidths, tail \in TailWidths :
          LET wide == LineWidth(label, tail)
              first == Put(rows, Top, "file", wide)
              second == EndOf(Top, wide) + 1
              padded == IF second > Len(first) THEN Append(first, "blank") ELSE first
              both == Put(padded, second, "all", wide)
          IN  /\ Len(both) <= MaxRows
              /\ rows' = both /\ row' = EndOf(second, wide)
    /\ drawn' = TRUE
    /\ UNCHANGED <<columns, width, disturbed>>

\* Update, anywhere else: a line for a file that is done, and nothing for any other.
PrintDone ==
    /\ width = 0 /\ row < MaxRows
    /\ GoTo([rows EXCEPT ![row] = "done"], row + 1)
    /\ UNCHANGED <<columns, width, drawn, disturbed>>

\* Fault: the display is closed without a line of its own.
DoneInPlace ==
    /\ width > 0 /\ drawn
    /\ drawn' = FALSE
    /\ UNCHANGED <<columns, width, rows, row, disturbed>>

\* Done: what is printed next is on a row of its own.
Done ==
    /\ width > 0 /\ drawn /\ row < MaxRows
    /\ GoTo(rows, row + 1)
    /\ drawn' = FALSE
    /\ UNCHANGED <<columns, width, disturbed>>

\* The terminal is resized; the display goes on with the width it began with.
Resize ==
    /\ columns > 0
    /\ columns' \in Terminals \ {0, columns}
    /\ disturbed' = TRUE
    /\ UNCHANGED <<width, rows, row, drawn>>

\* Another goroutine logs: the keepalive, that the link is dead.
Log ==
    /\ width > 0 /\ row < MaxRows
    /\ GoTo([rows EXCEPT ![row] = "log"], row + 1)
    /\ disturbed' = (disturbed \/ drawn)
    /\ UNCHANGED <<columns, width, drawn>>

Next == Redraw \/ PrintDone \/ Done \/ Resize \/ Log

Spec == Init /\ [][Next]_vars

-----------------------------------------------------------------------------
(* Properties.                                                             *)

\* The narrowest terminal for an indent and a bar.
Narrowest == liveIndent + minBarWidth

Live == {"file", "all", "rest"}

\* Each display leaves one pair of lines where it began, however many reports there
\* were, and touches nothing above it: the last pair is of the display that is up or has
\* just been closed, and the cursor is on its second line or below it
\* (progress.go:53-55, 79-82, 96-97).
RewritesInPlace ==
    ~disturbed /\ width >= Narrowest =>
       /\ rows[1] = "typed"
       /\ \A k \in DOMAIN rows : rows[k] # "rest"
       /\ \A k \in DOMAIN rows : rows[k] = "file" <=> k < Len(rows) /\ rows[k + 1] = "all"
       /\ drawn => rows[row] = "all" /\ row = Len(rows)
       /\ ~drawn => rows[row] = "blank"

(* Claims of the code that do not hold.                                    *)

\* progress.go:133-135 says why no line may overrun its width: "the cursor moves back
\* over one row and lands in the middle of the line above".  The width is read once: a
\* terminal made narrower in the middle of a transfer has every line overrun.
FrameStaysInPlace == width >= Narrowest => \A k \in DOMAIN rows : rows[k] # "rest"

\* command/transfer.go:173-174 has the display closed "before anything else is written,
\* or the message lands on top of the progress bar".  What the keepalive logs is not
\* held back: the next frame begins on the log's row.
LogsStay ==
    [][\A k \in DOMAIN rows : rows[k] = "log" => rows'[k] = "log"]_vars

=============================================================================
