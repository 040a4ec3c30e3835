------------------------------ MODULE LogBuffer ------------------------------
(***************************************************************************)
(* The log ring of one scenario in the dashboard and its scroll position   *)
(* (internal/tui/log.go), and the window that lists show around the        *)
(* selected entry (windowAround of internal/tui/picker.go).                *)
(***************************************************************************)
EXTENDS Integers, Sequences

CONSTANT
  MaxLogLines,  \* the size of the ring
  Page          \* lines scrolled by one key

EmptyLog == [lines |-> <<>>, scroll |-> 0]

Larger(a, b) == IF a > b THEN a ELSE b
Smaller(a, b) == IF a < b THEN a ELSE b

\* The scroll offset counts from the bottom; an eviction takes it along.
AppendLine(b, line) ==
  LET all == Append(b.lines, line)
      drop == Larger(0, Len(all) - MaxLogLines)
  IN [lines |-> SubSeq(all, drop + 1, Len(all)), scroll |-> Larger(0, b.scroll - drop)]

ScrollUp(b) == [b EXCEPT !.scroll = Smaller(@ + Page, Len(b.lines))]
ScrollDown(b) == [b EXCEPT !.scroll = Larger(0, @ - Page)]

\* The lines [first, last] that a view of this height shows.
Visible(b, height) ==
  LET last == Larger(0, Len(b.lines) - b.scroll)
  IN [first |-> Larger(0, last - height) + 1, last |-> last]

\* The rows [first, last] of a list of this length, of which rows fit, with
\* the selected one among them.
WindowAround(selected, length, rows) ==
  IF length <= rows THEN [first |-> 1, last |-> length]
  ELSE LET start == Larger(0, selected - 1 - rows \div 2)
           end == Smaller(length, start + rows)
       IN [first |-> end - rows + 1, last |-> end]

Shows(window, i) == window.first <= i /\ i <= window.last
=============================================================================
