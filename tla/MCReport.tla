------------------------------ MODULE MCReport ------------------------------
(***************************************************************************)
(* Bucket settings for the model checker.                                  *)
(***************************************************************************)
EXTENDS Report

Auto(count, maxUs, top) ==
  [edges |-> <<>>, count |-> count, maxUs |-> maxUs, top |-> top]
Manual(halves, maxUs, top) ==
  [edges |-> halves, count |-> 0, maxUs |-> maxUs, top |-> top]

\* Edges that meet, edges in the wrong order, and ranges narrower than the
\* number of bars.
MCSettings ==
  {Auto(4, 9, 9), Auto(5, 2, 3), Manual(<<1, 2, 3, 0>>, 4, 5)}
=============================================================================
