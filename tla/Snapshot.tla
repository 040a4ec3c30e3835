------------------------------ MODULE Snapshot ------------------------------
(***************************************************************************)
(* Collector.Snapshot (internal/metrics/collector.go) beside a running     *)
(* collector.  The TUI, the CSV writer and the mailer call it from their   *)
(* own goroutines; it reads the counters one by one while the sessions and *)
(* the drain goroutine go on.                                              *)
(***************************************************************************)
EXTENDS Collector

VARIABLES
  reading,   \* how many of ReadOrder's figures Snapshot has read, Idle when not called
  seen,      \* the figures it has read
  wasReset   \* history: ResetAll ran since Snapshot was called

snapVars == <<reading, seen, wasReset>>

Idle == -1
Figures == {"matched", "sent", "received", "errors"}

\* The counters as the sources read them; the histograms have a lock of their own.
Value(figure) ==
  CASE figure = "matched"  -> matched
    [] figure = "sent"     -> sent
    [] figure = "received" -> received
    [] figure = "errors"   -> errors

ReadOrder_CountersFirst == <<"sent", "received", "errors", "matched">>

ReadOrder == <<"matched", "sent", "received", "errors">>

SnapInit ==
  /\ Init
  /\ reading = Idle
  /\ seen = [f \in Figures |-> 0]
  /\ wasReset = FALSE

CallSnapshot ==
  /\ reading = Idle
  /\ reading' = 0
  /\ seen' = [f \in Figures |-> 0]
  /\ wasReset' = FALSE
  /\ UNCHANGED colVars

ReadFigure ==
  /\ reading \in 0 .. Len(ReadOrder) - 1
  /\ reading' = reading + 1
  /\ LET f == ReadOrder[reading + 1] IN seen' = [seen EXCEPT ![f] = Value(f)]
  /\ UNCHANGED <<colVars, wasReset>>

ReturnSnapshot ==
  /\ reading = Len(ReadOrder)
  /\ reading' = Idle
  /\ seen' = [f \in Figures |-> 0]
  /\ UNCHANGED <<colVars, wasReset>>

CollectorStep ==
  /\ Next
  /\ wasReset' = (wasReset \/ (Stopped /\ ResetAll))
  /\ UNCHANGED <<reading, seen>>

SnapNext == CallSnapshot \/ ReadFigure \/ ReturnSnapshot \/ CollectorStep

SnapSpec == SnapInit /\ [][SnapNext]_<<colVars, snapVars>>

Complete == reading = Len(ReadOrder)

-----------------------------------------------------------------------------
(* A snapshot never shows more predicate matches than received replies,    *)
(* although the two are read at different moments: apply counts the reply  *)
(* before its predicate, and Snapshot reads the predicates first           *)
(* (collector.go:248-267, 300-337).  A Restart in between may break it.    *)
MatchedWithinReceived ==
  Complete /\ ~ wasReset => seen["matched"] <= seen["received"]
=============================================================================
