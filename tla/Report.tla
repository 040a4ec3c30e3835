------------------------------- MODULE Report -------------------------------
(***************************************************************************)
(* The figures of one scenario on their way to the reader: the rate, the   *)
(* latency bars, and the CSV file, which a goroutine of its own samples    *)
(* (internal/report/csv.go).  Sessions take a clock reading and record it  *)
(* under the ring's lock later; so do the readers of the rate, who advance *)
(* the ring they share.                                                    *)
(***************************************************************************)
EXTENDS Throughput, Buckets

CONSTANTS
  Senders,    \* sessions in flight
  Readers,    \* goroutines that ask for a snapshot: the TUI, the CSV writer
  Names,      \* names of predicates; their order is that of the columns
  Latencies,  \* latencies of replies
  Settings,   \* bucket settings: edges, count, the range of the histogram, and
              \* the largest latency it can store
  MaxLag,     \* bound: slots between a clock reading and its use
  MaxTime,    \* bound: slots
  MaxSent,    \* bound: requests of a run
  MaxRestarts

\* Less than a second passes between a reading and its use.
ASSUME ReportAssumption ==
  /\ MaxTime \in Nat /\ MaxLag \in Nat /\ MaxLag < BucketCount
  /\ Names \subseteq Nat /\ Latencies \subseteq Int
\* The range of a histogram begins at 1, and its end can be stored.
ASSUME SettingsAssumption ==
  /\ Settings \subseteq [edges : Seq(Int), count : Int, maxUs : Nat \ {0}, top : Nat]
  /\ \A bounds \in Settings : bounds.maxUs <= bounds.top

VARIABLES
  clock,
  ring, reading,  \* the ring, and the reading each sender is about to record
  asked,          \* the reading with which each reader is about to take the rate
  recorded,       \* history: the events recorded for each slot since the last reset
  setting, bars,  \* the latency bars
  latencies,      \* history: how often each latency was recorded since the last reset
  sent, received, matched,  \* the figures; matched covers the names seen so far
  running, restarts,
  writer,         \* where the CSV writer's goroutine is
  predicateCols, header,
  last            \* the last row of the file

ringVars == <<ring, reading, asked, recorded>>
barVars == <<setting, bars, latencies>>
figureVars == <<sent, received, matched>>
runVars == <<running, restarts>>
csvVars == <<writer, predicateCols, header, last>>
vars == <<clock, ringVars, barVars, figureVars, runVars, csvVars>>

Edges == ResolveBuckets(setting, setting.maxUs)
NoBars == [i \in 1..Len(Edges) + 1 |-> 0]
NoLatencies == [us \in 1..setting.top |-> 0]
Nothing == [name \in {} |-> 0]
\* Before the first row there is no header.
NoHeader == <<Never>>
NoRow == [sent |-> 0, received |-> 0, counts |-> <<>>]

Init ==
  /\ clock = 0
  /\ ring = FreshRing(0) /\ reading = [s \in Senders |-> Never]
  /\ asked = [r \in Readers |-> Never]
  /\ recorded = [slot \in 0..MaxTime |-> 0]
  /\ setting \in Settings /\ bars = NoBars /\ latencies = NoLatencies
  /\ sent = 0 /\ received = 0 /\ matched = Nothing
  /\ running = TRUE /\ restarts = 0
  /\ writer = "start" /\ predicateCols = <<>> /\ header = NoHeader /\ last = NoRow

-----------------------------------------------------------------------------
(* The run. *)

\* Time passes; no reading gets older than MaxLag.
Pass ==
  /\ clock < MaxTime
  /\ \A s \in Senders : reading[s] # Never => clock - reading[s] < MaxLag
  /\ clock' = clock + 1
  /\ UNCHANGED <<ringVars, barVars, figureVars, runVars, csvVars>>

\* SubmitSent: counted, and the clock read.
SubmitSent(s) ==
  /\ running /\ reading[s] = Never /\ sent < MaxSent
  /\ sent' = sent + 1
  /\ reading' = [reading EXCEPT ![s] = clock]
  /\ UNCHANGED <<clock, ring, asked, recorded, barVars, received, matched, runVars, csvVars>>

\* Throughput.Record under its lock.
Record(s) ==
  /\ reading[s] # Never
  /\ ring' = RecordEvent(ring, reading[s])
  /\ recorded' = [recorded EXCEPT ![reading[s]] = @ + 1]
  /\ reading' = [reading EXCEPT ![s] = Never]
  /\ UNCHANGED <<clock, asked, barVars, figureVars, runVars, csvVars>>

\* Snapshot asks for the rate: the clock is read, and the ring advanced to that
\* reading under the lock.
AskRate(r) ==
  /\ asked[r] = Never
  /\ asked' = [asked EXCEPT ![r] = clock]
  /\ UNCHANGED <<clock, ring, reading, recorded, barVars, figureVars, runVars, csvVars>>
TakeRate(r) ==
  /\ asked[r] # Never
  /\ ring' = Advance(ring, asked[r])
  /\ asked' = [asked EXCEPT ![r] = Never]
  /\ UNCHANGED <<clock, reading, recorded, barVars, figureVars, runVars, csvVars>>

\* Collector.apply: a reply, and the predicate it matched; what the late ones
\* find is the same while the run drains.
Apply(name, us) ==
  /\ running /\ received < sent
  /\ received' = received + 1
  /\ LET v == Clamp(us, setting.maxUs, setting.top)
     IN /\ bars' = [bars EXCEPT ![BarOf(UpperEnd(v), Edges)] = @ + 1]
        /\ latencies' = [latencies EXCEPT ![v] = @ + 1]
  /\ matched' = [n \in DOMAIN matched \cup {name} |->
                  (IF n \in DOMAIN matched THEN matched[n] ELSE 0)
                  + (IF n = name THEN 1 ELSE 0)]
  /\ UNCHANGED <<clock, ringVars, setting, sent, runVars, csvVars>>

\* The run ends, its sessions and the collector drained.
Finish ==
  /\ running /\ \A s \in Senders : reading[s] = Never
  /\ running' = FALSE
  /\ UNCHANGED <<clock, ringVars, barVars, figureVars, restarts, csvVars>>

\* Restart: ResetAll keeps the names.
Restart ==
  /\ ~running /\ restarts < MaxRestarts /\ writer \in {"start", "sample"}
  /\ running' = TRUE /\ restarts' = restarts + 1
  /\ ring' = FreshRing(clock) /\ recorded' = [slot \in 0..MaxTime |-> 0]
  /\ bars' = NoBars /\ latencies' = NoLatencies
  /\ sent' = 0 /\ received' = 0
  /\ matched' = [n \in DOMAIN matched |-> 0]
  /\ UNCHANGED <<clock, reading, asked, setting, csvVars>>

-----------------------------------------------------------------------------
(* The CSV writer. *)

\* New names are sorted in with the others, where the header cannot follow.
Reconciled ==
  CHOOSE cols \in SetToSeqs(Range(predicateCols) \cup DOMAIN matched) :
    StrictlyIncreasing(cols)

WriteRow ==
  /\ predicateCols' = Reconciled
  /\ header' = IF header = NoHeader THEN predicateCols' ELSE header
  /\ last' = [sent |-> sent, received |-> received,
              counts |-> [i \in DOMAIN predicateCols' |-> matched[predicateCols'[i]]]]

WriterOnly == UNCHANGED <<clock, ringVars, barVars, figureVars, runVars>>

\* loop: a row at once, so that very short runs have one; then one at each tick.
FirstRow == writer = "start" /\ WriteRow /\ writer' = "sample" /\ WriterOnly
TickRow == writer \in {"sample", "stop"} /\ WriteRow /\ UNCHANGED writer /\ WriterOnly

\* Stop, which the cleanup calls once the run has ended; the goroutine may
\* still find its ticker first.
CloseDone ==
  /\ ~running
  /\ writer \in {"start", "sample"}
  /\ writer' = IF writer = "start" THEN "startStop" ELSE "stop"
  /\ UNCHANGED <<predicateCols, header, last>> /\ WriterOnly
FirstRowStopped ==
  /\ writer = "startStop" /\ WriteRow /\ writer' = "stop" /\ WriterOnly

\* Leaves at once.
FinalRow_None ==
  writer = "stop" /\ writer' = "closed" /\ UNCHANGED <<predicateCols, header, last>>
  /\ WriterOnly

\* One last row, the flush, and the file is closed.
FinalRow == writer = "stop" /\ WriteRow /\ writer' = "closed" /\ WriterOnly

Next ==
  \/ Pass \/ Finish \/ Restart
  \/ \E s \in Senders : SubmitSent(s) \/ Record(s)
  \/ \E r \in Readers : AskRate(r) \/ TakeRate(r)
  \/ \E name \in Names, us \in Latencies : Apply(name, us)
  \/ FirstRow \/ TickRow \/ CloseDone \/ FirstRowStopped \/ FinalRow

Spec == Init /\ [][Next]_vars

-----------------------------------------------------------------------------
(* Properties. *)

Window == {slot \in 0..clock : slot > clock - BucketCount}

\* MSG/SEC counts exactly the events of the last second, slot for slot,
\* however late the clock readings of other sessions and readers arrive
\* (throughput.go:62-81, 93-99).  The time it divides them by, that since the
\* first record (throughput.go:83-91), may be too short for the oldest of them,
\* but by no more than the lag of a reading.
RateCountsTheWindow ==
  LET r == Rate(ring, clock)
  IN /\ r.events = SumFunctionOnSet(recorded, Window)
     /\ \A slot \in Window : recorded[slot] > 0 => clock - slot <= r.over + MaxLag

\* A closed file ends with the final figures, of every predicate that matched,
\* whatever ticks and Restarts came before.
FileEndsFinal ==
  writer = "closed" =>
    /\ last.sent = sent /\ last.received = received
    /\ DOMAIN matched = Range(predicateCols)
    /\ \A i \in DOMAIN last.counts : last.counts[i] = matched[predicateCols[i]]

\* Every recorded latency is in one bar, the one whose label covers it as far
\* as the histogram tells it from its neighbours, also when rounding makes
\* edges meet or the range is smaller than the number of bars
\* (buckets.go:108-117).
BarsMatchLabels ==
  LET labels == BucketLabels(Edges)
      covered(i) == {us \in DOMAIN latencies :
                      /\ UpperEnd(us) > labels[i].above
                      /\ labels[i].upTo = -1 \/ UpperEnd(us) <= labels[i].upTo}
  IN /\ Len(labels) = Len(bars)
     /\ \A i \in DOMAIN bars : bars[i] = SumFunctionOnSet(latencies, covered(i))
     /\ StrictlyIncreasing(Edges) /\ Edges[1] >= 0

\* "Predicate columns are reconciled with what we've seen before so the CSV
\* stays rectangular" (csv.go:124-125): a row has the columns of the header.
Rectangular ==
  header # NoHeader => Len(last.counts) = Len(header)
=============================================================================
