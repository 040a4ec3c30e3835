---------------------------- MODULE DashboardProofs ----------------------------
(***************************************************************************)
(* Proofs about the dashboard and the teardown, for every set of command   *)
(* lines, any number of runners, keys and log lines, and every order of    *)
(* keys, ticks, log lines and ends of runs.                                *)
(***************************************************************************)
EXTENDS Dashboard, FiniteSetTheorems, SequenceTheorems, WellFoundedInduction, TLAPS

-----------------------------------------------------------------------------
(***************************************************************************)
(* The inductive invariant.                                                *)
(***************************************************************************)
States == {"none", "IDLE", "SCRIPT_ERROR", "RUNNING", "STOPPED", "DONE"}

Before == {"resolve", "build", "start"}

Shaped ==
  /\ cmd \in Commands
  /\ loaded \in Seq(DOMAIN Files) /\ Len(loaded) <= MaxRunners
  /\ built \in Nat /\ built <= MaxRunners
  /\ state \in [Ids -> States]
  /\ writer \in [Ids -> {"none", "open", "stopped"}]
  /\ closed \in [Ids -> BOOLEAN]
  /\ listener \in [Ids -> {"none", "waiting", "sending"}]

Typed ==
  /\ Shaped
  /\ main \in Before \cup {"wait", "loop", "quitDone", "cleanup", "abandon",
                           "exited", "failed", "panicked"}

\* The sidebar: distinct runners that were built and that have a listener, and
\* the lists beside it.
Listed ==
  /\ runners \in Seq(Ids) /\ cleanups = runners
  /\ main \in Before => runners = <<>>
  /\ \A i \in DOMAIN runners : runners[i] <= built /\ listener[runners[i]] # "none"
  /\ \A i \in DOMAIN runners : \A j \in DOMAIN runners : runners[i] = runners[j] => i = j
  /\ snapshots \in Seq(States) /\ Len(snapshots) = Len(runners)

\* A ring of lines of runner r, and a scroll offset inside it.
BufferOf(b, r) ==
  /\ b \in [lines : Seq(Ids), scroll : Nat]
  /\ Len(b.lines) <= MaxLogLines /\ b.scroll <= Len(b.lines)
  /\ \A i \in DOMAIN b.lines : b.lines[i] = r

Buffered ==
  /\ logBufs \in Seq([lines : Seq(Ids), scroll : Nat]) /\ Len(logBufs) = Len(runners)
  /\ \A i \in DOMAIN runners : BufferOf(logBufs[i], runners[i])

\* The selection, the one modal, and the runner it asks about.
Focused ==
  /\ selected \in Nat \ {0} /\ (selected <= Len(runners) \/ (runners = <<>> /\ selected = 1))
  /\ open = {} \/ \E m \in {"manual", "confirm", "picker", "browser"} : open = {m}
  /\ main \in Before => open = {}
  /\ "confirm" \in open => removeTarget \in DOMAIN runners /\ runners[removeTarget] = asked

\* The scenarios of the command have their runners, and no summary is printed
\* before the end.
Underway ==
  /\ main \in {"start", "wait"} => built = Len(loaded)
  /\ main = "resolve" => loaded = <<>>
  /\ main # "exited" => summary = <<>>
  /\ TornDown

DashboardInv == Typed /\ Listed /\ Buffered /\ Focused /\ Underway

-----------------------------------------------------------------------------
(***************************************************************************)
(* Operators of the lists.                                                 *)
(***************************************************************************)
\* First is one of them.
LEMMA FirstIsOne ==
  ASSUME NEW S \in SUBSET Nat, S # {}
  PROVE  First(S) \in S
<1>1. PICK m \in S : \A n \in S : <<n, m>> \notin OpToRel(<, Nat)
  BY WFMin, NatLessThanWellFounded
<1>2. \A n \in S : ~(n < m)
  BY <1>1 DEF OpToRel
<1>3. \A n \in S : m <= n
  BY <1>2
<1>. QED
  BY <1>3 DEF First

\* A list without its i-th entry.
LEMMA RemovedAt ==
  ASSUME NEW S, NEW s \in Seq(S), NEW i \in 1..Len(s)
  PROVE  /\ RemoveAt(s, i) \in Seq(S)
         /\ Len(RemoveAt(s, i)) = Len(s) - 1
         /\ \A j \in 1..Len(s) - 1 :
              RemoveAt(s, i)[j] = IF j < i THEN s[j] ELSE s[j + 1]
<1>. DEFINE before == SubSeq(s, 1, i - 1)
            after == SubSeq(s, i + 1, Len(s))
<1>1. /\ before \in Seq(S) /\ Len(before) = i - 1
      /\ \A j \in 1..i - 1 : before[j] = s[j]
  BY SubSeqProperties
<1>2. /\ after \in Seq(S) /\ Len(after) = Len(s) - i
      /\ \A j \in 1..Len(s) - i : after[j] = s[i + j]
  BY SubSeqProperties
<1>3. RemoveAt(s, i) = before \o after
  BY DEF RemoveAt
<1>. HIDE DEF before, after
<1>4. /\ before \o after \in Seq(S) /\ Len(before \o after) = Len(before) + Len(after)
      /\ \A j \in 1..Len(before) + Len(after) :
           (before \o after)[j] = IF j <= Len(before) THEN before[j] ELSE after[j - Len(before)]
  BY <1>1, <1>2, ConcatProperties
<1>. QED
  BY <1>1, <1>2, <1>3, <1>4

\* The window of a list shows the selected entry, however many rows fit.
LEMMA WindowShows ==
  ASSUME NEW length \in Nat, NEW chosen \in 1..length, NEW rows \in Nat \ {0}
  PROVE  Shows(WindowAround(chosen, length, rows), chosen)
<1>1. CASE length <= rows
  BY <1>1 DEF Shows, WindowAround
<1>2. CASE length > rows
  <2>. DEFINE half == rows \div 2
              start == Larger(0, chosen - 1 - half)
              end == Smaller(length, start + rows)
  <2>1. half \in Nat /\ 2 * half <= rows /\ rows < 2 * half + 2
    OBVIOUS
  <2>2. WindowAround(chosen, length, rows) = [first |-> end - rows + 1, last |-> end]
    BY <1>2 DEF WindowAround
  <2>. HIDE DEF half
  <2>3. start \in Nat /\ (start = 0 \/ start = chosen - 1 - half) /\ start >= chosen - 1 - half
    BY <2>1 DEF Larger
  <2>. HIDE DEF start
  <2>4. end \in Nat /\ end <= start + rows /\ end <= length /\ (end = length \/ end = start + rows)
    BY <2>3 DEF Smaller
  <2>. HIDE DEF end
  <2>5. end - rows + 1 <= chosen /\ chosen <= end
    BY <1>2, <2>1, <2>3, <2>4
  <2>. QED
    BY <2>2, <2>5 DEF Shows
<1>. QED
  BY <1>1, <1>2

\* A new line, and the scroll offset that goes with it.
LEMMA Appended ==
  ASSUME NEW r \in Ids, NEW b, BufferOf(b, r)
  PROVE  BufferOf(AppendLine(b, r), r)
<1>. DEFINE all == Append(b.lines, r)
            drop == Larger(0, Len(all) - MaxLogLines)
            kept == SubSeq(all, drop + 1, Len(all))
            scroll == Larger(0, b.scroll - drop)
<1>1. /\ b.lines \in Seq(Ids) /\ b.scroll \in Nat /\ Len(b.lines) \in Nat
      /\ Len(b.lines) <= MaxLogLines /\ b.scroll <= Len(b.lines)
      /\ \A i \in 1..Len(b.lines) : b.lines[i] = r
  BY DEF BufferOf
<1>2. /\ all \in Seq(Ids) /\ Len(all) = Len(b.lines) + 1
      /\ \A i \in 1..Len(all) : all[i] = r
  BY <1>1
<1>3. AppendLine(b, r) = [lines |-> kept, scroll |-> scroll]
  BY DEF AppendLine
<1>. HIDE DEF all
<1>4. drop \in {0, 1} /\ Len(all) - drop <= MaxLogLines
  BY <1>1, <1>2, DashboardAssumption DEF Larger
<1>5. /\ kept \in Seq(Ids) /\ Len(kept) = Len(all) - drop
      /\ \A i \in 1..Len(kept) : kept[i] = r
  <2>1. drop + 1 \in 1..Len(all) + 1 /\ Len(all) \in 0..Len(all)
    BY <1>1, <1>2, <1>4
  <2>. HIDE DEF drop
  <2>. QED
    BY <1>1, <1>2, <1>4, <2>1, SubSeqProperties
<1>6. scroll \in Nat /\ scroll <= Len(all) - drop
  <2>. HIDE DEF drop
  <2>. QED
    BY <1>1, <1>2, <1>4 DEF Larger
<1>. HIDE DEF drop, kept, scroll
<1>. QED
  BY <1>1, <1>2, <1>3, <1>4, <1>5, <1>6 DEF BufferOf

LEMMA Scrolled ==
  ASSUME NEW r \in Ids, NEW b, BufferOf(b, r)
  PROVE  BufferOf(ScrollUp(b), r) /\ BufferOf(ScrollDown(b), r)
<1>1. b.scroll \in Nat /\ Len(b.lines) \in Nat /\ b.scroll <= Len(b.lines)
  BY DEF BufferOf
<1>2. /\ Smaller(b.scroll + Page, Len(b.lines)) \in 0..Len(b.lines)
      /\ Larger(0, b.scroll - Page) \in 0..Len(b.lines)
  BY <1>1, DashboardAssumption DEF Smaller, Larger
<1>. QED
  BY <1>1, <1>2 DEF BufferOf, ScrollUp, ScrollDown

LEMMA NewBuffer ==
  ASSUME NEW r \in Ids
  PROVE  BufferOf(EmptyLog, r)
BY DashboardAssumption DEF BufferOf, EmptyLog

\* What a view of a ring shows lies inside the ring.
LEMMA ViewInside ==
  ASSUME NEW r, NEW b, BufferOf(b, r)
  PROVE  LET v == Visible(b, Page)
         IN 1 <= v.first /\ v.first <= v.last + 1 /\ v.last <= Len(b.lines)
<1>1. b.scroll \in Nat /\ Len(b.lines) \in Nat /\ b.scroll <= Len(b.lines)
  BY DEF BufferOf
<1>. QED
  BY <1>1, DashboardAssumption DEF Visible, Larger

\* At most one modal is open, and it is the one the keys go to.
LEMMA TopIsOpen ==
  ASSUME NEW m \in {"manual", "confirm", "picker", "browser"}, open = {m}
  PROVE  Top = m
<1>. DEFINE shown == {i \in DOMAIN Modals : Modals[i] \in open}
<1>1. PICK i \in 1..4 : Modals[i] = m /\ shown = {i}
  BY DEF Modals
<1>2. First({i}) = i
  BY DEF First
<1>. QED
  BY <1>1, <1>2 DEF Top

LEMMA NothingOnTop ==
  ASSUME Focused, Top = "list"
  PROVE  open = {}
BY TopIsOpen DEF Focused

-----------------------------------------------------------------------------
(***************************************************************************)
(* What a command line names.  FlattenSeq is a recursive function, and     *)
(* FoldLeft one over the sets of places of a list.                         *)
(***************************************************************************)
-----------------------------------------------------------------------------
(***************************************************************************)
(* Numbers, and sums over finite sets.                                     *)
(***************************************************************************)
\* The least of some natural numbers.
LEMMA LeastExists ==
  ASSUME NEW S \in SUBSET Nat, S # {}
  PROVE  \E m \in S : \A n \in S : m <= n
<1>1. PICK m \in S : \A n \in S : <<n, m>> \notin OpToRel(<, Nat)
  BY WFMin, NatLessThanWellFounded
<1>2. \A n \in S : ~(n < m)
  BY <1>1 DEF OpToRel
<1>. QED
  BY <1>2

\* What holds of 0, and of n + 1 whenever of n, holds of every number.
LEMMA EveryNumber ==
  ASSUME NEW A, 0 \in A, \A n \in Nat : n \in A => n + 1 \in A
  PROVE  \A n \in Nat : n \in A
<1>. SUFFICES ASSUME NEW k \in Nat, k \notin A PROVE FALSE
  OBVIOUS
<1>. DEFINE bad == {n \in Nat : n \notin A}
<1>1. PICK m \in bad : \A n \in bad : m <= n
  <2>1. bad \in SUBSET Nat /\ bad # {}
    OBVIOUS
  <2>. HIDE DEF bad
  <2>. QED
    BY <2>1, LeastExists
<1>2. m # 0 /\ m \in Nat
  BY <1>1
<1>3. m - 1 \in Nat /\ m - 1 \notin bad
  BY <1>1, <1>2
<1>4. (m - 1) + 1 \in A
  BY <1>3
<1>. QED
  BY <1>1, <1>2, <1>4

\* A fold over subsets of S: c chooses the next element, h uses it.
Folds(iter, S, base, c, h) ==
  \A s \in SUBSET S : iter[s] = IF s = {} THEN base ELSE h[<<c[s], iter[s \ {c[s]}]>>]

\* A fold over a finite set is a function.
LEMMA FoldExists ==
  ASSUME NEW S, IsFiniteSet(S), NEW V, NEW base \in V,
         NEW c, \A s \in SUBSET S : s # {} => c[s] \in s,
         NEW h, \A x \in S : \A v \in V : h[<<x, v>>] \in V
  PROVE  \E iter \in [SUBSET S -> V] : Folds(iter, S, base, c, h)
<1>. DEFINE Upto(n, iter) ==
              \A s \in SUBSET S : Cardinality(s) <= n =>
                iter[s] = IF s = {} THEN base ELSE h[<<c[s], iter[s \ {c[s]}]>>]
            A == {n \in Nat : \E iter \in [SUBSET S -> V] : Upto(n, iter)}
<1>0. \A s \in SUBSET S : IsFiniteSet(s) /\ Cardinality(s) \in Nat /\ Cardinality(s) <= Cardinality(S)
  BY FS_Subset, FS_CardinalityType
<1>1. 0 \in A
  <2>. DEFINE g == [s \in SUBSET S |-> base]
  <2>1. g \in [SUBSET S -> V]
    OBVIOUS
  <2>2. \A s \in SUBSET S : Cardinality(s) <= 0 => s = {}
    BY <1>0, FS_EmptySet
  <2>3. Upto(0, g)
    BY <2>2
  <2>. HIDE DEF Upto, g
  <2>. QED
    BY <2>1, <2>3
<1>2. ASSUME NEW n \in Nat, n \in A
      PROVE  n + 1 \in A
  <2>1. PICK iter \in [SUBSET S -> V] : Upto(n, iter)
    BY <1>2
  <2>. DEFINE g == [s \in SUBSET S |->
                     IF Cardinality(s) <= n THEN iter[s] ELSE h[<<c[s], iter[s \ {c[s]}]>>]]
  <2>2. ASSUME NEW s \in SUBSET S, s # {}
        PROVE  /\ s \ {c[s]} \in SUBSET S /\ Cardinality(s \ {c[s]}) = Cardinality(s) - 1
               /\ iter[s \ {c[s]}] \in V /\ c[s] \in S
    BY <1>0, <2>2, FS_RemoveElement
  <2>3. g \in [SUBSET S -> V]
    <3>1. \A s \in SUBSET S : iter[s] \in V
      OBVIOUS
    <3>2. ASSUME NEW s \in SUBSET S, ~ (Cardinality(s) <= n)
          PROVE  h[<<c[s], iter[s \ {c[s]}]>>] \in V
      <4>1. Cardinality({}) <= n
        BY FS_EmptySet
      <4>2. s # {}
        BY <3>2, <4>1
      <4>. QED
        BY <2>2, <4>2
    <3>. QED
      BY <3>1, <3>2
  <2>4. ASSUME NEW s \in SUBSET S, Cardinality(s) <= n + 1
        PROVE  g[s] = IF s = {} THEN base ELSE h[<<c[s], g[s \ {c[s]}]>>]
    <3>1. CASE s = {}
      <4>1. Cardinality(s) <= n
        BY <3>1, FS_EmptySet
      <4>. QED
        BY <2>1, <3>1, <4>1
    <3>2. CASE s # {}
      <4>1. g[s \ {c[s]}] = iter[s \ {c[s]}]
        BY <1>0, <2>2, <2>4, <3>2
      <4>2. CASE Cardinality(s) <= n
        BY <2>1, <3>2, <4>1, <4>2
      <4>3. CASE ~ (Cardinality(s) <= n)
        BY <3>2, <4>1, <4>3
      <4>. QED
        BY <4>2, <4>3
    <3>. QED
      BY <3>1, <3>2
  <2>5. Upto(n + 1, g)
    BY <2>4
  <2>. HIDE DEF Upto, g
  <2>. QED
    BY <2>3, <2>5
<1>3. Cardinality(S) \in A
  <2>1. Cardinality(S) \in Nat
    BY FS_CardinalityType
  <2>. HIDE DEF A
  <2>. QED
    BY <1>1, <1>2, <2>1, EveryNumber
<1>4. PICK iter \in [SUBSET S -> V] : Upto(Cardinality(S), iter)
  BY <1>3
<1>. QED
  BY <1>0, <1>4 DEF Folds

\* The largest of some numbers up to n.
LEMMA MaxIsIn ==
  ASSUME NEW n \in Nat, NEW s \in SUBSET (1..n), s # {}
  PROVE  Max(s) \in s /\ \A y \in s : Max(s) >= y
<1>. DEFINE below == {n - x : x \in s}
<1>0. \A x \in s : x \in Int /\ x <= n /\ n - x \in Nat
  OBVIOUS
<1>1. below \in SUBSET Nat /\ below # {}
  BY <1>0
<1>2. PICK m \in below : \A k \in below : m <= k
  <2>. HIDE DEF below
  <2>. QED
    BY <1>1, LeastExists
<1>3. PICK x \in s : m = n - x
  BY <1>2
<1>4. \A y \in s : x >= y
  <2>. SUFFICES ASSUME NEW y \in s PROVE x >= y
    OBVIOUS
  <2>1. n - x <= n - y
    BY <1>2, <1>3
  <2>2. x \in Int /\ y \in Int
    BY <1>0
  <2>. QED
    BY <2>1, <2>2
<1>. QED
  BY <1>4 DEF Max

\* What holds of the fold of nothing, and of each further place, holds of all.
LEMMA PrefixesStay ==
  ASSUME NEW n \in Nat, NEW V, NEW g, g[{}] \in V,
         \A k \in 1..n : g[1..k - 1] \in V => g[1..k] \in V
  PROVE  g[1..n] \in V
<1>. DEFINE A == {k \in Nat : k <= n => g[1..k] \in V}
<1>1. 0 \in A
  <2>1. 1..0 = {}
    OBVIOUS
  <2>. QED
    BY <2>1
<1>2. ASSUME NEW k \in Nat, k \in A
      PROVE  k + 1 \in A
  <2>. SUFFICES ASSUME k + 1 <= n PROVE g[1..k + 1] \in V
    OBVIOUS
  <2>1. k <= n /\ k + 1 \in 1..n /\ (k + 1) - 1 = k
    OBVIOUS
  <2>2. g[1..k] \in V
    BY <1>2, <2>1
  <2>. QED
    BY <2>1, <2>2
<1>. HIDE DEF A
<1>3. n \in A
  BY <1>1, <1>2, EveryNumber
<1>. QED
  BY <1>3 DEF A

\* The places of a list, and the last of the first k.
LEMMA LastPlace ==
  ASSUME NEW n \in Nat, NEW k \in 1..n
  PROVE  /\ 1..k \in SUBSET (1..n) /\ 1..k # {} /\ Max(1..k) = k
         /\ (1..k) \ {Max(1..k)} = 1..k - 1
<1>1. 1..k \in SUBSET (1..n) /\ 1..k # {} /\ k \in 1..k
  OBVIOUS
<1>2. Max(1..k) \in 1..k /\ \A y \in 1..k : Max(1..k) >= y
  BY <1>1, MaxIsIn
<1>3. Max(1..k) = k
  BY <1>1, <1>2
<1>. QED
  BY <1>1, <1>3

\* What the scan has seen and found: it has seen what E names, and has found
\* nothing of that and nothing twice.
Scanned(E) ==
  {acc \in [seen : SUBSET DOMAIN Files, found : Seq(DOMAIN Files)] :
    /\ E \subseteq acc.seen
    /\ Range(acc.found) \subseteq acc.seen \ E
    /\ IsInjective(acc.found)}

LEMMA TakeScans ==
  ASSUME NEW E, NEW acc \in Scanned(E), NEW p \in DOMAIN Files
  PROVE  Take(acc, p) \in Scanned(E)
<1>1. CASE p \in acc.seen
  BY <1>1 DEF Take
<1>2. CASE p \notin acc.seen
  <2>. DEFINE more == [seen |-> acc.seen \cup {p}, found |-> Append(acc.found, p)]
              n == Len(acc.found)
  <2>1. Take(acc, p) = more
    BY <1>2 DEF Take
  <2>2. /\ acc.seen \in SUBSET DOMAIN Files /\ acc.found \in Seq(DOMAIN Files)
        /\ E \subseteq acc.seen /\ Range(acc.found) \subseteq acc.seen \ E
        /\ IsInjective(acc.found)
    BY DEF Scanned
  <2>3. /\ Append(acc.found, p) \in Seq(DOMAIN Files) /\ n \in Nat
        /\ DOMAIN acc.found = 1..n /\ DOMAIN Append(acc.found, p) = 1..n + 1
        /\ \A i \in 1..n : Append(acc.found, p)[i] = acc.found[i]
        /\ Append(acc.found, p)[n + 1] = p
    BY <2>2
  <2>4. \A i \in 1..n : acc.found[i] \in acc.seen \ E
    BY <2>2, <2>3 DEF Range
  <2>. DEFINE found == Append(acc.found, p)
  <2>. HIDE DEF found, n
  <2>5. \A i \in 1..n + 1 : found[i] \in (acc.seen \cup {p}) \ E
    <3>1. p \notin E
      BY <1>2, <2>2
    <3>2. \A i \in 1..n + 1 : i \in 1..n \/ i = n + 1
      BY <2>3
    <3>. QED
      BY <2>3, <2>4, <3>1, <3>2 DEF found
  <2>6. Range(found) \subseteq (acc.seen \cup {p}) \ E
    BY <2>3, <2>5 DEF Range, found
  <2>7. IsInjective(found)
    <3>1. \A i, j \in 1..n : acc.found[i] = acc.found[j] => i = j
      BY <2>2, <2>3 DEF IsInjective
    <3>2. \A i \in 1..n : acc.found[i] # p
      BY <1>2, <2>4
    <3>3. \A i, j \in 1..n + 1 : found[i] = found[j] => i = j
      <4>. SUFFICES ASSUME NEW i \in 1..n + 1, NEW j \in 1..n + 1, found[i] = found[j]
                    PROVE  i = j
        OBVIOUS
      <4>1. (i \in 1..n \/ i = n + 1) /\ (j \in 1..n \/ j = n + 1)
        BY <2>3
      <4>. QED
        BY <2>3, <3>1, <3>2, <4>1 DEF found
    <3>. QED
      BY <2>3, <3>3 DEF IsInjective, found
  <2>8. more \in [seen : SUBSET DOMAIN Files, found : Seq(DOMAIN Files)]
    BY <2>2, <2>3
  <2>9. more.seen = acc.seen \cup {p} /\ more.found = found
    BY DEF found
  <2>. HIDE DEF more
  <2>10. more \in Scanned(E)
    BY <2>2, <2>6, <2>7, <2>8, <2>9 DEF Scanned
  <2>. QED
    BY <2>1, <2>10
<1>. QED
  BY <1>1, <1>2

\* The members of a suite, one after the other.
LEMMA MembersScan ==
  ASSUME NEW E, NEW base \in Scanned(E), NEW paths \in Seq(DOMAIN Files)
  PROVE  FoldLeft(Take, base, paths) \in Scanned(E)
<1>. DEFINE V == Scanned(E)
            D == 1..Len(paths)
            g == CHOOSE g : g = [s \in SUBSET D |->
                   IF s = {} THEN base ELSE Take(g[s \ {Max(s)}], paths[Max(s)])]
            c == [s \in SUBSET D |-> Max(s)]
            h == [e \in D \X V |-> Take(e[2], paths[e[1]])]
<1>0. Len(paths) \in Nat /\ DOMAIN paths = D /\ \A k \in D : paths[k] \in DOMAIN Files
  OBVIOUS
<1>1. FoldLeft(Take, base, paths) = g[D]
  BY <1>0 DEF FoldLeft, MapThenFoldSet
<1>2. \A s \in SUBSET D : s # {} => Max(s) \in s
  BY <1>0, MaxIsIn
<1>. HIDE DEF V
<1>3. \A k \in D : \A v \in V : h[<<k, v>>] = Take(v, paths[k])
  OBVIOUS
<1>4. \A k \in D : \A v \in V : Take(v, paths[k]) \in V
  BY <1>0, TakeScans DEF V
<1>5. PICK f \in [SUBSET D -> V] : Folds(f, D, base, c, h)
  <2>1. IsFiniteSet(D)
    <3>1. 1 \in Int /\ Len(paths) \in Int
      BY <1>0
    <3>. QED
      BY <3>1, FS_Interval
  <2>2. base \in V
    BY DEF V
  <2>3. \A s \in SUBSET D : s # {} => c[s] \in s
    BY <1>2
  <2>4. \A k \in D : \A v \in V : h[<<k, v>>] \in V
    <3>. HIDE DEF h
    <3>. QED
      BY <1>3, <1>4
  <2>. HIDE DEF c, h, D
  <2>. QED
    BY <2>1, <2>2, <2>3, <2>4, FoldExists
<1>6. f = [s \in SUBSET D |->
            IF s = {} THEN base ELSE Take(f[s \ {Max(s)}], paths[Max(s)])]
  <2>1. ASSUME NEW s \in SUBSET D, s # {}
        PROVE  f[s] = Take(f[s \ {Max(s)}], paths[Max(s)])
    <3>1. Max(s) \in D /\ f[s \ {Max(s)}] \in V
      BY <1>2, <2>1
    <3>2. f[s] = h[<<c[s], f[s \ {c[s]}]>>]
      BY <1>5, <2>1 DEF Folds
    <3>3. c[s] = Max(s)
      OBVIOUS
    <3>. HIDE DEF h, c
    <3>. QED
      BY <1>3, <3>1, <3>2, <3>3
  <2>2. f[{}] = base
    BY <1>5 DEF Folds
  <2>. HIDE DEF D
  <2>. QED
    BY <2>1, <2>2
<1>7. g = [s \in SUBSET D |->
            IF s = {} THEN base ELSE Take(g[s \ {Max(s)}], paths[Max(s)])]
  <2>1. g = CHOOSE g1 : g1 = [s \in SUBSET D |->
              IF s = {} THEN base ELSE Take(g1[s \ {Max(s)}], paths[Max(s)])]
    OBVIOUS
  <2>. HIDE DEF g
  <2>. QED
    BY <1>6, <2>1
<1>. HIDE DEF g
<1>8. g[{}] \in V
  <2>1. g[{}] = base
    BY <1>7
  <2>. QED
    BY <2>1 DEF V
<1>9. ASSUME NEW k \in D, g[1..k - 1] \in V
      PROVE  g[1..k] \in V
  <2>1. 1..k \in SUBSET D /\ 1..k # {} /\ Max(1..k) = k /\ (1..k) \ {Max(1..k)} = 1..k - 1
    BY <1>0, LastPlace
  <2>. HIDE DEF D
  <2>2. g[1..k] = Take(g[(1..k) \ {Max(1..k)}], paths[Max(1..k)])
    BY <1>7, <2>1
  <2>3. g[1..k] = Take(g[1..k - 1], paths[k])
    BY <2>1, <2>2
  <2>. QED
    BY <1>4, <1>9, <2>3
<1>10. g[1..Len(paths)] \in V
  BY <1>0, <1>8, <1>9, PrefixesStay
<1>. QED
  BY <1>1, <1>10 DEF V

LEMMA TakeEntryScans ==
  ASSUME NEW E, NEW acc \in Scanned(E), NEW p \in DOMAIN Files
  PROVE  TakeEntry(acc, p) \in Scanned(E)
<1>1. CASE p \in acc.seen \/ ~IsSuite(p)
  BY <1>1, TakeScans DEF TakeEntry
<1>2. CASE ~(p \in acc.seen \/ ~IsSuite(p))
  <2>. DEFINE base == [acc EXCEPT !.seen = @ \cup {p}]
  <2>1. base \in Scanned(E)
    BY DEF Scanned
  <2>2. Files[p].members \in Seq(DOMAIN Files)
    BY LaunchAssumption
  <2>3. TakeEntry(acc, p) = FoldLeft(Take, base, Files[p].members)
    BY <1>2 DEF TakeEntry
  <2>. HIDE DEF base
  <2>. QED
    BY <2>1, <2>2, <2>3, MembersScan
<1>. QED
  BY <1>1, <1>2

\* The entries of the directories, one after the other.
LEMMA EntriesScan ==
  ASSUME NEW E, NEW base \in Scanned(E), NEW paths \in Seq(DOMAIN Files)
  PROVE  FoldLeft(TakeEntry, base, paths) \in Scanned(E)
<1>. DEFINE V == Scanned(E)
            D == 1..Len(paths)
            g == CHOOSE g : g = [s \in SUBSET D |->
                   IF s = {} THEN base ELSE TakeEntry(g[s \ {Max(s)}], paths[Max(s)])]
            c == [s \in SUBSET D |-> Max(s)]
            h == [e \in D \X V |-> TakeEntry(e[2], paths[e[1]])]
<1>0. Len(paths) \in Nat /\ DOMAIN paths = D /\ \A k \in D : paths[k] \in DOMAIN Files
  OBVIOUS
<1>1. FoldLeft(TakeEntry, base, paths) = g[D]
  BY <1>0 DEF FoldLeft, MapThenFoldSet
<1>2. \A s \in SUBSET D : s # {} => Max(s) \in s
  BY <1>0, MaxIsIn
<1>. HIDE DEF V
<1>3. \A k \in D : \A v \in V : h[<<k, v>>] = TakeEntry(v, paths[k])
  OBVIOUS
<1>4. \A k \in D : \A v \in V : TakeEntry(v, paths[k]) \in V
  BY <1>0, TakeEntryScans DEF V
<1>5. PICK f \in [SUBSET D -> V] : Folds(f, D, base, c, h)
  <2>1. IsFiniteSet(D)
    <3>1. 1 \in Int /\ Len(paths) \in Int
      BY <1>0
    <3>. QED
      BY <3>1, FS_Interval
  <2>2. base \in V
    BY DEF V
  <2>3. \A s \in SUBSET D : s # {} => c[s] \in s
    BY <1>2
  <2>4. \A k \in D : \A v \in V : h[<<k, v>>] \in V
    <3>. HIDE DEF h
    <3>. QED
      BY <1>3, <1>4
  <2>. HIDE DEF c, h, D
  <2>. QED
    BY <2>1, <2>2, <2>3, <2>4, FoldExists
<1>6. f = [s \in SUBSET D |->
            IF s = {} THEN base ELSE TakeEntry(f[s \ {Max(s)}], paths[Max(s)])]
  <2>1. ASSUME NEW s \in SUBSET D, s # {}
        PROVE  f[s] = TakeEntry(f[s \ {Max(s)}], paths[Max(s)])
    <3>1. Max(s) \in D /\ f[s \ {Max(s)}] \in V
      BY <1>2, <2>1
    <3>2. f[s] = h[<<c[s], f[s \ {c[s]}]>>]
      BY <1>5, <2>1 DEF Folds
    <3>3. c[s] = Max(s)
      OBVIOUS
    <3>. HIDE DEF h, c
    <3>. QED
      BY <1>3, <3>1, <3>2, <3>3
  <2>2. f[{}] = base
    BY <1>5 DEF Folds
  <2>. HIDE DEF D
  <2>. QED
    BY <2>1, <2>2
<1>7. g = [s \in SUBSET D |->
            IF s = {} THEN base ELSE TakeEntry(g[s \ {Max(s)}], paths[Max(s)])]
  <2>1. g = CHOOSE g1 : g1 = [s \in SUBSET D |->
              IF s = {} THEN base ELSE TakeEntry(g1[s \ {Max(s)}], paths[Max(s)])]
    OBVIOUS
  <2>. HIDE DEF g
  <2>. QED
    BY <1>6, <2>1
<1>. HIDE DEF g
<1>8. g[{}] \in V
  <2>1. g[{}] = base
    BY <1>7
  <2>. QED
    BY <2>1 DEF V
<1>9. ASSUME NEW k \in D, g[1..k - 1] \in V
      PROVE  g[1..k] \in V
  <2>1. 1..k \in SUBSET D /\ 1..k # {} /\ Max(1..k) = k /\ (1..k) \ {Max(1..k)} = 1..k - 1
    BY <1>0, LastPlace
  <2>. HIDE DEF D
  <2>2. g[1..k] = TakeEntry(g[(1..k) \ {Max(1..k)}], paths[Max(1..k)])
    BY <1>7, <2>1
  <2>3. g[1..k] = TakeEntry(g[1..k - 1], paths[k])
    BY <2>1, <2>2
  <2>. QED
    BY <1>4, <1>9, <2>3
<1>10. g[1..Len(paths)] \in V
  BY <1>0, <1>8, <1>9, PrefixesStay
<1>. QED
  BY <1>1, <1>10 DEF V

\* What two lists hold together.
LEMMA RangeOfBoth ==
  ASSUME NEW X, NEW s \in Seq(X), NEW t \in Seq(X)
  PROVE  /\ s \o t \in Seq(X) /\ Len(s \o t) = Len(s) + Len(t)
         /\ Range(s \o t) = Range(s) \cup Range(t)
         /\ \A i \in 1..Len(s) : (s \o t)[i] = s[i]
         /\ \A i \in 1..Len(t) : (s \o t)[Len(s) + i] = t[i]
<1>1. /\ s \o t \in Seq(X) /\ Len(s) \in Nat /\ Len(t) \in Nat
      /\ Len(s \o t) = Len(s) + Len(t)
      /\ DOMAIN s = 1..Len(s) /\ DOMAIN t = 1..Len(t) /\ DOMAIN (s \o t) = 1..Len(s) + Len(t)
      /\ \A i \in 1..Len(s) + Len(t) : (s \o t)[i] = IF i <= Len(s) THEN s[i] ELSE t[i - Len(s)]
  OBVIOUS
<1>2. /\ \A i \in 1..Len(s) : i \in 1..Len(s) + Len(t) /\ (s \o t)[i] = s[i]
      /\ \A i \in 1..Len(t) : Len(s) + i \in 1..Len(s) + Len(t) /\ (s \o t)[Len(s) + i] = t[i]
  BY <1>1
<1>3. \A i \in 1..Len(s) + Len(t) : i \in 1..Len(s) \/ i - Len(s) \in 1..Len(t)
  BY <1>1
<1>4. Range(s \o t) = Range(s) \cup Range(t)
  <2>1. ASSUME NEW i \in 1..Len(s) + Len(t)
        PROVE  (s \o t)[i] \in Range(s) \cup Range(t)
    <3>1. CASE i <= Len(s)
      BY <1>1, <3>1 DEF Range
    <3>2. CASE ~(i <= Len(s))
      <4>1. i - Len(s) \in 1..Len(t) /\ (s \o t)[i] = t[i - Len(s)]
        BY <1>1, <3>2
      <4>. QED
        BY <1>1, <4>1 DEF Range
    <3>. QED
      BY <3>1, <3>2
  <2>2. Range(s \o t) \subseteq Range(s) \cup Range(t)
    BY <1>1, <2>1 DEF Range
  <2>3. Range(s) \subseteq Range(s \o t)
    BY <1>1, <1>2 DEF Range
  <2>4. ASSUME NEW i \in 1..Len(t)
        PROVE  t[i] \in Range(s \o t)
    <3>1. Len(s) + i \in DOMAIN (s \o t) /\ (s \o t)[Len(s) + i] = t[i]
      BY <1>1, <1>2
    <3>. QED
      BY <3>1 DEF Range
  <2>5. Range(t) \subseteq Range(s \o t)
    BY <1>1, <2>4 DEF Range
  <2>. QED
    BY <2>2, <2>3, <2>5
<1>. QED
  BY <1>1, <1>2, <1>4

\* FlattenSeq strings lists together: flat holds what the first k lists hold.
StringsTogether(flat, seqs, k, X) ==
  /\ flat \in Seq(X)
  /\ \A x : x \in Range(flat) <=> \E j \in 1..k : x \in Range(seqs[j])

\* One list more.
LEMMA StringOneMore ==
  ASSUME NEW X, NEW seqs \in Seq(Seq(X)), NEW flat, NEW k \in Nat,
         StringsTogether(flat, seqs, k, X), k + 1 \in DOMAIN seqs
  PROVE  StringsTogether(flat \o seqs[k + 1], seqs, k + 1, X)
<1>1. flat \in Seq(X) /\ seqs[k + 1] \in Seq(X)
  BY DEF StringsTogether
<1>2. /\ flat \o seqs[k + 1] \in Seq(X)
      /\ Range(flat \o seqs[k + 1]) = Range(flat) \cup Range(seqs[k + 1])
  BY <1>1, RangeOfBoth
<1>3. \A j : j \in 1..k + 1 <=> j \in 1..k \/ j = k + 1
  OBVIOUS
<1>4. ASSUME NEW x
      PROVE  x \in Range(flat \o seqs[k + 1]) <=> \E j \in 1..k + 1 : x \in Range(seqs[j])
  <2>1. x \in Range(flat \o seqs[k + 1]) <=> x \in Range(flat) \/ x \in Range(seqs[k + 1])
    BY <1>2
  <2>2. x \in Range(flat) <=> \E j \in 1..k : x \in Range(seqs[j])
    BY DEF StringsTogether
  <2>. QED
    BY <1>3, <2>1, <2>2
<1>. QED
  BY <1>2, <1>4 DEF StringsTogether

LEMMA FlattenStrings ==
  ASSUME NEW X, NEW seqs \in Seq(Seq(X))
  PROVE  StringsTogether(FlattenSeq(seqs), seqs, Len(seqs), X)
<1>. DEFINE n == Len(seqs)
            Flat(f, k) == f = [i \in 1..k |-> IF i = 1 THEN seqs[i] ELSE f[i - 1] \o seqs[i]]
            g == CHOOSE g : Flat(g, n)
<1>0. n \in Nat /\ DOMAIN seqs = 1..n /\ \A i \in 1..n : seqs[i] \in Seq(X)
  OBVIOUS
<1>1. CASE n = 0
  <2>1. seqs = <<>> /\ FlattenSeq(seqs) = seqs
    BY <1>1 DEF FlattenSeq
  <2>. QED
    <3>1. <<>> \in Seq(X) /\ Range(<<>>) = {} /\ 1..Len(seqs) = {}
      BY <1>0, <1>1 DEF Range
    <3>. QED
      BY <2>1, <3>1 DEF StringsTogether
<1>2. CASE n # 0
  <2>1. FlattenSeq(seqs) = g[n]
    BY <1>2 DEF FlattenSeq
  <2>2. \E f : Flat(f, n)
    <3>. DEFINE A == {k \in Nat : \E f : Flat(f, k)}
    <3>1. 0 \in A
      <4>. DEFINE none == [i \in 1..0 |-> IF i = 1 THEN seqs[i] ELSE seqs[i]]
      <4>1. Flat(none, 0)
        OBVIOUS
      <4>. HIDE DEF Flat, none
      <4>. QED
        BY <4>1
    <3>2. ASSUME NEW k \in Nat, k \in A
          PROVE  k + 1 \in A
      <4>1. PICK f : Flat(f, k)
        BY <3>2
      <4>. DEFINE more == [i \in 1..k + 1 |->
                            IF i = 1 THEN seqs[i] ELSE f[i - 1] \o seqs[i]]
      <4>2. \A i \in 1..k : more[i] = f[i]
        <5>1. \A i \in 1..k : f[i] = IF i = 1 THEN seqs[i] ELSE f[i - 1] \o seqs[i]
          BY <4>1
        <5>2. \A i \in 1..k : i \in 1..k + 1
          OBVIOUS
        <5>3. \A i \in 1..k + 1 : more[i] = IF i = 1 THEN seqs[i] ELSE f[i - 1] \o seqs[i]
          OBVIOUS
        <5>. HIDE DEF more
        <5>. QED
          BY <5>1, <5>2, <5>3
      <4>3. \A i \in 1..k + 1 : i # 1 => i - 1 \in 1..k
        OBVIOUS
      <4>4. more = [i \in 1..k + 1 |-> IF i = 1 THEN seqs[i] ELSE more[i - 1] \o seqs[i]]
        BY <4>2, <4>3
      <4>5. Flat(more, k + 1)
        BY <4>4
      <4>. HIDE DEF Flat, more
      <4>. QED
        BY <4>5
    <3>. HIDE DEF A
    <3>3. n \in A
      BY <1>0, <3>1, <3>2, EveryNumber
    <3>. QED
      BY <3>3 DEF A
  <2>3. Flat(g, n)
    <3>. HIDE DEF Flat
    <3>. QED
      BY <2>2
  <2>. HIDE DEF g
  <2>4. \A k \in 1..n : g[k] = IF k = 1 THEN seqs[k] ELSE g[k - 1] \o seqs[k]
    BY <2>3
  <2>. DEFINE A == {k \in Nat : k + 1 <= n => StringsTogether(g[k + 1], seqs, k + 1, X)}
  <2>5. 0 \in A
    <3>1. 1 \in 1..n
      BY <1>0, <1>2
    <3>2. g[1] = seqs[1]
      BY <2>4, <3>1
    <3>3. \A x : (\E j \in 1..1 : x \in Range(seqs[j])) <=> x \in Range(seqs[1])
      OBVIOUS
    <3>4. StringsTogether(g[1], seqs, 1, X)
      BY <1>0, <3>1, <3>2, <3>3 DEF StringsTogether
    <3>. QED
      BY <3>4
  <2>6. ASSUME NEW k \in Nat, k \in A
        PROVE  k + 1 \in A
    <3>. SUFFICES ASSUME k + 1 + 1 <= n PROVE StringsTogether(g[k + 1 + 1], seqs, k + 1 + 1, X)
      OBVIOUS
    <3>1. /\ k + 1 <= n /\ k + 1 \in Nat /\ k + 1 + 1 \in 1..n /\ k + 1 + 1 # 1 /\ (k + 1 + 1) - 1 = k + 1
      BY <1>0
    <3>2. StringsTogether(g[k + 1], seqs, k + 1, X)
      BY <2>6, <3>1
    <3>3. g[k + 1 + 1] = g[k + 1] \o seqs[k + 1 + 1]
      BY <2>4, <3>1
    <3>. QED
      BY <1>0, <3>1, <3>2, <3>3, StringOneMore
  <2>. HIDE DEF A
  <2>7. n - 1 \in Nat /\ (n - 1) + 1 = n
    BY <1>0, <1>2
  <2>8. n - 1 \in A
    BY <2>5, <2>6, <2>7, EveryNumber
  <2>. QED
    BY <2>1, <2>7, <2>8 DEF A
<1>. QED
  BY <1>1, <1>2

\* What the paths hold, and what holds it.
LEMMA LoadAllHolds ==
  ASSUME NEW paths \in Seq(DOMAIN Files)
  PROVE  /\ LoadAll(paths) \in Seq(DOMAIN Files)
         /\ \A x : x \in Range(LoadAll(paths))
                     <=> \E p \in Range(paths) : x \in Range(LoadFile(p))
<1>. DEFINE seqs == [i \in DOMAIN paths |-> LoadFile(paths[i])]
<1>0. Len(paths) \in Nat /\ DOMAIN paths = 1..Len(paths)
      /\ \A i \in DOMAIN paths : paths[i] \in DOMAIN Files
  OBVIOUS
<1>1. \A p \in DOMAIN Files : LoadFile(p) \in Seq(DOMAIN Files)
  <2>1. ASSUME NEW p \in DOMAIN Files
        PROVE  <<p>> \in Seq(DOMAIN Files) /\ Files[p].members \in Seq(DOMAIN Files)
    BY LaunchAssumption
  <2>. QED
    BY <2>1 DEF LoadFile
<1>2. seqs \in Seq(Seq(DOMAIN Files)) /\ Len(seqs) = Len(paths)
  <2>1. seqs \in [1..Len(paths) -> Seq(DOMAIN Files)]
    BY <1>0, <1>1
  <2>. HIDE DEF seqs
  <2>. QED
    BY <1>0, <2>1
<1>3. \A i \in 1..Len(paths) : seqs[i] = LoadFile(paths[i])
  BY <1>0
<1>4. LoadAll(paths) = FlattenSeq(seqs)
  BY DEF LoadAll
<1>. HIDE DEF seqs
<1>5. StringsTogether(LoadAll(paths), seqs, Len(paths), DOMAIN Files)
  BY <1>2, <1>4, FlattenStrings
<1>6. ASSUME NEW x
      PROVE  (\E i \in 1..Len(paths) : x \in Range(seqs[i]))
               <=> \E p \in Range(paths) : x \in Range(LoadFile(p))
  <2>1. \A p : p \in Range(paths) <=> \E i \in 1..Len(paths) : paths[i] = p
    BY <1>0 DEF Range
  <2>. QED
    BY <1>3, <2>1
<1>. QED
  BY <1>5, <1>6 DEF StringsTogether

\* A command line as the assumption has it.
CommandLine(c) ==
  /\ c.args \in Seq(DOMAIN Files) /\ c.config \in Seq(DOMAIN Files)
  /\ c.suite \in Seq(DOMAIN Files) /\ c.dirs \in Seq(Seq(DOMAIN Files))

Words(c) == Range(c.args) \cup Range(c.config) \cup Range(c.suite)

NamedBy(c, p) ==
  \E w \in Words(c) :
    \/ IsScenario(w) /\ p = w
    \/ IsSuite(w) /\ p \in Range(Files[w].members)

\* The explicit scenarios are those that the command line names, themselves or
\* in a suite.
LEMMA ExplicitIsNamed ==
  ASSUME NEW c, CommandLine(c)
  PROVE  /\ Explicit(c) \in Seq(DOMAIN Files)
         /\ Resolves(c) => \A p : p \in Range(Explicit(c)) <=> NamedBy(c, p)
<1>1. /\ c.args \o c.config \in Seq(DOMAIN Files)
      /\ Range(c.args \o c.config) = Range(c.args) \cup Range(c.config)
  BY RangeOfBoth DEF CommandLine
<1>2. /\ LoadAll(c.args \o c.config) \in Seq(DOMAIN Files)
      /\ LoadAll(c.suite) \in Seq(DOMAIN Files)
      /\ \A x : x \in Range(LoadAll(c.args \o c.config))
                  <=> \E w \in Range(c.args) \cup Range(c.config) : x \in Range(LoadFile(w))
      /\ \A x : x \in Range(LoadAll(c.suite)) <=> \E w \in Range(c.suite) : x \in Range(LoadFile(w))
  BY <1>1, LoadAllHolds DEF CommandLine
<1>3. /\ Explicit(c) \in Seq(DOMAIN Files)
      /\ Range(Explicit(c)) = Range(LoadAll(c.args \o c.config)) \cup Range(LoadAll(c.suite))
  BY <1>2, RangeOfBoth DEF Explicit
<1>4. \A x : x \in Range(Explicit(c)) <=> \E w \in Words(c) : x \in Range(LoadFile(w))
  BY <1>2, <1>3 DEF Words
<1>5. ASSUME Resolves(c), NEW w \in Words(c), NEW p
      PROVE  p \in Range(LoadFile(w))
               <=> \/ IsScenario(w) /\ p = w
                   \/ IsSuite(w) /\ p \in Range(Files[w].members)
  <2>1. Loads(w)
    BY <1>1, <1>5 DEF Resolves, Loads, Words
  <2>2. CASE IsScenario(w)
    <3>1. LoadFile(w) = <<w>> /\ ~IsSuite(w)
      BY <2>2 DEF LoadFile, IsScenario, IsSuite
    <3>2. Range(<<w>>) = {w}
      BY DEF Range
    <3>. QED
      BY <2>2, <3>1, <3>2
  <2>3. CASE ~IsScenario(w)
    <3>1. IsSuite(w) /\ LoadFile(w) = Files[w].members
      BY <2>1, <2>3 DEF Loads, LoadFile
    <3>. QED
      BY <2>3, <3>1
  <2>. QED
    BY <2>2, <2>3
<1>6. ASSUME Resolves(c), NEW p
      PROVE  p \in Range(Explicit(c)) <=> NamedBy(c, p)
  <2>1. p \in Range(Explicit(c)) <=> \E w \in Words(c) : p \in Range(LoadFile(w))
    BY <1>4
  <2>. QED
    BY <1>5, <1>6, <2>1 DEF NamedBy
<1>. QED
  BY <1>3, <1>6

\* The scan finds nothing twice, and nothing that is named.
LEMMA ImplicitIsNew ==
  ASSUME NEW c, CommandLine(c)
  PROVE  /\ Implicit(c) \in Seq(DOMAIN Files) /\ IsInjective(Implicit(c))
         /\ Range(Implicit(c)) \cap Range(Explicit(c)) = {}
<1>. DEFINE E == Range(Explicit(c))
            base == [seen |-> E, found |-> <<>>]
            entries == FlattenSeq(c.dirs)
<1>1. E \subseteq DOMAIN Files
  <2>1. Explicit(c) \in Seq(DOMAIN Files)
    BY ExplicitIsNamed
  <2>. QED
    BY <2>1 DEF Range
<1>2. base \in Scanned(E)
  <2>1. <<>> \in Seq(DOMAIN Files) /\ Range(<<>>) = {} /\ IsInjective(<<>>)
    BY DEF Range, IsInjective
  <2>. HIDE DEF E
  <2>. QED
    BY <1>1, <2>1 DEF Scanned
<1>3. entries \in Seq(DOMAIN Files)
  BY FlattenStrings DEF CommandLine, StringsTogether
<1>. HIDE DEF entries, base, E
<1>4. FoldLeft(TakeEntry, base, entries) \in Scanned(E)
  BY <1>2, <1>3, EntriesScan
<1>5. Implicit(c) = FoldLeft(TakeEntry, base, entries).found
  BY DEF Implicit, base, entries, E
<1>. QED
  BY <1>4, <1>5 DEF Scanned, E

\* What a command loads: what it names, then what it finds.
LEMMA CommandLoads ==
  ASSUME NEW c \in Commands, Resolves(c)
  PROVE  LET all == Explicit(c) \o Implicit(c)
         IN  /\ all \in Seq(DOMAIN Files) /\ Len(all) <= MaxRunners
             /\ \A i \in DOMAIN all : i <= Len(Explicit(c)) <=> NamedBy(c, all[i])
             /\ \A i, j \in DOMAIN all : i # j /\ all[i] = all[j] => NamedBy(c, all[i])
<1>. DEFINE E == Explicit(c)
            I == Implicit(c)
            all == E \o I
<1>1. CommandLine(c) /\ Len(all) <= MaxRunners
  BY DashboardAssumption DEF CommandLine
<1>2. E \in Seq(DOMAIN Files) /\ \A p : p \in Range(E) <=> NamedBy(c, p)
  BY <1>1, ExplicitIsNamed
<1>3. I \in Seq(DOMAIN Files) /\ IsInjective(I) /\ Range(I) \cap Range(E) = {}
  BY <1>1, ImplicitIsNew
<1>. HIDE DEF E, I
<1>4. /\ all \in Seq(DOMAIN Files) /\ Len(all) = Len(E) + Len(I)
      /\ \A i \in 1..Len(E) : all[i] = E[i]
      /\ \A i \in 1..Len(I) : all[Len(E) + i] = I[i]
  BY <1>2, <1>3, RangeOfBoth
<1>. HIDE DEF all
<1>5. /\ Len(E) \in Nat /\ Len(I) \in Nat
      /\ DOMAIN E = 1..Len(E) /\ DOMAIN I = 1..Len(I) /\ DOMAIN all = 1..Len(E) + Len(I)
  BY <1>2, <1>3, <1>4
<1>6. ASSUME NEW i \in DOMAIN all, i <= Len(E)
      PROVE  all[i] \in Range(E)
  <2>1. i \in 1..Len(E)
    BY <1>5, <1>6
  <2>. QED
    BY <1>4, <1>5, <2>1 DEF Range
<1>7. ASSUME NEW i \in DOMAIN all, ~(i <= Len(E))
      PROVE  i - Len(E) \in 1..Len(I) /\ all[i] = I[i - Len(E)] /\ all[i] \in Range(I)
  <2>1. i - Len(E) \in 1..Len(I) /\ Len(E) + (i - Len(E)) = i
    BY <1>5, <1>7
  <2>2. all[i] = I[i - Len(E)]
    BY <1>4, <2>1
  <2>. QED
    BY <1>5, <2>1, <2>2 DEF Range
<1>8. ASSUME NEW i \in DOMAIN all, NEW j \in DOMAIN all, i # j, all[i] = all[j]
      PROVE  NamedBy(c, all[i])
  <2>1. CASE i <= Len(E)
    BY <1>2, <1>6, <2>1
  <2>2. CASE ~(i <= Len(E)) /\ j <= Len(E)
    BY <1>3, <1>6, <1>7, <1>8, <2>2
  <2>3. CASE ~(i <= Len(E)) /\ ~(j <= Len(E))
    <3>1. I[i - Len(E)] = I[j - Len(E)]
      BY <1>7, <1>8, <2>3
    <3>2. i - Len(E) = j - Len(E)
      BY <1>3, <1>5, <1>7, <2>3, <3>1 DEF IsInjective
    <3>. QED
      BY <1>5, <1>8, <3>2
  <2>. QED
    BY <2>1, <2>2, <2>3
<1>9. \A i \in DOMAIN all : i <= Len(E) <=> NamedBy(c, all[i])
  BY <1>2, <1>3, <1>6, <1>7
<1>. QED
  BY <1>1, <1>4, <1>8, <1>9 DEF all, E, I

-----------------------------------------------------------------------------
(***************************************************************************)
(* Types.                                                                  *)
(***************************************************************************)
LEMMA InitTyped ==
  ASSUME Init
  PROVE  Typed
<1>2. /\ cmd \in Commands /\ main = "resolve" /\ loaded = <<>> /\ built = 0
      /\ state = [r \in Ids |-> "none"] /\ writer = [r \in Ids |-> "none"]
      /\ closed = [r \in Ids |-> FALSE] /\ listener = [r \in Ids |-> "none"]
  BY DEF Init
<1>3. loaded \in Seq(DOMAIN Files) /\ Len(loaded) <= MaxRunners
  BY <1>2, DashboardAssumption
<1>4. /\ state \in [Ids -> States] /\ writer \in [Ids -> {"none", "open", "stopped"}]
      /\ closed \in [Ids -> BOOLEAN] /\ listener \in [Ids -> {"none", "waiting", "sending"}]
  BY <1>2 DEF States
<1>5. main \in Before
  BY <1>2 DEF Before
<1>. QED
  BY <1>2, <1>3, <1>4, <1>5, DashboardAssumption DEF Typed, Shaped

\* The mains that a step leads to are known, and nothing leads back.
LEMMA MainMoves ==
  ASSUME Typed, [Next]_vars
  PROVE  /\ main' \in Before \cup {"wait", "loop", "quitDone", "cleanup", "abandon",
                                   "exited", "failed", "panicked"}
         /\ main' \in Before => main \in Before
<1>1. main \in Before \cup {"wait", "loop", "quitDone", "cleanup", "abandon",
                            "exited", "failed", "panicked"}
  BY DEF Typed
<1>2. CASE UNCHANGED main
  BY <1>1, <1>2
<1>3. CASE StartUp
  BY <1>3 DEF StartUp, Resolve, BuildManaged, BuildHeadless, StartTUI, OpenDashboard, StartHeadless,
              Before
<1>4. CASE QuitDone \/ Leave \/ Interrupt
  BY <1>1, <1>4 DEF QuitDone, Leave, LeaveTUI, Interrupt, AllDone, LeaveHeadless, Before
<1>5. CASE Tick \/ Quit
  BY <1>1, <1>5 DEF Tick, Quit, Before
<1>6. ListKey \/ ModalKey => UNCHANGED main
  BY DEF ListKey, Move, SwitchTab, Scroll, StopKey, ResumeKey, StartKey, RestartKey, SetState,
         OpenManual, OpenAddPicker, OpenBrowser, OpenRemoveConfirm, ModalKey, CloseModal,
         PickerToBrowser, MovePick, AddPicked, AddBrowsed, TryAddPath, RemoveScenarioAt, RemoveWith
<1>7. (\E r \in Ids : Finish(r) \/ Logf(r) \/ ListenLog(r) \/ LogEvent(r)) => UNCHANGED main
  BY DEF Finish, Logf, ListenLog, LogEvent, OnlyRunners
<1>8. UNCHANGED vars => UNCHANGED main
  BY DEF vars
<1>. QED
  BY <1>2, <1>3, <1>4, <1>5, <1>6, <1>7, <1>8 DEF Next, User

\* What building the first n runners leaves.
LEMMA Built ==
  ASSUME Typed, NEW n \in 0..Len(loaded), NEW w, \A r \in 1..n : w[r] \in {"none", "open", "stopped"},
         NEW down \in BOOLEAN, BuiltWith(n, w, down)
  PROVE  /\ built' = n /\ n \in Nat /\ n <= MaxRunners
         /\ state' \in [Ids -> States]
         /\ writer' \in [Ids -> {"none", "open", "stopped"}]
         /\ closed' \in [Ids -> BOOLEAN]
         /\ \A r \in Ids : r <= n => state'[r] \in {"IDLE", "SCRIPT_ERROR"} /\ closed'[r] = down
<1>1. Len(loaded) \in Nat /\ Len(loaded) <= MaxRunners /\ MaxRunners \in Nat
  BY DashboardAssumption DEF Typed, Shaped
<1>2. \A p : NewState(p) \in {"IDLE", "SCRIPT_ERROR"}
  BY DEF NewState
<1>3. state' = [r \in Ids |-> IF r <= n THEN NewState(loaded[r]) ELSE "none"]
  BY DEF BuiltWith
<1>4. state' \in [Ids -> States]
  BY <1>2, <1>3 DEF States
<1>5. writer' \in [Ids -> {"none", "open", "stopped"}]
  BY <1>1 DEF BuiltWith, Ids
<1>6. closed' \in [Ids -> BOOLEAN]
  <2>1. closed' = [r \in Ids |-> r <= n /\ down]
    BY DEF BuiltWith
  <2>. QED
    BY <2>1, Zenon
<1>7. ASSUME NEW r \in Ids, r <= n
      PROVE  state'[r] \in {"IDLE", "SCRIPT_ERROR"} /\ closed'[r] = down
  <2>1. state'[r] \in {"IDLE", "SCRIPT_ERROR"}
    BY <1>2, <1>3, <1>7
  <2>2. closed'[r] = (r <= n /\ down)
    BY DEF BuiltWith
  <2>3. closed'[r] = down
    BY <1>7, <2>2, Zenon
  <2>. QED
    BY <2>1, <2>3
<1>. QED
  BY <1>1, <1>4, <1>5, <1>6, <1>7 DEF BuiltWith

\* The cleanups.
LEMMA Cleaned ==
  ASSUME Typed, NEW R, CleanUp(R)
  PROVE  /\ state' \in [Ids -> States]
         /\ writer' \in [Ids -> {"none", "open", "stopped"}]
         /\ closed' \in [Ids -> BOOLEAN]
         /\ \A r \in R : r \in Ids => state'[r] # "RUNNING" /\ writer'[r] # "open" /\ closed'[r]
<1>1. state \in [Ids -> States] /\ writer \in [Ids -> {"none", "open", "stopped"}]
  BY DEF Typed, Shaped
<1>2. \A x \in States : Halted(x) \in States /\ Halted(x) # "RUNNING"
  BY DEF Halted, States
<1>3. \A x \in {"none", "open", "stopped"} :
        StoppedWriter(x) \in {"none", "stopped"}
  BY DEF StoppedWriter
<1>4. /\ state' = [r \in Ids |-> IF r \in R THEN Halted(state[r]) ELSE state[r]]
      /\ writer' = [r \in Ids |-> IF r \in R THEN StoppedWriter(writer[r]) ELSE writer[r]]
  BY DEF CleanUp
<1>5. state' \in [Ids -> States] /\ writer' \in [Ids -> {"none", "open", "stopped"}]
  BY <1>1, <1>2, <1>3, <1>4
<1>6. closed' \in [Ids -> BOOLEAN] /\ \A r \in R : r \in Ids => closed'[r]
  <2>1. closed' = [r \in Ids |-> closed[r] \/ r \in R]
    BY DEF CleanUp
  <2>2. closed' \in [Ids -> BOOLEAN]
    BY <2>1, Zenon
  <2>3. \A r \in R : r \in Ids => closed'[r] = (closed[r] \/ r \in R)
    BY <2>1
  <2>. QED
    BY <2>2, <2>3, Zenon
<1>7. \A r \in R : r \in Ids => state'[r] # "RUNNING" /\ writer'[r] # "open"
  BY <1>1, <1>2, <1>3, <1>4
<1>. QED
  BY <1>5, <1>6, <1>7

\* One runner after the other is built, or those that were are rolled back.
LEMMA BuildingMoves ==
  ASSUME Typed, BuildManaged \/ BuildHeadless
  PROVE  /\ main = "build"
         /\ built' \in Nat /\ built' <= MaxRunners
         /\ state' \in [Ids -> States]
         /\ writer' \in [Ids -> {"none", "open", "stopped"}]
         /\ closed' \in [Ids -> BOOLEAN]
         /\ UNCHANGED <<cmd, loaded, summary, rowVars, modalVars, logVars>>
         /\ \/ main' = "start" /\ built' = Len(loaded)
            \/ /\ main' = "failed"
               /\ \A r \in Ids : r <= built' => closed'[r] /\ state'[r] # "RUNNING"
<1>0. Len(loaded) \in Nat /\ Managed = 1..Len(loaded)
  BY DEF Typed, Shaped, Managed
<1>1. main = "build" /\ UNCHANGED <<cmd, loaded, summary, rowVars, modalVars, logVars>>
  BY DEF BuildManaged, BuildHeadless, commandVars
<1>2. ASSUME NEW n \in 0..Len(loaded), NEW w,
             \A r \in 1..n : w[r] \in {"none", "open", "stopped"},
             NEW down \in BOOLEAN, BuiltWith(n, w, down),
             \/ main' = "start" /\ n = Len(loaded)
             \/ main' = "failed" /\ down
      PROVE  /\ built' \in Nat /\ built' <= MaxRunners
             /\ state' \in [Ids -> States]
             /\ writer' \in [Ids -> {"none", "open", "stopped"}]
             /\ closed' \in [Ids -> BOOLEAN]
             /\ \/ main' = "start" /\ built' = Len(loaded)
                \/ /\ main' = "failed"
                   /\ \A r \in Ids : r <= built' => closed'[r] /\ state'[r] # "RUNNING"
  <2>1. /\ built' = n /\ n \in Nat /\ n <= MaxRunners
        /\ state' \in [Ids -> States]
        /\ writer' \in [Ids -> {"none", "open", "stopped"}]
        /\ closed' \in [Ids -> BOOLEAN]
        /\ \A r \in Ids : r <= n => state'[r] \in {"IDLE", "SCRIPT_ERROR"} /\ closed'[r] = down
    BY <1>2, Built
  <2>2. \A r \in Ids : r <= n => state'[r] # "RUNNING"
    BY <2>1
  <2>3. down => \A r \in Ids : r <= n => closed'[r]
    BY <2>1, Zenon
  <2>. QED
    BY <1>2, <2>1, <2>2, <2>3
<1>3. /\ \A p : NewWriter(p) \in {"none", "open", "stopped"}
      /\ \A p : StoppedWriter(NewWriter(p)) \in {"none", "open", "stopped"}
  BY DEF NewWriter, StoppedWriter
<1>4. ASSUME NEW S \in SUBSET Managed, S # {}
      PROVE  First(S) \in 1..Len(loaded) /\ First(S) - 1 \in 0..Len(loaded)
  <2>1. S \in SUBSET Nat
    BY <1>0
  <2>2. First(S) \in S
    BY <1>4, <2>1, FirstIsOne
  <2>3. First(S) \in 1..Len(loaded)
    BY <1>0, <2>2
  <2>. QED
    BY <1>0, <2>3
<1>5. CASE BuildManaged
  <2>. DEFINE bad == {i \in Managed : ~Constructs(loaded[i]) \/ ~WriterOpens(loaded[i])}
              w == [i \in Managed |-> NewWriter(loaded[i])]
              u == [i \in Managed |-> StoppedWriter(NewWriter(loaded[i]))]
  <2>1. CASE bad = {}
    <3>1. BuiltWith(Len(loaded), w, FALSE) /\ main' = "start"
      BY <1>5, <2>1 DEF BuildManaged
    <3>2. \A r \in 1..Len(loaded) : w[r] \in {"none", "open", "stopped"}
      BY <1>0, <1>3
    <3>3. Len(loaded) \in 0..Len(loaded) /\ FALSE \in BOOLEAN
      BY <1>0
    <3>. HIDE DEF w
    <3>. QED
      BY <1>1, <1>2, <3>1, <3>2, <3>3
  <2>2. CASE bad # {}
    <3>1. BuiltWith(First(bad) - 1, u, TRUE) /\ main' = "failed"
      BY <1>5, <2>2 DEF BuildManaged
    <3>2. First(bad) - 1 \in 0..Len(loaded)
      BY <1>4, <2>2
    <3>3. \A r \in 1..First(bad) - 1 : u[r] \in {"none", "open", "stopped"}
      BY <1>0, <1>3, <3>2
    <3>4. TRUE \in BOOLEAN
      OBVIOUS
    <3>. HIDE DEF u, bad
    <3>. QED
      BY <1>1, <1>2, <3>1, <3>2, <3>3, <3>4
  <2>. QED
    BY <2>1, <2>2
<1>6. CASE BuildHeadless
  <2>. DEFINE broken == {i \in Managed : ~Constructs(loaded[i])}
              bad == {i \in Managed : ~WriterOpens(loaded[i])}
              none == [i \in Managed |-> "none"]
              some == [i \in Managed |-> IF i < First(bad) THEN NewWriter(loaded[i]) ELSE "none"]
              w == [i \in Managed |-> NewWriter(loaded[i])]
  <2>1. CASE broken # {}
    <3>1. BuiltWith(First(broken) - 1, none, TRUE) /\ main' = "failed"
      BY <1>6, <2>1 DEF BuildHeadless
    <3>2. First(broken) - 1 \in 0..Len(loaded)
      BY <1>4, <2>1
    <3>3. \A r \in 1..First(broken) - 1 : none[r] \in {"none", "open", "stopped"}
      BY <1>0, <3>2
    <3>4. TRUE \in BOOLEAN
      OBVIOUS
    <3>. HIDE DEF none, broken
    <3>. QED
      BY <1>1, <1>2, <3>1, <3>2, <3>3, <3>4
  <2>2. CASE broken = {} /\ bad # {}
    <3>1. BuiltWith(Len(loaded), some, TRUE) /\ main' = "failed"
      BY <1>6, <2>2 DEF BuildHeadless
    <3>2. \A r \in 1..Len(loaded) : some[r] \in {"none", "open", "stopped"}
      BY <1>0, <1>3
    <3>3. Len(loaded) \in 0..Len(loaded) /\ TRUE \in BOOLEAN
      BY <1>0
    <3>. HIDE DEF some, bad, broken
    <3>. QED
      BY <1>1, <1>2, <3>1, <3>2, <3>3
  <2>3. CASE broken = {} /\ bad = {}
    <3>1. BuiltWith(Len(loaded), w, FALSE) /\ main' = "start"
      BY <1>6, <2>3 DEF BuildHeadless
    <3>2. \A r \in 1..Len(loaded) : w[r] \in {"none", "open", "stopped"}
      BY <1>0, <1>3
    <3>3. Len(loaded) \in 0..Len(loaded) /\ FALSE \in BOOLEAN
      BY <1>0
    <3>. HIDE DEF w, bad, broken
    <3>. QED
      BY <1>1, <1>2, <3>1, <3>2, <3>3
  <2>. QED
    BY <2>1, <2>2, <2>3
<1>. QED
  BY <1>1, <1>5, <1>6

\* The two ways out of the program.
LEMMA LeavingMoves ==
  ASSUME Typed, Underway, LeaveTUI \/ AllDone \/ Interrupt
  PROVE  /\ main' \in {"exited", "failed", "panicked"}
         /\ state' \in [Ids -> States]
         /\ writer' \in [Ids -> {"none", "open", "stopped"}]
         /\ closed' \in [Ids -> BOOLEAN]
         /\ UNCHANGED <<cmd, loaded, built, rowVars, modalVars, listener>>
         /\ main' \in {"exited", "failed"} =>
              \A r \in Managed : state'[r] # "RUNNING" /\ writer'[r] # "open" /\ closed'[r]
         /\ summary' # <<>> => main' = "exited" /\ \A r \in Managed : summary'[r] = state'[r]
<1>0. Managed \subseteq Ids
  BY DashboardAssumption DEF Typed, Shaped, Managed, Ids
<1>1. CASE LeaveTUI
  <2>. DEFINE dead == {r \in Managed : writer[r] = "stopped"}
  <2>1. /\ UNCHANGED <<cmd, loaded, summary, built, rowVars, modalVars, listener>>
        /\ main \in {"cleanup", "abandon"}
    BY <1>1 DEF LeaveTUI, KeepsScreen, commandVars, logVars
  <2>2. summary' = <<>>
    BY <2>1 DEF Underway
  <2>3. CASE dead = {}
    <3>1. CleanUp(Managed) /\ main' \in {"exited", "failed"}
      BY <1>1, <2>3 DEF LeaveTUI, ExitCleanup
    <3>. QED
      BY <1>0, <2>1, <2>2, <3>1, Cleaned
  <2>4. CASE dead # {}
    <3>1. CleanUp({r \in Managed : r < First(dead)}) /\ main' = "panicked"
      BY <1>1, <2>4 DEF LeaveTUI, ExitCleanup
    <3>. HIDE DEF dead
    <3>2. /\ state' \in [Ids -> States]
          /\ writer' \in [Ids -> {"none", "open", "stopped"}]
          /\ closed' \in [Ids -> BOOLEAN]
      BY <3>1, Cleaned
    <3>. QED
      BY <2>1, <2>2, <3>1, <3>2
  <2>. QED
    BY <2>3, <2>4
<1>2. ASSUME NEW interrupted \in BOOLEAN, LeaveHeadless(interrupted)
      PROVE  /\ main' = "exited"
             /\ state' \in [Ids -> States]
             /\ writer' \in [Ids -> {"none", "open", "stopped"}]
             /\ closed' \in [Ids -> BOOLEAN]
             /\ UNCHANGED <<cmd, loaded, built, rowVars, modalVars, listener>>
             /\ \A r \in Managed : state'[r] # "RUNNING" /\ writer'[r] # "open" /\ closed'[r]
             /\ \A r \in Managed : summary'[r] = state'[r]
  <2>1. state \in [Ids -> States] /\ writer \in [Ids -> {"none", "open", "stopped"}]
    BY DEF Typed, Shaped
  <2>2. /\ state' = [r \in Ids |-> IF interrupted THEN Halted(state[r]) ELSE state[r]]
        /\ summary' = [r \in Managed |-> state'[r]]
        /\ writer' = [r \in Ids |-> StoppedWriter(writer[r])]
        /\ main' = "exited"
        /\ UNCHANGED <<cmd, loaded, built, rowVars, modalVars, listener>>
    BY <1>2 DEF LeaveHeadless, KeepsScreen, logVars
  <2>3. interrupted \/ \A r \in Managed : Finished(state[r])
    BY <1>2 DEF LeaveHeadless
  <2>4. \A x \in States : Halted(x) \in States /\ Halted(x) # "RUNNING"
    BY DEF Halted, States
  <2>5. \A x : Finished(x) => x # "RUNNING"
    BY DEF Finished
  <2>6. \A x \in {"none", "open", "stopped"} : StoppedWriter(x) \in {"none", "stopped"}
    BY DEF StoppedWriter
  <2>7. state' \in [Ids -> States] /\ \A r \in Managed : state'[r] # "RUNNING"
    BY <1>0, <2>1, <2>2, <2>3, <2>4, <2>5
  <2>8. writer' \in [Ids -> {"none", "open", "stopped"}] /\ \A r \in Managed : writer'[r] # "open"
    BY <1>0, <2>1, <2>2, <2>6
  <2>9. closed' = [r \in Ids |-> r \in Managed]
    BY <1>2 DEF LeaveHeadless
  <2>10. closed' \in [Ids -> BOOLEAN]
    <3>1. \A r : (r \in Managed) \in BOOLEAN
      OBVIOUS
    <3>. QED
      BY <2>9, <3>1, Zenon
  <2>11. \A r \in Managed : closed'[r]
    <3>1. \A r \in Managed : closed'[r] = (r \in Managed)
      BY <1>0, <2>9
    <3>. QED
      BY <3>1, Zenon
  <2>. QED
    BY <2>2, <2>7, <2>8, <2>10, <2>11
<1>3. TRUE \in BOOLEAN /\ FALSE \in BOOLEAN
  OBVIOUS
<1>4. AllDone \/ Interrupt => \E interrupted \in BOOLEAN : LeaveHeadless(interrupted)
  BY <1>3, Zenon DEF AllDone, Interrupt
<1>. QED
  BY <1>1, <1>2, <1>4

\* Where the runners, or their listeners, are moved by anything else.
Elsewhere == UNCHANGED <<cmd, loaded, built, state, writer, closed, listener>>

LEMMA TypedMoves ==
  ASSUME [Next]_vars
  PROVE  \/ Elsewhere
         \/ Resolve \/ BuildManaged \/ BuildHeadless \/ StartTUI \/ StartHeadless
         \/ LeaveTUI \/ AllDone \/ Interrupt
         \/ StopKey \/ ResumeKey \/ StartKey \/ RestartKey \/ Quit
         \/ AddPicked \/ AddBrowsed \/ RemoveScenarioAt
         \/ \E r \in Ids : Finish(r) \/ ListenLog(r) \/ LogEvent(r)
<1>1. Tick \/ QuitDone => Elsewhere
  BY DEF Tick, QuitDone, Elsewhere, commandVars, runnerVars, logVars
<1>2. Move \/ SwitchTab \/ Scroll \/ OpenManual \/ OpenAddPicker \/ OpenBrowser
        \/ OpenRemoveConfirm \/ CloseModal \/ PickerToBrowser \/ MovePick => Elsewhere
  BY DEF Move, SwitchTab, Scroll, OpenManual, OpenAddPicker, OpenBrowser, OpenRemoveConfirm,
         CloseModal, PickerToBrowser, MovePick, KeepsRunners, Elsewhere, commandVars, runnerVars,
         logVars
<1>3. (\E r \in Ids : Logf(r)) => Elsewhere
  BY DEF Logf, OnlyRunners, Elsewhere, commandVars
<1>4. UNCHANGED vars => Elsewhere
  BY DEF vars, Elsewhere, commandVars, runnerVars, logVars
<1>. QED
  BY <1>1, <1>2, <1>3, <1>4 DEF Next, StartUp, User, ListKey, ModalKey, Leave

\* A scenario that is added gets the next runner.
LEMMA AddingMoves ==
  ASSUME Typed, AddPicked \/ AddBrowsed
  PROVE  /\ UNCHANGED <<cmd, loaded, closed, main, summary>>
         /\ main \in {"loop", "quitDone"} /\ Top \in {"picker", "browser"}
         /\ \/ UNCHANGED <<runnerVars, rowVars, open, listener>>
            \/ /\ built < MaxRunners /\ built' = built + 1 /\ built + 1 \in Ids
               /\ state' = [state EXCEPT ![built + 1] = "RUNNING"]
               /\ writer' \in [Ids -> {"none", "open", "stopped"}]
               /\ runners' = Append(runners, built + 1) /\ cleanups' = Append(cleanups, built + 1)
               /\ snapshots' = Append(snapshots, "RUNNING") /\ logBufs' = Append(logBufs, EmptyLog)
               /\ selected' = Len(runners') /\ open' = open \ {"picker", "browser"}
               /\ listener' = [listener EXCEPT ![built + 1] = "waiting"]
<1>1. PICK p : TryAddPath(p)
  BY DEF AddPicked, AddBrowsed
<1>2. main \in {"loop", "quitDone"} /\ Top \in {"picker", "browser"}
  BY DEF AddPicked, AddBrowsed, KeyFor, Key
<1>3. UNCHANGED <<cmd, loaded, closed, main, summary>>
  BY <1>1 DEF TryAddPath, commandVars
<1>4. built + 1 \in Ids /\ built < MaxRunners
  BY <1>1, DashboardAssumption DEF TryAddPath, Typed, Shaped, Ids
<1>5. [writer EXCEPT ![built + 1] = NewWriter(p)] \in [Ids -> {"none", "open", "stopped"}]
  BY <1>4 DEF NewWriter, Typed, Shaped
<1>. QED
  BY <1>1, <1>2, <1>3, <1>4, <1>5 DEF TryAddPath, Hide

LEMMA StepTyped ==
  ASSUME Typed, Underway, [Next]_vars
  PROVE  Typed'
<1>1. main' \in Before \cup {"wait", "loop", "quitDone", "cleanup", "abandon",
                             "exited", "failed", "panicked"}
  BY MainMoves
<1>. SUFFICES Shaped'
  BY <1>1 DEF Typed
<1>2. ASSUME UNCHANGED <<cmd, loaded, built, writer, closed, listener>>,
             state' \in [Ids -> States]
      PROVE  Shaped'
  BY <1>2 DEF Typed, Shaped
<1>3. CASE Elsewhere
  BY <1>2, <1>3 DEF Elsewhere, Typed, Shaped
<1>4. CASE Resolve
  <2>1. UNCHANGED <<cmd, built, state, writer, closed, listener>>
    BY <1>4 DEF Resolve, runnerVars, logVars
  <2>2. loaded' \in Seq(DOMAIN Files) /\ Len(loaded') <= MaxRunners
    <3>1. CASE Resolves(cmd)
      BY <1>4, <3>1, CommandLoads DEF Resolve, Typed, Shaped
    <3>2. CASE ~ Resolves(cmd)
      BY <1>4, <3>2 DEF Resolve, Typed, Shaped
    <3>. QED
      BY <3>1, <3>2
  <2>. QED
    BY <2>1, <2>2 DEF Typed, Shaped
<1>5. CASE BuildManaged \/ BuildHeadless
  <2>1. UNCHANGED <<cmd, loaded, listener>>
    BY <1>5, BuildingMoves DEF logVars
  <2>. QED
    BY <1>5, <2>1, BuildingMoves DEF Typed, Shaped
<1>6. CASE LeaveTUI \/ AllDone \/ Interrupt
  <2>1. UNCHANGED <<cmd, loaded, built, listener>>
    BY <1>6, LeavingMoves
  <2>. QED
    BY <1>6, <2>1, LeavingMoves DEF Typed, Shaped
<1>7. CASE StartTUI
  <2>1. UNCHANGED <<cmd, loaded, built, writer, closed>>
    BY <1>7 DEF StartTUI, commandVars
  <2>2. \E S : state' = [r \in Ids |-> IF r \in S THEN "RUNNING" ELSE state[r]]
    BY <1>7, Zenon DEF StartTUI
  <2>3. state' \in [Ids -> States]
    BY <2>2 DEF States, Typed, Shaped
  <2>4. listener' = listener \/ listener' = [r \in Ids |-> IF r \in Managed THEN "waiting" ELSE "none"]
    BY <1>7, Zenon DEF StartTUI, OpenDashboard
  <2>5. listener' \in [Ids -> {"none", "waiting", "sending"}]
    BY <2>4 DEF Typed, Shaped
  <2>. QED
    BY <2>1, <2>3, <2>5 DEF Typed, Shaped
<1>8. CASE StartHeadless
  <2>1. UNCHANGED <<cmd, loaded, built, writer, closed, listener>>
    BY <1>8 DEF StartHeadless, commandVars, logVars
  <2>2. state' \in [Ids -> States]
    BY <1>8 DEF StartHeadless, Typed, Shaped, States
  <2>. QED
    BY <1>2, <2>1, <2>2
<1>9. CASE StopKey \/ ResumeKey \/ StartKey \/ RestartKey
  <2>1. UNCHANGED <<cmd, loaded, built, writer, closed, listener>>
    BY <1>9 DEF StopKey, ResumeKey, StartKey, RestartKey, SetState, commandVars, logVars
  <2>2. \E to \in {"RUNNING", "STOPPED"} : state' = [state EXCEPT ![Selected] = to]
    BY <1>9 DEF StopKey, ResumeKey, StartKey, RestartKey, SetState
  <2>3. state' \in [Ids -> States]
    BY <2>2 DEF Typed, Shaped, States
  <2>. QED
    BY <1>2, <2>1, <2>3
<1>10. CASE Quit
  <2>1. UNCHANGED <<cmd, loaded, built, writer, closed, listener>>
    BY <1>10 DEF Quit, commandVars, logVars
  <2>2. \/ state' = state
        \/ state' = [r \in Ids |-> IF r \in Stopping THEN Halted(state[r]) ELSE state[r]]
    BY <1>10, Zenon DEF Quit
  <2>3. \A x \in States : Halted(x) \in States
    BY DEF Halted, States
  <2>4. state' \in [Ids -> States]
    BY <2>2, <2>3 DEF Typed, Shaped
  <2>. QED
    BY <1>2, <2>1, <2>4
<1>11. CASE AddPicked \/ AddBrowsed
  <2>1. CASE UNCHANGED <<runnerVars, rowVars, open, listener>>
    <3>1. UNCHANGED <<cmd, loaded, built, state, writer, closed, listener>>
      BY <1>11, <2>1, AddingMoves DEF runnerVars
    <3>. QED
      BY <1>2, <3>1 DEF Typed, Shaped
  <2>2. CASE /\ built < MaxRunners /\ built' = built + 1 /\ built + 1 \in Ids
             /\ state' = [state EXCEPT ![built + 1] = "RUNNING"]
             /\ writer' \in [Ids -> {"none", "open", "stopped"}]
             /\ listener' = [listener EXCEPT ![built + 1] = "waiting"]
    <3>1. built' \in Nat /\ built' <= MaxRunners
      BY <2>2, DashboardAssumption DEF Typed, Shaped
    <3>2. state' \in [Ids -> States]
      BY <2>2 DEF Typed, Shaped, States
    <3>3. listener' \in [Ids -> {"none", "waiting", "sending"}]
      BY <2>2 DEF Typed, Shaped
    <3>4. UNCHANGED <<cmd, loaded, closed>>
      BY <1>11, AddingMoves
    <3>. QED
      BY <2>2, <3>1, <3>2, <3>3, <3>4 DEF Typed, Shaped
  <2>. QED
    BY <1>11, <2>1, <2>2, AddingMoves
<1>12. CASE RemoveScenarioAt
  <2>1. UNCHANGED <<cmd, loaded, built, listener>>
    BY <1>12 DEF RemoveScenarioAt, RemoveWith, commandVars, logVars
  <2>2. CleanUp({cleanups[removeTarget]})
    BY <1>12 DEF RemoveScenarioAt, RemoveWith
  <2>3. /\ state' \in [Ids -> States]
        /\ writer' \in [Ids -> {"none", "open", "stopped"}]
        /\ closed' \in [Ids -> BOOLEAN]
    BY <2>2, Cleaned
  <2>. QED
    BY <2>1, <2>3 DEF Typed, Shaped
<1>13. ASSUME NEW r \in Ids, Finish(r)
       PROVE  Shaped'
  <2>1. UNCHANGED <<cmd, loaded, built, writer, closed, listener>>
    BY <1>13 DEF Finish, OnlyRunners, commandVars, logVars
  <2>2. state' \in [Ids -> States]
    BY <1>13 DEF Finish, Typed, Shaped, States
  <2>. QED
    BY <1>2, <2>1, <2>2
<1>14. ASSUME NEW r \in Ids, ListenLog(r) \/ LogEvent(r)
       PROVE  Shaped'
  <2>1. UNCHANGED <<cmd, loaded, built, state, writer, closed>>
    BY <1>14 DEF ListenLog, LogEvent, OnlyRunners, commandVars, runnerVars
  <2>2. \E x \in {"none", "waiting", "sending"} : listener' = [listener EXCEPT ![r] = x]
    BY <1>14 DEF ListenLog, LogEvent
  <2>3. listener' \in [Ids -> {"none", "waiting", "sending"}]
    BY <2>2 DEF Typed, Shaped
  <2>. QED
    BY <2>1, <2>3 DEF Typed, Shaped
<1>. QED
  BY <1>3, <1>4, <1>5, <1>6, <1>7, <1>8, <1>9, <1>10, <1>11, <1>12, <1>13, <1>14, TypedMoves

-----------------------------------------------------------------------------
(***************************************************************************)
(* The teardown.                                                           *)
(***************************************************************************)
\* The program goes on.
Going ==
  /\ main \notin {"exited", "failed"} /\ summary' = summary
  /\ \/ main' = main /\ UNCHANGED <<built, loaded>>
     \/ main' \in {"loop", "quitDone", "cleanup"}

LEMMA ProgramMoves ==
  ASSUME [Next]_vars
  PROVE  \/ UNCHANGED vars \/ Going
         \/ Resolve \/ BuildManaged \/ BuildHeadless \/ StartTUI \/ StartHeadless
         \/ LeaveTUI \/ AllDone \/ Interrupt
<1>1. Tick \/ QuitDone \/ Quit => Going
  BY DEF Tick, QuitDone, Quit, Key, Going, commandVars
<1>2. ListKey => Going
  BY DEF ListKey, Move, SwitchTab, Scroll, OpenManual, OpenAddPicker, OpenBrowser,
         OpenRemoveConfirm, StopKey, ResumeKey, StartKey, RestartKey, SetState, KeyFor, Key,
         KeepsRunners, Going, commandVars, runnerVars
<1>3. ModalKey => Going
  BY DEF ModalKey, CloseModal, PickerToBrowser, MovePick, AddPicked, AddBrowsed, TryAddPath,
         RemoveScenarioAt, RemoveWith, KeyFor, Key, KeepsRunners, Going, commandVars, runnerVars
<1>4. (\E r \in Ids : Finish(r) \/ Logf(r) \/ ListenLog(r) \/ LogEvent(r)) => Going
  BY DEF Finish, Logf, ListenLog, LogEvent, OnlyRunners, Over, Going, commandVars, runnerVars
<1>. QED
  BY <1>1, <1>2, <1>3, <1>4 DEF Next, StartUp, User, Leave

LEMMA InitUnderway ==
  ASSUME Init
  PROVE  Underway
BY DEF Init, Underway, TornDown

LEMMA StepUnderway ==
  ASSUME Typed, Underway, [Next]_vars
  PROVE  Underway'
<1>0. Managed \subseteq Ids /\ Len(loaded) \in Nat
  BY DashboardAssumption DEF Typed, Shaped, Managed, Ids
<1>1. CASE UNCHANGED vars
  BY <1>1 DEF Underway, TornDown, Managed, vars, commandVars, runnerVars
<1>2. CASE Going
  BY <1>2 DEF Going, Underway, TornDown
<1>3. CASE Resolve
  <2>1. /\ summary' = <<>>
        /\ main' = "build" \/ (main' = "failed" /\ loaded' = <<>>)
    BY <1>3 DEF Resolve, Underway
  <2>2. loaded' = <<>> => DOMAIN loaded' = {}
    OBVIOUS
  <2>. QED
    BY <2>1, <2>2 DEF Underway, TornDown, Managed
<1>4. CASE BuildManaged \/ BuildHeadless
  <2>1. /\ main = "build" /\ UNCHANGED <<loaded, summary>>
        /\ \/ main' = "start" /\ built' = Len(loaded)
           \/ /\ main' = "failed"
              /\ \A r \in Ids : r <= built' => closed'[r] /\ state'[r] # "RUNNING"
    BY <1>4, BuildingMoves
  <2>2. summary' = <<>>
    BY <2>1 DEF Underway
  <2>3. \A r \in 1..built' : r \in Managed => r \in Ids /\ r <= built'
    BY <1>0
  <2>. QED
    BY <2>1, <2>2, <2>3 DEF Underway, TornDown, Managed
<1>5. CASE StartTUI \/ StartHeadless
  <2>1. main = "start" /\ main' \in {"loop", "abandon", "wait"} /\ UNCHANGED <<loaded, built, summary>>
    BY <1>5 DEF StartTUI, OpenDashboard, StartHeadless, commandVars
  <2>. QED
    BY <2>1 DEF Underway, TornDown
<1>6. CASE LeaveTUI \/ AllDone \/ Interrupt
  <2>1. /\ main' \in {"exited", "failed", "panicked"}
        /\ loaded' = loaded
        /\ main' \in {"exited", "failed"} =>
             \A r \in Managed : state'[r] # "RUNNING" /\ writer'[r] # "open" /\ closed'[r]
        /\ summary' # <<>> => main' = "exited" /\ \A r \in Managed : summary'[r] = state'[r]
    BY <1>6, LeavingMoves
  <2>. QED
    BY <2>1 DEF Underway, TornDown, Managed
<1>. QED
  BY <1>1, <1>2, <1>3, <1>4, <1>5, <1>6, ProgramMoves

-----------------------------------------------------------------------------
(***************************************************************************)
(* The sidebar and the logs.                                               *)
(***************************************************************************)
SameList == UNCHANGED <<runners, cleanups, snapshots, logBufs, built, listener>>

LEMMA ListMoves ==
  ASSUME Typed, Underway, [Next]_vars
  PROVE  \/ SameList
         \/ BuildManaged \/ BuildHeadless \/ StartTUI \/ Tick \/ Scroll
         \/ AddPicked \/ AddBrowsed \/ RemoveScenarioAt
         \/ \E r \in Ids : ListenLog(r) \/ LogEvent(r)
<1>1. Resolve \/ StartHeadless \/ QuitDone => SameList
  BY DEF Resolve, StartHeadless, QuitDone, SameList, runnerVars, rowVars, logVars
<1>2. LeaveTUI \/ AllDone \/ Interrupt => SameList
  BY LeavingMoves DEF SameList, rowVars
<1>3. Move \/ SwitchTab \/ OpenManual \/ OpenAddPicker \/ OpenBrowser
        \/ OpenRemoveConfirm \/ CloseModal \/ PickerToBrowser \/ MovePick => SameList
  BY DEF Move, SwitchTab, OpenManual, OpenAddPicker, OpenBrowser, OpenRemoveConfirm,
         CloseModal, PickerToBrowser, MovePick, KeepsRunners, SameList, runnerVars, rowVars, logVars
<1>4. StopKey \/ ResumeKey \/ StartKey \/ RestartKey \/ Quit => SameList
  BY DEF StopKey, ResumeKey, StartKey, RestartKey, SetState, Quit, KeepsScreen, SameList, rowVars,
         logVars
<1>5. (\E r \in Ids : Finish(r) \/ Logf(r)) => SameList
  BY DEF Finish, Logf, OnlyRunners, SameList, rowVars, logVars
<1>6. UNCHANGED vars => SameList
  BY DEF vars, SameList, runnerVars, rowVars, logVars
<1>. QED
  BY <1>1, <1>2, <1>3, <1>4, <1>5, <1>6 DEF Next, StartUp, User, ListKey, ModalKey, Leave

LEMMA InitListed ==
  ASSUME Init
  PROVE  Listed /\ Buffered
<1>1. runners = <<>> /\ cleanups = <<>> /\ snapshots = <<>> /\ logBufs = <<>>
  BY DEF Init
<1>. QED
  BY <1>1 DEF Listed, Buffered

\* The list is opened with the runners of the command, or stays empty.
LEMMA OpeningMoves ==
  ASSUME Typed, Listed, Underway, StartTUI
  PROVE  /\ main = "start" /\ main' \notin Before /\ built' = built /\ UNCHANGED <<selected, modalVars>>
         /\ \/ UNCHANGED <<rowVars, listener>>
            \/ /\ runners' = [i \in 1..built |-> i] /\ cleanups' = runners'
               /\ snapshots' = [i \in 1..built |-> state'[i]]
               /\ logBufs' = [i \in 1..built |-> EmptyLog]
               /\ \A i \in 1..built : i \in Ids /\ listener'[i] = "waiting"
<1>1. main = "start" /\ main' \notin Before /\ built' = built /\ UNCHANGED <<selected, modalVars>>
  BY DEF StartTUI, OpenDashboard, Before, rowVars
<1>2. Managed = 1..built /\ \A i \in 1..built : i \in Ids
  BY <1>1, DashboardAssumption DEF Underway, Typed, Shaped, Managed, Ids
<1>3. \/ UNCHANGED <<rowVars, listener>>
      \/ OpenDashboard
  BY DEF StartTUI
<1>4. CASE OpenDashboard
  <2>1. /\ runners' = [i \in Managed |-> i] /\ cleanups' = runners'
        /\ snapshots' = [i \in Managed |-> state'[i]]
        /\ logBufs' = [i \in Managed |-> EmptyLog]
        /\ listener' = [r \in Ids |-> IF r \in Managed THEN "waiting" ELSE "none"]
    BY <1>4 DEF OpenDashboard
  <2>. QED
    BY <1>1, <1>2, <2>1
<1>. QED
  BY <1>1, <1>3, <1>4

LEMMA StepListed ==
  ASSUME Typed, Listed, Underway, [Next]_vars
  PROVE  Listed'
<1>0. /\ main' \in Before => main \in Before
      /\ Typed' /\ state' \in [Ids -> States] /\ built' \in Nat
  BY MainMoves, StepTyped DEF Typed, Shaped
<1>1. CASE SameList
  BY <1>0, <1>1 DEF SameList, Listed
<1>2. CASE BuildManaged \/ BuildHeadless
  <2>1. runners = <<>> /\ UNCHANGED <<runners, cleanups, snapshots>>
    BY <1>2, BuildingMoves DEF Listed, Before, rowVars
  <2>. QED
    BY <2>1 DEF Listed
<1>3. CASE StartTUI
  <2>1. CASE UNCHANGED <<rowVars, listener>>
    BY <1>3, <2>1, OpeningMoves DEF Listed, rowVars
  <2>2. CASE /\ runners' = [i \in 1..built |-> i] /\ cleanups' = runners'
             /\ snapshots' = [i \in 1..built |-> state'[i]]
             /\ \A i \in 1..built : i \in Ids /\ listener'[i] = "waiting"
    <3>1. built \in Nat /\ built' = built /\ main' \notin Before
      BY <1>3, OpeningMoves DEF Typed, Shaped
    <3>2. runners' \in Seq(Ids) /\ Len(runners') = built
      BY <2>2, <3>1, IsASeq
    <3>3. snapshots' \in Seq(States) /\ Len(snapshots') = built
      <4>1. \A i \in 1..built : state'[i] \in States
        BY <1>0, <2>2
      <4>. QED
        BY <2>2, <3>1, <4>1, IsASeq
    <3>. QED
      BY <2>2, <3>1, <3>2, <3>3 DEF Listed
  <2>. QED
    BY <1>3, <2>1, <2>2, OpeningMoves
<1>4. CASE Tick
  <2>1. /\ snapshots' = [i \in DOMAIN runners |-> state[runners[i]]]
        /\ UNCHANGED <<runners, cleanups, built, listener>>
    BY <1>4 DEF Tick, runnerVars, logVars
  <2>2. /\ runners \in Seq(Ids) /\ Len(runners) \in Nat /\ DOMAIN runners = 1..Len(runners)
        /\ state \in [Ids -> States]
    BY DEF Listed, Typed, Shaped
  <2>3. \A i \in 1..Len(runners) : state[runners[i]] \in States
    BY <2>2
  <2>4. snapshots' \in Seq(States) /\ Len(snapshots') = Len(runners)
    BY <2>1, <2>2, <2>3, IsASeq
  <2>. QED
    BY <1>0, <2>1, <2>4 DEF Listed
<1>5. CASE Scroll
  <2>1. UNCHANGED <<runners, cleanups, snapshots, built, listener>>
    BY <1>5 DEF Scroll, KeepsRunners, runnerVars, logVars
  <2>. QED
    BY <1>0, <2>1 DEF Listed
<1>6. CASE AddPicked \/ AddBrowsed
  <2>1. CASE UNCHANGED <<runnerVars, rowVars, open, listener>>
    BY <1>0, <2>1 DEF Listed, runnerVars, rowVars
  <2>2. CASE /\ built' = built + 1 /\ built + 1 \in Ids
             /\ runners' = Append(runners, built + 1) /\ cleanups' = Append(cleanups, built + 1)
             /\ snapshots' = Append(snapshots, "RUNNING")
             /\ listener' = [listener EXCEPT ![built + 1] = "waiting"]
    <3>1. /\ runners \in Seq(Ids) /\ Len(runners) \in Nat /\ cleanups = runners
          /\ \A i \in 1..Len(runners) : runners[i] \in Ids /\ runners[i] <= built
                                        /\ listener[runners[i]] # "none"
          /\ built \in Nat /\ main \notin Before
          /\ snapshots \in Seq(States) /\ Len(snapshots) = Len(runners)
          /\ listener \in [Ids -> {"none", "waiting", "sending"}]
      BY <1>6, AddingMoves DEF Listed, Typed, Shaped, Before
    <3>0. \A i \in 1..Len(runners) : \A j \in 1..Len(runners) : runners[i] = runners[j] => i = j
      BY <3>1 DEF Listed
    <3>2. /\ runners' \in Seq(Ids) /\ Len(runners') = Len(runners) + 1
          /\ runners'[Len(runners) + 1] = built + 1
          /\ \A i \in 1..Len(runners) : runners'[i] = runners[i]
      BY <2>2, <3>1
    <3>3. snapshots' \in Seq(States) /\ Len(snapshots') = Len(runners')
      BY <2>2, <3>1, <3>2 DEF States
    <3>4. \A i \in 1..Len(runners') : runners'[i] <= built' /\ listener'[runners'[i]] # "none"
      <4>1. \A i \in 1..Len(runners) : runners'[i] <= built' /\ listener'[runners'[i]] # "none"
        BY <2>2, <3>1, <3>2 DEF Ids
      <4>2. runners'[Len(runners) + 1] <= built' /\ listener'[runners'[Len(runners) + 1]] # "none"
        BY <2>2, <3>1, <3>2
      <4>. QED
        BY <3>1, <3>2, <4>1, <4>2
    <3>5. \A i \in 1..Len(runners') : \A j \in 1..Len(runners') : runners'[i] = runners'[j] => i = j
      <4>1. \A i \in 1..Len(runners) : runners'[i] # runners'[Len(runners) + 1]
        BY <3>1, <3>2
      <4>. QED
        BY <3>0, <3>1, <3>2, <4>1
    <3>. QED
      BY <1>0, <2>2, <3>1, <3>2, <3>3, <3>4, <3>5 DEF Listed
  <2>. QED
    BY <1>6, <2>1, <2>2, AddingMoves
<1>7. CASE RemoveScenarioAt
  <2>1. /\ removeTarget \in DOMAIN runners
        /\ runners' = RemoveAt(runners, removeTarget) /\ cleanups' = RemoveAt(cleanups, removeTarget)
        /\ snapshots' = RemoveAt(snapshots, removeTarget)
        /\ UNCHANGED <<built, listener, main>>
    BY <1>7 DEF RemoveScenarioAt, RemoveWith, logVars
  <2>2. /\ runners \in Seq(Ids) /\ cleanups = runners /\ removeTarget \in 1..Len(runners)
        /\ Len(runners) \in Nat
        /\ snapshots \in Seq(States) /\ Len(snapshots) = Len(runners)
        /\ main \notin Before
    BY <1>7, <2>1 DEF Listed, RemoveScenarioAt, RemoveWith, KeyFor, Key, Before
  <2>3. /\ runners' \in Seq(Ids) /\ Len(runners') = Len(runners) - 1
        /\ \A j \in 1..Len(runners) - 1 :
             runners'[j] = IF j < removeTarget THEN runners[j] ELSE runners[j + 1]
    BY <2>1, <2>2, RemovedAt
  <2>4. snapshots' \in Seq(States) /\ Len(snapshots') = Len(snapshots) - 1
    BY <2>1, <2>2, RemovedAt
  <2>5. \A j \in 1..Len(runners') : \E i \in 1..Len(runners) :
          runners'[j] = runners[i] /\ i = IF j < removeTarget THEN j ELSE j + 1
    BY <2>2, <2>3
  <2>6. \A j \in 1..Len(runners') : runners'[j] <= built' /\ listener'[runners'[j]] # "none"
    BY <2>1, <2>2, <2>5 DEF Listed
  <2>7. ASSUME NEW i \in 1..Len(runners'), NEW j \in 1..Len(runners'), runners'[i] = runners'[j]
        PROVE  i = j
    <3>1. PICK m \in 1..Len(runners) :
            runners'[i] = runners[m] /\ m = IF i < removeTarget THEN i ELSE i + 1
      BY <2>5
    <3>2. PICK n \in 1..Len(runners) :
            runners'[j] = runners[n] /\ n = IF j < removeTarget THEN j ELSE j + 1
      BY <2>5
    <3>3. m \in DOMAIN runners /\ n \in DOMAIN runners /\ runners[m] = runners[n]
      <4>1. runners[m] = runners[n]
        BY <2>7, <3>1, <3>2, Zenon
      <4>2. DOMAIN runners = 1..Len(runners)
        BY <2>2
      <4>. QED
        BY <4>1, <4>2
    <3>4. m = n
      BY <3>3, Zenon DEF Listed
    <3>. QED
      BY <2>2, <2>3, <3>1, <3>2, <3>4
  <2>8. DOMAIN runners' = 1..Len(runners') /\ cleanups' = runners' /\ main' \notin Before
        /\ Len(snapshots') = Len(runners')
    BY <2>1, <2>2, <2>3, <2>4
  <2>. QED
    BY <2>3, <2>4, <2>6, <2>7, <2>8 DEF Listed
<1>8. ASSUME NEW r \in Ids, ListenLog(r)
      PROVE  Listed'
  <2>1. UNCHANGED <<runners, cleanups, snapshots, built>> /\ listener' = [listener EXCEPT ![r] = "sending"]
    BY <1>8 DEF ListenLog, OnlyRunners, rowVars
  <2>. QED
    BY <1>0, <2>1 DEF Listed, Typed, Shaped
<1>9. ASSUME NEW r \in Ids, LogEvent(r)
      PROVE  Listed'
  <2>1. /\ UNCHANGED <<runners, cleanups, snapshots, built>>
        /\ listener' = [listener EXCEPT ![r] = IF IndexOf(r) = {} THEN "none" ELSE "waiting"]
    BY <1>9 DEF LogEvent, runnerVars
  <2>2. \A i \in DOMAIN runners : listener'[runners[i]] # "none"
    BY <2>1 DEF Listed, Typed, Shaped, IndexOf
  <2>. QED
    BY <1>0, <2>1, <2>2 DEF Listed
<1>. QED
  BY <1>1, <1>2, <1>3, <1>4, <1>5, <1>6, <1>7, <1>8, <1>9, ListMoves

LEMMA StepBuffered ==
  ASSUME Typed, Listed, Buffered, Underway, Focused, [Next]_vars
  PROVE  Buffered'
<1>. DEFINE Buffers == [lines : Seq(Ids), scroll : Nat]
<1>0. /\ logBufs \in Seq(Buffers) /\ Len(logBufs) = Len(runners)
      /\ runners \in Seq(Ids) /\ Len(runners) \in Nat
      /\ \A i \in 1..Len(runners) : i \in DOMAIN logBufs /\ runners[i] \in Ids
                                    /\ BufferOf(logBufs[i], runners[i])
  <2>1. /\ logBufs \in Seq(Buffers) /\ Len(logBufs) = Len(runners)
        /\ \A i \in DOMAIN runners : BufferOf(logBufs[i], runners[i])
    BY Zenon DEF Buffered
  <2>2. runners \in Seq(Ids)
    BY DEF Listed
  <2>. HIDE DEF Buffers
  <2>. QED
    BY <2>1, <2>2
<1>1. CASE UNCHANGED <<runners, logBufs>>
  BY <1>1, Zenon DEF Buffered, BufferOf
<1>2. SameList \/ BuildManaged \/ BuildHeadless \/ Tick => UNCHANGED <<runners, logBufs>>
  BY BuildingMoves DEF SameList, rowVars, Tick
<1>3. (\E r \in Ids : ListenLog(r)) => UNCHANGED <<runners, logBufs>>
  BY DEF ListenLog, OnlyRunners, rowVars
<1>4. CASE StartTUI
  <2>1. CASE UNCHANGED <<rowVars, listener>>
    BY <1>1, <2>1 DEF rowVars
  <2>2. CASE /\ runners' = [i \in 1..built |-> i]
             /\ logBufs' = [i \in 1..built |-> EmptyLog]
             /\ \A i \in 1..built : i \in Ids
    <3>1. built \in Nat
      BY DEF Typed, Shaped
    <3>2. \A i \in 1..built : BufferOf(EmptyLog, i)
      BY <2>2, NewBuffer
    <3>3. EmptyLog \in Buffers
      BY DEF EmptyLog
    <3>4. logBufs' \in Seq(Buffers) /\ Len(logBufs') = built
      BY <2>2, <3>1, <3>3, IsASeq
    <3>5. Len(runners') = built /\ DOMAIN runners' = 1..built
      BY <2>2, <3>1
    <3>6. \A i \in DOMAIN runners' : BufferOf(logBufs'[i], runners'[i])
      BY <2>2, <3>2, <3>5
    <3>. QED
      BY <3>4, <3>5, <3>6, Zenon DEF Buffered, BufferOf
  <2>. QED
    BY <1>4, <2>1, <2>2, OpeningMoves
<1>5. CASE Scroll
  <2>1. /\ runners' = runners /\ runners # <<>>
        /\ \E b \in {ScrollUp(logBufs[selected]), ScrollDown(logBufs[selected])} :
             logBufs' = [logBufs EXCEPT ![selected] = b]
    BY <1>5 DEF Scroll
  <2>2. selected \in 1..Len(runners)
    BY <1>0, <2>1 DEF Focused
  <2>3. PICK b : /\ BufferOf(b, runners[selected])
                 /\ logBufs' = [logBufs EXCEPT ![selected] = b]
    BY <1>0, <2>1, <2>2, Scrolled
  <2>4. b \in Buffers
    BY <2>3 DEF BufferOf
  <2>5. logBufs' \in Seq(Buffers) /\ Len(logBufs') = Len(runners)
    BY <1>0, <2>2, <2>3, <2>4, ExceptSeq
  <2>6. \A i \in 1..Len(runners) : BufferOf(logBufs'[i], runners[i])
    BY <1>0, <2>2, <2>3
  <2>. QED
    BY <1>0, <2>1, <2>5, <2>6 DEF Buffered, BufferOf
<1>6. CASE AddPicked \/ AddBrowsed
  <2>1. CASE UNCHANGED <<runnerVars, rowVars, open, listener>>
    BY <1>1, <2>1 DEF rowVars
  <2>2. CASE /\ built + 1 \in Ids
             /\ runners' = Append(runners, built + 1) /\ logBufs' = Append(logBufs, EmptyLog)
    <3>1. EmptyLog \in Buffers /\ BufferOf(EmptyLog, built + 1)
      BY <2>2, NewBuffer DEF EmptyLog
    <3>2. /\ logBufs' \in Seq(Buffers) /\ Len(logBufs') = Len(runners')
          /\ Len(runners') = Len(runners) + 1 /\ DOMAIN runners' = 1..Len(runners) + 1
      BY <1>0, <2>2, <3>1
    <3>3. \A i \in 1..Len(runners) : logBufs'[i] = logBufs[i] /\ runners'[i] = runners[i]
      BY <1>0, <2>2
    <3>4. logBufs'[Len(runners) + 1] = EmptyLog /\ runners'[Len(runners) + 1] = built + 1
      BY <1>0, <2>2
    <3>5. \A i \in 1..Len(runners) + 1 : BufferOf(logBufs'[i], runners'[i])
      <4>1. \A i \in 1..Len(runners) : BufferOf(logBufs'[i], runners'[i])
        BY <1>0, <3>3, Zenon
      <4>2. BufferOf(logBufs'[Len(runners) + 1], runners'[Len(runners) + 1])
        BY <3>1, <3>4, Zenon
      <4>3. \A i \in 1..Len(runners) + 1 : i \in 1..Len(runners) \/ i = Len(runners) + 1
        BY <1>0
      <4>. QED
        BY <4>1, <4>2, <4>3, Zenon
    <3>. QED
      BY <3>2, <3>5 DEF Buffered, BufferOf
  <2>. QED
    BY <1>6, <2>1, <2>2, AddingMoves
<1>7. CASE RemoveScenarioAt
  <2>1. /\ removeTarget \in 1..Len(runners)
        /\ runners' = RemoveAt(runners, removeTarget)
        /\ logBufs' = RemoveAt(logBufs, removeTarget)
    BY <1>0, <1>7 DEF RemoveScenarioAt, RemoveWith
  <2>2. /\ Len(runners') = Len(runners) - 1 /\ runners' \in Seq(Ids)
        /\ \A j \in 1..Len(runners) - 1 :
             runners'[j] = IF j < removeTarget THEN runners[j] ELSE runners[j + 1]
    BY <1>0, <2>1, RemovedAt
  <2>3. /\ logBufs' \in Seq(Buffers) /\ Len(logBufs') = Len(runners) - 1
        /\ \A j \in 1..Len(runners) - 1 :
             logBufs'[j] = IF j < removeTarget THEN logBufs[j] ELSE logBufs[j + 1]
    <3>1. removeTarget \in 1..Len(logBufs)
      BY <1>0, <2>1
    <3>2. /\ RemoveAt(logBufs, removeTarget) \in Seq(Buffers)
          /\ Len(RemoveAt(logBufs, removeTarget)) = Len(logBufs) - 1
          /\ \A j \in 1..Len(logBufs) - 1 :
               RemoveAt(logBufs, removeTarget)[j]
                 = IF j < removeTarget THEN logBufs[j] ELSE logBufs[j + 1]
      BY <1>0, <3>1, RemovedAt
    <3>. QED
      BY <1>0, <2>1, <3>2
  <2>4. ASSUME NEW j \in 1..Len(runners')
        PROVE  BufferOf(logBufs'[j], runners'[j])
    <3>1. j \in 1..Len(runners) - 1 /\ j \in 1..Len(runners) /\ j + 1 \in 1..Len(runners)
      <4>1. Len(runners) \in Nat /\ Len(runners') = Len(runners) - 1
        BY <1>0, <2>2, Zenon
      <4>. QED
        BY <4>1
    <3>2. CASE j < removeTarget
      <4>1. runners'[j] = runners[j] /\ logBufs'[j] = logBufs[j]
        BY <2>2, <2>3, <3>1, <3>2
      <4>. QED
        BY <1>0, <3>1, <4>1, Zenon
    <3>3. CASE ~ (j < removeTarget)
      <4>1. runners'[j] = runners[j + 1] /\ logBufs'[j] = logBufs[j + 1]
        BY <2>2, <2>3, <3>1, <3>3
      <4>. QED
        BY <1>0, <3>1, <4>1, Zenon
    <3>. QED
      BY <3>2, <3>3
  <2>5. DOMAIN runners' = 1..Len(runners')
    BY <2>2
  <2>. QED
    BY <2>2, <2>3, <2>4, <2>5 DEF Buffered, BufferOf
<1>8. ASSUME NEW r \in Ids, LogEvent(r)
      PROVE  Buffered'
  <2>1. /\ runners' = runners
        /\ logBufs' = [i \in DOMAIN logBufs |->
                        IF i \in IndexOf(r) THEN AppendLine(logBufs[i], r) ELSE logBufs[i]]
    BY <1>8 DEF LogEvent
  <2>2. DOMAIN logBufs = 1..Len(runners)
    BY <1>0
  <2>3. ASSUME NEW i \in 1..Len(runners)
        PROVE  BufferOf(logBufs'[i], runners[i])
    <3>1. CASE runners[i] = r
      <4>1. i \in IndexOf(r)
        BY <1>0, <3>1 DEF IndexOf
      <4>2. logBufs'[i] = AppendLine(logBufs[i], r)
        BY <2>1, <2>2, <4>1
      <4>. QED
        BY <1>0, <3>1, <4>2, Appended
    <3>2. CASE runners[i] # r
      <4>1. i \notin IndexOf(r)
        BY <3>2 DEF IndexOf
      <4>2. logBufs'[i] = logBufs[i]
        BY <2>1, <2>2, <4>1
      <4>. QED
        BY <1>0, <4>2
    <3>. QED
      BY <3>1, <3>2
  <2>4. \A i \in 1..Len(runners) : logBufs'[i] \in Buffers
    BY <2>3 DEF BufferOf
  <2>5. logBufs' = [i \in 1..Len(runners) |->
                     IF i \in IndexOf(r) THEN AppendLine(logBufs[i], r) ELSE logBufs[i]]
    BY <2>1, <2>2
  <2>6. logBufs' \in Seq(Buffers) /\ Len(logBufs') = Len(runners)
    <3>. HIDE DEF Buffers
    <3>. QED
      BY <1>0, <2>4, <2>5, IsASeq
  <2>7. DOMAIN runners = 1..Len(runners)
    BY <1>0
  <2>8. \A i \in DOMAIN runners' : BufferOf(logBufs'[i], runners'[i])
    BY <2>1, <2>3, <2>7, Zenon
  <2>9. Len(logBufs') = Len(runners')
    BY <2>1, <2>6
  <2>. QED
    BY <2>6, <2>8, <2>9, Zenon DEF Buffered, BufferOf
<1>. QED
  BY <1>1, <1>2, <1>3, <1>4, <1>5, <1>6, <1>7, <1>8, ListMoves

-----------------------------------------------------------------------------
(***************************************************************************)
(* The selection and the modals.                                           *)
(***************************************************************************)
SameFocus == UNCHANGED <<runners, selected, open, removeTarget, asked>>

LEMMA FocusMoves ==
  ASSUME Typed, Underway, [Next]_vars
  PROVE  \/ SameFocus
         \/ StartTUI \/ Move \/ OpenManual \/ OpenAddPicker \/ OpenBrowser
         \/ OpenRemoveConfirm \/ CloseModal \/ PickerToBrowser
         \/ AddPicked \/ AddBrowsed \/ RemoveScenarioAt
<1>1. Resolve \/ StartHeadless \/ QuitDone \/ Tick => SameFocus
  BY DEF Resolve, StartHeadless, QuitDone, Tick, SameFocus, rowVars, modalVars
<1>2. BuildManaged \/ BuildHeadless => SameFocus
  BY BuildingMoves DEF SameFocus, rowVars, modalVars
<1>3. LeaveTUI \/ AllDone \/ Interrupt => SameFocus
  BY LeavingMoves DEF SameFocus, rowVars, modalVars
<1>4. SwitchTab \/ Scroll \/ MovePick => SameFocus
  BY DEF SwitchTab, Scroll, MovePick, SameFocus, rowVars, modalVars
<1>5. StopKey \/ ResumeKey \/ StartKey \/ RestartKey \/ Quit => SameFocus
  BY DEF StopKey, ResumeKey, StartKey, RestartKey, SetState, Quit, KeepsScreen, SameFocus, rowVars,
         modalVars
<1>6. (\E r \in Ids : Finish(r) \/ Logf(r) \/ ListenLog(r) \/ LogEvent(r)) => SameFocus
  BY DEF Finish, Logf, ListenLog, LogEvent, OnlyRunners, SameFocus, rowVars, modalVars
<1>7. UNCHANGED vars => SameFocus
  BY DEF vars, SameFocus, rowVars, modalVars
<1>. QED
  BY <1>1, <1>2, <1>3, <1>4, <1>5, <1>6, <1>7 DEF Next, StartUp, User, ListKey, ModalKey, Leave

LEMMA InitFocused ==
  ASSUME Init
  PROVE  Focused
BY DEF Init, Focused

\* A modal opens over the bare list only.
LEMMA StepFocused ==
  ASSUME Typed, Listed, Focused, Underway, [Next]_vars
  PROVE  Focused'
<1>0. /\ main' \in Before => main \in Before
      /\ runners \in Seq(Ids) /\ Len(runners) \in Nat /\ DOMAIN runners = 1..Len(runners)
      /\ runners = <<>> <=> Len(runners) = 0
      /\ selected \in Nat \ {0}
      /\ selected <= Len(runners) \/ (runners = <<>> /\ selected = 1)
  BY MainMoves DEF Listed, Focused
<1>1. CASE SameFocus
  BY <1>0, <1>1 DEF SameFocus, Focused
<1>2. CASE StartTUI
  <2>1. /\ main = "start" /\ main' \notin Before /\ UNCHANGED <<selected, modalVars>>
        /\ runners = <<>> /\ open = {}
    BY <1>2, OpeningMoves DEF Before, Listed, Focused
  <2>2. selected = 1 /\ built \in Nat
    BY <1>0, <2>1 DEF Typed, Shaped
  <2>3. runners' = <<>> \/ Len(runners') >= 1
    <3>1. CASE runners' = runners
      BY <2>1, <3>1
    <3>2. CASE runners' = [i \in 1..built |-> i]
      <4>1. CASE built = 0
        BY <3>2, <4>1
      <4>2. CASE built # 0
        BY <2>2, <3>2, <4>2
      <4>. QED
        BY <4>1, <4>2
    <3>. QED
      BY <1>2, <3>1, <3>2, OpeningMoves DEF rowVars
  <2>. QED
    BY <2>1, <2>2, <2>3 DEF Focused, modalVars
<1>3. CASE Move
  <2>1. /\ UNCHANGED <<runners, open, removeTarget, asked>> /\ runners # <<>>
        /\ selected' \in {Larger(1, selected - 1), Smaller(Len(runners), selected + 1)}
    BY <1>3 DEF Move, modalVars
  <2>2. selected' \in 1..Len(runners)
    BY <1>0, <2>1 DEF Larger, Smaller
  <2>. QED
    BY <1>0, <2>1, <2>2 DEF Focused
<1>4. CASE OpenManual \/ OpenAddPicker \/ OpenBrowser
  <2>1. /\ UNCHANGED <<runners, selected>> /\ main \notin Before /\ Top = "list"
        /\ \E m \in {"manual", "picker", "browser"} : open' = open \cup {m}
    BY <1>4 DEF OpenManual, OpenAddPicker, OpenBrowser, KeyFor, Key, Show, rowVars, Before
  <2>2. open = {}
    BY <2>1, NothingOnTop
  <2>. QED
    BY <1>0, <2>1, <2>2 DEF Focused
<1>5. CASE OpenRemoveConfirm
  <2>1. /\ UNCHANGED <<runners, selected>> /\ runners # <<>> /\ main \notin Before /\ Top = "list"
        /\ open' = open \cup {"confirm"} /\ removeTarget' = selected /\ asked' = runners[selected]
    BY <1>5 DEF OpenRemoveConfirm, Selected, KeyFor, Key, Show, rowVars, Before
  <2>2. open = {}
    BY <2>1, NothingOnTop
  <2>3. selected \in DOMAIN runners
    BY <1>0, <2>1
  <2>. QED
    BY <1>0, <2>1, <2>2, <2>3 DEF Focused
<1>6. CASE CloseModal
  <2>1. UNCHANGED <<runners, selected>> /\ main \notin Before /\ open' = open \ {Top}
    BY <1>6 DEF CloseModal, Key, Hide, rowVars, Before
  <2>2. open' = {}
    BY <2>1, TopIsOpen DEF Focused
  <2>. QED
    BY <1>0, <2>1, <2>2 DEF Focused
<1>7. CASE PickerToBrowser
  <2>1. /\ UNCHANGED <<runners, selected>> /\ main \notin Before /\ Top = "picker"
        /\ open' = (open \ {"picker"}) \cup {"browser"}
    BY <1>7 DEF PickerToBrowser, KeyFor, Key, rowVars, Before
  <2>2. open' = {"browser"}
    BY <2>1, TopIsOpen DEF Focused
  <2>. QED
    BY <1>0, <2>1, <2>2 DEF Focused
<1>8. CASE AddPicked \/ AddBrowsed
  <2>1. CASE UNCHANGED <<runnerVars, rowVars, open, listener>>
    <3>1. UNCHANGED <<removeTarget, asked>>
      BY <1>8, Zenon DEF AddPicked, AddBrowsed, TryAddPath
    <3>. QED
      BY <1>0, <2>1, <3>1 DEF Focused, rowVars
  <2>2. CASE /\ built + 1 \in Ids
             /\ runners' = Append(runners, built + 1)
             /\ selected' = Len(runners') /\ open' = open \ {"picker", "browser"}
    <3>1. Top \in {"picker", "browser"} /\ main \notin Before
      BY <1>8, AddingMoves DEF Before
    <3>2. open' = {}
      BY <2>2, <3>1, TopIsOpen DEF Focused
    <3>3. Len(runners') = Len(runners) + 1
      BY <1>0, <2>2
    <3>. QED
      BY <1>0, <2>2, <3>1, <3>2, <3>3 DEF Focused
  <2>. QED
    BY <1>8, <2>1, <2>2, AddingMoves
<1>9. CASE RemoveScenarioAt
  <2>1. /\ removeTarget \in DOMAIN runners /\ runners' = RemoveAt(runners, removeTarget)
        /\ selected' = Larger(1, Smaller(selected, Len(runners')))
        /\ Top = "confirm" /\ open' = open \ {"confirm"} /\ main \notin Before
    BY <1>9 DEF RemoveScenarioAt, RemoveWith, KeyFor, Key, Hide, Before
  <2>2. runners' \in Seq(Ids) /\ Len(runners') = Len(runners) - 1 /\ Len(runners') \in Nat
    <3>1. runners \in Seq(Ids) /\ removeTarget \in 1..Len(runners)
      BY <1>0, <2>1, Zenon
    <3>2. runners' \in Seq(Ids) /\ Len(runners') = Len(runners) - 1
      BY <2>1, <3>1, RemovedAt
    <3>. QED
      BY <3>2
  <2>3. open' = {}
    BY <2>1, TopIsOpen DEF Focused
  <2>4. CASE Len(runners') = 0
    <3>1. runners' = <<>>
      BY <2>2, <2>4
    <3>2. selected' = 1
      BY <1>0, <2>1, <2>4 DEF Larger, Smaller
    <3>. QED
      BY <1>0, <2>1, <2>3, <3>1, <3>2 DEF Focused
  <2>5. CASE Len(runners') # 0
    <3>1. selected' \in 1..Len(runners')
      BY <1>0, <2>1, <2>2, <2>5 DEF Larger, Smaller
    <3>. QED
      BY <1>0, <2>1, <2>2, <2>3, <3>1 DEF Focused
  <2>. QED
    BY <2>4, <2>5
<1>. QED
  BY <1>1, <1>2, <1>3, <1>4, <1>5, <1>6, <1>7, <1>8, <1>9, FocusMoves

-----------------------------------------------------------------------------
(***************************************************************************)
(* What the command starts.                                                *)
(***************************************************************************)
\* Before the first key, the runners are those of the scenarios loaded, in
\* their order; the dashboard runs those that must start, the headless command
\* those that compile.
Told ==
  /\ keys \in Nat
  /\ loaded = <<>> \/ (Resolves(cmd) /\ loaded = Explicit(cmd) \o Implicit(cmd))
  /\ main = "start" =>
       \A r \in Managed : file[r] = loaded[r] /\ state[r] = NewState(loaded[r])
  /\ main = "loop" /\ keys = 0 =>
       \A r \in Managed : file[r] = loaded[r] /\ (Launched(r) <=> MustStart(r))
  /\ main = "wait" =>
       \A r \in Managed : file[r] = loaded[r] /\ (Launched(r) <=> Files[file[r]].compiles)

\* A key is pressed.
Pressed == keys' = keys + 1 /\ UNCHANGED <<cmd, loaded>> /\ main' \notin {"start", "wait"}

\* Nothing that Told speaks of moves, or the program is past it.
Untold ==
  /\ UNCHANGED <<cmd, loaded, keys>>
  /\ main' \notin {"start", "loop", "wait"} \/ UNCHANGED <<main, file, state>>

LEMMA ToldMoves ==
  ASSUME [Next]_vars
  PROVE  \/ Pressed \/ Untold
         \/ Resolve \/ BuildManaged \/ BuildHeadless \/ StartTUI \/ StartHeadless
         \/ \E r \in Ids : Finish(r)
<1>1. Tick \/ QuitDone \/ Leave \/ Interrupt => Untold
  BY DEF Tick, QuitDone, StartHeadless, Leave, LeaveTUI, AllDone, Interrupt, LeaveHeadless,
         KeepsScreen, Untold, commandVars, runnerVars
<1>2. ListKey => Pressed
  BY DEF ListKey, Move, SwitchTab, Scroll, OpenManual, OpenAddPicker, OpenBrowser,
         OpenRemoveConfirm, StopKey, ResumeKey, StartKey, RestartKey, SetState, KeyFor, Key,
         KeepsRunners, Pressed, commandVars
<1>3. ModalKey => Pressed
  BY DEF ModalKey, CloseModal, PickerToBrowser, MovePick, AddPicked, AddBrowsed, TryAddPath,
         RemoveScenarioAt, RemoveWith, KeyFor, Key, KeepsRunners, Pressed, commandVars
<1>4. Quit => Pressed
  BY DEF Quit, Key, Pressed, commandVars
<1>5. (\E r \in Ids : Logf(r) \/ ListenLog(r) \/ LogEvent(r)) => Untold
  BY DEF Logf, ListenLog, LogEvent, OnlyRunners, Untold, commandVars, runnerVars
<1>6. UNCHANGED vars => Untold
  BY DEF vars, Untold, commandVars, runnerVars
<1>. QED
  BY <1>1, <1>2, <1>3, <1>4, <1>5, <1>6 DEF Next, StartUp, User

\* The runners that are built are those of the scenarios loaded.
LEMMA BuiltAsLoaded ==
  ASSUME Typed, BuildManaged \/ BuildHeadless, main' = "start"
  PROVE  \A r \in Managed : file'[r] = loaded[r] /\ state'[r] = NewState(loaded[r])
<1>1. \E w : BuiltWith(Len(loaded), w, FALSE)
  BY Zenon DEF BuildManaged, BuildHeadless
<1>2. /\ file' = [r \in Ids |-> IF r <= Len(loaded) THEN loaded[r] ELSE "none"]
      /\ state' = [r \in Ids |-> IF r <= Len(loaded) THEN NewState(loaded[r]) ELSE "none"]
  BY <1>1 DEF BuiltWith
<1>3. \A r \in Managed : r \in Ids /\ r <= Len(loaded)
  BY DashboardAssumption DEF Typed, Shaped, Managed, Ids
<1>. QED
  BY <1>2, <1>3 DEF NewState

LEMMA StepTold ==
  ASSUME Typed, Underway, Told, [Next]_vars
  PROVE  Told'
<1>0. keys \in Nat /\ Managed \subseteq Ids
  BY DashboardAssumption DEF Told, Typed, Shaped, Managed, Ids
<1>1. CASE Pressed
  <2>1. /\ keys' \in Nat /\ keys' # 0 /\ main' \notin {"start", "wait"}
        /\ UNCHANGED <<cmd, loaded>>
    BY <1>0, <1>1 DEF Pressed
  <2>. QED
    BY <2>1 DEF Told
<1>2. CASE Untold
  BY <1>2 DEF Untold, Told, Managed, MustStart, Launched
<1>3. CASE Resolve
  <2>1. UNCHANGED <<cmd, keys>> /\ main' \in {"build", "failed"} /\ loaded = <<>>
    BY <1>3 DEF Resolve, Underway
  <2>2. loaded' = <<>> \/ (Resolves(cmd) /\ loaded' = Explicit(cmd) \o Implicit(cmd))
    BY <1>3, <2>1 DEF Resolve
  <2>. QED
    BY <1>0, <2>1, <2>2 DEF Told
<1>4. CASE BuildManaged \/ BuildHeadless
  <2>1. UNCHANGED <<cmd, loaded, keys>> /\ main' \in {"start", "failed"}
    BY <1>4 DEF BuildManaged, BuildHeadless, commandVars
  <2>2. main' = "start" =>
          \A r \in Managed : file'[r] = loaded[r] /\ state'[r] = NewState(loaded[r])
    BY <1>4, BuiltAsLoaded
  <2>. QED
    BY <1>0, <2>1, <2>2 DEF Told, Managed
<1>5. CASE StartTUI
  <2>1. main = "start" /\ UNCHANGED <<cmd, loaded, file, keys>> /\ main' \in {"abandon", "loop"}
    BY <1>5 DEF StartTUI, OpenDashboard, commandVars
  <2>2. \A r \in Managed : file[r] = loaded[r] /\ state[r] \in {"IDLE", "SCRIPT_ERROR"}
    BY <2>1 DEF Told, NewState
  <2>3. main' = "loop" =>
          state' = [r \in Ids |-> IF r \in {i \in 1..Len(loaded) : MustStart(i)}
                                  THEN "RUNNING" ELSE state[r]]
    <3>1. SUFFICES ASSUME main' = "loop"
                   PROVE  state' = [r \in Ids |-> IF r \in {i \in 1..Len(loaded) : MustStart(i)}
                                                  THEN "RUNNING" ELSE state[r]]
      OBVIOUS
    <3>2. /\ ~cmd.logFails
          /\ {i \in Managed : MustStart(i) /\ state[i] = "SCRIPT_ERROR"} = {}
      BY <1>5, <3>1 DEF StartTUI
    <3>. QED
      BY <1>5, <3>2 DEF StartTUI
  <2>4. Managed = 1..Len(loaded)
    BY DEF Typed, Shaped, Managed
  <2>5. main' = "loop" => \A r \in Managed : Launched(r)' <=> MustStart(r)
    BY <1>0, <2>2, <2>3, <2>4 DEF Launched
  <2>6. \A r \in Managed : MustStart(r)' <=> MustStart(r)
    BY <2>1 DEF MustStart
  <2>. QED
    BY <1>0, <2>1, <2>2, <2>5, <2>6 DEF Told, Managed
<1>6. CASE StartHeadless
  <2>1. main = "start" /\ main' = "wait" /\ UNCHANGED <<cmd, loaded, file, keys>>
    BY <1>6 DEF StartHeadless, commandVars
  <2>2. \A r \in Managed : file[r] = loaded[r] /\ state[r] = NewState(loaded[r])
    BY <2>1 DEF Told
  <2>3. \A r \in Managed : state'[r] = IF state[r] = "IDLE" THEN "RUNNING" ELSE state[r]
    BY <1>0, <1>6 DEF StartHeadless
  <2>4. \A r \in Managed : Launched(r)' <=> Files[file[r]].compiles
    BY <2>2, <2>3 DEF NewState, Launched
  <2>. QED
    BY <1>0, <2>1, <2>2, <2>4 DEF Told, Managed
<1>7. ASSUME NEW r \in Ids, Finish(r)
      PROVE  Told'
  <2>1. UNCHANGED <<cmd, loaded, main, file, keys>>
    BY <1>7 DEF Finish, OnlyRunners, commandVars
  <2>2. state[r] = "RUNNING" /\ state' = [state EXCEPT ![r] = "DONE"] /\ state \in [Ids -> States]
    BY <1>7 DEF Finish, Typed, Shaped
  <2>3. main # "start" \/ r \notin Managed
    BY <2>2 DEF Told, NewState
  <2>4. \A q \in Managed : (r \notin Managed => state'[q] = state[q]) /\ (Launched(q)' <=> Launched(q))
    BY <1>0, <2>2 DEF Launched
  <2>. QED
    BY <1>0, <2>1, <2>3, <2>4 DEF Told, Managed, MustStart
<1>. QED
  BY <1>1, <1>2, <1>3, <1>4, <1>5, <1>6, <1>7, ToldMoves

\* What runs when the command has started it, or was loaded twice, is named.
LEMMA ToldIsNamed ==
  ASSUME Typed, Told
  PROVE  StartsAsTold
<1>. DEFINE all == Explicit(cmd) \o Implicit(cmd)
            begun == main = "wait" \/ (main = "loop" /\ keys = 0)
<1>1. \A p : Named(p) <=> NamedBy(cmd, p)
  BY DEF Named, NamedBy, Words
<1>2. cmd \in Commands
  BY DEF Typed, Shaped
<1>3. begun => \A r \in Managed : file[r] = loaded[r]
  BY DEF Told
<1>4. CASE loaded = <<>>
  <2>1. Managed = {}
    BY <1>4 DEF Managed
  <2>. QED
    BY <2>1 DEF StartsAsTold
<1>5. CASE Resolves(cmd) /\ loaded = all
  <2>1. Managed = DOMAIN all
    BY <1>5 DEF Managed
  <2>2. /\ \A i \in DOMAIN all : i <= Len(Explicit(cmd)) <=> NamedBy(cmd, all[i])
        /\ \A i, j \in DOMAIN all : i # j /\ all[i] = all[j] => NamedBy(cmd, all[i])
    BY <1>2, <1>5, CommandLoads
  <2>. HIDE DEF all
  <2>3. begun => \A r \in Managed : MustStart(r) <=> Named(file[r]) \/ cmd.autoStart
    BY <1>1, <1>3, <1>5, <2>1, <2>2 DEF MustStart
  <2>4. begun => \A r, q \in Managed : r # q /\ file[r] = file[q] => Named(file[r])
    BY <1>1, <1>3, <1>5, <2>1, <2>2
  <2>. QED
    BY <2>3, <2>4 DEF StartsAsTold, Told
<1>. QED
  BY <1>4, <1>5 DEF Told

-----------------------------------------------------------------------------
(***************************************************************************)
(* The theorems.                                                           *)
(***************************************************************************)
LEMMA DashboardInvariant == Spec => []DashboardInv
<1>1. Init => DashboardInv
  BY InitTyped, InitListed, InitFocused, InitUnderway DEF DashboardInv
<1>2. DashboardInv /\ [Next]_vars => DashboardInv'
  BY StepTyped, StepListed, StepBuffered, StepFocused, StepUnderway DEF DashboardInv
<1>. QED
  BY <1>1, <1>2, PTL DEF Spec

\* The dashboard is always fit to be drawn and to take a key, whatever keys,
\* ticks, log lines and ends of runs came before: the four parallel lists of
\* Model describe the same scenarios in the same order, each log ring holds
\* lines of its own scenario and a window into them, the selection is inside
\* the list and inside the sidebar's window, at most one modal is open, and the
\* confirmation is about the scenario that the user was asked about
\* (internal/tui/app.go: the lists and Selected of Model, removeScenarioAt and
\* addScenario; log.go: append and the scroll keys; picker.go: windowAround).
THEOREM DashboardFitToDraw == Spec => []ScreenOK
<1>1. DashboardInv => ScreenOK
  <2>. SUFFICES ASSUME DashboardInv PROVE ScreenOK
    OBVIOUS
  <2>1. /\ cleanups = runners /\ runners \in Seq(Ids) /\ Len(runners) \in Nat
        /\ DOMAIN runners = 1..Len(runners)
        /\ Len(snapshots) = Len(runners) /\ Len(logBufs) = Len(runners)
        /\ \A i \in DOMAIN runners : listener[runners[i]] # "none"
    BY DEF DashboardInv, Listed, Buffered
  <2>2. IsInjective(runners)
    BY DEF DashboardInv, Listed, IsInjective
  <2>3. ASSUME NEW i \in DOMAIN runners
        PROVE  /\ Range(logBufs[i].lines) \subseteq {runners[i]}
               /\ Len(logBufs[i].lines) <= MaxLogLines
               /\ LET v == Visible(logBufs[i], Page)
                  IN 1 <= v.first /\ v.first <= v.last + 1 /\ v.last <= Len(logBufs[i].lines)
    <3>1. BufferOf(logBufs[i], runners[i])
      BY DEF DashboardInv, Buffered
    <3>2. Range(logBufs[i].lines) \subseteq {runners[i]} /\ Len(logBufs[i].lines) <= MaxLogLines
      BY <3>1 DEF BufferOf, Range
    <3>. QED
      BY <3>1, <3>2, ViewInside
  <2>4. runners # <<>> =>
          /\ selected \in DOMAIN runners
          /\ \A rows \in 1..2 : Shows(WindowAround(selected, Len(runners), rows), selected)
    <3>1. runners # <<>> => selected \in 1..Len(runners)
      BY <2>1 DEF DashboardInv, Focused
    <3>2. \A rows \in 1..2 : rows \in Nat \ {0}
      OBVIOUS
    <3>. QED
      BY <2>1, <3>1, <3>2, WindowShows
  <2>5. Cardinality(open) <= 1
    <3>1. open = {} \/ \E m : open = {m}
      BY DEF DashboardInv, Focused
    <3>. QED
      BY <3>1, FS_EmptySet, FS_Singleton
  <2>6. "confirm" \in open => removeTarget \in DOMAIN runners /\ runners[removeTarget] = asked
    BY DEF DashboardInv, Focused
  <2>. QED
    BY <2>1, <2>2, <2>3, <2>4, <2>5, <2>6 DEF ScreenOK
<1>. QED
  BY <1>1, DashboardInvariant, PTL

\* A command that ends without crashing leaves none of its scenarios running or
\* holding a transport, has the last row of every CSV file written unless it
\* failed, and printed the states that its scenarios ended in
\* (cmd/loadtest/run.go: buildManaged's rollback, the deferred cleanups of
\* runTUI, and runHeadless).
THEOREM CommandTearsDown == Spec => []TornDown
<1>1. DashboardInv => TornDown
  BY DEF DashboardInv, Underway
<1>. QED
  BY <1>1, DashboardInvariant, PTL

\* For every command line: before the first key, the dashboard runs exactly the
\* scenarios that the command line names, alone or in a suite, and the scanned
\* ones if they are to start as well; the headless command has started every
\* scenario that compiles, the scanned ones whatever --auto-start says; and only
\* a file that the command line names is loaded twice, for the scan of the
\* directories takes each file once and none that is named (cmd/loadtest/run.go:
\* resolveScenarios and the starts of runTUI and runHeadless).
THEOREM CommandStarts == Spec => []StartsAsTold
<1>1. Init => Told
  BY DEF Init, Told
<1>2. DashboardInv /\ Told /\ [Next]_vars => Told'
  BY StepTold DEF DashboardInv
<1>3. DashboardInv /\ Told => StartsAsTold
  BY ToldIsNamed DEF DashboardInv, StartsAsTold
<1>. QED
  BY <1>1, <1>2, <1>3, DashboardInvariant, PTL DEF Spec

=============================================================================
