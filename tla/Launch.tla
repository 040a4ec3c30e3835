------------------------------- MODULE Launch -------------------------------
(***************************************************************************)
(* Which scenarios `loadtest run` loads: resolveScenarios and              *)
(* scanCandidates of cmd/loadtest/run.go.  Paths are absolute, and         *)
(* directories are the sequences of the .toml files that ReadDir lists.    *)
(***************************************************************************)
EXTENDS Integers, SequencesExt

CONSTANT
  Files  \* what is in each .toml file: kind, for a suite its members; for a
         \* scenario whether it builds, compiles, reports to a CSV file, and ends

\* A suite names files.
ASSUME LaunchAssumption == \A p \in DOMAIN Files : Files[p].members \in Seq(DOMAIN Files)

IsScenario(p) == Files[p].kind = "scenario"
IsSuite(p) == Files[p].kind = "suite"

\* loadFile: a scenario first, then a suite.
Loads(p) == IsScenario(p) \/ IsSuite(p)
LoadFile(p) == IF IsScenario(p) THEN <<p>> ELSE Files[p].members
LoadAll(paths) == FlattenSeq([i \in DOMAIN paths |-> LoadFile(paths[i])])

Explicit(cmd) == LoadAll(cmd.args \o cmd.config) \o LoadAll(cmd.suite)

Take(acc, p) ==
  IF p \in acc.seen THEN acc
  ELSE [seen |-> acc.seen \cup {p}, found |-> Append(acc.found, p)]

\* One entry of a directory; a file that is neither is skipped.
TakeEntry(acc, p) ==
  IF p \in acc.seen \/ ~IsSuite(p)
  THEN IF Loads(p) THEN Take(acc, p) ELSE acc
  ELSE FoldLeft(Take, [acc EXCEPT !.seen = @ \cup {p}], Files[p].members)

\* The scan starts from what the command line names.
Implicit(cmd) ==
  FoldLeft(TakeEntry, [seen |-> Range(Explicit(cmd)), found |-> <<>>],
           FlattenSeq(cmd.dirs)).found

\* A file named on the command line that does not load is an error, and so is
\* a command that finds nothing.
Resolves(cmd) ==
  /\ \A p \in Range(cmd.args \o cmd.config) : Loads(p)
  /\ \A p \in Range(cmd.suite) : IsSuite(p)
  /\ Explicit(cmd) \o Implicit(cmd) # <<>>

\* The scenario files that 'a' can offer.
ScanCandidates(dirs) ==
  FoldLeft(LAMBDA acc, p : IF IsScenario(p) THEN Take(acc, p) ELSE acc,
           [seen |-> {}, found |-> <<>>], FlattenSeq(dirs)).found

\* defaultBrowseDirs: '.' is browsed when no directory is given.
BrowseDirs(cmd, cwd) == IF cmd.dirs = <<>> THEN cwd ELSE cmd.dirs
=============================================================================
