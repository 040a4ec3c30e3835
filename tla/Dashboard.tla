------------------------------ MODULE Dashboard ------------------------------
(***************************************************************************)
(* The process of `loadtest run` with several scenarios: start-up, the     *)
(* dashboard (internal/tui), the headless command, and the teardown        *)
(* (cmd/loadtest/run.go).                                                  *)
(*                                                                         *)
(* A runner is here what Lifecycle promises, with Stop as one step: it     *)
(* blocks the goroutine that owns the dashboard.  The dashboard handles    *)
(* one message at a time: keys, ticks, log lines and its own quitDoneMsg.  *)
(***************************************************************************)
EXTENDS Launch, LogBuffer, FiniteSets

CONSTANTS
  Commands,    \* the command lines
  CwdDirs,     \* the directories browsed by default
  MaxRunners,  \* bound: runners built
  MaxKeys,     \* bound: keys pressed
  MaxLogged,   \* bound: lines logged
  Talkative,   \* bound: the runners that log
  LogChannel,  \* capacity of a runner's log channel
  TabCount

\* Command lines name files, and their scenarios have room among the runners.
ASSUME DashboardAssumption ==
  /\ MaxRunners \in Nat /\ TabCount \in Nat /\ LogChannel \in Nat
  /\ MaxLogLines \in Nat \ {0} /\ Page \in Nat
  /\ \A c \in Commands :
       /\ c.args \in Seq(DOMAIN Files) /\ c.config \in Seq(DOMAIN Files)
       /\ c.suite \in Seq(DOMAIN Files) /\ c.dirs \in Seq(Seq(DOMAIN Files))
       /\ Resolves(c) => Len(Explicit(c) \o Implicit(c)) <= MaxRunners

VARIABLES
  cmd, main,
  loaded,      \* the scenarios to run, those named on the command line first
  built,       \* runners built so far; the first of them are "managed"
  file, state, writer, closed,  \* of each runner
  summary,     \* the states printed by the headless command
  runners, cleanups, snapshots, logBufs,  \* the four parallel lists
  selected, activeTab,
  open,        \* modals that are open
  offered, pick,               \* the picker's items and its selection
  removeTarget, asked,         \* history: the runner the user was asked about
  activePaths,                 \* runnerPaths is file
  quitting, ticking, revived,  \* history: a run was launched after 'q'
  listener, channel, logged,   \* per runner: its listener, and its log channel
  keys

runnerVars == <<built, file, state, writer, closed>>
rowVars == <<runners, cleanups, snapshots, logBufs, selected>>
modalVars == <<open, offered, pick, removeTarget, asked>>
quitVars == <<quitting, ticking, revived>>
logVars == <<listener, channel, logged>>
commandVars == <<cmd, loaded, summary>>
vars == <<commandVars, main, runnerVars, rowVars, activeTab, modalVars, activePaths,
          quitVars, logVars, keys>>

Ids == 1..MaxRunners
Managed == DOMAIN loaded
Over == {"exited", "failed", "panicked"}

Init ==
  /\ cmd \in Commands
  /\ main = "resolve" /\ loaded = <<>> /\ summary = <<>>
  /\ built = 0
  /\ file = [r \in Ids |-> "none"]
  /\ state = [r \in Ids |-> "none"]
  /\ writer = [r \in Ids |-> "none"]
  /\ closed = [r \in Ids |-> FALSE]
  /\ runners = <<>> /\ cleanups = <<>> /\ snapshots = <<>> /\ logBufs = <<>>
  /\ selected = 1 /\ activeTab = 0
  /\ open = {} /\ offered = <<>> /\ pick = 1 /\ removeTarget = 1 /\ asked = 0
  /\ activePaths = {}
  /\ quitting = FALSE /\ ticking = FALSE /\ revived = FALSE
  /\ listener = [r \in Ids |-> "none"]
  /\ channel = [r \in Ids |-> 0] /\ logged = 0
  /\ keys = 0

-----------------------------------------------------------------------------
(* Start-up. *)

Resolve ==
  /\ main = "resolve"
  /\ IF Resolves(cmd)
     THEN loaded' = Explicit(cmd) \o Implicit(cmd) /\ main' = "build"
     ELSE UNCHANGED loaded /\ main' = "failed"
  /\ UNCHANGED <<cmd, summary, runnerVars, rowVars, activeTab, modalVars, activePaths,
                 quitVars, logVars, keys>>

Constructs(p) == Files[p].builds
WriterOpens(p) == Files[p].csv # "bad"
NewState(p) == IF Files[p].compiles THEN "IDLE" ELSE "SCRIPT_ERROR"
NewWriter(p) == IF Files[p].csv = "none" THEN "none" ELSE "open"
StoppedWriter(w) == IF w = "open" THEN "stopped" ELSE w

First(S) == CHOOSE i \in S : \A j \in S : i <= j

\* The first n of the scenarios have a runner; w[i] is the i-th one's writer.
BuiltWith(n, w, down) ==
  /\ built' = n
  /\ file' = [r \in Ids |-> IF r <= n THEN loaded[r] ELSE "none"]
  /\ state' = [r \in Ids |-> IF r <= n THEN NewState(loaded[r]) ELSE "none"]
  /\ writer' = [r \in Ids |-> IF r <= n THEN w[r] ELSE "none"]
  /\ closed' = [r \in Ids |-> r <= n /\ down]

\* buildManaged: runner and writer of one scenario after the other; a failure
\* rolls back those before it.
BuildManaged ==
  /\ main = "build" /\ ~cmd.noTUI
  /\ LET bad == {i \in Managed : ~Constructs(loaded[i]) \/ ~WriterOpens(loaded[i])}
     IN IF bad = {}
        THEN /\ BuiltWith(Len(loaded), [i \in Managed |-> NewWriter(loaded[i])], FALSE)
             /\ main' = "start"
        ELSE /\ BuiltWith(First(bad) - 1,
                          [i \in Managed |-> StoppedWriter(NewWriter(loaded[i]))], TRUE)
             /\ main' = "failed"
  /\ UNCHANGED <<commandVars, rowVars, activeTab, modalVars, activePaths, quitVars,
                 logVars, keys>>

\* runHeadless: all runners first, then the writers; a writer that fails leaves
\* those before it open.
BuildHeadless ==
  /\ main = "build" /\ cmd.noTUI
  /\ LET broken == {i \in Managed : ~Constructs(loaded[i])}
         bad == {i \in Managed : ~WriterOpens(loaded[i])}
     IN IF broken # {}
        THEN BuiltWith(First(broken) - 1, [i \in Managed |-> "none"], TRUE) /\ main' = "failed"
        ELSE IF bad # {}
        THEN /\ BuiltWith(Len(loaded),
                  [i \in Managed |->
                    IF i < First(bad) THEN NewWriter(loaded[i]) ELSE "none"], TRUE)
             /\ main' = "failed"
        ELSE /\ BuiltWith(Len(loaded), [i \in Managed |-> NewWriter(loaded[i])], FALSE)
             /\ main' = "start"
  /\ UNCHANGED <<commandVars, rowVars, activeTab, modalVars, activePaths, quitVars,
                 logVars, keys>>

\* Counts the named scenarios from one.
MustStart_OffByOne(i) == i <= Len(Explicit(cmd)) + 1 \/ cmd.autoStart

\* The scenarios the command line names start; the scanned ones unless told
\* not to.
MustStart(i) == i <= Len(Explicit(cmd)) \/ cmd.autoStart

\* tui.New and Init: a row for each runner, a listener for each log channel,
\* and the first tick.
OpenDashboard ==
  /\ runners' = [i \in Managed |-> i] /\ cleanups' = runners'
  /\ snapshots' = [i \in Managed |-> state'[i]]
  /\ logBufs' = [i \in Managed |-> EmptyLog]
  /\ activePaths' = Range(loaded)
  /\ listener' = [r \in Ids |-> IF r \in Managed THEN "waiting" ELSE "none"]
  /\ ticking' = TRUE
  /\ main' = "loop"

\* Runner.Start refuses a script error: the dashboard then never opens, and the
\* deferred cleanups run.
StartTUI ==
  /\ main = "start" /\ ~cmd.noTUI
  /\ LET refused == {i \in Managed : MustStart(i) /\ state[i] = "SCRIPT_ERROR"}
         upTo == IF refused = {} THEN Len(loaded) ELSE First(refused) - 1
         launches == IF cmd.logFails THEN {} ELSE {i \in 1..upTo : MustStart(i)}
     IN /\ state' = [r \in Ids |-> IF r \in launches THEN "RUNNING" ELSE state[r]]
        /\ IF cmd.logFails \/ refused # {}
           THEN main' = "abandon" /\ UNCHANGED <<rowVars, activePaths, listener, ticking>>
           ELSE OpenDashboard /\ UNCHANGED selected
  /\ UNCHANGED <<commandVars, built, file, writer, closed, activeTab, modalVars,
                 quitting, revived, channel, logged, keys>>

\* The headless command skips a script error.
StartHeadless ==
  /\ main = "start" /\ cmd.noTUI
  /\ state' = [r \in Ids |-> IF state[r] = "IDLE" THEN "RUNNING" ELSE state[r]]
  /\ main' = "wait"
  /\ UNCHANGED <<commandVars, built, file, writer, closed, rowVars, activeTab, modalVars,
                 activePaths, quitVars, logVars, keys>>

-----------------------------------------------------------------------------
(* The runners. *)

OnlyRunners == UNCHANGED <<commandVars, main, built, file, writer, closed, rowVars,
                           activeTab, modalVars, activePaths, quitVars, keys>>

\* A run reaches its end by itself.
Finish(r) ==
  /\ main \notin Over
  /\ state[r] = "RUNNING" /\ Files[file[r]].ends
  /\ state' = [state EXCEPT ![r] = "DONE"]
  /\ OnlyRunners /\ UNCHANGED logVars

\* Logf: a line is dropped when the channel is full.
Logf(r) ==
  /\ main = "loop" /\ logged < MaxLogged
  /\ state[r] = "RUNNING" /\ r \in Talkative
  /\ channel' = [channel EXCEPT ![r] = Smaller(@ + 1, LogChannel)]
  /\ logged' = logged + 1
  /\ OnlyRunners /\ UNCHANGED <<state, listener>>

\* listenLog: reads one line and sends it to the dashboard.
ListenLog(r) ==
  /\ main = "loop"
  /\ listener[r] = "waiting" /\ channel[r] > 0
  /\ listener' = [listener EXCEPT ![r] = "sending"]
  /\ channel' = [channel EXCEPT ![r] = @ - 1]
  /\ OnlyRunners /\ UNCHANGED <<state, logged>>

-----------------------------------------------------------------------------
(* The messages of the dashboard. *)

AllTerminated(snaps) == "RUNNING" \notin Range(snaps)

\* The tick chain ends with the tick that finds all scenarios at rest; the
\* dashboard then sends itself a quitDoneMsg.
Tick ==
  /\ main = "loop" /\ ticking
  /\ snapshots' = [i \in DOMAIN runners |-> state[runners[i]]]
  /\ IF quitting /\ AllTerminated(snapshots')
     THEN ticking' = FALSE /\ main' = "quitDone"
     ELSE UNCHANGED <<ticking, main>>
  /\ UNCHANGED <<commandVars, runnerVars, runners, cleanups, logBufs, selected, activeTab,
                 modalVars, activePaths, quitting, revived, logVars, keys>>

QuitDone ==
  /\ main = "quitDone"
  /\ main' = "cleanup"
  /\ UNCHANGED <<commandVars, runnerVars, rowVars, activeTab, modalVars, activePaths,
                 quitVars, logVars, keys>>

IndexOf(r) == {i \in DOMAIN runners : runners[i] = r}

\* A line of a runner that is gone is dropped, and its listener ends.
LogEvent(r) ==
  /\ main = "loop"
  /\ listener[r] = "sending"
  /\ listener' = [listener EXCEPT ![r] = IF IndexOf(r) = {} THEN "none" ELSE "waiting"]
  /\ logBufs' = [i \in DOMAIN logBufs |->
                  IF i \in IndexOf(r) THEN AppendLine(logBufs[i], r) ELSE logBufs[i]]
  /\ UNCHANGED <<commandVars, main, runnerVars, runners, cleanups, snapshots, selected,
                 activeTab, modalVars, activePaths, quitVars, channel, logged, keys>>

-----------------------------------------------------------------------------
(* The keys.  They go to the modal on top, else to the list. *)

Modals == <<"manual", "confirm", "picker", "browser">>
Top == LET shown == {i \in DOMAIN Modals : Modals[i] \in open}
       IN IF shown = {} THEN "list" ELSE Modals[First(shown)]

\* quitDoneMsg is on its way while main = "quitDone"; a key may come first.
Key == main \in {"loop", "quitDone"} /\ keys < MaxKeys /\ keys' = keys + 1
KeyFor(place) == Key /\ Top = place
Selected == runners[selected]

KeepsRunners == UNCHANGED <<commandVars, runnerVars, activePaths, quitVars, logVars>>
KeepsScreen == UNCHANGED <<rowVars, activeTab, modalVars>>

Show(modal) == open' = open \cup {modal}
Hide(modals) == open' = open \ modals

\* m
OpenManual ==
  /\ KeyFor("list") /\ Show("manual")
  /\ KeepsRunners /\ UNCHANGED <<main, rowVars, activeTab, offered, pick, removeTarget, asked>>

\* a
OpenAddPicker ==
  /\ KeyFor("list") /\ Show("picker")
  /\ offered' = SelectSeq(ScanCandidates(BrowseDirs(cmd, CwdDirs)),
                          LAMBDA p : p \notin activePaths)
  /\ pick' = 1
  /\ KeepsRunners /\ UNCHANGED <<main, rowVars, activeTab, removeTarget, asked>>

\* b
OpenBrowser ==
  /\ KeyFor("list") /\ Show("browser")
  /\ KeepsRunners /\ UNCHANGED <<main, rowVars, activeTab, offered, pick, removeTarget, asked>>

\* x
OpenRemoveConfirm ==
  /\ KeyFor("list") /\ runners # <<>> /\ Show("confirm")
  /\ removeTarget' = selected /\ asked' = Selected
  /\ KeepsRunners /\ UNCHANGED <<main, rowVars, activeTab, offered, pick>>

\* Esc, and the keys of each modal that close it without doing anything.
CloseModal ==
  /\ Key /\ Top # "list" /\ Hide({Top})
  /\ KeepsRunners /\ UNCHANGED <<main, rowVars, activeTab, offered, pick, removeTarget, asked>>

\* b in the picker
PickerToBrowser ==
  /\ KeyFor("picker") /\ open' = (open \ {"picker"}) \cup {"browser"}
  /\ KeepsRunners /\ UNCHANGED <<main, rowVars, activeTab, offered, pick, removeTarget, asked>>

\* Up and down in the picker wrap around.
MovePick ==
  /\ KeyFor("picker") /\ offered # <<>>
  /\ \E delta \in {-1, 1} : pick' = 1 + ((pick - 1 + delta + Len(offered)) % Len(offered))
  /\ KeepsRunners /\ UNCHANGED <<main, rowVars, activeTab, open, offered, removeTarget, asked>>

\* Up and down; the tab keys 1..4 and left and right; pgup and pgdown.
Move ==
  /\ KeyFor("list") /\ runners # <<>>
  /\ selected' \in {Larger(1, selected - 1), Smaller(Len(runners), selected + 1)}
  /\ KeepsRunners
  /\ UNCHANGED <<main, runners, cleanups, snapshots, logBufs, activeTab, modalVars>>

SwitchTab ==
  /\ KeyFor("list") /\ runners # <<>>
  /\ activeTab' \in 0..TabCount - 1
  /\ KeepsRunners /\ UNCHANGED <<main, rowVars, modalVars>>

Scroll ==
  /\ KeyFor("list") /\ runners # <<>> /\ activeTab = TabCount - 1
  /\ \E b \in {ScrollUp(logBufs[selected]), ScrollDown(logBufs[selected])} :
       logBufs' = [logBufs EXCEPT ![selected] = b]
  /\ KeepsRunners
  /\ UNCHANGED <<main, runners, cleanups, snapshots, selected, activeTab, modalVars>>

SetState(from, to) ==
  /\ KeyFor("list") /\ runners # <<>>
  /\ state[Selected] \in from
  /\ state' = [state EXCEPT ![Selected] = to]
  /\ revived' = (revived \/ (quitting /\ to = "RUNNING"))
  /\ KeepsScreen
  /\ UNCHANGED <<commandVars, main, built, file, writer, closed, activePaths, quitting,
                 ticking, logVars>>

\* s, r, Space; R restarts whatever the state is.
StopKey == SetState({"RUNNING"}, "STOPPED")
ResumeKey == SetState({"STOPPED"}, "RUNNING")
StartKey == SetState({"IDLE"}, "RUNNING")
RestartKey == SetState({"IDLE", "RUNNING", "STOPPED", "DONE", "SCRIPT_ERROR"}, "RUNNING")

Halted(s) == IF s = "RUNNING" THEN "STOPPED" ELSE s

\* Stops the selected scenario.
Stopping_Selected == {Selected}

\* The scenarios that 'q' stops.
Stopping == Range(runners)

\* q in the list, or ctrl+c anywhere: every scenario is stopped, and the ticks
\* watch for the end; an empty list ends the program at once.
Quit ==
  /\ Key
  /\ IF runners = <<>>
     THEN main' = "cleanup" /\ UNCHANGED <<state, quitting>>
     ELSE /\ quitting' = TRUE
          /\ state' = [r \in Ids |-> IF r \in Stopping THEN Halted(state[r]) ELSE state[r]]
          /\ UNCHANGED main
  /\ KeepsScreen
  /\ UNCHANGED <<commandVars, built, file, writer, closed, activePaths, ticking, revived,
                 logVars>>

-----------------------------------------------------------------------------
(* Adding and removing a scenario. *)

\* tryAddPath with buildOneManaged and addScenario: the scenario is built and
\* started, and its row is selected.  A failure leaves the modal open.
TryAddPath(p) ==
  /\ built < MaxRunners
  /\ IF IsScenario(p) /\ Constructs(p) /\ WriterOpens(p) /\ NewState(p) = "IDLE"
     THEN LET r == built + 1
          IN /\ built' = r
             /\ file' = [file EXCEPT ![r] = p]
             /\ state' = [state EXCEPT ![r] = "RUNNING"]
             /\ writer' = [writer EXCEPT ![r] = NewWriter(p)]
             /\ runners' = Append(runners, r) /\ cleanups' = Append(cleanups, r)
             /\ snapshots' = Append(snapshots, "RUNNING")
             /\ logBufs' = Append(logBufs, EmptyLog)
             /\ activePaths' = activePaths \cup {p}
             /\ selected' = Len(runners')
             /\ listener' = [listener EXCEPT ![r] = "waiting"]
             /\ revived' = (revived \/ quitting)
             /\ Hide({"picker", "browser"})
     ELSE UNCHANGED <<runnerVars, rowVars, activePaths, open, listener, revived>>
  /\ UNCHANGED <<commandVars, main, closed, activeTab, offered, pick, removeTarget, asked,
                 quitting, ticking, channel, logged>>

\* Enter in the picker, and on any .toml file in the browser.
AddPicked == KeyFor("picker") /\ offered # <<>> /\ TryAddPath(offered[pick])
AddBrowsed == KeyFor("browser") /\ \E p \in DOMAIN Files : TryAddPath(p)

\* The cleanup of one runner: Stop, the writer's Stop, and Close.
CleanUp(R) ==
  /\ state' = [r \in Ids |-> IF r \in R THEN Halted(state[r]) ELSE state[r]]
  /\ writer' = [r \in Ids |-> IF r \in R THEN StoppedWriter(writer[r]) ELSE writer[r]]
  /\ closed' = [r \in Ids |-> closed[r] \/ r \in R]

RemoveWith(bufs) ==
  /\ KeyFor("confirm") /\ Hide({"confirm"})
  /\ removeTarget \in DOMAIN runners
  /\ activePaths' = activePaths \ {file[runners[removeTarget]]}
  /\ CleanUp({cleanups[removeTarget]})
  /\ runners' = RemoveAt(runners, removeTarget)
  /\ cleanups' = RemoveAt(cleanups, removeTarget)
  /\ snapshots' = RemoveAt(snapshots, removeTarget)
  /\ logBufs' = bufs
  /\ selected' = Larger(1, Smaller(selected, Len(runners')))
  /\ UNCHANGED <<commandVars, main, built, file, activeTab, offered, pick, removeTarget,
                 asked, quitVars, logVars>>

\* Drops the last of the log buffers.
RemoveScenarioAt_LastLog == RemoveWith(Front(logBufs))

\* y: the four lists lose the same index.
RemoveScenarioAt == RemoveWith(RemoveAt(logBufs, removeTarget))

-----------------------------------------------------------------------------
(* The end. *)

\* Takes a runner that does not run for one that is closed.
ExitCleanup_RunningOnly(S) == CleanUp({r \in S : state[r] = "RUNNING"})

\* The deferred cleanups of the scenarios the command was started with.
ExitCleanup(S) == CleanUp(S)

\* CSVWriter.Stop closes a channel: the second one panics, whoever stopped the
\* writer before, and the cleanups after it do not run.
LeaveTUI ==
  /\ main \in {"cleanup", "abandon"}
  /\ LET dead == {r \in Managed : writer[r] = "stopped"}
     IN IF dead = {}
        THEN /\ ExitCleanup(Managed)
             /\ main' = IF main = "cleanup" THEN "exited" ELSE "failed"
        ELSE /\ ExitCleanup({r \in Managed : r < First(dead)})
             /\ main' = "panicked"
  /\ KeepsScreen
  /\ UNCHANGED <<commandVars, built, file, activePaths, quitVars, logVars, keys>>

Finished(s) == s \in {"DONE", "SCRIPT_ERROR"}

\* The summary is printed, the writers are stopped, and the transports closed;
\* an interrupt stops the runners first.
LeaveHeadless(interrupted) ==
  /\ main = "wait"
  /\ interrupted \/ \A r \in Managed : Finished(state[r])
  /\ state' = [r \in Ids |-> IF interrupted THEN Halted(state[r]) ELSE state[r]]
  /\ summary' = [r \in Managed |-> state'[r]]
  /\ writer' = [r \in Ids |-> StoppedWriter(writer[r])]
  /\ closed' = [r \in Ids |-> r \in Managed]
  /\ main' = "exited"
  /\ KeepsScreen
  /\ UNCHANGED <<cmd, loaded, built, file, activePaths, quitVars, logVars, keys>>

Interrupt == LeaveHeadless(TRUE)
AllDone == LeaveHeadless(FALSE)

StartUp == Resolve \/ BuildManaged \/ BuildHeadless \/ StartTUI \/ StartHeadless
ListKey == Move \/ SwitchTab \/ Scroll \/ StopKey \/ ResumeKey \/ StartKey \/ RestartKey
           \/ OpenManual \/ OpenAddPicker \/ OpenBrowser \/ OpenRemoveConfirm
ModalKey == CloseModal \/ PickerToBrowser \/ MovePick \/ AddPicked \/ AddBrowsed
            \/ RemoveScenarioAt
User == ListKey \/ ModalKey \/ Quit
Leave == LeaveTUI \/ AllDone

Next ==
  \/ StartUp \/ Tick \/ QuitDone \/ User \/ Leave \/ Interrupt
  \/ \E r \in Ids : Finish(r) \/ Logf(r) \/ ListenLog(r) \/ LogEvent(r)

\* The Go scheduler runs what can run; a run with an end gets there.
Fairness ==
  /\ WF_vars(StartUp) /\ WF_vars(Tick) /\ WF_vars(QuitDone) /\ WF_vars(Leave)
  /\ \A r \in Ids : WF_vars(Finish(r))

Spec == Init /\ [][Next]_vars /\ Fairness

-----------------------------------------------------------------------------
(* Properties. *)

AtLoop == main \in {"loop", "quitDone", "cleanup"}

\* The dashboard is fit to be drawn and to take a key: the four lists describe
\* the same scenarios in the same order, each log buffer holds lines of its own
\* scenario and a window into them, the selection is inside the list and inside
\* the sidebar's window, at most one modal is open, the confirmation removes the
\* scenario the user was asked about, and every listed scenario has a listener
\* (internal/tui/app.go:25-28 and 53).
ScreenOK ==
  /\ cleanups = runners
  /\ Len(snapshots) = Len(runners) /\ Len(logBufs) = Len(runners)
  /\ IsInjective(runners)
  /\ \A i \in DOMAIN runners :
       /\ Range(logBufs[i].lines) \subseteq {runners[i]}
       /\ Len(logBufs[i].lines) <= MaxLogLines
       /\ LET v == Visible(logBufs[i], Page)
          IN 1 <= v.first /\ v.first <= v.last + 1 /\ v.last <= Len(logBufs[i].lines)
       /\ AtLoop => listener[runners[i]] # "none"
  /\ runners # <<>> =>
       /\ selected \in DOMAIN runners
       /\ \A rows \in 1..2 : Shows(WindowAround(selected, Len(runners), rows), selected)
  /\ Cardinality(open) <= 1
  /\ "confirm" \in open => removeTarget \in DOMAIN runners /\ runners[removeTarget] = asked

\* Whenever the command ends without crashing, no scenario it was started with
\* still runs or holds its transport, every CSV file of a command that did not
\* fail has had its last row written, and the summary shows the states the
\* scenarios ended in.
TornDown ==
  main \in {"exited", "failed"} =>
    /\ \A r \in 1..built : r \in Managed => closed[r] /\ state[r] # "RUNNING"
    /\ main = "exited" => \A r \in Managed : writer[r] # "open"
    /\ summary # <<>> =>
         \A r \in Managed : summary[r] = state[r] /\ summary[r] # "RUNNING"

\* What the command line names, itself or as part of a suite.
Named(p) ==
  \E w \in Range(cmd.args) \cup Range(cmd.config) \cup Range(cmd.suite) :
    \/ IsScenario(w) /\ p = w
    \/ IsSuite(w) /\ p \in Range(Files[w].members)

Launched(r) == state[r] \in {"RUNNING", "DONE"}

\* Before the first key, the dashboard runs the scenarios that the command line
\* names and no others, unless scanned files are to start as well (run.go:111-122,
\* 226-231); the headless command starts all that compile, those too that were
\* scanned and not to start (run.go:539-548); and a file that the scan finds is
\* loaded once.
StartsAsTold ==
  /\ main = "loop" /\ keys = 0 =>
       \A r \in Managed : Launched(r) <=> Named(file[r]) \/ cmd.autoStart
  /\ main = "wait" => \A r \in Managed : Launched(r) <=> Files[file[r]].compiles
  /\ main = "wait" \/ (main = "loop" /\ keys = 0) =>
       \A r, q \in Managed : r # q /\ file[r] = file[q] => Named(file[r])

\* Once the user has quit, the program ends, unless a key launches a run again;
\* and the headless command ends when all its scenarios do.
Exits ==
  /\ quitting ~> (main \in Over \/ revived)
  /\ (main = "wait" /\ \A r \in Managed : Files[file[r]].ends) ~> main \in Over

\* What the comment on the deferred cleanup says (run.go:247-249): a scenario
\* removed with 'x' was already torn down, so the exit has nothing to undo.
NoDoubleTeardown == main # "panicked"
=============================================================================
