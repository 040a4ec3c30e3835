----------------------------- MODULE MailProofs -----------------------------
(***************************************************************************)
(* Proofs about the e-mail notifications: the merge of the three layers of *)
(* settings, for every content of the fields, and the hooks, tickers and   *)
(* deliveries of MailNotify, for every set of setups, number of runs, keys *)
(* and requests, and every interleaving of the goroutines.                 *)
(***************************************************************************)
EXTENDS MailNotify, TLAPS

-----------------------------------------------------------------------------
(***************************************************************************)
(* The merge of the layers.                                                *)
(***************************************************************************)
\* email.go:116-123, "--no-mail wins": whatever the scenario, the file and the
\* other flags say, typing --no-mail leaves the mail disabled.
THEOREM NoMailWins ==
  ASSUME NEW scenario, NEW file, NEW typed,
         "no_mail" \in DOMAIN typed, typed["no_mail"] = Yes
  PROVE  Merge(scenario, file, BuildOverrides(typed))["enabled"] = {}
<1>. DEFINE o == BuildOverrides(typed)
            dst == MergeFromFile(scenario, file)
            out == MergeFromOverrides(dst, o)
<1>1. "enabled" \in DOMAIN o /\ o["enabled"] = {}
  BY DEF BuildOverrides, Yes
<1>2. "enabled" \in Fields /\ "enabled" \notin Lists \cup {"send_timeout"}
  BY DEF Fields, Switches, Lists
<1>3. out["enabled"] = {} /\ DOMAIN out = Fields
  <2>. HIDE DEF o, dst
  <2>. QED
    BY <1>1, <1>2 DEF MergeFromOverrides
<1>. DEFINE filled == [out EXCEPT !["smtp_pass"] = IF @ = {} THEN EnvPass ELSE @]
<1>4. Merge(scenario, file, o) = ApplyDefaults(filled)
  BY DEF Merge
<1>. HIDE DEF o, out
<1>5. filled["enabled"] = {}
  BY <1>2, <1>3
<1>. HIDE DEF filled
<1>. QED
  BY <1>2, <1>4, <1>5 DEF ApplyDefaults, o

\* merge.go:57-84, 165-214 and config.go:206-221: a text that is typed is the
\* text of the merged settings, whatever the scenario and the file say.  An
\* empty one counts too, except for the five texts that a default or the
\* environment fills in then, or whose emptiness means nothing.
THEOREM TypedTextWins ==
  ASSUME NEW scenario, NEW file, NEW typed,
         NEW f \in Texts,
         f \in DOMAIN typed,
         typed[f] # {} \/ f \notin {"send_timeout", "from", "subject", "smtp_port", "smtp_pass"}
  PROVE  Merge(scenario, file, BuildOverrides(typed))[f] = typed[f]
<1>. DEFINE o == BuildOverrides(typed)
            dst == MergeFromFile(scenario, file)
            out == MergeFromOverrides(dst, o)
<1>1. f \in Fields /\ f \notin Lists /\ f \notin {"enabled", "no_mail"}
  BY DEF Fields, Texts, Lists
<1>2. f \in DOMAIN o /\ o[f] = typed[f]
  BY <1>1 DEF BuildOverrides
<1>3. out[f] = typed[f] /\ DOMAIN out = Fields
  <2>1. f \in Lists \cup {"send_timeout"} => o[f] # {}
    BY <1>1, <1>2
  <2>. HIDE DEF o, dst
  <2>. QED
    BY <1>1, <1>2, <2>1 DEF MergeFromOverrides
<1>. DEFINE filled == [out EXCEPT !["smtp_pass"] = IF @ = {} THEN EnvPass ELSE @]
<1>4. Merge(scenario, file, o) = ApplyDefaults(filled)
  BY DEF Merge
<1>. HIDE DEF o, out
<1>5. filled[f] = typed[f]
  BY <1>1, <1>3
<1>. HIDE DEF filled
<1>. QED
  BY <1>1, <1>4, <1>5 DEF ApplyDefaults, o

-----------------------------------------------------------------------------
(***************************************************************************)
(* The inductive invariant.                                                *)
(***************************************************************************)
Phases == {"IDLE", "RUNNING", "STOPPING", "STOPPED", "DONE"}
Kinds == {"start", "tick", "end"}
Places == {"off", "called", "arm", "wait", "send", "choose", "close", "gone"}

MailTyped ==
  /\ phase \in Phases
  /\ run \in 0 .. MaxRuns
  /\ at \in [Goroutines -> Places]
  /\ mails \in [Goroutines -> {"none", "pending", "over"}]
  /\ verdict \in [Runs -> {"none", "done", "error"}]

\* Which runs have been launched, and that the last one ends once.
RunsLaunched ==
  /\ main = "wire" => run = 0 /\ phase = "IDLE" /\ merged = NotSet
  /\ main \notin {"wire", "launch"} \/ phase # "IDLE" => run > 0
  /\ main \in {"reset", "restopping"} \/ (main = "launch" /\ phase = "IDLE") => run < MaxRuns
  /\ \A r \in Runs : r > run =>
       at[<<"start", r>>] = "off" /\ at[<<"tick", r>>] = "off" /\ at[<<"end", r>>] = "off"
  /\ phase \in {"RUNNING", "STOPPING", "STOPPED"} => at[<<"end", run>>] = "off"

Shape == MailTyped /\ RunsLaunched

\* Hooks are there for a configuration that can be delivered; who is inside
\* one was called through it.
Hooks ==
  /\ Hooked => merged["enabled"] = Yes /\ Valid(merged)
  /\ \A r \in Runs :
       /\ at[<<"start", r>>] \in {"called", "arm"} => Hooked
       /\ at[<<"tick", r>>] # "off" =>
            Hooked /\ FiresOn(merged, "progress") /\ merged["report_interval"] # {}
       /\ at[<<"end", r>>] \in {"called", "choose"} => Hooked

\* Which mails there are, and that the terminal one is there when it has to be.
Posted ==
  \A r \in Runs :
    /\ mails[<<"start", r>>] # "none" => Hooked /\ FiresOn(merged, "start")
    /\ mails[<<"tick", r>>] # "none" => at[<<"tick", r>>] # "off"
    /\ mails[<<"end", r>>] # "none" =>
         Hooked /\ FiresOn(merged, verdict[r]) /\ at[<<"end", r>>] \in {"close", "gone"}
    /\ at[<<"end", r>>] \in {"close", "gone"} /\ Hooked /\ FiresOn(merged, verdict[r])
         /\ ~RenderFails(merged) => mails[<<"end", r>>] # "none"

\* The headless command, unless it is interrupted, goes on to WaitAll when
\* doneCh is closed, and waits for the terminal mail among others.
HeadlessEnds ==
  mode = "headless" =>
    /\ quitting = "no"
    /\ main \in {"wire", "launch", "ready", "summing", "waitall", "waiting", "exited"}
    /\ ~abandoned =>
         /\ main # "summing"
         /\ main \in {"waitall", "waiting", "exited"} => at[<<"end", run>>] = "gone"
         /\ main = "waiting" /\ mails[<<"end", run>>] = "pending" =>
              <<"end", run>> \in awaited
         /\ main = "exited" => mails[<<"end", run>>] # "pending"

MailInv == Shape /\ Hooks /\ Posted /\ HeadlessEnds

-----------------------------------------------------------------------------
(***************************************************************************)
(* What a step does, by who takes it.                                      *)
(***************************************************************************)
\* Main without the wiring and the launch.
MainMoves ==
  \/ User \/ StopReturns \/ Reset \/ QuitTick \/ QuitDone \/ SeeDone \/ WaitAll \/ Cleanup

LEMMA NextIs ==
  ASSUME Next
  PROVE  \/ MainMoves \/ Wire \/ Launch \/ Outcome \/ Complete
         \/ \E r \in Runs : HookStep(r) \/ Tick(r)
         \/ \E g \in Goroutines : Deliver(g)
BY DEF Next, Main, MainMoves

LEMMA StopGoesOn ==
  ASSUME StopReturns
  PROVE  /\ phase = "STOPPING" /\ phase' = "STOPPED"
         /\ \/ main = "stopping" /\ main' = "ready"
            \/ main = "restopping" /\ main' = "reset"
            \/ main = "exiting" /\ main' = "exited"
            \/ main = "summing" /\ main' = "waitall"
BY DEF StopReturns, Life!Park, AfterStop

LEMMA MainLeavesMail ==
  ASSUME MainMoves
  PROVE  /\ UNCHANGED <<run, at, mails, status, verdict, merged, mode, cleartext>>
         /\ main \notin {"wire", "launch"} /\ main' # "wire"
         /\ main' = "launch" => (main = "ready" /\ phase' = "STOPPED") \/ main = "reset"
<1>. USE DEF OnlyLife, mailVars, wireVars, lifeVars
<1>1. CASE StopReturns
  <2>1. UNCHANGED <<run, at, mails, status, verdict, merged, mode, cleartext>>
    BY <1>1 DEF StopReturns, history
  <2>. QED
    BY <1>1, <2>1, StopGoesOn
<1>2. CASE User
  BY <1>2 DEF User, KeyStop, KeyResume, KeyRestart, KeyQuit, Interrupt, CallStop, history
<1>3. CASE Reset \/ QuitTick \/ QuitDone \/ SeeDone
  BY <1>3 DEF Reset, QuitTick, QuitDone, SeeDone, SeeWhen, history
<1>4. CASE WaitAll \/ Cleanup
  BY <1>4 DEF WaitAll, Cleanup, CallStop, history
<1>. QED
  BY <1>1, <1>2, <1>3, <1>4 DEF MainMoves

LEMMA HooksLeaveMain ==
  ASSUME NEW r \in Runs, HookStep(r) \/ Tick(r)
  PROVE  UNCHANGED <<phase, counted, failed, run, main, quitting, keys, mode, merged, awaited,
                     abandoned, cleartext>>
BY DEF HookStep, Tick, OnStart, Arm, SendProgress, TickerEnds, OnTerminal, ChooseTerminalTrigger,
       ChooseWith, Announce, Life!Announce, lifeVars, appVars, wireVars, history

LEMMA Indices ==
  ASSUME NEW k \in Kinds, NEW r \in Runs
  PROVE  <<k, r>> \in Goroutines
BY DEF Goroutines, Kinds

\* A goroutine moves, and touches no other's place.
LEMMA GoMoves ==
  ASSUME MailTyped, NEW k \in Kinds, NEW r \in Runs, NEW where \in Places, Go(<<k, r>>, where)
  PROVE  /\ at' \in [Goroutines -> Places]
         /\ at'[<<k, r>>] = where
         /\ \A j \in Kinds, s \in Runs : j # k \/ s # r => at'[<<j, s>>] = at[<<j, s>>]
<1>1. <<k, r>> \in Goroutines /\ at \in [Goroutines -> Places]
  BY Indices DEF MailTyped
<1>2. at' = [at EXCEPT ![<<k, r>>] = where]
  BY DEF Go
<1>3. ASSUME NEW j \in Kinds, NEW s \in Runs, j # k \/ s # r
      PROVE  at'[<<j, s>>] = at[<<j, s>>]
  <2>1. <<j, s>> \in Goroutines /\ <<j, s>> # <<k, r>>
    BY <1>3, Indices
  <2>. QED
    BY <1>1, <1>2, <2>1
<1>. QED
  BY <1>1, <1>2, <1>3

\* The end of onStart leaves the ticker behind, or does not.
LEMMA ArmMoves ==
  ASSUME MailTyped, NEW r \in Runs, Arm(r)
  PROVE  /\ at' \in [Goroutines -> Places]
         /\ at[<<"start", r>>] = "arm" /\ at'[<<"start", r>>] = "gone"
         /\ \A j \in Kinds, s \in Runs : j = "end" \/ s # r => at'[<<j, s>>] = at[<<j, s>>]
         /\ \/ at'[<<"tick", r>>] = at[<<"tick", r>>] /\ UNCHANGED tickVars
            \/ /\ FiresOn(merged, "progress") /\ merged["report_interval"] # {}
               /\ at'[<<"tick", r>>] = "wait" /\ Register(r)
<1>. USE DEF Kinds, Places
<1>1. CASE FiresOn(merged, "progress") /\ merged["report_interval"] # {}
  <2>1. /\ at[<<"start", r>>] = "arm" /\ Register(r)
        /\ at' = [at EXCEPT ![<<"start", r>>] = "gone", ![<<"tick", r>>] = "wait"]
    BY <1>1 DEF Arm
  <2>2. <<"start", r>> \in Goroutines /\ <<"tick", r>> \in Goroutines
    BY Indices
  <2>3. <<"start", r>> # <<"tick", r>>
    OBVIOUS
  <2>4. at \in [Goroutines -> Places]
    BY DEF MailTyped
  <2>5. /\ at' \in [Goroutines -> Places]
        /\ at'[<<"start", r>>] = "gone" /\ at'[<<"tick", r>>] = "wait"
    BY <2>1, <2>2, <2>3, <2>4
  <2>6. ASSUME NEW j \in Kinds, NEW s \in Runs, j = "end" \/ s # r
        PROVE  at'[<<j, s>>] = at[<<j, s>>]
    <3>1. <<j, s>> \in Goroutines /\ <<j, s>> # <<"start", r>> /\ <<j, s>> # <<"tick", r>>
      BY <2>6, Indices
    <3>. QED
      BY <2>1, <2>4, <3>1
  <2>. QED
    BY <1>1, <2>1, <2>5, <2>6
<1>2. CASE ~ (FiresOn(merged, "progress") /\ merged["report_interval"] # {})
  <2>1. at[<<"start", r>>] = "arm" /\ Go(<<"start", r>>, "gone") /\ UNCHANGED tickVars
    BY <1>2 DEF Arm
  <2>. QED
    BY <2>1, GoMoves
<1>. QED
  BY <1>1, <1>2

\* Where the code of each goroutine leads it.
LEMMA HookMoves ==
  ASSUME MailTyped, NEW r \in Runs, HookStep(r) \/ Tick(r)
  PROVE  /\ at' \in [Goroutines -> Places]
         /\ \A j \in Kinds, s \in Runs : s # r => at'[<<j, s>>] = at[<<j, s>>]
         /\ \/ OnStart(r) /\ at[<<"start", r>>] = "called" /\ at'[<<"start", r>>] = "arm"
               /\ at'[<<"tick", r>>] = at[<<"tick", r>>] /\ at'[<<"end", r>>] = at[<<"end", r>>]
            \/ Arm(r) /\ at'[<<"end", r>>] = at[<<"end", r>>]
            \/ /\ Tick(r) \/ SendProgress(r) \/ TickerEnds(r)
               /\ at[<<"tick", r>>] \in {"wait", "send"} /\ at'[<<"tick", r>>] # "off"
               /\ at'[<<"start", r>>] = at[<<"start", r>>] /\ at'[<<"end", r>>] = at[<<"end", r>>]
            \/ /\ \/ OnTerminal(r) /\ at[<<"end", r>>] = "called" /\ at'[<<"end", r>>] = "choose"
                  \/ ChooseTerminalTrigger(r) /\ at[<<"end", r>>] = "choose" /\ at'[<<"end", r>>] = "close"
                  \/ Announce(r) /\ at[<<"end", r>>] = "close" /\ at'[<<"end", r>>] = "gone"
               /\ at'[<<"start", r>>] = at[<<"start", r>>] /\ at'[<<"tick", r>>] = at[<<"tick", r>>]
<1>0. /\ "start" \in Kinds /\ "tick" \in Kinds /\ "end" \in Kinds
      /\ {"arm", "choose", "close", "gone", "send", "wait"} \subseteq Places
  BY DEF Kinds, Places
<1>1. CASE OnStart(r)
  <2>1. at[<<"start", r>>] = "called" /\ Go(<<"start", r>>, "arm")
    BY <1>1 DEF OnStart
  <2>. QED
    BY <1>0, <1>1, <2>1, GoMoves
<1>2. CASE Arm(r)
  <2>1. /\ at' \in [Goroutines -> Places]
        /\ \A j \in Kinds, s \in Runs : j = "end" \/ s # r => at'[<<j, s>>] = at[<<j, s>>]
    BY <1>2, ArmMoves
  <2>. QED
    BY <1>0, <1>2, <2>1
<1>3. CASE Tick(r) \/ SendProgress(r) \/ TickerEnds(r)
  <2>1. /\ at[<<"tick", r>>] \in {"wait", "send"}
        /\ \E where \in {"send", "wait", "gone"} : Go(<<"tick", r>>, where)
    BY <1>3 DEF Tick, SendProgress, TickerEnds
  <2>2. PICK where \in {"send", "wait", "gone"} : Go(<<"tick", r>>, where)
    BY <2>1
  <2>3. /\ at' \in [Goroutines -> Places] /\ at'[<<"tick", r>>] = where
        /\ \A j \in Kinds, s \in Runs : j # "tick" \/ s # r => at'[<<j, s>>] = at[<<j, s>>]
    BY <1>0, <2>2, GoMoves
  <2>4. where # "off" /\ at'[<<"start", r>>] = at[<<"start", r>>] /\ at'[<<"end", r>>] = at[<<"end", r>>]
    BY <1>0, <2>3
  <2>. QED
    BY <1>3, <2>1, <2>3, <2>4
<1>4. CASE OnTerminal(r)
  <2>1. at[<<"end", r>>] = "called" /\ Go(<<"end", r>>, "choose")
    BY <1>4 DEF OnTerminal
  <2>. QED
    BY <1>0, <1>4, <2>1, GoMoves
<1>5. CASE ChooseTerminalTrigger(r)
  <2>1. at[<<"end", r>>] = "choose" /\ Go(<<"end", r>>, "close")
    BY <1>5 DEF ChooseTerminalTrigger, ChooseWith
  <2>. QED
    BY <1>0, <1>5, <2>1, GoMoves
<1>6. CASE Announce(r)
  <2>1. at[<<"end", r>>] = "close" /\ Go(<<"end", r>>, "gone")
    BY <1>6 DEF Announce
  <2>. QED
    BY <1>0, <1>6, <2>1, GoMoves
<1>. QED
  BY <1>1, <1>2, <1>3, <1>4, <1>5, <1>6 DEF HookStep

\* What a goroutine adds to the mails.
LEMMA SendMoves ==
  ASSUME MailTyped, NEW g \in Goroutines, SendOneEmail(g)
  PROVE  /\ mails' \in [Goroutines -> {"none", "pending", "over"}]
         /\ \A h \in Goroutines \ {g} : mails'[h] = mails[h]
         /\ \/ ~RenderFails(merged) /\ mails'[g] = "pending" /\ status' = "pending"
            \/ RenderFails(merged) /\ mails' = mails /\ status' = "failed"
BY DEF MailTyped, SendOneEmail

-----------------------------------------------------------------------------
(***************************************************************************)
(* Types, and the runs.                                                    *)
(***************************************************************************)
LEMMA InitMail == Init => MailInv
<1>. SUFFICES ASSUME Init PROVE MailInv
  OBVIOUS
<1>. USE MailAssumption DEF Init
<1>1. MailTyped
  <2>1. at \in [Goroutines -> Places]
    BY DEF Places
  <2>2. mails \in [Goroutines -> {"none", "pending", "over"}]
    OBVIOUS
  <2>3. verdict \in [Runs -> {"none", "done", "error"}]
    OBVIOUS
  <2>4. phase \in Phases /\ run \in 0 .. MaxRuns
    BY DEF Phases
  <2>. QED
    BY <2>1, <2>2, <2>3, <2>4 DEF MailTyped
<1>2. \A j \in Kinds, r \in Runs : at[<<j, r>>] = "off" /\ mails[<<j, r>>] = "none"
  BY Indices
<1>3. RunsLaunched
  BY <1>2 DEF RunsLaunched, Kinds
<1>4. Hooks /\ Posted
  BY <1>2 DEF Hooks, Posted, Hooked, Kinds
<1>5. HeadlessEnds
  BY DEF HeadlessEnds
<1>. QED
  BY <1>1, <1>3, <1>4, <1>5 DEF MailInv, Shape

\* What main's own steps do to the runner.
LEMMA MainMovesLife ==
  ASSUME Shape, MainMoves
  PROVE  /\ phase' \in Phases
         /\ phase' \in {"RUNNING", "STOPPING", "STOPPED"} =>
              phase \in {"RUNNING", "STOPPING", "STOPPED"}
         /\ phase' = "DONE" => phase = "DONE" /\ UNCHANGED <<counted, failed>>
         /\ main' \in {"reset", "restopping"} => run < MaxRuns
<1>. USE DEF Phases, MailTyped, Shape, lifeVars
<1>1. CASE StopReturns
  BY <1>1, StopGoesOn DEF RunsLaunched
<1>2. CASE KeyStop \/ KeyQuit \/ Interrupt
  BY <1>2 DEF KeyStop, KeyQuit, Interrupt, CallStop, Life!Stop
<1>3. CASE KeyRestart
  BY <1>3 DEF KeyRestart, CallStop, Life!Stop, OnlyLife
<1>4. CASE KeyResume \/ QuitTick \/ QuitDone \/ SeeDone \/ WaitAll
  BY <1>4 DEF KeyResume, QuitTick, QuitDone, SeeDone, SeeWhen, WaitAll, OnlyLife
<1>5. CASE Cleanup
  BY <1>5 DEF Cleanup, CallStop, Life!Stop
<1>6. CASE Reset
  BY <1>6 DEF Reset, Life!Reset
<1>. QED
  BY <1>1, <1>2, <1>3, <1>4, <1>5, <1>6 DEF MainMoves, User

LEMMA LaunchMoves ==
  ASSUME Shape, Launch
  PROVE  /\ main = "launch" /\ main' = "ready" /\ phase' = "RUNNING"
         /\ UNCHANGED <<merged, mails, verdict, status, mode, quitting, cleartext, abandoned,
                        cancelled, registered>>
         /\ at' \in [Goroutines -> Places]
         /\ \/ /\ phase = "IDLE" /\ run' = run + 1 /\ run' \in Runs
               /\ at'[<<"start", run'>>] = IF Hooked THEN "called" ELSE "gone"
               /\ \A j \in Kinds, s \in Runs :
                    j # "start" \/ s # run' => at'[<<j, s>>] = at[<<j, s>>]
            \/ phase = "STOPPED" /\ run' = run /\ at' = at
<1>. USE MailAssumption DEF Shape
<1>1. /\ main = "launch" /\ main' = "ready" /\ phase' = "RUNNING"
      /\ phase \in {"IDLE", "STOPPED"}
      /\ UNCHANGED <<merged, mails, verdict, status, mode, quitting, cleartext, abandoned,
                        cancelled, registered>>
  BY DEF Launch, Life!Launch, wireVars, mailVars, tickVars, history
<1>2. CASE phase = "IDLE"
  <2>1. run' = run + 1
    BY <1>2 DEF Launch
  <2>2. run' \in Runs
    BY <1>1, <1>2, <2>1 DEF MailTyped, RunsLaunched, Runs
  <2>3. PICK where \in Places : Go(<<"start", run'>>, where) /\ where = IF Hooked THEN "called" ELSE "gone"
    BY <1>2 DEF Launch, Places
  <2>4. "start" \in Kinds
    BY DEF Kinds
  <2>. QED
    BY <1>1, <1>2, <2>1, <2>2, <2>3, <2>4, GoMoves
<1>3. CASE phase = "STOPPED"
  <2>1. run' = run /\ at' = at
    BY <1>3 DEF Launch
  <2>. QED
    BY <1>1, <1>3, <2>1 DEF MailTyped
<1>. QED
  BY <1>1, <1>2, <1>3

LEMMA CompleteMoves ==
  ASSUME Shape, Complete
  PROVE  /\ phase = "RUNNING" /\ phase' = "DONE" /\ run \in Runs
         /\ UNCHANGED <<run, main, quitting, mode, merged, mails, status, counted, failed,
                        cleartext, abandoned, awaited, cancelled, registered>>
         /\ verdict' = [verdict EXCEPT ![run] = TerminalTrigger]
         /\ at' \in [Goroutines -> Places]
         /\ at[<<"end", run>>] = "off"
         /\ at'[<<"end", run>>] = IF Hooked THEN "called" ELSE "close"
         /\ \A j \in Kinds, s \in Runs : j # "end" \/ s # run => at'[<<j, s>>] = at[<<j, s>>]
<1>. USE MailAssumption DEF Shape
<1>1. /\ phase = "RUNNING" /\ phase' = "DONE"
      /\ UNCHANGED <<run, main, quitting, mode, merged, mails, status, counted, failed,
                     cleartext, abandoned, awaited, cancelled, registered>>
      /\ verdict' = [verdict EXCEPT ![run] = TerminalTrigger]
  BY DEF Complete, Life!Complete, appVars, wireVars, tickVars, history
<1>2. run \in Runs /\ at[<<"end", run>>] = "off"
  BY <1>1 DEF RunsLaunched, MailTyped, Runs
<1>3. PICK where \in Places : Go(<<"end", run>>, where) /\ where = IF Hooked THEN "called" ELSE "close"
  BY DEF Complete, Places
<1>4. "end" \in Kinds
  BY DEF Kinds
<1>5. /\ at' \in [Goroutines -> Places]
      /\ at'[<<"end", run>>] = where
      /\ \A j \in Kinds, s \in Runs : j # "end" \/ s # run => at'[<<j, s>>] = at[<<j, s>>]
  BY <1>2, <1>3, <1>4, GoMoves
<1>. QED
  BY <1>1, <1>2, <1>3, <1>5

LEMMA DeliverMoves ==
  ASSUME NEW g \in Goroutines, Deliver(g)
  PROVE  /\ UNCHANGED <<phase, counted, failed, run, main, quitting, mode, merged, at, verdict,
                        abandoned, cancelled, registered>>
         /\ mails[g] = "pending" /\ mails' = [mails EXCEPT ![g] = "over"]
         /\ awaited' = awaited \ {g}
BY DEF Deliver, lifeVars, appVars, wireVars, tickVars

LEMMA HookPosts ==
  ASSUME MailTyped, NEW r \in Runs, HookStep(r) \/ Tick(r)
  PROVE  /\ mails' \in [Goroutines -> {"none", "pending", "over"}]
         /\ verdict' \in [Runs -> {"none", "done", "error"}]
         /\ ChooseTerminalTrigger(r) \/ UNCHANGED verdict
         /\ OnStart(r) \/ SendProgress(r) \/ ChooseTerminalTrigger(r) \/ UNCHANGED <<mails, status>>
<1>. USE Indices DEF Kinds
<1>1. CASE OnStart(r)
  BY <1>1, SendMoves DEF OnStart, SendIf, MailTyped
<1>2. CASE SendProgress(r)
  BY <1>2, SendMoves DEF SendProgress, MailTyped
<1>3. CASE ChooseTerminalTrigger(r)
  <2>1. mails' \in [Goroutines -> {"none", "pending", "over"}]
    BY <1>3, SendMoves DEF ChooseTerminalTrigger, ChooseWith, SendIf, MailTyped
  <2>2. TerminalTrigger \in {"done", "error"} /\ verdict' = [verdict EXCEPT ![r] = TerminalTrigger]
    BY <1>3 DEF ChooseTerminalTrigger, ChooseWith, TerminalTrigger
  <2>. QED
    BY <1>3, <2>1, <2>2 DEF MailTyped
<1>4. CASE Arm(r) \/ Tick(r) \/ TickerEnds(r) \/ OnTerminal(r) \/ Announce(r)
  BY <1>4 DEF Arm, Tick, TickerEnds, OnTerminal, Announce, mailVars, MailTyped
<1>. QED
  BY <1>1, <1>2, <1>3, <1>4 DEF HookStep

LEMMA StepShape ==
  ASSUME Shape, [Next]_vars
  PROVE  Shape'
<1>. USE MailAssumption DEF Shape
<1>1. CASE MainMoves
  <2>1. MailTyped'
    BY <1>1, MainLeavesMail, MainMovesLife DEF MailTyped
  <2>2. RunsLaunched'
    BY <1>1, MainLeavesMail, MainMovesLife DEF RunsLaunched
  <2>. QED
    BY <2>1, <2>2
<1>2. CASE Wire
  <2>1. UNCHANGED <<phase, run, at, mails, verdict>> /\ main = "wire" /\ main' = "launch"
    BY <1>2 DEF Wire, lifeVars
  <2>. QED
    BY <2>1 DEF MailTyped, RunsLaunched
<1>3. CASE Launch
  <2>1. MailTyped'
    BY <1>3, LaunchMoves DEF MailTyped, Phases, Runs
  <2>2. main' = "ready" /\ phase' = "RUNNING" /\ UNCHANGED merged
    BY <1>3, LaunchMoves
  <2>3. /\ run' \in Nat /\ run' >= run /\ run' > 0
        /\ at'[<<"end", run'>>] = "off"
        /\ \A s \in Runs : s > run' =>
             at'[<<"start", s>>] = "off" /\ at'[<<"tick", s>>] = "off" /\ at'[<<"end", s>>] = "off"
    <3>1. CASE phase = "IDLE"
      <4>1. /\ run' = run + 1 /\ run' \in Runs /\ run \in Nat
            /\ \A j \in Kinds, s \in Runs :
                 j # "start" \/ s # run' => at'[<<j, s>>] = at[<<j, s>>]
        BY <1>3, <3>1, LaunchMoves DEF MailTyped
      <4>2. \A s \in Runs : s > run' => s > run /\ s # run'
        BY <4>1 DEF Runs
      <4>3. run' > run /\ run' > 0 /\ run' \in Nat
        BY <4>1
      <4>4. "start" \in Kinds /\ "tick" \in Kinds /\ "end" \in Kinds
        BY DEF Kinds
      <4>5. \A s \in Runs : s > run =>
              at[<<"start", s>>] = "off" /\ at[<<"tick", s>>] = "off" /\ at[<<"end", s>>] = "off"
        BY DEF RunsLaunched
      <4>6. at'[<<"end", run'>>] = "off"
        BY <4>1, <4>3, <4>4, <4>5
      <4>7. ASSUME NEW s \in Runs, s > run'
            PROVE  at'[<<"start", s>>] = "off" /\ at'[<<"tick", s>>] = "off" /\ at'[<<"end", s>>] = "off"
        BY <4>1, <4>2, <4>4, <4>5, <4>7
      <4>. QED
        BY <4>1, <4>3, <4>6, <4>7
    <3>2. CASE phase = "STOPPED"
      BY <1>3, <3>2, LaunchMoves DEF RunsLaunched, MailTyped
    <3>. QED
      BY <1>3, <3>1, <3>2, LaunchMoves
  <2>4. RunsLaunched'
    BY <2>2, <2>3 DEF RunsLaunched
  <2>. QED
    BY <2>1, <2>4
<1>4. CASE Outcome
  <2>1. UNCHANGED <<phase, run, main, merged, at, mails, verdict>>
    BY <1>4 DEF Outcome, Life!Lost, appVars, wireVars, mailVars
  <2>. QED
    BY <2>1 DEF MailTyped, RunsLaunched
<1>5. CASE Complete
  <2>1. verdict' \in [Runs -> {"none", "done", "error"}]
    BY <1>5, CompleteMoves DEF MailTyped, TerminalTrigger
  <2>2. MailTyped'
    BY <1>5, <2>1, CompleteMoves DEF MailTyped, Phases
  <2>3. RunsLaunched'
    BY <1>5, CompleteMoves DEF RunsLaunched, Kinds, Runs
  <2>. QED
    BY <2>2, <2>3
<1>6. ASSUME NEW r \in Runs, HookStep(r) \/ Tick(r)
      PROVE  Shape'
  <2>1. UNCHANGED <<phase, run, main, merged>>
    BY <1>6, HooksLeaveMain
  <2>2. MailTyped'
    BY <1>6, <2>1, HookMoves, HookPosts DEF MailTyped
  <2>3. ~ (r > run)
    BY <1>6, HookMoves, ArmMoves DEF RunsLaunched
  <2>4. at[<<"end", r>>] = "off" => at'[<<"end", r>>] = "off"
    BY <1>6, HookMoves
  <2>5. \A j \in Kinds, s \in Runs : s # r => at'[<<j, s>>] = at[<<j, s>>]
    BY <1>6, HookMoves
  <2>6. phase \in {"RUNNING", "STOPPING", "STOPPED"} => run \in Runs
    BY DEF RunsLaunched, MailTyped, Runs
  <2>7. RunsLaunched'
    BY <2>1, <2>3, <2>4, <2>5, <2>6 DEF RunsLaunched, Kinds
  <2>. QED
    BY <2>2, <2>7
<1>7. ASSUME NEW g \in Goroutines, Deliver(g)
      PROVE  Shape'
  BY <1>7, DeliverMoves DEF MailTyped, RunsLaunched
<1>8. CASE UNCHANGED vars
  BY <1>8 DEF vars, lifeVars, appVars, wireVars, mailVars, MailTyped, RunsLaunched
<1>. QED
  BY <1>1, <1>2, <1>3, <1>4, <1>5, <1>6, <1>7, <1>8, NextIs

-----------------------------------------------------------------------------
(***************************************************************************)
(* The hooks and the mails they post.                                      *)
(***************************************************************************)
\* Before the wiring nobody is anywhere.
LEMMA NobodyBeforeWire ==
  ASSUME Shape, main = "wire"
  PROVE  \A r \in Runs : at[<<"start", r>>] = "off" /\ at[<<"tick", r>>] = "off" /\ at[<<"end", r>>] = "off"
<1>1. run = 0
  BY DEF Shape, RunsLaunched
<1>2. \A r \in Runs : r > 0
  BY MailAssumption DEF Runs
<1>. QED
  BY <1>1, <1>2 DEF Shape, RunsLaunched

LEMMA WireMoves ==
  ASSUME Wire
  PROVE  /\ main = "wire" /\ main' = "launch"
         /\ UNCHANGED <<phase, counted, failed, run, at, mails, verdict, mode, quitting,
                        abandoned, cleartext, cancelled, registered>>
         /\ status' # "pending"
         /\ Hooked' => merged'["enabled"] = Yes /\ Valid(merged')
<1>1. /\ main = "wire" /\ main' = "launch"
      /\ UNCHANGED <<phase, counted, failed, run, at, mails, verdict, mode, quitting,
                     abandoned, cleartext, cancelled, registered>>
  BY DEF Wire, lifeVars, tickVars, history
<1>2. /\ status' = WiredState(sources, Layers(sources))
      /\ merged' = IF status' = "configured" THEN Layers(sources) ELSE NotSet
  BY DEF Wire
<1>3. status' \in {"failed", "disabled", "configured"}
  BY <1>2 DEF WiredState
<1>4. status' = "configured" =>
        Layers(sources)["enabled"] = Yes /\ Valid(Layers(sources))
  BY <1>2 DEF WiredState
<1>. QED
  BY <1>1, <1>2, <1>3, <1>4 DEF Hooked

\* What happens elsewhere leaves the mail side alone.
Quiet == UNCHANGED <<merged, at, mails, verdict>>

LEMMA QuietSteps ==
  ASSUME MainMoves \/ Outcome \/ UNCHANGED vars
  PROVE  Quiet
<1>1. CASE MainMoves
  BY <1>1, MainLeavesMail DEF Quiet
<1>2. CASE Outcome \/ UNCHANGED vars
  BY <1>2 DEF Quiet, Outcome, vars, wireVars, mailVars
<1>. QED
  BY <1>1, <1>2

LEMMA StepHooks ==
  ASSUME Shape, Hooks, [Next]_vars
  PROVE  Hooks'
<1>0. "start" \in Kinds /\ "tick" \in Kinds /\ "end" \in Kinds
  BY DEF Kinds
<1>1. CASE Quiet
  BY <1>1 DEF Quiet, Hooks, Hooked
<1>2. CASE Wire
  BY <1>2, WireMoves, NobodyBeforeWire DEF Hooks
<1>3. CASE Launch
  <2>1. merged' = merged
    BY <1>3, LaunchMoves
  <2>2. \A r \in Runs :
          /\ at'[<<"tick", r>>] = at[<<"tick", r>>] /\ at'[<<"end", r>>] = at[<<"end", r>>]
          /\ at'[<<"start", r>>] \in {"called", "arm"} =>
               Hooked \/ at[<<"start", r>>] \in {"called", "arm"}
    BY <1>0, <1>3, LaunchMoves
  <2>. QED
    BY <2>1, <2>2 DEF Hooks, Hooked
<1>4. CASE Complete
  <2>1. merged' = merged
    BY <1>4, CompleteMoves
  <2>2. \A r \in Runs :
          /\ at'[<<"tick", r>>] = at[<<"tick", r>>] /\ at'[<<"start", r>>] = at[<<"start", r>>]
          /\ at'[<<"end", r>>] \in {"called", "choose"} =>
               Hooked \/ at[<<"end", r>>] \in {"called", "choose"}
    BY <1>0, <1>4, CompleteMoves
  <2>. QED
    BY <2>1, <2>2 DEF Hooks, Hooked
<1>5. ASSUME NEW r \in Runs, HookStep(r) \/ Tick(r)
      PROVE  Hooks'
  <2>1. merged' = merged
    BY <1>5, HooksLeaveMain
  <2>2. \A s \in Runs : s # r =>
          /\ at'[<<"start", s>>] = at[<<"start", s>>] /\ at'[<<"tick", s>>] = at[<<"tick", s>>]
          /\ at'[<<"end", s>>] = at[<<"end", s>>]
    BY <1>0, <1>5, HookMoves DEF Shape
  <2>3. /\ at'[<<"start", r>>] \in {"called", "arm"} => at[<<"start", r>>] \in {"called", "arm"}
        /\ at'[<<"end", r>>] \in {"called", "choose"} => at[<<"end", r>>] \in {"called", "choose"}
        /\ at'[<<"tick", r>>] # "off" =>
             \/ at[<<"tick", r>>] # "off"
             \/ /\ at[<<"start", r>>] = "arm"
                /\ FiresOn(merged, "progress") /\ merged["report_interval"] # {}
    BY <1>5, HookMoves, ArmMoves DEF Shape
  <2>. QED
    BY <2>1, <2>2, <2>3 DEF Hooks, Hooked
<1>6. ASSUME NEW g \in Goroutines, Deliver(g)
      PROVE  Hooks'
  BY <1>6, DeliverMoves DEF Hooks, Hooked
<1>. QED
  BY <1>1, <1>2, <1>3, <1>4, <1>5, <1>6, NextIs, QuietSteps

\* onStart, the ticker and onTerminal post their own mail only, and onTerminal
\* does so as it takes the verdict.
LEMMA HookPostsOwn ==
  ASSUME MailTyped, NEW r \in Runs, HookStep(r) \/ Tick(r)
  PROVE  /\ \A s \in Runs : s # r =>
              /\ mails'[<<"start", s>>] = mails[<<"start", s>>]
              /\ mails'[<<"tick", s>>] = mails[<<"tick", s>>]
              /\ mails'[<<"end", s>>] = mails[<<"end", s>>]
              /\ verdict'[s] = verdict[s]
         /\ mails'[<<"start", r>>] # mails[<<"start", r>>] =>
              at[<<"start", r>>] = "called" /\ FiresOn(merged, "start")
         /\ mails'[<<"tick", r>>] # mails[<<"tick", r>>] => at[<<"tick", r>>] # "off"
         /\ at[<<"tick", r>>] # "off" => at'[<<"tick", r>>] # "off"
         /\ \/ /\ mails'[<<"end", r>>] = mails[<<"end", r>>] /\ verdict'[r] = verdict[r]
               /\ \/ at'[<<"end", r>>] = at[<<"end", r>>]
                  \/ at[<<"end", r>>] = "called" /\ at'[<<"end", r>>] = "choose"
                  \/ at[<<"end", r>>] = "close" /\ at'[<<"end", r>>] = "gone"
            \/ /\ at[<<"end", r>>] = "choose" /\ at'[<<"end", r>>] = "close"
               /\ verdict'[r] = TerminalTrigger
               /\ mails'[<<"end", r>>] = mails[<<"end", r>>] \/ FiresOn(merged, verdict'[r])
               /\ FiresOn(merged, verdict'[r]) /\ ~RenderFails(merged)
                    => mails'[<<"end", r>>] = "pending"
<1>0. \A k \in Kinds, s \in Runs : <<k, s>> \in Goroutines
  BY Indices
<1>1. "start" \in Kinds /\ "tick" \in Kinds /\ "end" \in Kinds
  BY DEF Kinds
<1>2. {"arm", "send", "wait", "choose", "close", "gone"} \subseteq Places
  BY DEF Places
<1>3. CASE OnStart(r)
  <2>1. /\ verdict' = verdict /\ SendIf(<<"start", r>>, "start")
        /\ at[<<"start", r>>] = "called" /\ Go(<<"start", r>>, "arm")
    BY <1>3 DEF OnStart
  <2>2. /\ \A h \in Goroutines \ {<<"start", r>>} : mails'[h] = mails[h]
        /\ mails' # mails => FiresOn(merged, "start")
    BY <1>0, <1>1, <2>1, SendMoves DEF SendIf
  <2>3. at'[<<"tick", r>>] = at[<<"tick", r>>] /\ at'[<<"end", r>>] = at[<<"end", r>>]
    BY <1>1, <1>2, <2>1, GoMoves
  <2>. QED
    BY <1>0, <1>1, <2>1, <2>2, <2>3
<1>4. CASE SendProgress(r)
  <2>1. /\ verdict' = verdict /\ SendOneEmail(<<"tick", r>>)
        /\ at[<<"tick", r>>] = "send" /\ Go(<<"tick", r>>, "wait")
    BY <1>4 DEF SendProgress
  <2>2. \A h \in Goroutines \ {<<"tick", r>>} : mails'[h] = mails[h]
    BY <1>0, <1>1, <2>1, SendMoves
  <2>3. at'[<<"tick", r>>] = "wait" /\ at'[<<"end", r>>] = at[<<"end", r>>]
    BY <1>1, <1>2, <2>1, GoMoves
  <2>. QED
    BY <1>0, <1>1, <2>1, <2>2, <2>3
<1>5. CASE ChooseTerminalTrigger(r)
  <2>1. /\ verdict' = [verdict EXCEPT ![r] = TerminalTrigger]
        /\ SendIf(<<"end", r>>, TerminalTrigger)
        /\ at[<<"end", r>>] = "choose" /\ Go(<<"end", r>>, "close")
    BY <1>5 DEF ChooseTerminalTrigger, ChooseWith
  <2>2. /\ verdict'[r] = TerminalTrigger
        /\ \A s \in Runs : s # r => verdict'[s] = verdict[s]
    BY <2>1 DEF MailTyped
  <2>3. /\ \A h \in Goroutines \ {<<"end", r>>} : mails'[h] = mails[h]
        /\ mails' = mails \/ FiresOn(merged, TerminalTrigger)
        /\ FiresOn(merged, TerminalTrigger) /\ ~RenderFails(merged) => mails'[<<"end", r>>] = "pending"
    BY <1>0, <1>1, <2>1, SendMoves DEF SendIf
  <2>4. at'[<<"end", r>>] = "close" /\ at'[<<"tick", r>>] = at[<<"tick", r>>]
    BY <1>1, <1>2, <2>1, GoMoves
  <2>. QED
    BY <1>0, <1>1, <2>1, <2>2, <2>3, <2>4
<1>6. CASE Arm(r) \/ Tick(r) \/ TickerEnds(r)
  <2>1. mails' = mails /\ verdict' = verdict
    BY <1>6 DEF Arm, Tick, TickerEnds, mailVars
  <2>2. /\ at'[<<"end", r>>] = at[<<"end", r>>]
        /\ at[<<"tick", r>>] # "off" => at'[<<"tick", r>>] # "off"
    <3>1. CASE Arm(r)
      BY <1>1, <3>1, ArmMoves
    <3>2. CASE Tick(r)
      <4>1. Go(<<"tick", r>>, "send")
        BY <3>2 DEF Tick
      <4>. QED
        BY <1>1, <1>2, <4>1, GoMoves
    <3>3. CASE TickerEnds(r)
      <4>1. Go(<<"tick", r>>, "gone")
        BY <3>3 DEF TickerEnds
      <4>. QED
        BY <1>1, <1>2, <4>1, GoMoves
    <3>. QED
      BY <1>6, <3>1, <3>2, <3>3
  <2>. QED
    BY <2>1, <2>2
<1>7. CASE OnTerminal(r)
  <2>1. /\ mails' = mails /\ verdict' = verdict
        /\ at[<<"end", r>>] = "called" /\ Go(<<"end", r>>, "choose")
    BY <1>7 DEF OnTerminal, mailVars
  <2>2. at'[<<"end", r>>] = "choose" /\ at'[<<"tick", r>>] = at[<<"tick", r>>]
    BY <1>1, <1>2, <2>1, GoMoves
  <2>. QED
    BY <2>1, <2>2
<1>8. CASE Announce(r)
  <2>1. /\ mails' = mails /\ verdict' = verdict
        /\ at[<<"end", r>>] = "close" /\ Go(<<"end", r>>, "gone")
    BY <1>8 DEF Announce, mailVars
  <2>2. at'[<<"end", r>>] = "gone" /\ at'[<<"tick", r>>] = at[<<"tick", r>>]
    BY <1>1, <1>2, <2>1, GoMoves
  <2>. QED
    BY <2>1, <2>2
<1>. QED
  BY <1>3, <1>4, <1>5, <1>6, <1>7, <1>8 DEF HookStep

LEMMA StepPosted ==
  ASSUME Shape, Hooks, Posted, [Next]_vars
  PROVE  Posted'
<1>0. "start" \in Kinds /\ "tick" \in Kinds /\ "end" \in Kinds
  BY DEF Kinds
<1>1. CASE Quiet
  BY <1>1 DEF Quiet, Posted, Hooked
<1>2. CASE Wire
  <2>1. ~ Hooked
    BY <1>2, WireMoves DEF Shape, RunsLaunched, Hooked
  <2>2. \A r \in Runs :
          /\ at'[<<"end", r>>] = "off" /\ at'[<<"tick", r>>] = at[<<"tick", r>>]
          /\ mails'[<<"start", r>>] = "none" /\ mails'[<<"end", r>>] = "none"
          /\ mails'[<<"tick", r>>] = mails[<<"tick", r>>]
    BY <1>2, <2>1, WireMoves, NobodyBeforeWire DEF Posted
  <2>. QED
    BY <2>2 DEF Posted
<1>3. CASE Launch
  <2>1. UNCHANGED <<merged, mails, verdict>>
    BY <1>3, LaunchMoves
  <2>2. \A r \in Runs :
          at'[<<"tick", r>>] = at[<<"tick", r>>] /\ at'[<<"end", r>>] = at[<<"end", r>>]
    BY <1>0, <1>3, LaunchMoves
  <2>. QED
    BY <2>1, <2>2 DEF Posted, Hooked
<1>4. CASE Complete
  <2>1. /\ UNCHANGED <<merged, mails>> /\ run \in Runs
        /\ at[<<"end", run>>] = "off"
        /\ at'[<<"end", run>>] = IF Hooked THEN "called" ELSE "close"
    BY <1>4, CompleteMoves
  <2>2. mails[<<"end", run>>] = "none"
    BY <2>1 DEF Posted
  <2>3. \A r \in Runs :
          /\ at'[<<"tick", r>>] = at[<<"tick", r>>]
          /\ r # run => at'[<<"end", r>>] = at[<<"end", r>>] /\ verdict'[r] = verdict[r]
    BY <1>0, <1>4, CompleteMoves DEF Shape, MailTyped
  <2>. QED
    BY <2>1, <2>2, <2>3 DEF Posted, Hooked
<1>5. ASSUME NEW r \in Runs, HookStep(r) \/ Tick(r)
      PROVE  Posted'
  <2>1. merged' = merged
    BY <1>5, HooksLeaveMain
  <2>2. \A s \in Runs : s # r =>
          at'[<<"tick", s>>] = at[<<"tick", s>>] /\ at'[<<"end", s>>] = at[<<"end", s>>]
    BY <1>0, <1>5, HookMoves DEF Shape
  <2>3. ASSUME NEW s \in Runs, s # r
        PROVE  /\ mails'[<<"start", s>>] = mails[<<"start", s>>]
               /\ mails'[<<"tick", s>>] = mails[<<"tick", s>>]
               /\ mails'[<<"end", s>>] = mails[<<"end", s>>]
               /\ verdict'[s] = verdict[s]
    BY <1>5, <2>3, HookPostsOwn DEF Shape
  <2>4. /\ mails'[<<"start", r>>] # "none" => Hooked /\ FiresOn(merged, "start")
        /\ mails'[<<"tick", r>>] # "none" => at'[<<"tick", r>>] # "off"
    BY <1>5, HookPostsOwn DEF Shape, Hooks, Posted
  <2>5. CASE /\ mails'[<<"end", r>>] = mails[<<"end", r>>] /\ verdict'[r] = verdict[r]
             /\ \/ at'[<<"end", r>>] = at[<<"end", r>>]
                \/ at[<<"end", r>>] = "called" /\ at'[<<"end", r>>] = "choose"
                \/ at[<<"end", r>>] = "close" /\ at'[<<"end", r>>] = "gone"
    BY <2>1, <2>2, <2>3, <2>4, <2>5 DEF Posted, Hooked
  <2>6. CASE /\ at[<<"end", r>>] = "choose" /\ at'[<<"end", r>>] = "close"
             /\ mails'[<<"end", r>>] = mails[<<"end", r>>] \/ FiresOn(merged, verdict'[r])
             /\ FiresOn(merged, verdict'[r]) /\ ~RenderFails(merged)
                  => mails'[<<"end", r>>] = "pending"
    BY <2>1, <2>2, <2>3, <2>4, <2>6 DEF Posted, Hooked, Hooks
  <2>. QED
    BY <1>5, <2>5, <2>6, HookPostsOwn DEF Shape
<1>6. ASSUME NEW g \in Goroutines, Deliver(g)
      PROVE  Posted'
  <2>1. \A h \in Goroutines : mails'[h] = "none" <=> mails[h] = "none"
    BY <1>6, DeliverMoves DEF Shape, MailTyped
  <2>2. \A r \in Runs :
          <<"start", r>> \in Goroutines /\ <<"tick", r>> \in Goroutines /\ <<"end", r>> \in Goroutines
    BY <1>0, Indices
  <2>3. UNCHANGED <<merged, at, verdict>>
    BY <1>6, DeliverMoves
  <2>. QED
    BY <2>1, <2>2, <2>3 DEF Posted, Hooked
<1>. QED
  BY <1>1, <1>2, <1>3, <1>4, <1>5, <1>6, NextIs, QuietSteps

-----------------------------------------------------------------------------
(***************************************************************************)
(* The end of the headless command.                                        *)
(***************************************************************************)
\* What main's own steps do in the headless command.
LEMMA HeadlessMoves ==
  ASSUME HeadlessEnds, MainMoves, mode = "headless"
  PROVE  /\ quitting' = "no"
         /\ abandoned => abandoned'
         /\ \/ SeeDone /\ main' = "waitall" /\ at[<<"end", run>>] = "gone"
            \/ main' \in {"summing", "waitall"} /\ abandoned'
            \/ main = "waitall" /\ main' = "waiting"
               /\ awaited' = {g \in Goroutines : mails[g] = "pending"} /\ abandoned' = abandoned
            \/ main = "waiting" /\ main' = "exited" /\ (awaited = {} \/ abandoned')
<1>0. /\ quitting = "no"
      /\ main \in {"wire", "launch", "ready", "summing", "waitall", "waiting", "exited"}
      /\ ~abandoned => main # "summing"
  BY DEF HeadlessEnds
<1>. USE DEF OnlyLife, history
<1>1. CASE StopReturns
  <2>1. main = "summing" /\ main' = "waitall"
    BY <1>0, <1>1, StopGoesOn
  <2>2. quitting' = quitting /\ abandoned' = abandoned
    BY <1>1 DEF StopReturns
  <2>. QED
    BY <1>0, <2>1, <2>2
<1>2. CASE Interrupt
  BY <1>0, <1>2 DEF Interrupt, CallStop
<1>3. CASE SeeDone
  BY <1>0, <1>3 DEF SeeDone, SeeWhen
<1>4. CASE WaitAll
  BY <1>0, <1>4 DEF WaitAll
<1>5. CASE Cleanup
  BY <1>0, <1>5 DEF Cleanup
<1>6. CASE KeyStop \/ KeyResume \/ KeyRestart \/ KeyQuit \/ Reset \/ QuitTick \/ QuitDone
  BY <1>0, <1>6 DEF KeyStop, KeyResume, KeyRestart, KeyQuit, Reset, QuitTick, QuitDone
<1>. QED
  BY <1>1, <1>2, <1>3, <1>4, <1>5, <1>6 DEF MainMoves, User

\* Nothing moves on at the end of the run, nor is its mail posted, when the
\* watcher is gone.
LEMMA GoneIsGone ==
  ASSUME Shape, run \in Runs, at[<<"end", run>>] = "gone", main \notin {"wire", "launch"},
         [Next]_vars
  PROVE  /\ run' = run /\ at'[<<"end", run>>] = "gone"
         /\ mails'[<<"end", run>>] = "pending" => mails[<<"end", run>>] = "pending"
<1>0. "end" \in Kinds /\ <<"end", run>> \in Goroutines
  BY Indices DEF Kinds
<1>1. CASE Quiet /\ run' = run
  BY <1>1 DEF Quiet
<1>2. CASE MainMoves \/ Outcome \/ UNCHANGED vars
  <2>1. run' = run
    BY <1>2, MainLeavesMail DEF Outcome, vars
  <2>. QED
    BY <1>1, <1>2, <2>1, QuietSteps
<1>3. CASE Wire \/ Launch \/ Complete
  BY <1>3, WireMoves, LaunchMoves, CompleteMoves
<1>4. ASSUME NEW r \in Runs, HookStep(r) \/ Tick(r)
      PROVE  /\ run' = run /\ at'[<<"end", run>>] = "gone"
             /\ mails'[<<"end", run>>] = "pending" => mails[<<"end", run>>] = "pending"
  <2>1. run' = run
    BY <1>4, HooksLeaveMain
  <2>2. CASE r = run
    BY <1>4, <2>1, <2>2, HookPostsOwn DEF Shape
  <2>3. CASE r # run
    BY <1>0, <1>4, <2>1, <2>3, HookPostsOwn, HookMoves DEF Shape
  <2>. QED
    BY <2>2, <2>3
<1>5. ASSUME NEW g \in Goroutines, Deliver(g)
      PROVE  /\ run' = run /\ at'[<<"end", run>>] = "gone"
             /\ mails'[<<"end", run>>] = "pending" => mails[<<"end", run>>] = "pending"
  BY <1>0, <1>5, DeliverMoves DEF Shape, MailTyped
<1>. QED
  BY <1>2, <1>3, <1>4, <1>5, NextIs

\* Who is not main changes nothing of main's, except that a mail delivered is
\* no longer awaited.
LEMMA OthersLeaveMain ==
  ASSUME Next, ~ MainMoves, ~ Wire, ~ Launch
  PROVE  /\ UNCHANGED <<main, mode, quitting, abandoned>>
         /\ awaited' = awaited
              \/ \E g \in Goroutines : awaited' = awaited \ {g} /\ mails' = [mails EXCEPT ![g] = "over"]
<1>1. CASE Outcome
  BY <1>1 DEF Outcome, appVars, history
<1>2. CASE Complete
  BY <1>2 DEF Complete, appVars, history
<1>3. ASSUME NEW r \in Runs, HookStep(r) \/ Tick(r)
      PROVE  UNCHANGED <<main, mode, quitting, abandoned, awaited>>
  BY <1>3, HooksLeaveMain
<1>. QED
  BY <1>1, <1>2, <1>3, DeliverMoves, NextIs

LEMMA StepHeadless ==
  ASSUME Shape, HeadlessEnds, [Next]_vars
  PROVE  HeadlessEnds'
<1>. SUFFICES ASSUME mode' = "headless"
              PROVE  HeadlessEnds'
  BY DEF HeadlessEnds
<1>0. main \notin {"wire", "launch"} => run \in Runs /\ <<"end", run>> \in Goroutines
  <2>1. "end" \in Kinds
    BY DEF Kinds
  <2>2. main \notin {"wire", "launch"} => run \in Runs
    BY MailAssumption DEF Shape, RunsLaunched, MailTyped, Runs
  <2>. QED
    BY <2>1, <2>2, Indices
<1>1. CASE Wire
  BY <1>1, WireMoves DEF HeadlessEnds
<1>2. CASE Launch
  BY <1>2, LaunchMoves DEF HeadlessEnds
<1>3. CASE MainMoves
  <2>1. /\ mode = "headless" /\ main \notin {"wire", "launch"}
        /\ UNCHANGED <<run, at, mails>>
    BY <1>3, MainLeavesMail
  <2>2. run \in Runs /\ <<"end", run>> \in Goroutines
    BY <1>0, <2>1
  <2>. QED
    BY <1>3, <2>1, <2>2, HeadlessMoves DEF HeadlessEnds
<1>4. CASE Next /\ ~ MainMoves /\ ~ Wire /\ ~ Launch
  <2>1. /\ UNCHANGED <<main, mode, quitting, abandoned>>
        /\ awaited' = awaited
              \/ \E g \in Goroutines : awaited' = awaited \ {g} /\ mails' = [mails EXCEPT ![g] = "over"]
    BY <1>4, OthersLeaveMain
  <2>2. CASE abandoned \/ main \notin {"waitall", "waiting", "exited"}
    BY <2>1, <2>2 DEF HeadlessEnds
  <2>3. CASE ~abandoned /\ main \in {"waitall", "waiting", "exited"}
    <3>1. at[<<"end", run>>] = "gone" /\ run \in Runs /\ <<"end", run>> \in Goroutines
      BY <1>0, <2>1, <2>3 DEF HeadlessEnds
    <3>2. /\ run' = run /\ at'[<<"end", run>>] = "gone"
          /\ mails'[<<"end", run>>] = "pending" => mails[<<"end", run>>] = "pending"
      BY <1>4, <2>3, <3>1, GoneIsGone
    <3>3. mails'[<<"end", run>>] = "pending" /\ <<"end", run>> \in awaited
            => <<"end", run>> \in awaited'
      BY <2>1, <3>1 DEF Shape, MailTyped
    <3>. QED
      BY <2>1, <2>3, <3>1, <3>2, <3>3 DEF HeadlessEnds
  <2>. QED
    BY <2>2, <2>3
<1>5. CASE UNCHANGED vars
  BY <1>5 DEF vars, appVars, mailVars, history, HeadlessEnds
<1>. QED
  BY <1>1, <1>2, <1>3, <1>4, <1>5

LEMMA AlwaysMail == Spec => []MailInv
<1>1. MailInv /\ [Next]_vars => MailInv'
  BY StepShape, StepHooks, StepPosted, StepHeadless DEF MailInv
<1>. QED
  BY <1>1, InitMail, PTL DEF Spec

-----------------------------------------------------------------------------
(***************************************************************************)
(* Which mails go out.                                                     *)
(***************************************************************************)
\* email.go:116-123 and sendOneEmail: --no-mail installs no hook, and a mail
\* that is handed over has a host, a sender, a recipient and a trigger that
\* was asked for, in every order of the runs' hooks.
THEOREM OnlyWantedMailGoesOut == Spec => []OnlyWantedMail
<1>1. MailInv => OnlyWantedMail
  <2>. SUFFICES ASSUME MailInv PROVE OnlyWantedMail
    OBVIOUS
  <2>1. ASSUME "no_mail" \in DOMAIN sources.typed, sources.typed["no_mail"] = Yes
        PROVE  WiredState(sources, Layers(sources)) # "configured"
    <3>1. Layers(sources)["enabled"] = {}
      BY <2>1, NoMailWins DEF Layers
    <3>. QED
      BY <3>1 DEF WiredState, Yes
  <2>2. ASSUME NEW g \in Goroutines, mails[g] # "none"
        PROVE  /\ Hooked
               /\ FiresOn(merged, TriggerOf(g))
               /\ g[1] = "tick" => merged["report_interval"] # {}
    <3>1. PICK k \in {"start", "tick", "end"}, r \in Runs : g = <<k, r>>
      BY DEF Goroutines
    <3>2. CASE k = "start"
      <4>1. Hooked /\ FiresOn(merged, "start")
        BY <2>2, <3>1, <3>2 DEF MailInv, Posted
      <4>. QED
        BY <3>1, <3>2, <4>1 DEF TriggerOf
    <3>3. CASE k = "tick"
      <4>1. at[<<"tick", r>>] # "off"
        BY <2>2, <3>1, <3>3 DEF MailInv, Posted
      <4>2. Hooked /\ FiresOn(merged, "progress") /\ merged["report_interval"] # {}
        BY <4>1 DEF MailInv, Hooks
      <4>. QED
        BY <3>1, <3>3, <4>2 DEF TriggerOf
    <3>4. CASE k = "end"
      <4>1. Hooked /\ FiresOn(merged, verdict[r])
        BY <2>2, <3>1, <3>4 DEF MailInv, Posted
      <4>. QED
        BY <3>1, <3>4, <4>1 DEF TriggerOf
    <3>. QED
      BY <3>1, <3>2, <3>3, <3>4
  <2>3. Hooked => /\ merged["enabled"] = Yes
                  /\ merged["smtp_host"] # {} /\ merged["from"] # {} /\ HasRecipient(merged)
    BY DEF MailInv, Hooks, Valid, Addressed
  <2>. QED
    BY <2>1, <2>2, <2>3 DEF OnlyWantedMail
<1>. QED
  BY <1>1, AlwaysMail, PTL

\* email.go's onTerminal and waitForMails: the headless command whose doneCh is
\* closed exits with the mail about its run delivered or failed, however long
\* each delivery takes, because it is posted before the close and the list of
\* WaitAll is taken after it.
THEOREM HeadlessKeepsItsMail == Spec => []HeadlessWaitsForMail
<1>1. MailInv => HeadlessWaitsForMail
  <2>. SUFFICES ASSUME MailInv, main = "exited", mode = "headless", ~abandoned, Hooked
                PROVE  /\ at[<<"end", run>>] = "gone"
                       /\ FiresOn(merged, verdict[run]) /\ ~RenderFails(merged)
                            => mails[<<"end", run>>] = "over"
    BY DEF HeadlessWaitsForMail
  <2>1. at[<<"end", run>>] = "gone" /\ mails[<<"end", run>>] # "pending"
    BY DEF MailInv, HeadlessEnds
  <2>2. run \in Runs
    BY MailAssumption DEF MailInv, Shape, RunsLaunched, MailTyped, Runs
  <2>3. mails[<<"end", run>>] \in {"none", "pending", "over"}
    <3>1. <<"end", run>> \in Goroutines
      BY <2>2, Indices DEF Kinds
    <3>. QED
      BY <3>1 DEF MailInv, Shape, MailTyped
  <2>4. FiresOn(merged, verdict[run]) /\ ~RenderFails(merged) => mails[<<"end", run>>] # "none"
    BY <2>1, <2>2 DEF MailInv, Posted
  <2>. QED
    BY <2>1, <2>3, <2>4
<1>. QED
  BY <1>1, AlwaysMail, PTL

-----------------------------------------------------------------------------
(***************************************************************************)
(* The registry of tickers.                                                *)
(***************************************************************************)
\* Who touches the registry, and how.
LEMMA RegistryMoves ==
  ASSUME Next
  PROVE  UNCHANGED tickVars \/ Register(0) \/ \E r \in Runs : Arm(r)
<1>. USE DEF tickVars, OnlyLife
<1>1. CASE User
  BY <1>1 DEF User, KeyStop, KeyResume, KeyRestart, KeyQuit, Interrupt
<1>2. CASE Main
  BY <1>2 DEF Main, Wire, Launch, StopReturns, Reset, QuitTick, QuitDone, SeeDone, SeeWhen,
              WaitAll, Cleanup
<1>3. CASE Outcome \/ Complete
  BY <1>3 DEF Outcome, Complete
<1>4. ASSUME NEW r \in Runs, HookStep(r) \/ Tick(r)
      PROVE  UNCHANGED tickVars \/ Register(0) \/ Arm(r)
  BY <1>4 DEF HookStep, Tick, OnStart, SendProgress, TickerEnds, OnTerminal, ChooseTerminalTrigger,
              ChooseWith, Announce
<1>5. ASSUME NEW g \in Goroutines, Deliver(g)
      PROVE  UNCHANGED tickVars
  BY <1>5 DEF Deliver
<1>. QED
  BY <1>1, <1>2, <1>3, <1>4, <1>5 DEF Next

\* A ticker comes to life in Arm alone.
LEMMA TickerMoves ==
  ASSUME Shape, Next, NEW r \in Runs, ~ Arm(r), at'[<<"tick", r>>] \notin {"off", "gone"}
  PROVE  at[<<"tick", r>>] \notin {"off", "gone"}
<1>0. "tick" \in Kinds
  BY DEF Kinds
<1>1. CASE MainMoves \/ Outcome
  BY <1>1, QuietSteps DEF Quiet
<1>2. CASE Wire \/ Launch \/ Complete
  BY <1>0, <1>2, WireMoves, LaunchMoves, CompleteMoves
<1>3. ASSUME NEW s \in Runs, HookStep(s) \/ Tick(s)
      PROVE  at[<<"tick", r>>] \notin {"off", "gone"}
  <2>1. CASE s # r
    BY <1>0, <1>3, <2>1, HookMoves DEF Shape
  <2>2. CASE s = r
    BY <1>3, <2>2, HookMoves DEF Shape
  <2>. QED
    BY <2>1, <2>2
<1>4. ASSUME NEW g \in Goroutines, Deliver(g)
      PROVE  at[<<"tick", r>>] \notin {"off", "gone"}
  BY <1>4, DeliverMoves
<1>. QED
  BY <1>1, <1>2, <1>3, <1>4, NextIs

\* email.go's mailRegistry: however the onStart of one run, which arms a ticker
\* late, and the callbacks of another interleave, every ticker but the one
\* registered has been cancelled.
THEOREM AtMostOneLiveTicker == Spec => []OneLiveTicker
<1>1. Init => OneLiveTicker
  <2>. SUFFICES ASSUME Init PROVE OneLiveTicker
    OBVIOUS
  <2>1. \A r \in Runs : at[<<"tick", r>>] = "off"
    BY Indices DEF Init, Kinds
  <2>. QED
    BY <2>1 DEF OneLiveTicker
<1>2. MailInv /\ OneLiveTicker /\ [Next]_vars => OneLiveTicker'
  <2>. SUFFICES ASSUME Shape, OneLiveTicker, [Next]_vars,
                       NEW r \in Runs, at'[<<"tick", r>>] \notin {"off", "gone"}, r \notin cancelled'
                PROVE  registered' = r
    BY DEF OneLiveTicker, MailInv
  <2>0. r # 0
    BY DEF Runs
  <2>1. CASE UNCHANGED vars
    BY <2>1 DEF vars, tickVars, OneLiveTicker
  <2>2. CASE Arm(r)
    <3>1. CASE Register(r)
      BY <3>1 DEF Register
    <3>2. CASE at'[<<"tick", r>>] = at[<<"tick", r>>] /\ UNCHANGED tickVars
      BY <3>2 DEF OneLiveTicker, tickVars
    <3>. QED
      BY <2>2, <3>1, <3>2, ArmMoves DEF Shape
  <2>3. CASE Next /\ ~ Arm(r)
    <3>1. at[<<"tick", r>>] \notin {"off", "gone"}
      BY <2>3, TickerMoves
    <3>2. CASE UNCHANGED tickVars
      BY <3>1, <3>2 DEF OneLiveTicker, tickVars
    <3>3. ~ \E s \in {0} \cup Runs : s # r /\ Register(s)
      BY <2>0, <3>1 DEF OneLiveTicker, Register
    <3>4. ASSUME NEW s \in Runs, Arm(s)
          PROVE  UNCHANGED tickVars
      BY <2>3, <3>3, <3>4, ArmMoves DEF Shape
    <3>. QED
      BY <2>0, <2>3, <3>2, <3>3, <3>4, RegistryMoves
  <2>. QED
    BY <2>1, <2>2, <2>3
<1>. QED
  BY <1>1, <1>2, AlwaysMail, PTL DEF Spec

-----------------------------------------------------------------------------
(***************************************************************************)
(* The status and the dialogue.                                            *)
(***************************************************************************)
\* Whatever the server offers and wherever the dialogue breaks off, it ends
\* with a mark, and without the password in the clear.
LEMMA DialoguesEnd ==
  ASSUME NEW c, NEW e \in Endings(c)
  PROVE  e.state \in {"sent", "failed"} /\ e.clear = FALSE
<1>. DEFINE Harmless == {"dial", "EHLO", "refuse", "MAIL", "RCPT", "DATA", "QUIT"}
<1>1. ASSUME ~ (WantAuth(c) /\ IsLoopback(c))
      PROVE  \A n \in 0 .. Len(Dialogue(c, FALSE)) :
               "AUTH" \notin {Dialogue(c, FALSE)[k] : k \in 1 .. n}
  <2>1. /\ <<"dial", "EHLO">> \in Seq(Harmless) /\ <<>> \in Seq(Harmless)
        /\ <<"refuse">> \in Seq(Harmless)
    OBVIOUS
  <2>2. Commands \in Seq(Harmless)
    BY DEF Commands
  <2>. HIDE DEF Harmless
  <2>3. \A s, t \in Seq(Harmless) : s \o t \in Seq(Harmless)
    OBVIOUS
  <2>4. Dialogue(c, FALSE) \in Seq(Harmless)
    <3>1. CASE WantAuth(c)
      <4>1. Dialogue(c, FALSE) = (<<"dial", "EHLO">> \o <<>>) \o <<"refuse">>
        BY <1>1, <3>1 DEF Dialogue
      <4>. QED
        BY <2>1, <2>3, <4>1
    <3>2. CASE ~ WantAuth(c)
      <4>1. Dialogue(c, FALSE) = (<<"dial", "EHLO">> \o <<>>) \o (<<>> \o Commands)
        BY <3>2 DEF Dialogue
      <4>. QED
        BY <2>1, <2>2, <2>3, <4>1
    <3>. QED
      BY <3>1, <3>2
  <2>5. "AUTH" \notin Harmless
    BY DEF Harmless
  <2>6. ASSUME NEW d \in Seq(Harmless)
        PROVE  \A n \in 0 .. Len(d) : "AUTH" \notin {d[k] : k \in 1 .. n}
    BY <2>5
  <2>. QED
    BY <2>4, <2>6
<1>2. PICK tls \in BOOLEAN :
        \E n \in 0 .. Len(Dialogue(c, tls)) :
          e = [state |-> IF n = Len(Dialogue(c, tls)) THEN "sent" ELSE "failed",
               clear |-> "AUTH" \in {Dialogue(c, tls)[k] : k \in 1 .. n} /\ ~tls /\ ~IsLoopback(c)]
  BY DEF Endings
<1>3. PICK n \in 0 .. Len(Dialogue(c, tls)) :
        e = [state |-> IF n = Len(Dialogue(c, tls)) THEN "sent" ELSE "failed",
             clear |-> "AUTH" \in {Dialogue(c, tls)[k] : k \in 1 .. n} /\ ~tls /\ ~IsLoopback(c)]
  BY <1>2
<1>4. ~ ("AUTH" \in {Dialogue(c, tls)[k] : k \in 1 .. n} /\ ~tls /\ ~IsLoopback(c))
  <2>1. CASE tls
    BY <2>1
  <2>2. CASE IsLoopback(c)
    BY <2>2
  <2>3. CASE tls = FALSE /\ ~ IsLoopback(c)
    <3>1. "AUTH" \notin {Dialogue(c, FALSE)[k] : k \in 1 .. n}
      BY <1>1, <2>3
    <3>. QED
      BY <2>3, <3>1
  <2>. QED
    BY <2>1, <2>2, <2>3
<1>. QED
  BY <1>3, <1>4

\* What a step does to the status.
LEMMA StatusMoves ==
  ASSUME Shape, Next
  PROVE  \/ UNCHANGED <<mails, status>> \/ status' # "pending"
         \/ \E g \in Goroutines : mails'[g] = "pending"
<1>1. CASE MainMoves
  BY <1>1, MainLeavesMail
<1>2. CASE Outcome
  BY <1>2 DEF Outcome, mailVars
<1>3. CASE Wire \/ Launch \/ Complete
  BY <1>3, WireMoves, LaunchMoves, CompleteMoves
<1>4. ASSUME NEW r \in Runs, HookStep(r) \/ Tick(r)
      PROVE  \/ UNCHANGED <<mails, status>> \/ status' # "pending"
             \/ \E g \in Goroutines : mails'[g] = "pending"
  <2>1. \A g \in Goroutines :
          SendOneEmail(g) => mails'[g] = "pending" \/ status' # "pending"
    BY SendMoves DEF Shape
  <2>2. <<"start", r>> \in Goroutines /\ <<"tick", r>> \in Goroutines /\ <<"end", r>> \in Goroutines
    BY Indices DEF Kinds
  <2>3. CASE OnStart(r)
    BY <2>1, <2>2, <2>3 DEF OnStart, SendIf
  <2>4. CASE SendProgress(r)
    BY <2>1, <2>2, <2>4 DEF SendProgress
  <2>5. CASE ChooseTerminalTrigger(r)
    BY <2>1, <2>2, <2>5 DEF ChooseTerminalTrigger, ChooseWith, SendIf
  <2>. QED
    BY <1>4, <2>3, <2>4, <2>5, HookPosts DEF Shape
<1>5. ASSUME NEW g \in Goroutines, Deliver(g)
      PROVE  status' # "pending"
  BY <1>5, DialoguesEnd DEF Deliver, Mark
<1>. QED
  BY <1>1, <1>2, <1>3, <1>4, <1>5, NextIs

\* mail.Status under three goroutines of a run and any number of deliveries:
\* when no delivery is under way, the status the TUI shows is not "pending".
THEOREM StatusNeverStuck == Spec => []StatusSettles
<1>1. Init => StatusSettles
  BY DEF Init, StatusSettles
<1>2. MailInv /\ StatusSettles /\ [Next]_vars => StatusSettles'
  <2>1. CASE UNCHANGED vars
    BY <2>1 DEF vars, mailVars, StatusSettles
  <2>2. ASSUME MailInv, StatusSettles, Next
        PROVE  StatusSettles'
    BY <2>2, StatusMoves DEF MailInv, StatusSettles
  <2>. QED
    BY <2>1, <2>2
<1>. QED
  BY <1>1, <1>2, AlwaysMail, PTL DEF Spec

\* sender.go's send: for every configuration, every server and every point at
\* which the dialogue fails, no password has gone to a foreign host outside TLS.
THEOREM NoPasswordInTheClear == Spec => []PasswordNeedsTLS
<1>1. Init => PasswordNeedsTLS
  BY DEF Init, PasswordNeedsTLS
<1>2. MailInv /\ PasswordNeedsTLS /\ [Next]_vars => PasswordNeedsTLS'
  <2>. SUFFICES ASSUME MailInv, PasswordNeedsTLS, [Next]_vars
                PROVE  cleartext' = FALSE
    BY DEF PasswordNeedsTLS
  <2>0. cleartext' = cleartext => cleartext' = FALSE
    <3>1. cleartext = FALSE
      BY DEF PasswordNeedsTLS
    <3>. QED
      BY <3>1
  <2>1. CASE UNCHANGED vars
    BY <2>0, <2>1 DEF vars, history
  <2>2. CASE MainMoves \/ Wire \/ Launch \/ Complete
    BY <2>0, <2>2, MainLeavesMail, WireMoves, LaunchMoves, CompleteMoves DEF MailInv
  <2>3. CASE Outcome
    BY <2>0, <2>3 DEF Outcome, history
  <2>4. ASSUME NEW r \in Runs, HookStep(r) \/ Tick(r)
        PROVE  cleartext' = FALSE
    BY <2>0, <2>4, HooksLeaveMain
  <2>5. ASSUME NEW g \in Goroutines, Deliver(g)
        PROVE  cleartext' = FALSE
    BY <2>5, DialoguesEnd DEF Deliver, PasswordNeedsTLS
  <2>. QED
    BY <2>1, <2>2, <2>3, <2>4, <2>5, NextIs
<1>. QED
  BY <1>1, <1>2, AlwaysMail, PTL DEF Spec

=============================================================================
