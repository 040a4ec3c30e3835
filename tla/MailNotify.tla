----------------------------- MODULE MailNotify -----------------------------
(***************************************************************************)
(* The e-mail notifications of one scenario (cmd/loadtest/email.go,        *)
(* internal/mail/sender.go, status.go), driven by a runner that keeps the  *)
(* promises of Lifecycle, in the headless command and in the TUI           *)
(* (cmd/loadtest/run.go).                                                  *)
(*                                                                         *)
(* Up to three goroutines of a run mail through one closure, sendOneEmail: *)
(* the one that runs onStart, the progress ticker it leaves behind, and    *)
(* the watcher that runs onTerminal.  They share the Status the TUI polls  *)
(* and the mailRegistry.  Every mail is delivered by a goroutine of its    *)
(* own.  When the main goroutine exits, all others end where they are.     *)
(***************************************************************************)
EXTENDS MailConfig, Sequences, FiniteSets

CONSTANTS
  Setups,       \* the mode, and what the wiring finds: scenario block, file, flags
  MaxRuns,      \* bound: fresh runs
  MaxKeys,      \* bound: keys s, R and q pressed
  MaxRequests   \* bound: requests between two resets of the figures

ASSUME MailAssumption ==
  MaxRuns \in Nat \ {0} /\ MaxKeys \in Nat /\ MaxRequests \in Nat

VARIABLES
  phase, pending, counted, owed,  \* the runner, see Lifecycle
  failed,      \* errors among the outcomes in the figures
  run,         \* fresh runs launched; startedAt is that of the last one
  mode,        \* "headless" or "tui"
  main,        \* where the main goroutine is
  quitting,    \* m.quitting, and whether the quitDoneMsg is on its way
  keys,        \* keys pressed so far
  sources,     \* the three layers, NoSources once they are merged
  merged,      \* the captured configuration, NotSet if no hook is installed
  status,      \* mail.Status.state
  at,          \* where each goroutine of each run is
  registered,  \* mailRegistry.progress: the run whose ticker it would cancel, 0 if none
  cancelled,   \* runs whose ticker's context is cancelled
  mails,       \* the message of each goroutine of each run (bound: one per ticker)
  verdict,     \* the trigger that described each run when it became DONE, and
               \* later the one its terminal callback has taken
  awaited,     \* the mails WaitAll still waits for
  abandoned,   \* history: WaitAll timed out, or the user interrupted the command
  cleartext    \* history: a password went to a foreign host without TLS

lifeVars == <<phase, pending, counted, owed>>
appVars == <<mode, main, quitting, keys>>
wireVars == <<sources, merged>>
mailVars == <<status, mails, verdict>>
tickVars == <<registered, cancelled>>
history == <<abandoned, cleartext>>
vars == <<lifeVars, failed, run, appVars, wireVars, at, mailVars, tickVars, awaited,
          history>>

Life == INSTANCE Lifecycle

Runs == 1..MaxRuns
Goroutines == {"start", "tick", "end"} \X Runs
NoSources == [scenario |-> NotSet, file |-> NotSet, fileErr |-> FALSE, typed |-> <<>>]

Init ==
  /\ Life!Init /\ phase = "IDLE"
  /\ failed = 0 /\ run = 0 /\ keys = 0
  /\ \E s \in Setups : mode = s.mode /\ sources = s.found
  /\ main = "wire" /\ quitting = "no"
  /\ merged = NotSet
  /\ status = "disabled"
  /\ at = [g \in Goroutines |-> "off"]
  /\ mails = [g \in Goroutines |-> "none"]
  /\ verdict = [r \in Runs |-> "none"]
  /\ registered = 0 /\ cancelled = {} /\ awaited = {}
  /\ abandoned = FALSE /\ cleartext = FALSE

Alive == main # "exited"
Hooked == merged # NotSet
Go(g, where) == at' = [at EXCEPT ![g] = where]

-----------------------------------------------------------------------------
(* The wiring. *)

Layers(s) == Merge(s.scenario, s.file, BuildOverrides(s.typed))

\* The status of the scenario after the wiring.
WiredState(s, c) ==
  IF s.fileErr /\ WantsEmail(s.scenario, BuildOverrides(s.typed), c) THEN "failed"
  ELSE IF c["enabled"] # Yes THEN "disabled"
  ELSE IF ~Valid(c) \/ ~BodiesResolve(c) THEN "failed"
  ELSE "configured"

\* Only a scenario that is configured gets its callbacks.
Wire ==
  /\ main = "wire"
  /\ LET c == Layers(sources)
     IN /\ status' = WiredState(sources, c)
        /\ merged' = IF status' = "configured" THEN c ELSE NotSet
  /\ main' = "launch"
  /\ sources' = NoSources
  /\ UNCHANGED <<lifeVars, failed, run, mode, quitting, keys, at, mails, verdict,
                 tickVars, awaited, history>>

-----------------------------------------------------------------------------
(* The runner, as Lifecycle promises it. *)

ErrorsDominate(errors, received) == errors > 0 /\ errors > received
TerminalTrigger == IF ErrorsDominate(failed, counted - failed) THEN "error" ELSE "done"

\* A request and its outcome, a reply or an error, in one step: the mails do
\* not see what is pending.
Outcome ==
  /\ Alive
  /\ counted < MaxRequests
  /\ Life!Lost
  /\ failed' \in {failed, failed + 1}
  /\ UNCHANGED <<run, appVars, wireVars, at, mailVars, tickVars, awaited, history>>

\* The watcher settles DONE and calls onTerminal.
Complete ==
  /\ Alive
  /\ Life!Complete
  /\ Go(<<"end", run>>, IF Hooked THEN "called" ELSE "close")
  /\ verdict' = [verdict EXCEPT ![run] = TerminalTrigger]
  /\ UNCHANGED <<failed, run, appVars, wireVars, status, mails, tickVars, awaited,
                 history>>

\* onTerminal has returned: the watcher closes doneCh.
Announce(r) ==
  /\ Alive
  /\ at[<<"end", r>>] = "close"
  /\ Life!Announce
  /\ Go(<<"end", r>>, "gone")
  /\ UNCHANGED <<failed, run, appVars, wireVars, mailVars, tickVars, awaited, history>>

-----------------------------------------------------------------------------
(* The hooks. *)

\* sendOneEmail: the bodies are rendered, and the message is handed to
\* SendAsync, which marks the status, and to the registry; a body that does
\* not render fails the status and sends nothing.
SendOneEmail(g) ==
  IF RenderFails(merged)
  THEN status' = "failed" /\ UNCHANGED mails
  ELSE status' = "pending" /\ mails' = [mails EXCEPT ![g] = "pending"]

SendIf(g, trigger) ==
  IF FiresOn(merged, trigger) THEN SendOneEmail(g) ELSE UNCHANGED <<status, mails>>

\* Forgets to cancel.
Register_NoCancel(r) == registered' = r /\ UNCHANGED cancelled

\* startProgress and stopProgress both cancel whatever is registered.
Register(r) ==
  /\ cancelled' = cancelled \cup ({registered} \ {0})
  /\ registered' = r

\* onStart, on a goroutine of its own.
OnStart(r) ==
  /\ Alive
  /\ at[<<"start", r>>] = "called"
  /\ SendIf(<<"start", r>>, "start")
  /\ Go(<<"start", r>>, "arm")
  /\ UNCHANGED <<lifeVars, failed, run, appVars, wireVars, verdict, tickVars, awaited,
                 history>>

\* The end of onStart: the ticker is registered, and spawned.
Arm(r) ==
  /\ Alive
  /\ at[<<"start", r>>] = "arm"
  /\ IF FiresOn(merged, "progress") /\ merged["report_interval"] # {}
     THEN /\ Register(r)
          /\ at' = [at EXCEPT ![<<"start", r>>] = "gone", ![<<"tick", r>>] = "wait"]
     ELSE /\ Go(<<"start", r>>, "gone")
          /\ UNCHANGED tickVars
  /\ UNCHANGED <<lifeVars, failed, run, appVars, wireVars, mailVars, awaited, history>>

\* A tick that finds the scenario RUNNING goes on to send; any other is
\* skipped.  With the context cancelled as well, select takes either branch.
Tick(r) ==
  /\ Alive
  /\ at[<<"tick", r>>] = "wait" /\ mails[<<"tick", r>>] = "none"
  /\ phase = "RUNNING"
  /\ Go(<<"tick", r>>, "send")
  /\ UNCHANGED <<lifeVars, failed, run, appVars, wireVars, mailVars, tickVars, awaited,
                 history>>

SendProgress(r) ==
  /\ Alive
  /\ at[<<"tick", r>>] = "send"
  /\ SendOneEmail(<<"tick", r>>)
  /\ Go(<<"tick", r>>, "wait")
  /\ UNCHANGED <<lifeVars, failed, run, appVars, wireVars, verdict, tickVars, awaited,
                 history>>

TickerEnds(r) ==
  /\ Alive
  /\ at[<<"tick", r>>] = "wait"
  /\ r \in cancelled
  /\ Go(<<"tick", r>>, "gone")
  /\ UNCHANGED <<lifeVars, failed, run, appVars, wireVars, mailVars, tickVars, awaited,
                 history>>

\* onTerminal: first the ticker is stopped; then the figures are read and the
\* mail goes out.
OnTerminal(r) ==
  /\ Alive
  /\ at[<<"end", r>>] = "called"
  /\ Register(0)
  /\ Go(<<"end", r>>, "choose")
  /\ UNCHANGED <<lifeVars, failed, run, appVars, wireVars, mailVars, awaited, history>>

ChooseWith(r, trigger) ==
  /\ Alive
  /\ at[<<"end", r>>] = "choose"
  /\ verdict' = [verdict EXCEPT ![r] = trigger]
  /\ SendIf(<<"end", r>>, trigger)
  /\ Go(<<"end", r>>, "close")
  /\ UNCHANGED <<lifeVars, failed, run, appVars, wireVars, tickVars, awaited, history>>

ChooseTerminalTrigger(r) == ChooseWith(r, TerminalTrigger)

-----------------------------------------------------------------------------
(* Sender.send: the dialogue of one mail with the SMTP server. *)

WantAuth(c) == c["smtp_user"] # {} /\ c["smtp_pass"] # {}
IsLoopback(c) == c["smtp_host"] = {"localhost"}

Commands == <<"MAIL", "RCPT", "DATA", "QUIT">>

\* Logs in whether or not TLS is on.
Dialogue_Trusting(c, offersTLS) ==
  <<"dial", "EHLO">>
  \o (IF offersTLS THEN <<"STARTTLS">> ELSE <<>>)
  \o (IF WantAuth(c) THEN <<"AUTH">> ELSE <<>>) \o Commands

\* What is attempted, in this order, when the server does or does not offer
\* STARTTLS; "refuse" is the sender's own decision.
Dialogue(c, offersTLS) ==
  <<"dial", "EHLO">>
  \o (IF offersTLS THEN <<"STARTTLS">> ELSE <<>>)
  \o (IF WantAuth(c) /\ ~offersTLS /\ ~IsLoopback(c) THEN <<"refuse">>
      ELSE (IF WantAuth(c) THEN <<"AUTH">> ELSE <<>>) \o Commands)

\* The dialogue ends with its first failure, of the server, of the network or
\* by the deadline of SendTimeout, or not at all; n commands have succeeded.
Endings(c) ==
  UNION {
    LET script == Dialogue(c, offersTLS)
        did(n) == {script[k] : k \in 1..n}
    IN {[state |-> IF n = Len(script) THEN "sent" ELSE "failed",
         clear |-> "AUTH" \in did(n) /\ ~offersTLS /\ ~IsLoopback(c)] :
          n \in {k \in 0..Len(script) : "refuse" \notin did(k)}} :
    offersTLS \in BOOLEAN}

Mark_OnlySent(state) == status' = IF state = "sent" THEN state ELSE status
Mark(state) == status' = state

\* MarkSent or MarkFailed.
Deliver(g) ==
  /\ Alive
  /\ mails[g] = "pending"
  /\ mails' = [mails EXCEPT ![g] = "over"]
  /\ awaited' = awaited \ {g}
  /\ \E e \in Endings(merged) :
       Mark(e.state) /\ cleartext' = (cleartext \/ e.clear)
  /\ UNCHANGED <<lifeVars, failed, run, appVars, wireVars, at, verdict, tickVars,
                 abandoned>>

-----------------------------------------------------------------------------
(* The main goroutine: the headless command, or the TUI's Update loop. *)

\* The rest of the state while the main goroutine only moves the runner.
OnlyLife == UNCHANGED <<failed, run, mode, quitting, wireVars, at, mailVars, tickVars,
                        awaited, history>>

\* startInternal; a fresh start spawns onStart.  Resume keeps the run.
Launch ==
  /\ main = "launch"
  /\ Life!Launch
  /\ main' = "ready"
  /\ IF phase = "IDLE"
     THEN /\ run' = run + 1
          /\ Go(<<"start", run'>>, IF Hooked THEN "called" ELSE "gone")
     ELSE UNCHANGED <<run, at>>
  /\ UNCHANGED <<failed, mode, quitting, keys, wireVars, mailVars, tickVars, awaited,
                 history>>

\* Runner.Stop blocks its caller until the runner is parked; afterwards the
\* caller goes on at next.
CallStop(next) ==
  /\ Life!Stop
  /\ main' = next

AfterStop ==
  [stopping |-> "ready", restopping |-> "reset", exiting |-> "exited", summing |-> "waitall"]

StopReturns ==
  /\ main \in DOMAIN AfterStop
  /\ Life!Park
  /\ main' = AfterStop[main]
  /\ UNCHANGED keys
  /\ OnlyLife

\* Keys s, r and R in the TUI.
KeyStop ==
  /\ mode = "tui" /\ main = "ready" /\ keys < MaxKeys
  /\ CallStop("stopping")
  /\ keys' = keys + 1
  /\ OnlyLife

KeyResume ==
  /\ mode = "tui" /\ main = "ready" /\ phase = "STOPPED"
  /\ main' = "launch"
  /\ UNCHANGED <<lifeVars, keys>>
  /\ OnlyLife

KeyRestart ==
  /\ mode = "tui" /\ main = "ready" /\ run < MaxRuns /\ keys < MaxKeys
  /\ IF phase = "RUNNING" THEN CallStop("restopping")
                          ELSE main' = "reset" /\ UNCHANGED lifeVars
  /\ keys' = keys + 1
  /\ OnlyLife

\* Restart resets figures and state under r.mu, and starts.
Reset ==
  /\ main = "reset"
  /\ Life!Reset
  /\ failed' = 0
  /\ main' = "launch"
  /\ UNCHANGED <<run, mode, quitting, keys, wireVars, at, mailVars, tickVars, awaited,
                 history>>

\* Key q: whatever runs is stopped; the next tick that sees nothing running
\* asks the program to end.  Keys are still served in between.
KeyQuit ==
  /\ mode = "tui" /\ main = "ready" /\ quitting = "no" /\ keys < MaxKeys
  /\ quitting' = "asked" /\ keys' = keys + 1
  /\ IF phase = "RUNNING" THEN CallStop("stopping") ELSE UNCHANGED <<lifeVars, main>>
  /\ UNCHANGED <<failed, run, mode, wireVars, at, mailVars, tickVars, awaited,
                 history>>

QuitTick ==
  /\ main = "ready" /\ quitting = "asked" /\ phase # "RUNNING"
  /\ quitting' = "due"
  /\ UNCHANGED <<lifeVars, failed, run, mode, main, keys, wireVars, at, mailVars,
                 tickVars, awaited, history>>

QuitDone ==
  /\ main = "ready" /\ quitting = "due"
  /\ main' = "waitall"
  /\ UNCHANGED <<lifeVars, failed, run, mode, quitting, keys, wireVars, at, mailVars,
                 tickVars, awaited, history>>

SeeWhen(done) ==
  /\ mode = "headless" /\ main = "ready"
  /\ done
  /\ main' = "waitall"
  /\ UNCHANGED <<lifeVars, keys>>
  /\ OnlyLife

\* Looks at the state instead of the channel.
SeeDone_ByState == SeeWhen(phase = "DONE")

\* Headless: doneCh is closed, or a signal has come.
SeeDone == SeeWhen(at[<<"end", run>>] = "gone")

Interrupt ==
  /\ mode = "headless" /\ main = "ready"
  /\ abandoned' = TRUE
  /\ IF phase = "RUNNING" THEN CallStop("summing")
                          ELSE UNCHANGED lifeVars /\ main' = "waitall"
  /\ UNCHANGED <<failed, run, mode, quitting, keys, wireVars, at, mailVars, tickVars,
                 awaited, cleartext>>

\* WaitAll copies the list of sends, and waits for those under way.
WaitAll ==
  /\ main = "waitall"
  /\ awaited' = {g \in Goroutines : mails[g] = "pending"}
  /\ main' = "waiting"
  /\ UNCHANGED <<lifeVars, failed, run, mode, quitting, keys, wireVars, at, mailVars,
                 tickVars, history>>

\* The deadline of 60 s may come first.  Then the deferred cleanup runs:
\* stopProgress, and Stop of what is running.
Cleanup ==
  /\ main = "waiting"
  /\ abandoned' = (abandoned \/ awaited # {})
  /\ awaited' = {}
  /\ Register(0)
  /\ IF mode = "tui" /\ phase = "RUNNING" THEN CallStop("exiting")
                                          ELSE UNCHANGED lifeVars /\ main' = "exited"
  /\ UNCHANGED <<failed, run, mode, quitting, keys, wireVars, at, mailVars, cleartext>>

-----------------------------------------------------------------------------

HookStep(r) ==
  \/ OnStart(r) \/ Arm(r) \/ SendProgress(r) \/ TickerEnds(r)
  \/ OnTerminal(r) \/ ChooseTerminalTrigger(r) \/ Announce(r)

User == KeyStop \/ KeyResume \/ KeyRestart \/ KeyQuit \/ Interrupt

Main == Wire \/ Launch \/ StopReturns \/ Reset \/ QuitTick \/ QuitDone \/ SeeDone
        \/ WaitAll \/ Cleanup

Next ==
  \/ User \/ Main \/ Outcome \/ Complete
  \/ \E r \in Runs : HookStep(r) \/ Tick(r)
  \/ \E g \in Goroutines : Deliver(g)

Spec == Init /\ [][Next]_vars

-----------------------------------------------------------------------------
(* Properties. *)

\* The trigger of a goroutine's mail.
TriggerOf(g) ==
  IF g[1] = "end" THEN verdict[g[2]] ELSE IF g[1] = "tick" THEN "progress" ELSE "start"

\* However the layers were merged, --no-mail installs no hook, and a message
\* that is dispatched can be delivered and was asked for: there is a host and
\* a recipient, its trigger is configured, and a progress mail has a cadence.
OnlyWantedMail ==
  /\ main = "wire" /\ "no_mail" \in DOMAIN sources.typed /\ sources.typed["no_mail"] = Yes
       => WiredState(sources, Layers(sources)) # "configured"
  /\ \A g \in Goroutines : mails[g] # "none" =>
       /\ merged["enabled"] = Yes
       /\ merged["smtp_host"] # {} /\ merged["from"] # {} /\ HasRecipient(merged)
       /\ FiresOn(merged, TriggerOf(g))
       /\ g[1] = "tick" => merged["report_interval"] # {}

\* "When the scenario completed with errors that dominate [...] we classify it as
\* ERROR. With on=["done", "error"] exactly one of the two fires, matching the
\* outcome" (email.go:371-375): the callback takes the trigger that described
\* the run when it became DONE, whatever comes between.
VerdictMatchesOutcome ==
  [][\A r \in Runs : verdict[r] # "none" => verdict'[r] = verdict[r]]_vars

\* Of all the tickers that were ever started, only the one the registry knows
\* is not cancelled, however the onStart of several runs and the ends of
\* those runs interleave.
OneLiveTicker ==
  \A r \in Runs : at[<<"tick", r>>] \notin {"off", "gone"} /\ r \notin cancelled
                    => registered = r

\* Several mails share one Status: when none is under way any more, the
\* status is not left at "pending".
StatusSettles ==
  (\A g \in Goroutines : mails[g] # "pending") => status # "pending"

\* The password crosses the network only inside TLS.
PasswordNeedsTLS == ~cleartext

\* The headless command that sees doneCh closed exits with the mail about the
\* run delivered or failed: the callback has registered it before the close.
HeadlessWaitsForMail ==
  main = "exited" /\ mode = "headless" /\ ~abandoned /\ Hooked =>
    /\ at[<<"end", run>>] = "gone"
    /\ FiresOn(merged, verdict[run]) /\ ~RenderFails(merged)
         => mails[<<"end", run>>] = "over"
=============================================================================
