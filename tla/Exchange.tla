------------------------------ MODULE Exchange ------------------------------
(***************************************************************************)
(* From a scenario file to the requests on the wire: the file is loaded    *)
(* and validated, a runner is built from it, and concurrent sessions walk  *)
(* its steps against a mock server (internal/engine/session.go, precalc.go *)
(* and runner.go, internal/template, internal/transport,                   *)
(* internal/mockserver).                                                   *)
(*                                                                         *)
(* The sessions share the context factory and its sequence counters, the   *)
(* pre-rendered bodies and the transport.  They are those the workers of   *)
(* one pool run, each session once.                                        *)
(***************************************************************************)
EXTENDS MockServer

CONSTANTS
  Setups,    \* scenario files with the suite's override and the mock's file
  Sessions   \* bound: the sessions that are started

ASSUME ExchangeAssumption ==
  /\ IsFiniteSet(Sessions)
  /\ \A u \in Setups : IsScenario(u.config) /\ \A f \in DOMAIN u.override : u.override[f] \in Int

VARIABLES
  file,      \* the setup
  runner,    \* "file", "loaded", "rejected", "failed", "script_error", "running"
  cfg,       \* the loaded scenario
  cause,     \* why NewRunner failed
  counters,  \* the counter of each sequence generator
  bodies,    \* preCalc: step -> pre-rendered body
  label,     \* the transport's protocol label
  ctxDone,   \* the sessions' context is cancelled
  session,   \* every session
  request    \* where the request of each session is, and the reply to it

building == <<file, runner, cfg, cause>>
shared == <<counters, bodies, label>>
vars == <<building, shared, ctxDone, session, request, server>>

NoRequest == [at |-> "none", reply |-> Reply(0, FALSE, <<>>)]

\* owed: requests counted as sent whose outcome has not been submitted.
NewSession == [pc |-> "new", step |-> 1, ctx |-> <<>>, vals |-> <<>>, body |-> <<>>,
               owed |-> 0, why |-> "none"]

Init ==
  /\ file \in Setups
  /\ runner = "file" /\ cfg = file.config /\ cause = "none"
  /\ counters = <<>> /\ bodies = <<>> /\ label = "none"
  /\ ctxDone = FALSE
  /\ session = [s \in Sessions |-> NewSession]
  /\ request = [s \in Sessions |-> NoRequest]
  /\ server = "new"

IsNats == cfg.transport.type \in Nats
IsHttp == cfg.transport.type \in Http

-----------------------------------------------------------------------------
(* LoadScenario, or LoadSuite for a scenario with an override. *)

Load ==
  /\ runner = "file"
  /\ LET loaded == LoadSuiteEntry(file.config, file.override)
     IN /\ runner' = IF loaded.problems = {} THEN "loaded" ELSE "rejected"
        /\ cfg' = loaded.config
  /\ UNCHANGED <<file, cause, shared, ctxDone, session, request, server>>

-----------------------------------------------------------------------------
(* NewRunner. *)

\* What the constructor of the transport refuses.
TransportError(t) ==
  IF t.type \in Nats
  THEN IF t.auth.type \notin {"none", "userpass"} THEN "auth" ELSE "none"
  ELSE IF t.tls \in {"no_ca", "bad_ca"} THEN "tls"
  ELSE IF t.scheme \notin {"http", "h2c", "https"} THEN "scheme"
  ELSE IF t.auth.type \notin {"none", "basic", "jwt"} THEN "auth" ELSE "none"

\* What NewContextFactory refuses; the rules let the first two pass.
GeneratorError(g) ==
  CASE g.kind = "odd"                                 -> "decode"
    [] g.kind = "table" /\ g.type = Blank                -> "untyped"
    [] g.kind = "scalar" \/ g.type = "sequence"       -> "none"
    [] g.type = "random_range" /\ g.range > 0         -> "none"
    [] g.type = "random_pick" /\ g.values > 0         -> "none"
    [] OTHER                                          -> "generator"

Defs == cfg.context
IsSequence(k) == Defs[k].kind = "table" /\ Defs[k].type = "sequence"
Sequences == {k \in DOMAIN Defs : IsSequence(k)}
Increment(k) == OrDefault(Defs[k].step, 1)

\* Definitions: what IsStatic may take for a constant.
Scalars == {k \in DOMAIN Defs : Defs[k].kind = "scalar"}

\* The references of a template that are written with dots; the regular
\* expressions see no other, such as {{index .ctx "id"}}.
Dotted(t) == {t.fields[k] : k \in DOMAIN t.fields \ t.hidden}

\* Every .ctx is taken for a constant.
IsStatic_AnyCtx(t) == \A r \in Dotted(t) : r[1] # "session"

IsStatic(t) ==
  \A r \in Dotted(t) : r[1] # "session" /\ (r[1] = "ctx" => r[2] \in Scalars)

\* The value of a generator that is not a sequence.
Drawn(k) == IF Defs[k].kind = "scalar" THEN {k} ELSE {"random"}

StaticSteps == {i \in DOMAIN cfg.steps : IsStatic(cfg.steps[i].template)}

\* The protocol the transport means to speak.
Intent(t) ==
  CASE t.type \in Nats                           -> "NATS"
    [] t.scheme = "http"                         -> "HTTP/1.1 (intent)"
    [] t.scheme = "h2c"                          -> "HTTP/2 (h2c, intent)"
    [] t.scheme = "https" /\ t.http2 # "off"     -> "HTTPS (h2 preferred, negotiating)"
    [] OTHER                                     -> "HTTPS (h1.1 forced)"

HasScriptError ==
  \E i \in DOMAIN cfg.steps : \E j \in DOMAIN cfg.steps[i].predicates :
    LET p == cfg.steps[i].predicates[j] IN IsExpr(p) /\ ~Compile(p)

\* A static template must parse and render before the run.
StaticError(t) == IF ~t.parses THEN "parse" ELSE IF t.fails THEN "render" ELSE "none"

\* The errors in the order in which NewRunner meets them; the environment's
\* part is that a NATS server may not be there.
BuildErrors ==
  LET transport == TransportError(cfg.transport)
      generators == {GeneratorError(Defs[k]) : k \in DOMAIN Defs} \ {"none"}
      static == {StaticError(cfg.steps[i].template) : i \in StaticSteps} \ {"none"}
  IN IF transport # "none" THEN {transport}
     ELSE (IF generators # {} THEN generators ELSE IF static # {} THEN static ELSE {"none"})
          \cup (IF IsNats THEN {"connect"} ELSE {})

\* The counters start one step before the configured start, and the snapshot
\* that PreCalc takes for the static bodies counts.
Construct ==
  /\ counters' = [k \in Sequences |-> Defs[k].start]
  /\ LET snapshot == [k \in DOMAIN Defs |->
                       IF IsSequence(k) THEN ToString(Defs[k].start)
                                        ELSE CHOOSE v \in Drawn(k) : TRUE]
         env == [ctx |-> snapshot, session |-> <<>>]
     IN bodies' = [i \in StaticSteps |-> Render(cfg.steps[i].template, env)]
  /\ label' = Intent(cfg.transport)
  /\ runner' = IF HasScriptError THEN "script_error" ELSE "running"

\* A runner with a script error is never started (see Runner for Restart).
Build ==
  /\ runner = "loaded"
  /\ \E e \in BuildErrors :
       /\ cause' = e
       /\ IF e = "none" THEN Construct ELSE runner' = "failed" /\ UNCHANGED shared
  /\ UNCHANGED <<file, cfg, ctxDone, session, request, server>>

-----------------------------------------------------------------------------
(* A session: newSession, the snapshot of the context, and the step loop. *)

At(s) == cfg.steps[session[s].step]
Env(s) == [ctx |-> session[s].ctx, session |-> session[s].vals]
Timeout(step) == IF step.timeout.set THEN step.timeout.value ELSE cfg.load.timeout

SessionOnly == UNCHANGED <<building, shared, ctxDone, server>>

\* The end of session s; results counts the outcomes it submits with it.
End(s, why, results) ==
  session' = [session EXCEPT ![s].pc = "over", ![s].why = why, ![s].owed = @ - results]

HeaderTemplates(step) == {step.headers[h].template : h \in DOMAIN step.headers}

\* A template of a dynamic body or of a header that does not parse.
Unparsable ==
  \E i \in DOMAIN cfg.steps :
    \/ i \notin DOMAIN bodies /\ ~cfg.steps[i].template.parses
    \/ \E t \in HeaderTemplates(cfg.steps[i]) : ~t.parses

Begin(s) ==
  /\ runner = "running" /\ ~ctxDone
  /\ session[s].pc = "new"
  /\ IF Unparsable THEN End(s, "unsent", 1)
                   ELSE session' = [session EXCEPT
                          ![s].pc = IF DOMAIN Defs = {} THEN "step" ELSE "draw"]
  /\ UNCHANGED request
  /\ SessionOnly

\* Snapshot: one value after the other, in any order, and other sessions in
\* between; a sequence counts by an atomic addition.
Undrawn(s) == DOMAIN Defs \ DOMAIN session[s].ctx

With(ctx, k, v) == [j \in DOMAIN ctx \cup {k} |-> IF j = k THEN v ELSE ctx[j]]

Draw(s, k) ==
  /\ session[s].pc = "draw" /\ k \in Undrawn(s)
  /\ IF IsSequence(k) THEN counters' = [counters EXCEPT ![k] = @ + Increment(k)]
                      ELSE UNCHANGED counters
  /\ \E v \in (IF IsSequence(k) THEN {ToString(counters[k] + Increment(k))} ELSE Drawn(k)) :
       session' = [session EXCEPT ![s].ctx = With(@, k, v),
                                  ![s].pc = IF Undrawn(s) = {k} THEN "step" ELSE "draw"]
  /\ UNCHANGED <<building, bodies, label, ctxDone, request, server>>

\* The head of the loop ends the session ...
LoopEnds(s) ==
  /\ session[s].pc = "step"
  /\ \/ ctxDone /\ End(s, "cancelled", 0)
     \/ ~ctxDone /\ session[s].step > Len(cfg.steps) /\ End(s, "off_the_list", 0)
  /\ UNCHANGED request
  /\ SessionOnly

\* ... or goes on to the step: the body, unless it is pre-rendered, and the
\* headers are rendered, and the request goes out.
DoesNotRender(s) ==
  \/ session[s].step \notin DOMAIN bodies /\ At(s).template.fails
  \/ \E t \in HeaderTemplates(At(s)) : t.fails

Body(s) ==
  IF session[s].step \in DOMAIN bodies THEN bodies[session[s].step]
                                       ELSE Render(At(s).template, Env(s))

Send(s) ==
  /\ session[s].pc = "step"
  /\ ~ctxDone /\ session[s].step <= Len(cfg.steps)
  /\ IF DoesNotRender(s)
     THEN End(s, "unsent", 1) /\ UNCHANGED request
     ELSE /\ session' = [session EXCEPT ![s].pc = IF At(s).faf THEN "publish" ELSE "wait",
                                        ![s].owed = @ + 1, ![s].body = Body(s)]
          /\ request' = IF At(s).faf THEN request
                        ELSE [request EXCEPT ![s].at = "wire"]
  /\ SessionOnly

PublishWith(s, outcomes) ==
  /\ session[s].pc = "publish"
  /\ session' = [session EXCEPT ![s].pc = "step", ![s].step = @ + 1,
                                ![s].owed = @ - outcomes]
  /\ UNCHANGED request
  /\ SessionOnly

\* The outcome is not submitted.
Publish_Uncounted(s) == PublishWith(s, 0)

\* Fire and forget: the result of the publish is counted, and the session
\* goes on with the next step in the list even when it failed.
Publish(s) == PublishWith(s, 1)

-----------------------------------------------------------------------------
(* Send waits for the reply, the timeout of the request or the end of the  *)
(* context, whichever it sees first; the target may have served a request  *)
(* that is counted as an error.                                            *)

Observed(t) ==
  IF t.scheme = "h2c" THEN {"HTTP/2.0"}
  ELSE IF t.scheme = "https" /\ t.http2 # "off" THEN {"HTTP/2.0", "HTTP/1.1"}
  ELSE {"HTTP/1.1"}

\* Every response settles the label anew, from the label before.
SettledLabel(proto, prev) ==
  IF proto = "HTTP/2.0"
  THEN IF prev \in {"HTTP/2 (h2c, intent)", "HTTP/2 (h2c)"} THEN "HTTP/2 (h2c)"
                                                           ELSE "HTTP/2 (h2)"
  ELSE IF prev = "HTTPS (h2 preferred, negotiating)" THEN "HTTP/1.1 (negotiated to h1.1)"
                                                     ELSE "HTTP/1.1"

Settle ==
  IF IsHttp THEN \E proto \in Observed(cfg.transport) : label' = SettledLabel(proto, label)
            ELSE UNCHANGED label

WaitEnds(s) ==
  /\ session[s].pc = "wait"
  /\ request' = [request EXCEPT ![s] = NoRequest]
  /\ UNCHANGED <<building, counters, bodies, ctxDone, server>>

SendFails(s) == WaitEnds(s) /\ End(s, "error", 1)

TimesOut(s) == SendFails(s) /\ Timeout(At(s)) > 0 /\ UNCHANGED label
Aborted(s) == SendFails(s) /\ ctxDone /\ UNCHANGED label

\* No connection, no responder, a connection that breaks.
Unreachable(s) == SendFails(s) /\ UNCHANGED label

\* The response has begun, but its body does not come through.
BodyBreaks(s) == request[s].at = "back" /\ IsHttp /\ SendFails(s) /\ Settle

\* The extracts in their order; the first that fails ends the session.
ExtractsOf(step, reply) == [i \in DOMAIN step.extracts |-> Extract(reply, step.extracts[i].path)]

\* The last extract of a field counts.
Extended(vals, step, found) ==
  LET fields == {step.extracts[i].field : i \in DOMAIN step.extracts}
      last(f) == CHOOSE i \in DOMAIN step.extracts :
                   /\ step.extracts[i].field = f
                   /\ \A j \in DOMAIN step.extracts : step.extracts[j].field = f => j <= i
  IN [f \in fields |-> found[last(f)].value] @@ vals

\* A predicate that holds jumps to the step it names, or ends the session;
\* without one the session goes on with the next step of the list.
Targets(name) == {i \in DOMAIN cfg.steps : cfg.steps[i].name = name}

Proceed(s, result, vals) ==
  IF result.hit /\ result.next = Blank THEN End(s, "told_to_end", 1)
  ELSE IF result.hit /\ Targets(result.next) = {} THEN End(s, "unknown_step", 1)
  ELSE session' = [session EXCEPT
         ![s].pc = "step", ![s].owed = @ - 1, ![s].vals = vals,
         ![s].step = IF result.hit THEN CHOOSE i \in Targets(result.next) : TRUE ELSE @ + 1]

Receive(s) ==
  /\ request[s].at = "back"
  /\ WaitEnds(s)
  /\ Settle
  /\ LET reply == request[s].reply
         found == ExtractsOf(At(s), reply)
         vals == Extended(session[s].vals, At(s), found)
     IN IF \E i \in DOMAIN found : ~found[i].ok THEN End(s, "error", 1)
        ELSE Proceed(s, Evaluate(At(s).predicates, reply, vals), vals)

-----------------------------------------------------------------------------
(* The mock server. *)

\* The handler registered for a step's request, if there is one.
EndpointFor(step) ==
  LET endpoints == {file.mock.endpoints[i] : i \in DOMAIN file.mock.endpoints}
  IN {e \in endpoints :
       IF IsNats THEN e.subject = step.subject ELSE e.path = step.path}

NotFound == [kind |-> "answer", reply |-> Reply(404, FALSE, <<>>)]

Answers(step, body) ==
  IF EndpointFor(step) = {} THEN IF IsHttp THEN {NotFound} ELSE {}
  ELSE UNION {IF IsNats THEN NatsReplies(e, body) ELSE HttpReplies(step.method, e, body) :
              e \in EndpointFor(step)}

\* A request that is not answered is held until the client gives up.
Serve(s) ==
  /\ server = "up" /\ request[s].at = "wire"
  /\ \E a \in Answers(At(s), session[s].body) :
       request' = [request EXCEPT ![s] =
         IF a.kind = "none" THEN [@ EXCEPT !.at = "held"]
                            ELSE [at |-> "back", reply |-> a.reply]]
  /\ UNCHANGED <<building, shared, ctxDone, session, server>>

Held == {s \in Sessions : request[s].at = "held" /\ IsHttp}

Server ==
  /\ ServerStart(file.mock) \/ ServerStop(IsNats) \/ ShutdownEnds(Held)
  /\ UNCHANGED <<building, shared, ctxDone, session, request>>

Cancel ==
  /\ runner = "running" /\ ~ctxDone
  /\ ctxDone' = TRUE
  /\ UNCHANGED <<building, shared, session, request, server>>

-----------------------------------------------------------------------------

Returns(s) == TimesOut(s) \/ Aborted(s) \/ Receive(s)

Walk(s) ==
  \/ \E k \in DOMAIN Defs : Draw(s, k)
  \/ LoopEnds(s) \/ Send(s) \/ Publish(s) \/ Returns(s)

Next ==
  \/ Load \/ Build \/ Server \/ Cancel
  \/ \E s \in Sessions : Begin(s) \/ Walk(s) \/ Unreachable(s) \/ BodyBreaks(s) \/ Serve(s)

\* A session is a goroutine that runs; nobody need serve it.
Fairness == \A s \in Sessions : WF_vars(Walk(s))

Spec == Init /\ [][Next]_vars /\ Fairness

-----------------------------------------------------------------------------
(* Properties. *)

Raises(override) == \A f \in DOMAIN override : override[f] >= 0

\* What the rules of the scenario file accept can be run: the transport and
\* the generators are not refused for a reason the rules know, no session is
\* sent to a step that does not exist, every request has an address, and only
\* NATS publishes without a reply.  The pool has workers and the chart has bars;
\* only the override of a suite, which no rule looks at, may take the workers
\* away.
AcceptedScenarioRuns ==
  /\ cause \notin {"auth", "generator"}
  /\ runner = "running" => cfg.metrics.count # 1 /\ (Raises(file.override) => cfg.load.concurrency > 0)
  /\ \A s \in Sessions :
       /\ session[s].why # "unknown_step"
       /\ session[s].pc = "wait" =>
            IF IsNats THEN At(s).subject # Blank ELSE At(s).path # Blank /\ At(s).method # Blank
       /\ session[s].pc = "publish" => IsNats

\* "Sequence IDs must be unique": two sessions never get the same value of a
\* sequence, and the body a session sends is the one its own context and
\* extracts render to, pre-rendered or not.
OwnIds ==
  /\ \A k \in DOMAIN counters : \A s, t \in Sessions :
       s # t /\ k \in DOMAIN session[s].ctx \cap DOMAIN session[t].ctx
         => session[s].ctx[k] # session[t].ctx[k]
  /\ \A s \in Sessions :
       session[s].pc \in {"publish", "wait"} /\ At(s).template.hidden = {}
         => session[s].body = Render(At(s).template, Env(s))

\* Every request has exactly one outcome: reply, error or published; besides
\* them only a message that could not be rendered is counted, and only once.
OneOutcomeEach ==
  \A s \in Sessions :
    session[s].owed = (IF session[s].pc \in {"publish", "wait"} THEN 1 ELSE 0)
                      - (IF session[s].why = "unsent" THEN 1 ELSE 0)

\* The jumps lead forward only.
ForwardOnly ==
  \A i \in DOMAIN cfg.steps : \A j \in DOMAIN cfg.steps[i].predicates :
    \A t \in Targets(cfg.steps[i].predicates[j].next) : t > i

\* A session ends, whether or not the target answers, if the steps have no
\* loop, or else once its context is cancelled: a time limit and a cap alone
\* do not end it.
SessionsEnd ==
  \A s \in Sessions :
    session[s].pc # "new" /\ (ForwardOnly \/ ctxDone) ~> session[s].pc = "over"
=============================================================================
