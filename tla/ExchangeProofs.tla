---------------------------- MODULE ExchangeProofs ----------------------------
(***************************************************************************)
(* Proofs about the way from a scenario file to the requests on the wire,  *)
(* for every set of scenario files, overrides and mock files, any number   *)
(* of sessions, and every interleaving of them with the mock server.       *)
(***************************************************************************)
EXTENDS Exchange, WellFoundedInduction, TLAPS

-----------------------------------------------------------------------------
(***************************************************************************)
(* What the rules leave of a file.                                         *)
(***************************************************************************)
LEMMA NoProblem ==
  ASSUME NEW broken \in BOOLEAN, NEW field, Problem(broken, field) = {}
  PROVE  ~ broken
BY DEF Problem

LEMMA Defaults ==
  ASSUME NEW c, IsScenario(c)
  PROVE  /\ ApplyDefaults(c).steps = c.steps
         /\ ApplyDefaults(c).context = c.context
         /\ ApplyDefaults(c).transport = c.transport
         /\ {"load", "metrics"} \subseteq DOMAIN ApplyDefaults(c)
         /\ {"steps", "context", "transport"} \subseteq DOMAIN ApplyDefaults(c)
         /\ ApplyDefaults(c).load \in
              [concurrency : Int, rate : Int, total : Int, duration : Int, timeout : Int]
         /\ ApplyDefaults(c).metrics.count \in Int
<1>. DEFINE d == ApplyDefaults(c)
<1>1. d.steps = c.steps /\ d.context = c.context /\ d.transport = c.transport /\ DOMAIN d = DOMAIN c
  BY DEF IsScenario, ApplyDefaults
<1>2. d.load = [c.load EXCEPT !.timeout = OrDefault(@, 2), !.concurrency = OrDefault(@, 1)]
  BY DEF IsScenario, ApplyDefaults
<1>3. d.load \in [concurrency : Int, rate : Int, total : Int, duration : Int, timeout : Int]
  <2>1. c.load \in [concurrency : Int, rate : Int, total : Int, duration : Int, timeout : Int]
    BY DEF IsScenario
  <2>2. OrDefault(c.load.timeout, 2) \in Int /\ OrDefault(c.load.concurrency, 1) \in Int
    BY <2>1 DEF OrDefault
  <2>3. d.load = [c.load EXCEPT !.timeout = OrDefault(c.load.timeout, 2),
                               !.concurrency = OrDefault(c.load.concurrency, 1)]
    BY <1>2, <2>1
  <2>. HIDE DEF d
  <2>. QED
    BY <2>1, <2>2, <2>3
<1>4. d.metrics.count = IF c.metrics.count = 0 /\ c.metrics.edges = <<>> THEN 20 ELSE c.metrics.count
  BY DEF IsScenario, ApplyDefaults
<1>. QED
  BY <1>1, <1>3, <1>4 DEF IsScenario

LEMMA Loading ==
  ASSUME NEW c, IsScenario(c), NEW override
  PROVE  LET loaded == LoadSuiteEntry(c, override)
         IN /\ loaded.problems = ValidateScenario(ApplyDefaults(c))
            /\ loaded.config.steps = c.steps
            /\ loaded.config.context = c.context
            /\ loaded.config.transport = c.transport
            /\ loaded.config.metrics = ApplyDefaults(c).metrics
            /\ loaded.config.load = MergeLoadOverride(ApplyDefaults(c).load, override)
BY Defaults DEF LoadSuiteEntry, LoadScenario

LEMMA Rules ==
  ASSUME NEW c, ValidateScenario(c) = {}
  PROVE  /\ TransportProblems(c.transport) = {}
         /\ AuthProblems(c.transport.type, c.transport.auth) = {}
         /\ LoadProblems(c.load) = {}
         /\ \A k \in DOMAIN c.context : GeneratorProblems(c.context[k]) = {}
         /\ StepsProblems(c.transport.type, c.steps) = {}
         /\ MetricsProblems(c.metrics) = {}
<1>. DEFINE named == Problem(~c.named, "scenario.name")
            transport == TransportProblems(c.transport)
            auth == AuthProblems(c.transport.type, c.transport.auth)
            load == LoadProblems(c.load)
            context == UNION {GeneratorProblems(c.context[k]) : k \in DOMAIN c.context}
            steps == StepsProblems(c.transport.type, c.steps)
            metrics == MetricsProblems(c.metrics)
            report == ReportProblems(c.report)
<1>1. ValidateScenario(c) =
        named \cup transport \cup auth \cup load \cup context \cup steps \cup metrics \cup report
  BY Zenon DEF ValidateScenario
<1>2. context = {} => \A k \in DOMAIN c.context : GeneratorProblems(c.context[k]) = {}
  BY Zenon
<1>. HIDE DEF named, transport, auth, load, context, steps, metrics, report
<1>3. /\ transport = {} /\ auth = {} /\ load = {} /\ context = {} /\ steps = {} /\ metrics = {}
  BY <1>1
<1>. QED
  BY <1>2, <1>3, Zenon DEF transport, auth, load, steps, metrics

\* An accepted transport is refused for no reason the rules know.
LEMMA TransportAccepted ==
  ASSUME NEW t, TransportProblems(t) = {}, AuthProblems(t.type, t.auth) = {}
  PROVE  t.type \in Transports /\ TransportError(t) # "auth"
<1>1. t.type \in Transports
  <2>1. Problem(t.type \notin Transports, "transport.type") = {}
    BY Zenon DEF TransportProblems
  <2>. QED
    BY <2>1, NoProblem
<1>2. \/ t.auth.type = "none"
      \/ t.auth.type = "userpass" /\ t.type \in Nats
      \/ t.auth.type \in {"basic", "jwt"} /\ t.type \in Http
  <2>1. CASE t.auth.type = "none"
    BY <2>1
  <2>2. CASE t.auth.type # "none"
    <3>1. t.auth.type \in DOMAIN AuthServes
      BY <2>2, Zenon DEF AuthProblems
    <3>2. Problem(t.type \notin AuthServes[t.auth.type], "transport.auth.type") = {}
      BY <2>2, <3>1, Zenon DEF AuthProblems
    <3>3. t.type \in AuthServes[t.auth.type]
      BY <3>2, NoProblem
    <3>. QED
      BY <2>2, <3>1, <3>3 DEF AuthServes
  <2>. QED
    BY <2>1, <2>2
<1>. QED
  BY <1>1, <1>2 DEF TransportError, Transports, Nats, Http

\* An accepted generator is not refused for its parameters.
LEMMA GeneratorAccepted ==
  ASSUME NEW g, GeneratorProblems(g) = {}, g.kind \in {"scalar", "table", "odd"},
         g.step \in Int, g.range \in Int, g.values \in Nat
  PROVE  /\ GeneratorError(g) # "generator"
         /\ g.kind = "table" /\ g.type = "sequence" => g.step >= 0
<1>0. "sequence" # Blank
  BY Zenon DEF Blank
<1>1. CASE g.kind # "table" \/ g.type = Blank
  BY <1>0, <1>1 DEF GeneratorError
<1>2. CASE g.kind = "table" /\ g.type # Blank
  <2>1. CASE g.type = "sequence"
    <3>1. Problem(g.step < 0, "context.step") = {}
      BY <1>2, <2>1 DEF GeneratorProblems
    <3>2. ~ (g.step < 0)
      BY <3>1, NoProblem
    <3>. QED
      BY <1>2, <2>1, <3>2 DEF GeneratorError
  <2>2. CASE g.type = "random_range"
    <3>1. Problem(g.range < 1, "context") = {}
      BY <1>2, <2>2 DEF GeneratorProblems
    <3>2. ~ (g.range < 1)
      BY <3>1, NoProblem
    <3>. QED
      BY <1>2, <2>2, <3>2 DEF GeneratorError
  <2>3. CASE g.type = "random_pick"
    <3>1. Problem(g.values = 0, "context.values") = {}
      BY <1>2, <2>3 DEF GeneratorProblems
    <3>2. ~ (g.values = 0)
      BY <3>1, NoProblem
    <3>. QED
      BY <1>2, <2>3, <3>2 DEF GeneratorError
  <2>4. CASE g.type \notin {"sequence", "random_range", "random_pick"}
    BY <1>2, <2>4 DEF GeneratorProblems
  <2>. QED
    BY <2>1, <2>2, <2>3, <2>4
<1>. QED
  BY <1>1, <1>2

\* An accepted step has an address, publishes over NATS only, and jumps to a
\* step or ends the session.
LEMMA StepsAccepted ==
  ASSUME NEW type, NEW steps, StepsProblems(type, steps) = {}
  PROVE  \A i \in DOMAIN steps :
           /\ type \in Nats => steps[i].subject # Blank
           /\ type \in Http => steps[i].path # Blank /\ steps[i].method # Blank
           /\ steps[i].faf => type \in Nats
           /\ \A j \in DOMAIN steps[i].predicates :
                steps[i].predicates[j].next \in StepNames(steps) \cup {Blank}
<1>1. steps # <<>>
  BY DEF StepsProblems
<1>2. /\ UNION {StepProblems(type, steps[i]) : i \in DOMAIN steps} = {}
      /\ Problem(UnknownTargets(steps) # {}, "next_step") = {}
  BY <1>1, Zenon DEF StepsProblems
<1>3. UnknownTargets(steps) = {}
  BY <1>2, NoProblem
<1>4. ASSUME NEW i \in DOMAIN steps, NEW j \in DOMAIN steps[i].predicates
      PROVE  steps[i].predicates[j].next \in StepNames(steps) \cup {Blank}
  <2>. DEFINE named == {steps[i].predicates[k].next : k \in DOMAIN steps[i].predicates}
              all == UNION {{steps[h].predicates[k].next : k \in DOMAIN steps[h].predicates} :
                              h \in DOMAIN steps}
  <2>1. steps[i].predicates[j].next \in named /\ named \subseteq all
    BY Zenon
  <2>2. all \ (StepNames(steps) \cup {Blank}) = {}
    BY <1>3, Zenon DEF UnknownTargets
  <2>. HIDE DEF named, all
  <2>. QED
    BY <2>1, <2>2
<1>5. ASSUME NEW i \in DOMAIN steps
      PROVE  /\ Problem(type \in Nats /\ steps[i].subject = Blank, "subject") = {}
             /\ Problem(type \in Http /\ steps[i].path = Blank, "path") = {}
             /\ Problem(type \in Http /\ steps[i].method = Blank, "method") = {}
             /\ Problem(steps[i].faf /\ type \notin Nats, "fire_and_forget") = {}
  <2>1. StepProblems(type, steps[i]) = {}
    BY <1>2, Zenon
  <2>. QED
    BY <2>1, ZenonT(40) DEF StepProblems
<1>. QED
  BY <1>4, <1>5, NoProblem, Zenon

-----------------------------------------------------------------------------
(***************************************************************************)
(* The inductive invariant.                                                *)
(***************************************************************************)
\* What a loaded file has, if it is not rejected.
Sound(c) ==
  /\ c.transport.type \in Transports /\ TransportError(c.transport) # "auth"
  /\ \A k \in DOMAIN c.context :
       LET g == c.context[k]
       IN /\ GeneratorError(g) # "generator"
          /\ g.start \in Int /\ g.step \in Int
          /\ g.kind = "table" /\ g.type = "sequence" => g.step >= 0
  /\ IsList(c.steps)
  /\ \A i \in DOMAIN c.steps :
       LET step == c.steps[i]
       IN /\ c.transport.type \in Nats => step.subject # Blank
          /\ c.transport.type \in Http => step.path # Blank /\ step.method # Blank
          /\ step.faf => c.transport.type \in Nats
          /\ IsList(step.predicates)
          /\ \A j \in DOMAIN step.predicates :
               step.predicates[j].next \in StepNames(c.steps) \cup {Blank}
          /\ \A k \in DOMAIN step.template.fields :
               step.template.fields[k][1] \in {"const", "ctx", "session"}
  /\ c.metrics.count # 1

\* Where the file is on its way to a runner.
Accepted ==
  /\ file \in Setups
  /\ runner \in {"file", "loaded", "rejected", "failed", "script_error", "running"}
  /\ runner = "file" => cfg = file.config
  /\ runner \notin {"file", "rejected"} =>
       Sound(cfg) /\ (Raises(file.override) => cfg.load.concurrency > 0)
  /\ cause \notin {"auth", "generator"}

SessionFields == {"pc", "step", "ctx", "vals", "body", "owed", "why"}

\* The sessions of a runner that runs, and the step each is at.
Walking ==
  /\ DOMAIN session = Sessions
  /\ \A s \in Sessions :
       /\ DOMAIN session[s] = SessionFields
       /\ session[s].pc \in {"new", "draw", "step", "publish", "wait", "over"}
       /\ session[s].step \in Nat \ {0}
       /\ session[s].owed \in Int
       /\ session[s].pc # "new" => runner = "running"
       /\ session[s].pc \in {"publish", "wait"} =>
            session[s].step <= Len(cfg.steps) /\ (session[s].pc = "publish" <=> At(s).faf)
       /\ session[s].why # "unknown_step"
       /\ session[s].why = "unsent" => session[s].pc = "over"

\* The counters, and the bodies that were rendered before any session.
Prepared ==
  runner = "running" =>
    /\ DOMAIN counters = Sequences
    /\ DOMAIN bodies = StaticSteps
    /\ \A k \in Sequences : counters[k] \in Int
    /\ \A i \in StaticSteps : \E snapshot :
         /\ \A k \in Scalars : k \in DOMAIN snapshot /\ snapshot[k] = k
         /\ bodies[i] = Render(cfg.steps[i].template, [ctx |-> snapshot, session |-> <<>>])

\* What a session has drawn, and the body it sends.
HasDrawn(s) ==
  /\ session[s].pc = "new" => DOMAIN session[s].ctx = {}
  /\ DOMAIN session[s].ctx \subseteq DOMAIN Defs
  /\ session[s].pc \in {"step", "publish", "wait"} => DOMAIN session[s].ctx = DOMAIN Defs
  /\ \A k \in DOMAIN session[s].ctx :
       /\ k \in Scalars => session[s].ctx[k] = k
       /\ IsSequence(k) =>
            \E n \in Int : n <= counters[k] /\ session[s].ctx[k] = ToString(n)
  /\ session[s].pc \in {"publish", "wait"} => session[s].body = Body(s)

Drawing == Prepared /\ \A s \in Sessions : HasDrawn(s)

ExchangeInv == Accepted /\ Walking /\ OneOutcomeEach /\ Drawing

-----------------------------------------------------------------------------
(***************************************************************************)
(* Operators of the session.                                               *)
(***************************************************************************)
LEMMA ListDomain ==
  ASSUME NEW x, IsList(x)
  PROVE  Len(x) \in Nat /\ DOMAIN x = 1 .. Len(x)
BY DEF IsList

\* The least of some natural numbers.
LEMMA LeastExists ==
  ASSUME NEW S \in SUBSET Nat, S # {}
  PROVE  \E m \in S : \A n \in S : m <= n
<1>1. PICK m \in S : \A n \in S : <<n, m>> \notin OpToRel(<, Nat)
  BY WFMin, NatLessThanWellFounded
<1>2. \A n \in S : ~(n < m)
  BY <1>1 DEF OpToRel
<1>. QED
  BY <1>2

\* The verdict on a reply is that of one of the predicates of the step.
LEMMA EvaluateNames ==
  ASSUME NEW predicates, IsList(predicates), NEW reply, NEW vals,
         Evaluate(predicates, reply, vals).hit
  PROVE  \E j \in DOMAIN predicates :
           Evaluate(predicates, reply, vals).next = predicates[j].next
<1>. DEFINE hits == {i \in DOMAIN predicates : Matches(predicates[i], reply, vals)}
            first == CHOOSE i \in hits : \A j \in hits : i <= j
<1>1. hits # {}
  BY DEF Evaluate
<1>2. hits \in SUBSET Nat
  BY ListDomain
<1>3. first \in hits
  <2>. HIDE DEF hits
  <2>. QED
    BY <1>1, <1>2, LeastExists
<1>4. Evaluate(predicates, reply, vals)
        = [hit |-> TRUE, name |-> predicates[first].name, next |-> predicates[first].next]
  BY <1>1, Zenon DEF Evaluate
<1>5. first \in DOMAIN predicates
  BY <1>3
<1>. HIDE DEF first
<1>. QED
  BY <1>4, <1>5

\* What was accepted is still so when the override of the suite is merged.
LEMMA LoadedIsSound ==
  ASSUME NEW c, IsScenario(c), NEW override, \A f \in DOMAIN override : override[f] \in Int,
         LoadSuiteEntry(c, override).problems = {}
  PROVE  LET d == LoadSuiteEntry(c, override).config
         IN Sound(d) /\ (Raises(override) => d.load.concurrency > 0)
<1>. DEFINE filled == ApplyDefaults(c)
            d == LoadSuiteEntry(c, override).config
<1>1. /\ ValidateScenario(filled) = {}
      /\ d.steps = c.steps /\ d.context = c.context /\ d.transport = c.transport
      /\ d.metrics = filled.metrics /\ d.load = MergeLoadOverride(filled.load, override)
  BY Loading
<1>2. /\ filled.steps = c.steps /\ filled.context = c.context /\ filled.transport = c.transport
      /\ filled.load \in [concurrency : Int, rate : Int, total : Int, duration : Int, timeout : Int]
      /\ filled.metrics.count \in Int
  BY Defaults
<1>. HIDE DEF filled, d
<1>3. /\ TransportProblems(d.transport) = {} /\ AuthProblems(d.transport.type, d.transport.auth) = {}
      /\ LoadProblems(filled.load) = {}
      /\ \A k \in DOMAIN d.context : GeneratorProblems(d.context[k]) = {}
      /\ StepsProblems(d.transport.type, d.steps) = {}
      /\ MetricsProblems(filled.metrics) = {}
  BY <1>1, <1>2, Rules
<1>4. d.transport.type \in Transports /\ TransportError(d.transport) # "auth"
  BY <1>3, TransportAccepted
<1>5. ASSUME NEW k \in DOMAIN d.context
      PROVE  LET g == d.context[k]
             IN /\ GeneratorError(g) # "generator"
                /\ g.start \in Int /\ g.step \in Int
                /\ g.kind = "table" /\ g.type = "sequence" => g.step >= 0
  <2>. DEFINE g == d.context[k]
  <2>1. /\ g.kind \in {"scalar", "table", "odd"}
        /\ g.start \in Int /\ g.step \in Int /\ g.range \in Int /\ g.values \in Nat
    BY <1>1 DEF IsScenario
  <2>2. GeneratorProblems(g) = {}
    BY <1>3
  <2>. HIDE DEF g
  <2>3. /\ GeneratorError(g) # "generator"
        /\ g.kind = "table" /\ g.type = "sequence" => g.step >= 0
    BY <2>1, <2>2, GeneratorAccepted
  <2>. QED
    BY <2>1, <2>3 DEF g
<1>6. /\ IsList(d.steps)
      /\ \A i \in DOMAIN d.steps :
           /\ IsList(d.steps[i].predicates)
           /\ \A k \in DOMAIN d.steps[i].template.fields :
                d.steps[i].template.fields[k][1] \in {"const", "ctx", "session"}
  BY <1>1, Zenon DEF IsScenario
<1>7. \A i \in DOMAIN d.steps :
        /\ d.transport.type \in Nats => d.steps[i].subject # Blank
        /\ d.transport.type \in Http => d.steps[i].path # Blank /\ d.steps[i].method # Blank
        /\ d.steps[i].faf => d.transport.type \in Nats
        /\ \A j \in DOMAIN d.steps[i].predicates :
             d.steps[i].predicates[j].next \in StepNames(d.steps) \cup {Blank}
  BY <1>3, StepsAccepted
<1>8. d.metrics.count # 1
  <2>. DEFINE m == filled.metrics
  <2>1. m.count \in Int /\ d.metrics = m /\ MetricsProblems(m) = {}
    BY <1>1, <1>2, <1>3
  <2>. HIDE DEF m
  <2>2. BucketProblems(m.count, m.edges) = {}
    BY <2>1 DEF MetricsProblems
  <2>3. Problem(m.count # 0 /\ m.count < 2, "metrics.bucket_count") = {}
    BY <2>2, Zenon DEF BucketProblems
  <2>4. ~ (m.count # 0 /\ m.count < 2)
    BY <2>3, NoProblem
  <2>. QED
    BY <2>1, <2>4
<1>9. Raises(override) => d.load.concurrency > 0
  <2>. DEFINE l == filled.load
  <2>1. /\ l \in [concurrency : Int, rate : Int, total : Int, duration : Int, timeout : Int]
        /\ d.load = MergeLoadOverride(l, override) /\ LoadProblems(l) = {}
    BY <1>1, <1>2, <1>3
  <2>. HIDE DEF l
  <2>2. Problem(l.concurrency < 1, "load.concurrency") = {}
    BY <2>1, Zenon DEF LoadProblems
  <2>3. ~ (l.concurrency < 1)
    BY <2>2, NoProblem
  <2>4. d.load.concurrency =
          IF "concurrency" \in DOMAIN override
          THEN OrDefault(override["concurrency"], l.concurrency) ELSE l.concurrency
    BY <2>1 DEF MergeLoadOverride
  <2>. QED
    BY <2>1, <2>3, <2>4 DEF OrDefault, Raises
<1>. QED
  BY <1>4, <1>5, <1>6, <1>7, <1>8, <1>9 DEF Sound, d

-----------------------------------------------------------------------------
(***************************************************************************)
(* What a session does in a step.                                          *)
(***************************************************************************)
SessionStep(s) == Begin(s) \/ Walk(s) \/ Unreachable(s) \/ BodyBreaks(s)

\* Session s takes these values, and no other session moves.
Becomes(s, pc, step, ctx, vals, body, owed, why) ==
  /\ DOMAIN session' = Sessions
  /\ \A t \in Sessions : t # s => session'[t] = session[t]
  /\ DOMAIN session'[s] = SessionFields
  /\ session'[s].pc = pc /\ session'[s].step = step /\ session'[s].ctx = ctx
  /\ session'[s].vals = vals /\ session'[s].body = body
  /\ session'[s].owed = owed /\ session'[s].why = why

\* The session ends, with an outcome for what it owes, and one more for a
\* message that could not be rendered.
Outstanding(s) == IF session[s].pc \in {"publish", "wait"} THEN 1 ELSE 0

Ends(s) ==
  /\ session[s].pc # "over"
  /\ \E why : \E n \in Int :
       /\ why # "unknown_step"
       /\ n = Outstanding(s) + (IF why = "unsent" THEN 1 ELSE 0)
       /\ LET x == session[s]
          IN Becomes(s, "over", x.step, x.ctx, x.vals, x.body, x.owed - n, why)
  /\ UNCHANGED counters

Enters(s) ==
  /\ session[s].pc = "new"
  /\ LET x == session[s]
     IN \E pc \in {"step", "draw"} :
          /\ pc = "step" => DOMAIN Defs = {}
          /\ Becomes(s, pc, x.step, x.ctx, x.vals, x.body, x.owed, x.why)
  /\ UNCHANGED counters

Sends(s) ==
  /\ session[s].pc = "step" /\ session[s].step <= Len(cfg.steps)
  /\ LET x == session[s]
     IN \E pc \in {"publish", "wait"} :
          /\ pc = "publish" <=> At(s).faf
          /\ Becomes(s, pc, x.step, x.ctx, x.vals, Body(s), x.owed + 1, x.why)
  /\ UNCHANGED counters

GoesOn(s) ==
  /\ session[s].pc \in {"publish", "wait"}
  /\ LET x == session[s]
     IN \E next \in Nat \ {0} : \E vals :
          Becomes(s, "step", next, x.ctx, vals, x.body, x.owed - 1, x.why)
  /\ UNCHANGED counters

Draws(s, k) ==
  /\ session[s].pc = "draw" /\ k \in DOMAIN Defs /\ k \notin DOMAIN session[s].ctx
  /\ LET x == session[s]
     IN \E pc \in {"step", "draw"} : \E v :
          /\ pc = "step" => DOMAIN Defs \subseteq DOMAIN x.ctx \cup {k}
          /\ IF IsSequence(k)
             THEN /\ v = ToString(counters[k] + Increment(k))
                  /\ counters' = [counters EXCEPT ![k] = @ + Increment(k)]
             ELSE v \in Drawn(k) /\ UNCHANGED counters
          /\ Becomes(s, pc, x.step, With(x.ctx, k, v), x.vals, x.body, x.owed, x.why)

LEMMA EndMoves ==
  ASSUME Walking, NEW s \in Sessions, NEW why, NEW n \in Int, End(s, why, n)
  PROVE  LET x == session[s]
         IN Becomes(s, "over", x.step, x.ctx, x.vals, x.body, x.owed - n, why)
BY DEF Walking, End, Becomes, SessionFields

LEMMA EndsWith ==
  ASSUME Walking, NEW s \in Sessions, NEW why, why # "unknown_step", NEW n \in Int, End(s, why, n),
         n = Outstanding(s) + (IF why = "unsent" THEN 1 ELSE 0),
         session[s].pc # "over", UNCHANGED counters
  PROVE  Ends(s)
<1>1. LET x == session[s]
      IN Becomes(s, "over", x.step, x.ctx, x.vals, x.body, x.owed - n, why)
  BY EndMoves
<1>2. \E y : \E m \in Int :
        /\ y # "unknown_step"
        /\ m = Outstanding(s) + (IF y = "unsent" THEN 1 ELSE 0)
        /\ LET x == session[s]
           IN Becomes(s, "over", x.step, x.ctx, x.vals, x.body, x.owed - m, y)
  <2>. WITNESS why
  <2>. WITNESS n \in Int
  <2>. QED
    BY <1>1
<1>. QED
  BY <1>2 DEF Ends

LEMMA FailureMoves ==
  ASSUME Walking, NEW s \in Sessions, SendFails(s)
  PROVE  Ends(s)
<1>1. session[s].pc = "wait" /\ End(s, "error", 1) /\ UNCHANGED counters
  BY DEF SendFails, WaitEnds
<1>2. 1 = Outstanding(s) + (IF "error" = "unsent" THEN 1 ELSE 0) /\ session[s].pc # "over"
  BY <1>1 DEF Outstanding
<1>3. "error" # "unknown_step" /\ 1 \in Int
  OBVIOUS
<1>. QED
  BY <1>1, <1>2, <1>3, EndsWith, Zenon

LEMMA BeginMoves ==
  ASSUME Walking, NEW s \in Sessions, Begin(s)
  PROVE  Ends(s) \/ Enters(s)
<1>1. session[s].pc = "new" /\ UNCHANGED counters
  BY DEF Begin, SessionOnly, shared
<1>2. CASE Unparsable
  <2>1. End(s, "unsent", 1)
    BY <1>2 DEF Begin
  <2>2. 1 = Outstanding(s) + (IF "unsent" = "unsent" THEN 1 ELSE 0) /\ session[s].pc # "over"
    BY <1>1 DEF Outstanding
  <2>3. "unsent" # "unknown_step" /\ 1 \in Int
    OBVIOUS
  <2>. QED
    BY <1>1, <2>1, <2>2, <2>3, EndsWith, Zenon
<1>3. CASE ~ Unparsable
  <2>1. PICK pc \in {"step", "draw"} :
          (pc = "step" => DOMAIN Defs = {}) /\ session' = [session EXCEPT ![s].pc = pc]
    BY <1>3 DEF Begin
  <2>2. LET x == session[s] IN Becomes(s, pc, x.step, x.ctx, x.vals, x.body, x.owed, x.why)
    BY <2>1 DEF Walking, Becomes, SessionFields
  <2>. QED
    BY <1>1, <2>1, <2>2 DEF Enters
<1>. QED
  BY <1>2, <1>3

LEMMA DrawMoves ==
  ASSUME Walking, NEW s \in Sessions, NEW k \in DOMAIN Defs, Draw(s, k)
  PROVE  Draws(s, k)
<1>1. session[s].pc = "draw" /\ k \notin DOMAIN session[s].ctx
  BY DEF Draw, Undrawn
<1>2. PICK v : /\ v \in (IF IsSequence(k) THEN {ToString(counters[k] + Increment(k))} ELSE Drawn(k))
               /\ session' = [session EXCEPT ![s].ctx = With(@, k, v),
                                ![s].pc = IF Undrawn(s) = {k} THEN "step" ELSE "draw"]
  BY DEF Draw
<1>3. PICK pc \in {"step", "draw"} :
        (pc = "step" => Undrawn(s) = {k}) /\ pc = IF Undrawn(s) = {k} THEN "step" ELSE "draw"
  OBVIOUS
<1>4. LET x == session[s]
      IN Becomes(s, pc, x.step, With(x.ctx, k, v), x.vals, x.body, x.owed, x.why)
  BY <1>2, <1>3 DEF Walking, Becomes, SessionFields
<1>5. pc = "step" => DOMAIN Defs \subseteq DOMAIN session[s].ctx \cup {k}
  BY <1>3 DEF Undrawn
<1>6. IF IsSequence(k)
      THEN /\ v = ToString(counters[k] + Increment(k))
           /\ counters' = [counters EXCEPT ![k] = @ + Increment(k)]
      ELSE v \in Drawn(k) /\ UNCHANGED counters
  BY <1>2 DEF Draw
<1>. QED
  BY <1>1, <1>4, <1>5, <1>6 DEF Draws

LEMMA LoopMoves ==
  ASSUME Walking, NEW s \in Sessions, LoopEnds(s)
  PROVE  Ends(s)
<1>1. session[s].pc = "step" /\ UNCHANGED counters /\ \E why \in {"cancelled", "off_the_list"} : End(s, why, 0)
  BY DEF LoopEnds, SessionOnly, shared
<1>2. PICK why \in {"cancelled", "off_the_list"} : End(s, why, 0)
  BY <1>1
<1>3. why # "unsent" /\ why # "unknown_step"
  BY <1>2, Zenon
<1>4. 0 = Outstanding(s) + (IF why = "unsent" THEN 1 ELSE 0) /\ session[s].pc # "over" /\ 0 \in Int
  BY <1>1, <1>3 DEF Outstanding
<1>. QED
  BY <1>1, <1>2, <1>3, <1>4, EndsWith, Zenon

LEMMA SendMoves ==
  ASSUME Walking, NEW s \in Sessions, Send(s)
  PROVE  Ends(s) \/ Sends(s)
<1>1. session[s].pc = "step" /\ session[s].step <= Len(cfg.steps) /\ UNCHANGED counters
  BY DEF Send, SessionOnly, shared
<1>2. CASE DoesNotRender(s)
  <2>1. End(s, "unsent", 1)
    BY <1>2 DEF Send
  <2>2. 1 = Outstanding(s) + (IF "unsent" = "unsent" THEN 1 ELSE 0) /\ session[s].pc # "over"
    BY <1>1 DEF Outstanding
  <2>3. "unsent" # "unknown_step" /\ 1 \in Int
    OBVIOUS
  <2>. QED
    BY <1>1, <2>1, <2>2, <2>3, EndsWith, Zenon
<1>3. CASE ~ DoesNotRender(s)
  <2>1. session' = [session EXCEPT ![s].pc = IF At(s).faf THEN "publish" ELSE "wait",
                                   ![s].owed = @ + 1, ![s].body = Body(s)]
    BY <1>3 DEF Send
  <2>2. PICK pc \in {"publish", "wait"} :
          (pc = "publish" <=> At(s).faf) /\ pc = IF At(s).faf THEN "publish" ELSE "wait"
    OBVIOUS
  <2>3. LET x == session[s]
        IN Becomes(s, pc, x.step, x.ctx, x.vals, Body(s), x.owed + 1, x.why)
    BY <2>1, <2>2 DEF Walking, Becomes, SessionFields
  <2>. QED
    BY <1>1, <2>2, <2>3 DEF Sends
<1>. QED
  BY <1>2, <1>3

LEMMA PublishMoves ==
  ASSUME Walking, NEW s \in Sessions, Publish(s)
  PROVE  GoesOn(s)
<1>1. /\ session[s].pc = "publish" /\ UNCHANGED counters
      /\ session' = [session EXCEPT ![s].pc = "step", ![s].step = @ + 1, ![s].owed = @ - 1]
  BY DEF Publish, PublishWith, SessionOnly, shared
<1>2. LET x == session[s]
      IN Becomes(s, "step", x.step + 1, x.ctx, x.vals, x.body, x.owed - 1, x.why)
  BY <1>1 DEF Walking, Becomes, SessionFields
<1>3. session[s].step + 1 \in Nat \ {0}
  <2>1. session[s].step \in Nat \ {0}
    BY DEF Walking
  <2>. QED
    BY <2>1
<1>. QED
  BY <1>1, <1>2, <1>3 DEF GoesOn

\* The step of a session that waits is in the list, and so is the one it is
\* sent to.
LEMMA StepOfWait ==
  ASSUME Accepted, Walking, NEW s \in Sessions, session[s].pc \in {"publish", "wait"}
  PROVE  /\ runner = "running" /\ Sound(cfg)
         /\ session[s].step \in DOMAIN cfg.steps /\ DOMAIN cfg.steps \subseteq Nat \ {0}
         /\ IsList(At(s).predicates)
<1>1. runner = "running" /\ session[s].step \in Nat \ {0} /\ session[s].step <= Len(cfg.steps)
  BY DEF Walking
<1>2. Sound(cfg)
  BY <1>1 DEF Accepted
<1>3. Len(cfg.steps) \in Nat /\ DOMAIN cfg.steps = 1 .. Len(cfg.steps)
  BY <1>2, ListDomain DEF Sound
<1>4. session[s].step \in DOMAIN cfg.steps /\ DOMAIN cfg.steps \subseteq Nat \ {0}
  BY <1>1, <1>3
<1>5. IsList(At(s).predicates)
  BY <1>2, <1>4 DEF Sound, At
<1>. QED
  BY <1>1, <1>2, <1>4, <1>5

LEMMA TargetExists ==
  ASSUME Accepted, Walking, NEW s \in Sessions, session[s].pc = "wait", NEW reply, NEW vals,
         Evaluate(At(s).predicates, reply, vals).hit,
         Evaluate(At(s).predicates, reply, vals).next # Blank
  PROVE  LET targets == Targets(Evaluate(At(s).predicates, reply, vals).next)
         IN targets # {} /\ targets \subseteq Nat \ {0}
<1>. DEFINE next == Evaluate(At(s).predicates, reply, vals).next
<1>1. /\ Sound(cfg) /\ session[s].step \in DOMAIN cfg.steps /\ DOMAIN cfg.steps \subseteq Nat \ {0}
      /\ IsList(At(s).predicates)
  BY StepOfWait
<1>2. PICK j \in DOMAIN At(s).predicates : next = At(s).predicates[j].next
  BY <1>1, EvaluateNames
<1>3. At(s).predicates[j].next \in StepNames(cfg.steps) \cup {Blank}
  BY <1>1, Zenon DEF Sound, At
<1>4. next \in StepNames(cfg.steps)
  BY <1>2, <1>3
<1>. HIDE DEF next
<1>5. Targets(next) # {} /\ Targets(next) \subseteq Nat \ {0}
  BY <1>1, <1>4 DEF Targets, StepNames
<1>. QED
  BY <1>5 DEF next

LEMMA ReceiveMoves ==
  ASSUME Accepted, Walking, NEW s \in Sessions, Receive(s)
  PROVE  Ends(s) \/ GoesOn(s)
<1>. DEFINE reply == request[s].reply
            found == ExtractsOf(At(s), reply)
            vals == Extended(session[s].vals, At(s), found)
            result == Evaluate(At(s).predicates, reply, vals)
<1>1. session[s].pc = "wait" /\ UNCHANGED counters
  BY DEF Receive, WaitEnds
<1>2. End(s, "error", 1) \/ Proceed(s, result, vals)
  BY Zenon DEF Receive
<1>3. CASE \E why \in {"error", "told_to_end"} : End(s, why, 1)
  <2>1. PICK why \in {"error", "told_to_end"} : End(s, why, 1)
    BY <1>3
  <2>2. why # "unsent" /\ why # "unknown_step"
    BY <2>1, Zenon
  <2>3. 1 = Outstanding(s) + (IF why = "unsent" THEN 1 ELSE 0) /\ session[s].pc # "over" /\ 1 \in Int
    BY <1>1, <2>2 DEF Outstanding
  <2>. QED
    BY <1>1, <2>1, <2>2, <2>3, EndsWith, Zenon
<1>4. CASE Proceed(s, result, vals) /\ result.hit /\ result.next = Blank
  <2>1. End(s, "told_to_end", 1)
    BY <1>4 DEF Proceed
  <2>. QED
    BY <1>3, <2>1
<1>5. CASE Proceed(s, result, vals) /\ ~ (result.hit /\ result.next = Blank)
  <2>1. result.hit => Targets(result.next) # {} /\ Targets(result.next) \subseteq Nat \ {0}
    BY <1>1, <1>5, TargetExists
  <2>. HIDE DEF result, vals
  <2>2. session' = [session EXCEPT
          ![s].pc = "step", ![s].owed = @ - 1, ![s].vals = vals,
          ![s].step = IF result.hit THEN CHOOSE i \in Targets(result.next) : TRUE ELSE @ + 1]
    BY <1>5, <2>1 DEF Proceed
  <2>3. PICK next : next = IF result.hit THEN CHOOSE i \in Targets(result.next) : TRUE
                                         ELSE session[s].step + 1
    OBVIOUS
  <2>4. next \in Nat \ {0}
    <3>1. session[s].step \in Nat \ {0}
      BY DEF Walking
    <3>2. CASE result.hit
      BY <2>1, <2>3, <3>2
    <3>3. CASE ~ result.hit
      BY <2>3, <3>1, <3>3
    <3>. QED
      BY <3>2, <3>3
  <2>5. LET x == session[s]
        IN Becomes(s, "step", next, x.ctx, vals, x.body, x.owed - 1, x.why)
    BY <2>2, <2>3 DEF Walking, Becomes, SessionFields
  <2>. QED
    BY <1>1, <2>4, <2>5 DEF GoesOn
<1>. QED
  BY <1>2, <1>3, <1>4, <1>5

LEMMA SessionMoves ==
  ASSUME Accepted, Walking, NEW s \in Sessions, SessionStep(s)
  PROVE  /\ runner = "running" /\ UNCHANGED <<building, bodies, ctxDone>>
         /\ Ends(s) \/ Enters(s) \/ Sends(s) \/ GoesOn(s) \/ \E k \in DOMAIN Defs : Draws(s, k)
<1>1. Ends(s) \/ Enters(s) \/ Sends(s) \/ GoesOn(s) \/ \E k \in DOMAIN Defs : Draws(s, k)
  BY BeginMoves, DrawMoves, LoopMoves, SendMoves, PublishMoves, ReceiveMoves, FailureMoves
     DEF SessionStep, Walk, Returns, TimesOut, Aborted, Unreachable, BodyBreaks
<1>2. UNCHANGED <<building, bodies, ctxDone>>
  BY DEF SessionStep, Begin, Walk, Draw, LoopEnds, Send, Publish, PublishWith, Returns, TimesOut,
         Aborted, Unreachable, BodyBreaks, SendFails, Receive, WaitEnds, SessionOnly, shared
<1>3. runner = "running"
  BY DEF SessionStep, Begin, Walk, Draw, LoopEnds, Send, Publish, PublishWith, Returns, TimesOut,
         Aborted, Unreachable, BodyBreaks, SendFails, Receive, WaitEnds, Walking
<1>. QED
  BY <1>1, <1>2, <1>3

-----------------------------------------------------------------------------
(***************************************************************************)
(* The file, and the sessions' place in it.                                *)
(***************************************************************************)
\* The mock server, the context and a step that leaves everything alone.
Elsewhere == UNCHANGED <<building, counters, bodies, session>>

LEMMA NextIs ==
  ASSUME [Next]_vars
  PROVE  Elsewhere \/ Load \/ Build \/ \E s \in Sessions : SessionStep(s)
<1>1. CASE Server \/ Cancel \/ \E s \in Sessions : Serve(s)
  BY <1>1 DEF Server, Cancel, Serve, Elsewhere, shared
<1>2. CASE UNCHANGED vars
  BY <1>2 DEF vars, Elsewhere, shared
<1>. QED
  BY <1>1, <1>2 DEF Next, SessionStep

\* NewRunner refuses an accepted file for no reason the rules know.
LEMMA BuildAccepts ==
  ASSUME Sound(cfg), NEW e \in BuildErrors
  PROVE  e \notin {"auth", "generator"}
<1>. DEFINE transport == TransportError(cfg.transport)
            generators == {GeneratorError(Defs[k]) : k \in DOMAIN Defs} \ {"none"}
            static == {StaticError(cfg.steps[i].template) : i \in StaticSteps} \ {"none"}
<1>1. transport \notin {"auth", "generator"}
  <2>1. TransportError(cfg.transport) # "auth"
    BY DEF Sound
  <2>2. TransportError(cfg.transport) # "generator"
    BY DEF TransportError
  <2>. QED
    BY <2>1, <2>2
<1>2. \A x \in generators : x \notin {"auth", "generator"}
  <2>1. \A g : GeneratorError(g) # "auth"
    BY DEF GeneratorError
  <2>2. \A k \in DOMAIN Defs : GeneratorError(Defs[k]) # "generator"
    BY DEF Sound, Defs
  <2>. QED
    BY <2>1, <2>2
<1>3. \A x \in static : x \notin {"auth", "generator"}
  BY DEF StaticError
<1>4. e \in {transport, "none", "connect"} \cup generators \cup static
  BY DEF BuildErrors
<1>. HIDE DEF transport, generators, static
<1>. QED
  BY <1>1, <1>2, <1>3, <1>4

LEMMA LoadMoves ==
  ASSUME Accepted, Load
  PROVE  /\ runner = "file" /\ runner' \in {"loaded", "rejected"}
         /\ UNCHANGED <<file, cause, counters, bodies, session>>
         /\ runner' = "loaded" =>
              Sound(cfg') /\ (Raises(file.override) => cfg'.load.concurrency > 0)
<1>. DEFINE loaded == LoadSuiteEntry(file.config, file.override)
<1>1. /\ runner = "file" /\ runner' = IF loaded.problems = {} THEN "loaded" ELSE "rejected"
      /\ cfg' = loaded.config
      /\ UNCHANGED <<file, cause, counters, bodies, session>>
  BY DEF Load, shared
<1>2. IsScenario(file.config) /\ \A f \in DOMAIN file.override : file.override[f] \in Int
  BY ExchangeAssumption DEF Accepted
<1>3. loaded.problems = {} =>
        Sound(loaded.config) /\ (Raises(file.override) => loaded.config.load.concurrency > 0)
  BY <1>2, LoadedIsSound
<1>. HIDE DEF loaded
<1>. QED
  BY <1>1, <1>3

LEMMA BuildMoves ==
  ASSUME Accepted, Build
  PROVE  /\ runner = "loaded" /\ runner' \in {"failed", "script_error", "running"}
         /\ UNCHANGED <<file, cfg, session>>
         /\ cause' \notin {"auth", "generator"}
         /\ runner' = "running" => Construct
<1>1. Sound(cfg)
  BY DEF Accepted, Build
<1>2. PICK e \in BuildErrors :
        cause' = e /\ IF e = "none" THEN Construct ELSE runner' = "failed" /\ UNCHANGED shared
  BY Zenon DEF Build
<1>3. Construct => runner' \in {"script_error", "running"}
  BY Zenon DEF Construct
<1>4. e \notin {"auth", "generator"}
  BY <1>1, <1>2, BuildAccepts
<1>. QED
  BY <1>2, <1>3, <1>4 DEF Build

LEMMA StepAccepted ==
  ASSUME Accepted, Walking, [Next]_vars
  PROVE  Accepted'
<1>1. CASE UNCHANGED building
  BY <1>1 DEF Accepted, building
<1>2. CASE Load
  BY <1>2, LoadMoves DEF Accepted
<1>3. CASE Build
  BY <1>3, BuildMoves DEF Accepted
<1>. QED
  BY <1>1, <1>2, <1>3, NextIs, SessionMoves DEF Elsewhere

\* No session has begun before the runner runs.
LEMMA NobodyYet ==
  ASSUME Walking, runner # "running"
  PROVE  \A s \in Sessions : session[s].pc = "new"
BY DEF Walking

LEMMA StepWalking ==
  ASSUME Accepted, Walking, [Next]_vars
  PROVE  Walking'
<1>1. CASE Elsewhere
  BY <1>1 DEF Elsewhere, building, Walking, At
<1>2. CASE Load \/ Build
  <2>1. runner # "running" /\ session' = session
    BY <1>2, LoadMoves, BuildMoves
  <2>2. \A s \in Sessions : session[s].pc = "new"
    BY <2>1, NobodyYet
  <2>. QED
    BY <2>1, <2>2 DEF Walking
<1>3. ASSUME NEW s \in Sessions, SessionStep(s)
      PROVE  Walking'
  <2>1. runner = "running" /\ runner' = runner /\ cfg' = cfg
    BY <1>3, SessionMoves DEF building
  <2>2. ASSUME NEW pc, NEW step, NEW ctx, NEW vals, NEW body, NEW owed, NEW why,
               Becomes(s, pc, step, ctx, vals, body, owed, why),
               pc \in {"new", "draw", "step", "publish", "wait", "over"},
               step \in Nat \ {0}, owed \in Int, why # "unknown_step",
               pc \in {"publish", "wait"} =>
                 step <= Len(cfg.steps) /\ (pc = "publish" <=> cfg.steps[step].faf),
               why = "unsent" => pc = "over"
        PROVE  Walking'
    <3>1. DOMAIN session' = Sessions
      BY <2>2 DEF Becomes
    <3>2. ASSUME NEW t \in Sessions, t # s
          PROVE  session'[t] = session[t]
      BY <2>2, <3>2 DEF Becomes
    <3>3. /\ DOMAIN session'[s] = SessionFields /\ session'[s].pc = pc /\ session'[s].step = step
          /\ session'[s].owed = owed /\ session'[s].why = why
      BY <2>2 DEF Becomes
    <3>. QED
      BY <2>1, <2>2, <3>1, <3>2, <3>3 DEF Walking, At
  <2>3. /\ session[s].step \in Nat \ {0} /\ session[s].owed \in Int
        /\ session[s].why # "unknown_step"
        /\ session[s].why = "unsent" => session[s].pc = "over"
    BY DEF Walking
  <2>4. CASE Ends(s)
    <3>1. PICK why : \E n \in Int :
            /\ why # "unknown_step"
            /\ n = Outstanding(s) + (IF why = "unsent" THEN 1 ELSE 0)
            /\ LET x == session[s]
               IN Becomes(s, "over", x.step, x.ctx, x.vals, x.body, x.owed - n, why)
      BY <2>4, Zenon DEF Ends
    <3>2. PICK n \in Int :
            /\ why # "unknown_step"
            /\ LET x == session[s]
               IN Becomes(s, "over", x.step, x.ctx, x.vals, x.body, x.owed - n, why)
      BY <3>1
    <3>3. session[s].owed - n \in Int
      BY <2>3, <3>2
    <3>. QED
      BY <2>2, <2>3, <3>2, <3>3
  <2>5. CASE Enters(s)
    BY <2>2, <2>3, <2>5 DEF Enters
  <2>6. CASE Sends(s)
    BY <2>2, <2>3, <2>6 DEF Sends, At
  <2>7. CASE GoesOn(s)
    BY <2>2, <2>3, <2>7 DEF GoesOn
  <2>8. ASSUME NEW k \in DOMAIN Defs, Draws(s, k)
        PROVE  Walking'
    BY <2>2, <2>3, <2>8 DEF Draws
  <2>. QED
    BY <1>3, <2>4, <2>5, <2>6, <2>7, <2>8, SessionMoves
<1>. QED
  BY <1>1, <1>2, <1>3, NextIs

-----------------------------------------------------------------------------
(***************************************************************************)
(* The outcomes.                                                           *)
(***************************************************************************)
LEMMA InitExchange ==
  ASSUME Init
  PROVE  ExchangeInv
<1>1. Accepted
  BY DEF Init, Accepted
<1>2. /\ DOMAIN session = Sessions
      /\ \A s \in Sessions :
           /\ DOMAIN session[s] = SessionFields
           /\ session[s].pc = "new" /\ session[s].step = 1 /\ DOMAIN session[s].ctx = {}
           /\ session[s].owed = 0 /\ session[s].why = "none"
  BY DEF Init, NewSession, SessionFields
<1>3. runner # "running" /\ DOMAIN counters = {}
  BY DEF Init
<1>4. Walking
  BY <1>2 DEF Walking
<1>5. OneOutcomeEach
  BY <1>2 DEF OneOutcomeEach
<1>6. Drawing
  BY <1>2, <1>3 DEF Drawing, Prepared, HasDrawn
<1>. QED
  BY <1>1, <1>4, <1>5, <1>6 DEF ExchangeInv

LEMMA StepOutcomes ==
  ASSUME Accepted, Walking, OneOutcomeEach, [Next]_vars
  PROVE  OneOutcomeEach'
<1>1. CASE session' = session
  BY <1>1 DEF OneOutcomeEach
<1>2. ASSUME NEW s \in Sessions, SessionStep(s)
      PROVE  OneOutcomeEach'
  <2>1. ASSUME NEW pc, NEW step, NEW ctx, NEW vals, NEW body, NEW owed, NEW why,
               Becomes(s, pc, step, ctx, vals, body, owed, why),
               owed = (IF pc \in {"publish", "wait"} THEN 1 ELSE 0)
                      - (IF why = "unsent" THEN 1 ELSE 0)
        PROVE  OneOutcomeEach'
    BY <2>1 DEF Becomes, OneOutcomeEach
  <2>2. /\ session[s].owed = (IF session[s].pc \in {"publish", "wait"} THEN 1 ELSE 0)
                             - (IF session[s].why = "unsent" THEN 1 ELSE 0)
        /\ session[s].why = "unsent" => session[s].pc = "over"
    BY DEF OneOutcomeEach, Walking
  <2>3. CASE Ends(s)
    <3>1. PICK why : \E n \in Int :
            /\ why # "unknown_step"
            /\ n = Outstanding(s) + (IF why = "unsent" THEN 1 ELSE 0)
            /\ LET x == session[s]
               IN Becomes(s, "over", x.step, x.ctx, x.vals, x.body, x.owed - n, why)
      BY <2>3, Zenon DEF Ends
    <3>2. PICK n \in Int :
            /\ n = Outstanding(s) + (IF why = "unsent" THEN 1 ELSE 0)
            /\ LET x == session[s]
               IN Becomes(s, "over", x.step, x.ctx, x.vals, x.body, x.owed - n, why)
      BY <3>1
    <3>3. session[s].owed - n = 0 - (IF why = "unsent" THEN 1 ELSE 0)
      BY <2>2, <2>3, <3>2 DEF Ends, Outstanding
    <3>. QED
      BY <2>1, <3>2, <3>3
  <2>4. CASE Enters(s)
    BY <2>1, <2>2, <2>4 DEF Enters
  <2>5. CASE Sends(s)
    BY <2>1, <2>2, <2>5 DEF Sends
  <2>6. CASE GoesOn(s)
    BY <2>1, <2>2, <2>6 DEF GoesOn
  <2>7. ASSUME NEW k \in DOMAIN Defs, Draws(s, k)
        PROVE  OneOutcomeEach'
    BY <2>1, <2>2, <2>7 DEF Draws
  <2>. QED
    BY <1>2, <2>3, <2>4, <2>5, <2>6, <2>7, SessionMoves
<1>3. Load \/ Build => session' = session
  BY LoadMoves, BuildMoves
<1>. QED
  BY <1>1, <1>2, <1>3, NextIs DEF Elsewhere

-----------------------------------------------------------------------------
(***************************************************************************)
(* The context of a session and the body it sends.                         *)
(***************************************************************************)
LEMMA SameFile ==
  ASSUME cfg' = cfg
  PROVE  /\ Defs' = Defs /\ Sequences' = Sequences /\ Scalars' = Scalars
         /\ StaticSteps' = StaticSteps
         /\ \A k : IsSequence(k)' <=> IsSequence(k)
<1>1. Defs' = Defs
  BY DEF Defs
<1>2. \A k : IsSequence(k)' <=> IsSequence(k)
  BY <1>1 DEF IsSequence
<1>3. Sequences' = Sequences /\ Scalars' = Scalars
  BY <1>1, <1>2 DEF Sequences, Scalars
<1>4. \A t : IsStatic(t)' <=> IsStatic(t)
  BY <1>3 DEF IsStatic
<1>5. StaticSteps' = StaticSteps
  BY <1>4 DEF StaticSteps
<1>. QED
  BY <1>1, <1>2, <1>3, <1>5

\* A session that does not move keeps its body.
LEMMA BodyStays ==
  ASSUME cfg' = cfg, bodies' = bodies, NEW s \in Sessions,
         session'[s].step = session[s].step, session'[s].ctx = session[s].ctx,
         session'[s].vals = session[s].vals
  PROVE  Body(s)' = Body(s) /\ At(s)' = At(s)
BY DEF Body, At, Env

\* The increment of a sequence that was accepted raises its counter.
LEMMA CountersRise ==
  ASSUME Accepted, Drawing, runner = "running", NEW k \in Sequences
  PROVE  /\ k \in DOMAIN Defs /\ IsSequence(k) /\ k \notin Scalars
         /\ k \in DOMAIN counters /\ counters[k] \in Int
         /\ Increment(k) \in Int /\ Increment(k) > 0
<1>1. k \in DOMAIN Defs /\ IsSequence(k) /\ k \notin Scalars
  BY DEF Sequences, Scalars, IsSequence
<1>2. Defs[k].step \in Int /\ Defs[k].step >= 0
  BY <1>1 DEF Accepted, Sound, Defs, IsSequence
<1>3. k \in DOMAIN counters /\ counters[k] \in Int
  BY DEF Drawing, Prepared
<1>. QED
  BY <1>1, <1>2, <1>3 DEF Increment, OrDefault

LEMMA ConstructPrepares ==
  ASSUME Sound(cfg), Construct, cfg' = cfg
  PROVE  Prepared'
<1>. DEFINE snapshot == [k \in DOMAIN Defs |->
                          IF IsSequence(k) THEN ToString(Defs[k].start)
                                           ELSE CHOOSE v \in Drawn(k) : TRUE]
<1>1. /\ counters' = [k \in Sequences |-> Defs[k].start]
      /\ bodies' = [i \in StaticSteps |->
           Render(cfg.steps[i].template, [ctx |-> snapshot, session |-> <<>>])]
  BY Zenon DEF Construct
<1>2. /\ Sequences' = Sequences /\ Scalars' = Scalars /\ StaticSteps' = StaticSteps
  BY SameFile
<1>3. \A k \in Scalars : k \in DOMAIN snapshot /\ snapshot[k] = k
  <2>1. \A k \in Scalars : k \in DOMAIN Defs /\ ~ IsSequence(k) /\ Drawn(k) = {k}
    BY DEF Scalars, IsSequence, Drawn
  <2>2. \A k : (CHOOSE v \in {k} : TRUE) = k
    OBVIOUS
  <2>. QED
    BY <2>1, <2>2
<1>4. \A k \in Sequences : counters'[k] \in Int
  <2>1. \A k \in Sequences : Defs[k].start \in Int
    BY DEF Sequences, Sound, Defs
  <2>. QED
    BY <1>1, <2>1
<1>. HIDE DEF snapshot
<1>5. ASSUME NEW i \in StaticSteps
      PROVE  \E sn : /\ \A k \in Scalars : k \in DOMAIN sn /\ sn[k] = k
                     /\ bodies'[i] = Render(cfg.steps[i].template, [ctx |-> sn, session |-> <<>>])
  <2>. WITNESS snapshot
  <2>. QED
    BY <1>1, <1>3
<1>6. DOMAIN counters' = Sequences /\ DOMAIN bodies' = StaticSteps
  BY <1>1
<1>. QED
  BY <1>2, <1>4, <1>5, <1>6 DEF Prepared

\* A session that moves without drawing keeps its context.
LEMMA OthersKeep ==
  ASSUME cfg' = cfg, bodies' = bodies, NEW s \in Sessions, HasDrawn(s),
         session'[s] = session[s],
         \A k \in DOMAIN Defs : IsSequence(k) => counters[k] \in Int /\ counters'[k] \in Int
                                                 /\ counters[k] <= counters'[k]
  PROVE  HasDrawn(s)'
<1>1. /\ Defs' = Defs /\ Scalars' = Scalars
      /\ \A k : IsSequence(k)' <=> IsSequence(k)
      /\ Body(s)' = Body(s)
  BY SameFile, BodyStays
<1>. QED
  BY <1>1 DEF HasDrawn

LEMMA StepPrepared ==
  ASSUME Accepted, Walking, Drawing, [Next]_vars
  PROVE  Prepared'
<1>1. CASE runner' = runner /\ cfg' = cfg /\ bodies' = bodies /\ counters' = counters
  <2>1. Sequences' = Sequences /\ Scalars' = Scalars /\ StaticSteps' = StaticSteps
    BY <1>1, SameFile
  <2>. QED
    BY <1>1, <2>1 DEF Drawing, Prepared
<1>2. CASE Load
  BY <1>2, LoadMoves DEF Prepared
<1>3. CASE Build
  <2>1. Sound(cfg) /\ cfg' = cfg /\ (runner' = "running" => Construct)
    BY <1>3, BuildMoves DEF Accepted
  <2>2. CASE runner' = "running"
    BY <2>1, <2>2, ConstructPrepares
  <2>. QED
    BY <2>2 DEF Prepared
<1>4. ASSUME NEW s \in Sessions, NEW k \in DOMAIN Defs, Draws(s, k), UNCHANGED <<building, bodies>>,
             runner = "running", counters' # counters
      PROVE  Prepared'
  <2>1. IsSequence(k) /\ counters' = [counters EXCEPT ![k] = @ + Increment(k)]
    BY <1>4 DEF Draws
  <2>2. k \in Sequences
    BY <2>1 DEF Sequences
  <2>3. counters[k] \in Int /\ Increment(k) \in Int
    BY <1>4, <2>2, CountersRise
  <2>4. Sequences' = Sequences /\ Scalars' = Scalars /\ StaticSteps' = StaticSteps
        /\ cfg' = cfg /\ bodies' = bodies
    BY <1>4, SameFile DEF building
  <2>5. Prepared /\ runner = "running"
    BY <1>4 DEF Drawing
  <2>6. DOMAIN counters' = Sequences /\ \A j \in Sequences : counters'[j] \in Int
    <3>1. DOMAIN counters = Sequences /\ \A j \in Sequences : counters[j] \in Int
      BY <2>5 DEF Prepared
    <3>. QED
      BY <2>1, <2>3, <3>1
  <2>7. \A i \in StaticSteps : \E snapshot :
          /\ \A j \in Scalars : j \in DOMAIN snapshot /\ snapshot[j] = j
          /\ bodies'[i] = Render(cfg'.steps[i].template, [ctx |-> snapshot, session |-> <<>>])
    BY <2>4, <2>5 DEF Prepared
  <2>8. DOMAIN bodies' = StaticSteps
    BY <2>4, <2>5 DEF Prepared
  <2>. QED
    BY <2>4, <2>6, <2>7, <2>8, Zenon DEF Prepared
<1>. QED
  BY <1>1, <1>2, <1>3, <1>4, NextIs, SessionMoves
     DEF Elsewhere, building, Ends, Enters, Sends, GoesOn

LEMMA StepDrawing ==
  ASSUME Accepted, Walking, Drawing, [Next]_vars
  PROVE  Drawing'
<1>1. Prepared'
  BY StepPrepared
<1>2. CASE Elsewhere
  <2>1. UNCHANGED <<cfg, bodies, counters, session>>
    BY <1>2 DEF Elsewhere, building
  <2>2. ASSUME NEW s \in Sessions PROVE HasDrawn(s)'
    <3>1. HasDrawn(s)
      BY DEF Drawing
    <3>2. /\ Defs' = Defs /\ Scalars' = Scalars
          /\ \A k : IsSequence(k)' <=> IsSequence(k)
          /\ Body(s)' = Body(s)
      BY <2>1, SameFile, BodyStays
    <3>. QED
      BY <2>1, <3>1, <3>2 DEF HasDrawn
  <2>. QED
    BY <1>1, <2>2 DEF Drawing
<1>3. CASE Load \/ Build
  <2>1. runner # "running" /\ session' = session
    BY <1>3, LoadMoves, BuildMoves
  <2>2. \A s \in Sessions : session[s].pc = "new" /\ DOMAIN session[s].ctx = {}
    BY <2>1, NobodyYet DEF Drawing, HasDrawn
  <2>3. \A s \in Sessions : HasDrawn(s)'
    BY <2>1, <2>2 DEF HasDrawn
  <2>. QED
    BY <1>1, <2>3 DEF Drawing
<1>4. ASSUME NEW s \in Sessions, SessionStep(s)
      PROVE  Drawing'
  <2>1. runner = "running" /\ cfg' = cfg /\ bodies' = bodies
    BY <1>4, SessionMoves DEF building
  <2>2. /\ Defs' = Defs /\ Scalars' = Scalars
        /\ \A k : IsSequence(k)' <=> IsSequence(k)
    BY <2>1, SameFile
  <2>3. HasDrawn(s) /\ \A k \in DOMAIN Defs : IsSequence(k) => k \in Sequences /\ k \in DOMAIN counters
                                                              /\ counters[k] \in Int
    <3>1. \A k \in DOMAIN Defs : IsSequence(k) => k \in Sequences
      BY DEF Sequences
    <3>. QED
      BY <2>1, <3>1, CountersRise DEF Drawing
  <2>4. ASSUME \A t \in Sessions : t # s => session'[t] = session[t],
               \A k \in DOMAIN Defs : IsSequence(k) => counters'[k] \in Int
                                                       /\ counters[k] <= counters'[k],
               HasDrawn(s)'
        PROVE  Drawing'
    <3>1. ASSUME NEW t \in Sessions, t # s PROVE HasDrawn(t)'
      <4>1. HasDrawn(t) /\ session'[t] = session[t]
        BY <2>4, <3>1 DEF Drawing
      <4>. QED
        BY <2>1, <2>3, <2>4, <4>1, OthersKeep
    <3>. QED
      BY <1>1, <2>4, <3>1 DEF Drawing
  <2>5. counters' = counters =>
          \A k \in DOMAIN Defs : IsSequence(k) => counters'[k] \in Int /\ counters[k] <= counters'[k]
    BY <2>3
  <2>6. CASE Ends(s)
    <3>1. PICK why : \E n \in Int :
            LET x == session[s]
            IN Becomes(s, "over", x.step, x.ctx, x.vals, x.body, x.owed - n, why)
      BY <2>6, Zenon DEF Ends
    <3>2. /\ \A t \in Sessions : t # s => session'[t] = session[t]
          /\ session'[s].pc = "over" /\ session'[s].ctx = session[s].ctx
          /\ counters' = counters
      BY <2>6, <3>1 DEF Becomes, Ends
    <3>3. HasDrawn(s)'
      BY <2>2, <2>3, <3>2 DEF HasDrawn
    <3>. QED
      BY <2>4, <2>5, <3>2, <3>3
  <2>7. CASE Enters(s)
    <3>1. /\ \A t \in Sessions : t # s => session'[t] = session[t]
          /\ session'[s].pc \in {"step", "draw"} /\ session'[s].ctx = session[s].ctx
          /\ session[s].pc = "new" /\ (session'[s].pc = "step" => DOMAIN Defs = {})
          /\ counters' = counters
      BY <2>7 DEF Becomes, Enters
    <3>2. HasDrawn(s)'
      BY <2>2, <2>3, <3>1 DEF HasDrawn
    <3>. QED
      BY <2>4, <2>5, <3>1, <3>2
  <2>8. CASE Sends(s)
    <3>1. /\ \A t \in Sessions : t # s => session'[t] = session[t]
          /\ session[s].pc = "step"
          /\ session'[s].ctx = session[s].ctx /\ session'[s].step = session[s].step
          /\ session'[s].vals = session[s].vals /\ session'[s].body = Body(s)
          /\ session'[s].pc # "new"
          /\ counters' = counters
      BY <2>8 DEF Becomes, Sends
    <3>2. Body(s)' = Body(s)
      BY <2>1, <3>1, BodyStays
    <3>3. HasDrawn(s)'
      BY <2>2, <2>3, <3>1, <3>2 DEF HasDrawn
    <3>. QED
      BY <2>4, <2>5, <3>1, <3>3
  <2>9. CASE GoesOn(s)
    <3>1. /\ \A t \in Sessions : t # s => session'[t] = session[t]
          /\ session[s].pc \in {"publish", "wait"} /\ session'[s].pc = "step"
          /\ session'[s].ctx = session[s].ctx
          /\ counters' = counters
      BY <2>9 DEF Becomes, GoesOn
    <3>2. HasDrawn(s)'
      BY <2>2, <2>3, <3>1 DEF HasDrawn
    <3>. QED
      BY <2>4, <2>5, <3>1, <3>2
  <2>10. ASSUME NEW k \in DOMAIN Defs, Draws(s, k)
         PROVE  Drawing'
    <3>1. PICK v : /\ IF IsSequence(k)
                      THEN /\ v = ToString(counters[k] + Increment(k))
                           /\ counters' = [counters EXCEPT ![k] = @ + Increment(k)]
                      ELSE v \in Drawn(k) /\ UNCHANGED counters
                   /\ session'[s].ctx = With(session[s].ctx, k, v)
      BY <2>10 DEF Draws, Becomes
    <3>2. /\ \A t \in Sessions : t # s => session'[t] = session[t]
          /\ session[s].pc = "draw" /\ session'[s].pc \in {"step", "draw"}
          /\ session'[s].pc = "step" => DOMAIN Defs \subseteq DOMAIN session[s].ctx \cup {k}
      BY <2>10 DEF Draws, Becomes
    <3>3. /\ DOMAIN session'[s].ctx = DOMAIN session[s].ctx \cup {k}
          /\ session'[s].ctx[k] = v
          /\ \A j \in DOMAIN session[s].ctx : j # k => session'[s].ctx[j] = session[s].ctx[j]
      BY <3>1, <2>10 DEF Draws, With
    <3>4. \A j \in DOMAIN Defs : IsSequence(j) => counters'[j] \in Int /\ counters[j] <= counters'[j]
      <4>1. CASE IsSequence(k)
        <5>1. k \in Sequences
          BY <4>1 DEF Sequences
        <5>2. Increment(k) \in Int /\ Increment(k) > 0
          BY <2>1, <5>1, CountersRise
        <5>3. counters' = [counters EXCEPT ![k] = @ + Increment(k)]
          BY <3>1, <4>1
        <5>. QED
          BY <2>3, <5>2, <5>3
      <4>2. CASE ~ IsSequence(k)
        BY <2>5, <3>1, <4>2
      <4>. QED
        BY <4>1, <4>2
    <3>5. /\ k \in Scalars => v = k
          /\ IsSequence(k) => \E n \in Int : n <= counters'[k] /\ v = ToString(n)
      <4>1. k \in Scalars => v = k
        BY <3>1 DEF Scalars, IsSequence, Drawn
      <4>2. ASSUME IsSequence(k)
            PROVE  \E n \in Int : n <= counters'[k] /\ v = ToString(n)
        <5>1. counters'[k] \in Int /\ counters'[k] <= counters'[k]
          BY <3>4, <4>2
        <5>2. v = ToString(counters'[k])
          BY <2>3, <3>1, <4>2
        <5>. QED
          BY <5>1, <5>2
      <4>. QED
        BY <4>1, <4>2
    <3>6. ASSUME NEW j \in DOMAIN session'[s].ctx
          PROVE  /\ j \in Scalars => session'[s].ctx[j] = j
                 /\ IsSequence(j) =>
                      \E n \in Int : n <= counters'[j] /\ session'[s].ctx[j] = ToString(n)
      <4>1. CASE j = k
        BY <3>3, <3>5, <4>1
      <4>2. CASE j # k
        <5>1. j \in DOMAIN session[s].ctx /\ session'[s].ctx[j] = session[s].ctx[j] /\ j \in DOMAIN Defs
          BY <2>3, <3>3, <4>2 DEF HasDrawn
        <5>2. /\ j \in Scalars => session[s].ctx[j] = j
              /\ IsSequence(j) => \E n \in Int : n <= counters[j] /\ session[s].ctx[j] = ToString(n)
          BY <2>3, <5>1 DEF HasDrawn
        <5>. QED
          BY <2>3, <3>4, <5>1, <5>2
      <4>. QED
        BY <4>1, <4>2
    <3>7. /\ DOMAIN session'[s].ctx \subseteq DOMAIN Defs
          /\ session'[s].pc = "step" => DOMAIN session'[s].ctx = DOMAIN Defs
      BY <2>3, <3>2, <3>3 DEF HasDrawn
    <3>8. HasDrawn(s)'
      BY <2>2, <3>2, <3>6, <3>7 DEF HasDrawn
    <3>. QED
      BY <2>4, <3>2, <3>4, <3>8
  <2>. QED
    BY <1>4, <2>6, <2>7, <2>8, <2>9, <2>10, SessionMoves
<1>. QED
  BY <1>2, <1>3, <1>4, NextIs

\* What a template may name, if it is pre-rendered.
NamesOnly(t, constants) ==
  /\ t.hidden = {}
  /\ \A k \in DOMAIN t.fields : t.fields[k][1] \in {"const", "ctx", "session"}
  /\ \A r \in Dotted(t) : r[1] # "session" /\ (r[1] = "ctx" => r[2] \in constants)

RendersLike(t, snapshot, ctx, vals) ==
  Render(t, [ctx |-> snapshot, session |-> <<>>]) = Render(t, [ctx |-> ctx, session |-> vals])

Holds(ctx, constants) == \A k \in constants : k \in DOMAIN ctx /\ ctx[k] = k

\* A template that was pre-rendered renders to the same in every session: what
\* it may name is a constant of the context.
LEMMA StaticAgrees ==
  ASSUME NEW t, NEW ctx, NEW vals, NEW snapshot, NEW constants,
         NamesOnly(t, constants), Holds(snapshot, constants), Holds(ctx, constants)
  PROVE  RendersLike(t, snapshot, ctx, vals)
<1>. DEFINE early == [ctx |-> snapshot, session |-> <<>>]
            late == [ctx |-> ctx, session |-> vals]
            v(k, env) == IF t.fields[k][1] = "const" THEN t.fields[k][2]
                         ELSE Get(env[t.fields[k][1]], t.fields[k][2], NoValue)
<1>1. ASSUME NEW k \in DOMAIN t.fields
      PROVE  v(k, early) = v(k, late)
  <2>1. /\ t.fields[k] \in Dotted(t)
        /\ t.fields[k][1] \in {"const", "ctx", "session"} /\ t.fields[k][1] # "session"
        /\ t.fields[k][1] = "ctx" => t.fields[k][2] \in constants
    BY DEF Dotted, NamesOnly
  <2>2. CASE t.fields[k][1] = "const"
    BY <2>2
  <2>3. CASE t.fields[k][1] = "ctx"
    <3>1. t.fields[k][2] \in constants
      BY <2>1, <2>3
    <3>2. early["ctx"] = snapshot /\ late["ctx"] = ctx
      OBVIOUS
    <3>3. \A none : Get(snapshot, t.fields[k][2], none) = Get(ctx, t.fields[k][2], none)
      BY <3>1 DEF Get, Holds
    <3>. QED
      BY <2>3, <3>2, <3>3
  <2>. QED
    BY <2>1, <2>2, <2>3
<1>2. Render(t, early) = [k \in DOMAIN t.fields |-> v(k, early)]
  BY Zenon DEF Render
<1>3. Render(t, late) = [k \in DOMAIN t.fields |-> v(k, late)]
  BY Zenon DEF Render
<1>. HIDE DEF v, early, late
<1>4. Render(t, early) = Render(t, late)
  BY <1>1, <1>2, <1>3
<1>. QED
  BY <1>4, Zenon DEF early, late, RendersLike

\* What a session sends is what its own context and extracts render to.
LEMMA OwnBody ==
  ASSUME Accepted, Walking, Drawing, NEW s \in Sessions,
         session[s].pc \in {"publish", "wait"}, At(s).template.hidden = {}
  PROVE  session[s].body = Render(At(s).template, Env(s))
<1>1. runner = "running" /\ Sound(cfg) /\ session[s].step \in DOMAIN cfg.steps
  BY StepOfWait
<1>2. HasDrawn(s) /\ session[s].body = Body(s) /\ DOMAIN session[s].ctx = DOMAIN Defs
  BY DEF Drawing, HasDrawn
<1>3. CASE session[s].step \notin DOMAIN bodies
  BY <1>2, <1>3 DEF Body
<1>4. CASE session[s].step \in DOMAIN bodies
  <2>1. session[s].step \in StaticSteps
    BY <1>1, <1>4 DEF Drawing, Prepared
  <2>2. PICK snapshot :
          /\ \A k \in Scalars : k \in DOMAIN snapshot /\ snapshot[k] = k
          /\ bodies[session[s].step] =
               Render(cfg.steps[session[s].step].template, [ctx |-> snapshot, session |-> <<>>])
    BY <1>1, <2>1, Zenon DEF Drawing, Prepared
  <2>3. \A k \in Scalars : k \in DOMAIN session[s].ctx /\ session[s].ctx[k] = k
    BY <1>2 DEF HasDrawn, Scalars
  <2>4. \A r \in Dotted(At(s).template) : r[1] # "session" /\ (r[1] = "ctx" => r[2] \in Scalars)
    BY <2>1, Zenon DEF StaticSteps, IsStatic, At
  <2>5. \A k \in DOMAIN At(s).template.fields :
          At(s).template.fields[k][1] \in {"const", "ctx", "session"}
    BY <1>1, Zenon DEF Sound, At
  <2>6. Render(At(s).template, [ctx |-> snapshot, session |-> <<>>])
          = Render(At(s).template, [ctx |-> session[s].ctx, session |-> session[s].vals])
    <3>1. Holds(snapshot, Scalars) /\ Holds(session[s].ctx, Scalars)
      BY <2>2, <2>3 DEF Holds
    <3>2. NamesOnly(At(s).template, Scalars)
      BY <2>4, <2>5, Zenon DEF NamesOnly
    <3>3. RendersLike(At(s).template, snapshot, session[s].ctx, session[s].vals)
      BY <3>1, <3>2, StaticAgrees, Zenon
    <3>. QED
      BY <3>3, Zenon DEF RendersLike
  <2>. QED
    BY <1>2, <1>4, <2>2, <2>6, Zenon DEF Body, At, Env
<1>. QED
  BY <1>3, <1>4

\* Different numbers are written differently.  The module TLC leaves open what
\* its ToString is.
TextsDiffer == \A m \in Int : \A n \in Int : ToString(m) = ToString(n) => m = n

\* Two sessions have no value of a sequence in common.
Distinct ==
  \A k \in DOMAIN counters : \A s \in Sessions : \A t \in Sessions :
    s # t /\ k \in DOMAIN session[s].ctx /\ k \in DOMAIN session[t].ctx
      => session[s].ctx[k] # session[t].ctx[k]

LEMMA OwnIdsAre ==
  ASSUME Accepted, Walking, Drawing, Distinct
  PROVE  OwnIds
<1>1. \A k \in DOMAIN counters : \A s, t \in Sessions :
        s # t /\ k \in DOMAIN session[s].ctx \cap DOMAIN session[t].ctx
          => session[s].ctx[k] # session[t].ctx[k]
  BY DEF Distinct
<1>2. \A s \in Sessions :
        session[s].pc \in {"publish", "wait"} /\ At(s).template.hidden = {}
          => session[s].body = Render(At(s).template, Env(s))
  BY OwnBody
<1>. QED
  BY <1>1, <1>2 DEF OwnIds

LEMMA StepDistinct ==
  ASSUME TextsDiffer, Accepted, Walking, Drawing, Distinct, [Next]_vars
  PROVE  Distinct'
<1>1. CASE session' = session /\ counters' = counters
  BY <1>1 DEF Distinct
<1>2. CASE Load \/ Build
  <2>1. runner # "running" /\ session' = session
    BY <1>2, LoadMoves, BuildMoves
  <2>2. \A s \in Sessions : DOMAIN session[s].ctx = {}
    BY <2>1, NobodyYet DEF Drawing, HasDrawn
  <2>. QED
    BY <2>1, <2>2 DEF Distinct
<1>3. ASSUME NEW s \in Sessions, SessionStep(s)
      PROVE  Distinct'
  <2>1. runner = "running"
    BY <1>3, SessionMoves
  <2>2. ASSUME NEW pc, NEW step, NEW vals, NEW body, NEW owed, NEW why,
               Becomes(s, pc, step, session[s].ctx, vals, body, owed, why), counters' = counters
        PROVE  Distinct'
    <3>1. \A t \in Sessions : session'[t].ctx = session[t].ctx
      BY <2>2 DEF Becomes
    <3>. QED
      BY <2>2, <3>1 DEF Distinct
  <2>3. CASE Ends(s)
    BY <2>2, <2>3 DEF Ends
  <2>4. CASE Enters(s)
    BY <2>2, <2>4 DEF Enters
  <2>5. CASE Sends(s)
    BY <2>2, <2>5 DEF Sends
  <2>6. CASE GoesOn(s)
    BY <2>2, <2>6 DEF GoesOn
  <2>7. ASSUME NEW k \in DOMAIN Defs, Draws(s, k)
        PROVE  Distinct'
    <3>1. PICK v : /\ IF IsSequence(k)
                      THEN /\ v = ToString(counters[k] + Increment(k))
                           /\ counters' = [counters EXCEPT ![k] = @ + Increment(k)]
                      ELSE v \in Drawn(k) /\ UNCHANGED counters
                   /\ session'[s].ctx = With(session[s].ctx, k, v)
                   /\ \A t \in Sessions : t # s => session'[t] = session[t]
      BY <2>7 DEF Draws, Becomes
    <3>2. /\ DOMAIN session'[s].ctx = DOMAIN session[s].ctx \cup {k}
          /\ session'[s].ctx[k] = v
          /\ \A j \in DOMAIN session[s].ctx : j # k => session'[s].ctx[j] = session[s].ctx[j]
      BY <3>1, <2>7 DEF Draws, With
    <3>3. DOMAIN counters' = DOMAIN counters
      BY <3>1
    <3>4. ASSUME NEW t \in Sessions, t # s, k \in DOMAIN counters, k \in DOMAIN session[t].ctx
          PROVE  session[t].ctx[k] # v
      <4>1. k \in Sequences
        BY <2>1, <3>4 DEF Drawing, Prepared
      <4>2. /\ IsSequence(k) /\ counters[k] \in Int
            /\ Increment(k) \in Int /\ Increment(k) > 0
        BY <2>1, <4>1, CountersRise
      <4>3. PICK n \in Int : n <= counters[k] /\ session[t].ctx[k] = ToString(n)
        BY <3>4, <4>2 DEF Drawing, HasDrawn
      <4>4. v = ToString(counters[k] + Increment(k))
        BY <3>1, <4>2
      <4>5. n # counters[k] + Increment(k) /\ counters[k] + Increment(k) \in Int
        BY <4>2, <4>3
      <4>. QED
        BY <4>3, <4>4, <4>5, Zenon DEF TextsDiffer
    <3>5. ASSUME NEW j \in DOMAIN counters, NEW t \in Sessions, t # s,
                 j \in DOMAIN session'[s].ctx, j \in DOMAIN session[t].ctx
          PROVE  session'[s].ctx[j] # session[t].ctx[j]
      <4>1. CASE j = k
        BY <3>2, <3>4, <3>5, <4>1
      <4>2. CASE j # k
        BY <3>2, <3>5, <4>2 DEF Distinct
      <4>. QED
        BY <4>1, <4>2
    <3>6. ASSUME NEW j \in DOMAIN counters', NEW t \in Sessions, NEW u \in Sessions, t # u,
                 j \in DOMAIN session'[t].ctx, j \in DOMAIN session'[u].ctx
          PROVE  session'[t].ctx[j] # session'[u].ctx[j]
      <4>1. CASE t = s
        BY <3>1, <3>3, <3>5, <3>6, <4>1
      <4>2. CASE u = s
        BY <3>1, <3>3, <3>5, <3>6, <4>2
      <4>3. CASE t # s /\ u # s
        BY <3>1, <3>3, <3>6, <4>3 DEF Distinct
      <4>. QED
        BY <4>1, <4>2, <4>3
    <3>. QED
      BY <3>6, Zenon DEF Distinct
  <2>. QED
    BY <1>3, <2>3, <2>4, <2>5, <2>6, <2>7, SessionMoves
<1>. QED
  BY <1>1, <1>2, <1>3, NextIs DEF Elsewhere

-----------------------------------------------------------------------------
(***************************************************************************)
(* The theorems.                                                           *)
(***************************************************************************)
LEMMA ExchangeInvariant ==
  Spec => []ExchangeInv
<1>1. Init => ExchangeInv
  BY InitExchange
<1>2. ExchangeInv /\ [Next]_vars => ExchangeInv'
  BY StepAccepted, StepWalking, StepOutcomes, StepDrawing DEF ExchangeInv
<1>. QED
  BY <1>1, <1>2, PTL DEF Spec

\* Validation and construction agree (validate.go with NewRunner, runner.go:73):
\* of an accepted scenario no transport or generator is refused for a reason
\* the rules know, every jump of session.go:243-260 finds its step, every
\* request has its address, and only NATS publishes without a reply; the pool
\* has workers unless a suite's override, which nobody validates, is negative.
THEOREM AcceptedFilesRun ==
  Spec => []AcceptedScenarioRuns
<1>1. ExchangeInv => AcceptedScenarioRuns
  <2>. SUFFICES ASSUME ExchangeInv PROVE AcceptedScenarioRuns
    OBVIOUS
  <2>. USE DEF ExchangeInv
  <2>1. /\ cause \notin {"auth", "generator"}
        /\ runner = "running" =>
             Sound(cfg) /\ (Raises(file.override) => cfg.load.concurrency > 0)
    BY DEF Accepted
  <2>2. Sound(cfg) => cfg.metrics.count # 1
    BY DEF Sound
  <2>3. ASSUME NEW s \in Sessions
        PROVE  /\ session[s].why # "unknown_step"
               /\ session[s].pc = "wait" =>
                    IF IsNats THEN At(s).subject # Blank
                              ELSE At(s).path # Blank /\ At(s).method # Blank
               /\ session[s].pc = "publish" => IsNats
    <3>1. session[s].why # "unknown_step"
      BY DEF Walking
    <3>2. ASSUME session[s].pc \in {"publish", "wait"}
          PROVE  /\ IF IsNats THEN At(s).subject # Blank
                              ELSE At(s).path # Blank /\ At(s).method # Blank
                 /\ At(s).faf => IsNats
      <4>1. Sound(cfg) /\ session[s].step \in DOMAIN cfg.steps
        BY <3>2, StepOfWait
      <4>2. /\ cfg.transport.type \in Nats => At(s).subject # Blank
            /\ cfg.transport.type \in Http => At(s).path # Blank /\ At(s).method # Blank
            /\ At(s).faf => cfg.transport.type \in Nats
        BY <4>1, Zenon DEF Sound, At
      <4>3. cfg.transport.type \in Nats \/ cfg.transport.type \in Http
        BY <4>1 DEF Sound, Transports
      <4>. QED
        BY <4>2, <4>3 DEF IsNats
    <3>3. session[s].pc = "publish" => At(s).faf
      BY DEF Walking
    <3>. QED
      BY <3>1, <3>2, <3>3
  <2>. QED
    BY <2>1, <2>2, <2>3 DEF AcceptedScenarioRuns
<1>. QED
  BY <1>1, ExchangeInvariant, PTL

\* Sent and outcomes balance (session.go:117-267): a request that is out owes
\* one outcome, one that returned owes none, and a session that could not render
\* its message submits one outcome for it and no second one.
THEOREM EveryRequestOneOutcome ==
  Spec => []OneOutcomeEach
<1>1. ExchangeInv => OneOutcomeEach
  BY DEF ExchangeInv
<1>. QED
  BY <1>1, ExchangeInvariant, PTL

\* "Sequence IDs must be unique" (template/resolver.go:184-194, one atomic
\* addition for each value): if different numbers are written differently, no
\* two sessions have a value of a sequence in common, and a body that PreCalc
\* rendered before the run (precalc.go) is the one the session would have
\* rendered itself.
THEOREM IdsAreOwn ==
  ASSUME TextsDiffer
  PROVE  Spec => []OwnIds
<1>1. Init => Distinct
  BY DEF Init, Distinct
<1>2. ExchangeInv /\ Distinct /\ [Next]_vars => Distinct'
  BY StepDistinct DEF ExchangeInv
<1>3. ExchangeInv /\ Distinct => OwnIds
  BY OwnIdsAre DEF ExchangeInv
<1>. QED
  BY <1>1, <1>2, <1>3, ExchangeInvariant, PTL DEF Spec

\* A body that PreCalc rendered before the run is the one the session would have
\* rendered itself: the half of OwnIds that needs no assumption on texts.
THEOREM BodiesAreOwn ==
  Spec => [](\A s \in Sessions :
    session[s].pc \in {"publish", "wait"} /\ At(s).template.hidden = {}
      => session[s].body = Render(At(s).template, Env(s)))
<1>1. ExchangeInv => \A s \in Sessions :
        session[s].pc \in {"publish", "wait"} /\ At(s).template.hidden = {}
          => session[s].body = Render(At(s).template, Env(s))
  BY OwnBody DEF ExchangeInv
<1>. QED
  BY <1>1, ExchangeInvariant, PTL

=============================================================================
