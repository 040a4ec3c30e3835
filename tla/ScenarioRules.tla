---------------------------- MODULE ScenarioRules ----------------------------
(***************************************************************************)
(* What a scenario file may say (internal/config): the defaults that fill  *)
(* it in, the rules it must pass, and the overrides of a suite.            *)
(*                                                                         *)
(* A problem is named after the field it is reported for.  Texts that only *)
(* matter by being there are BOOLEAN; durations and rates are integers.    *)
(* A template is a JSON object: a function from its keys to the source of  *)
(* each value, <<"const", v>>, <<"ctx", k>>, <<"session", k>>, or, in the  *)
(* mock's templates, <<"extracted", k>>.                                   *)
(***************************************************************************)
EXTENDS Integers, Sequences, FiniteSets

Nats == {"nats"}
Http == {"http", "https"}
Transports == Nats \cup Http

Blank == ""  \* a text that is not there

Problem(broken, field) == IF broken THEN {field} ELSE {}

-----------------------------------------------------------------------------
(* The blocks of a scenario.                                               *)
(*   transport  type, scheme (Blank, "bad" not a URL), http2 ("unset",     *)
(*              "on", "off", "table"), tls ("none", "ok", "no_ca" for a CA *)
(*              file that is missing, "bad_ca" for one that does not       *)
(*              parse), auth                                               *)
(*   auth       type, user (name and password are set), token              *)
(*   load       concurrency, rate, total, duration, timeout                *)
(*   context    key -> generator: kind ("scalar", "table", or "odd", a     *)
(*              table that does not decode), type, start, step, range (of  *)
(*              random_range), values (how many random_pick has)           *)
(*   steps      name, subject, method, path, template, faf, timeout ("set" *)
(*              and a value), headers, extracts, predicates                *)

\* What decoding the file makes sure of, as far as the rules rely on it.
IsList(x) == x \in Seq({x[i] : i \in DOMAIN x})

IsScenario(c) ==
  /\ {"transport", "context", "steps", "load", "metrics", "report"} \subseteq DOMAIN c
  /\ c.load \in [concurrency : Int, rate : Int, total : Int, duration : Int, timeout : Int]
  /\ {"count", "percentiles"} \subseteq DOMAIN c.metrics /\ c.metrics.count \in Int
  /\ \A k \in DOMAIN c.context :
       LET g == c.context[k]
       IN /\ g.kind \in {"scalar", "table", "odd"}
          /\ g.start \in Int /\ g.step \in Int /\ g.range \in Int /\ g.values \in Nat
  /\ IsList(c.steps)
  /\ \A i \in DOMAIN c.steps :
       /\ IsList(c.steps[i].predicates)
       /\ LET t == c.steps[i].template
          IN \A k \in DOMAIN t.fields : t.fields[k][1] \in {"const", "ctx", "session"}

TransportProblems(t) ==
  Problem(t.type \notin Transports, "transport.type")
  \cup Problem(t.scheme \in {Blank, "bad"}, "transport.url")
  \cup (IF t.scheme \in {Blank, "bad"} THEN {}
        ELSE Problem(t.scheme = "h2c" /\ t.http2 = "off", "transport.http2")
             \cup Problem(t.tls # "none" /\ t.scheme # "https", "transport.tls")
             \cup Problem(t.tls = "no_ca", "transport.tls.ca_file"))

\* Which transports an authentication serves.
AuthServes == [none |-> Transports, userpass |-> Nats, basic |-> Http, jwt |-> Http]

AuthProblems(type, a) ==
  IF a.type = "none" THEN {}
  ELSE IF a.type \notin DOMAIN AuthServes THEN {"transport.auth.type"}
  ELSE Problem(type \notin AuthServes[a.type], "transport.auth.type")
       \cup Problem(a.type \in {"userpass", "basic"} /\ ~a.user, "transport.auth")
       \cup Problem(a.type = "jwt" /\ ~a.token, "transport.auth.token")

LoadProblems(l) ==
  Problem(l.concurrency < 1, "load.concurrency")
  \cup Problem(l.timeout <= 0, "load.response_timeout")
  \cup Problem(l.rate < 0, "load.rate")
  \cup Problem(l.total < 0, "load.total_messages")
  \cup Problem(l.duration < 0, "load.duration")

\* A table that does not decode, or has no type, passes for a scalar.
GeneratorProblems(g) ==
  CASE g.kind # "table" \/ g.type = Blank -> {}
    [] g.type = "sequence"             -> Problem(g.step < 0, "context.step")
    [] g.type = "random_range"         -> Problem(g.range < 1, "context")
    [] g.type = "random_pick"          -> Problem(g.values = 0, "context.values")
    [] OTHER                           -> {"context.type"}

\* An expr predicate keeps its program in the value; a blank one has no operand.
PredicateProblems(p) ==
  (CASE p.op \in {"eq", "ne", "contains", "gt", "lt"} -> Problem(p.field = Blank, "field")
     [] p.op \in {"expr ==", "expr >"}                -> Problem(p.field = Blank, "value")
     [] OTHER                                         -> {"op"})
  \cup Problem(p.name = Blank, "name")

ExtractProblems(e) == Problem(e.field = Blank, "field") \cup Problem(e.path = <<>>, "path")

\* A step's own timeout may be anything.
TimeoutProblems_None(s) == {}
TimeoutProblems(s) == Problem(s.timeout.set /\ s.timeout.value <= 0, "response_timeout")

\* A fire-and-forget step may have predicates and extracts; nobody looks at
\* them.
StepProblems(type, s) ==
  Problem(s.name = Blank, "name")
  \cup Problem(DOMAIN s.template.fields = {}, "template")
  \cup Problem(type \in Nats /\ s.subject = Blank, "subject")
  \cup Problem(type \in Http /\ s.path = Blank, "path")
  \cup Problem(type \in Http /\ s.method = Blank, "method")
  \cup Problem(s.faf /\ type \notin Nats, "fire_and_forget")
  \cup TimeoutProblems(s)
  \cup (UNION {PredicateProblems(s.predicates[i]) : i \in DOMAIN s.predicates})
  \cup (UNION {ExtractProblems(s.extracts[i]) : i \in DOMAIN s.extracts})

StepNames(steps) == {steps[i].name : i \in DOMAIN steps}

\* Takes any name for a step.
UnknownTargets_Skipped(steps) == {}

\* The second pass of validateSteps.
UnknownTargets(steps) ==
  (UNION {{steps[i].predicates[j].next : j \in DOMAIN steps[i].predicates} : i \in DOMAIN steps})
    \ (StepNames(steps) \cup {Blank})

StepsProblems(type, steps) ==
  IF steps = <<>> THEN {"step"}
  ELSE (UNION {StepProblems(type, steps[i]) : i \in DOMAIN steps})
       \cup Problem(Cardinality(StepNames(steps)) # Len(steps), "name")
       \cup Problem(UnknownTargets(steps) # {}, "next_step")

\* bucket_count and bucket_edges_ms.
BucketProblems(count, edges) ==
  Problem(count # 0 /\ edges # <<>>, "metrics")
  \cup Problem(count # 0 /\ count < 2, "metrics.bucket_count")
  \cup Problem(\E i \in DOMAIN edges :
                 edges[i] <= 0 \/ (i > 1 /\ edges[i] <= edges[i - 1]),
               "metrics.bucket_edges_ms")

MetricsProblems(m) ==
  Problem(\E p \in m.percentiles : p < 0 \/ p > 100, "metrics.percentiles")
  \cup BucketProblems(m.count, m.edges)

\* No [report] block, or its path and interval.
ReportProblems(r) ==
  IF ~r.present THEN {}
  ELSE Problem(~r.path, "report.csv_path") \cup Problem(r.flush <= 0, "report.flush_interval")

ValidateScenario(c) ==
  Problem(~c.named, "scenario.name")
  \cup TransportProblems(c.transport)
  \cup AuthProblems(c.transport.type, c.transport.auth)
  \cup LoadProblems(c.load)
  \cup (UNION {GeneratorProblems(c.context[k]) : k \in DOMAIN c.context})
  \cup StepsProblems(c.transport.type, c.steps)
  \cup MetricsProblems(c.metrics)
  \cup ReportProblems(c.report)

-----------------------------------------------------------------------------
(* Loading. *)

OrDefault(value, default) == IF value = 0 THEN default ELSE value

\* Defaults come before the rules (the durations are in seconds).
ApplyDefaults(c) ==
  [c EXCEPT
    !.load.timeout = OrDefault(@, 2),
    !.load.concurrency = OrDefault(@, 1),
    !.metrics.percentiles = IF @ = {} THEN {50, 99} ELSE @,
    !.metrics.count = IF @ = 0 /\ c.metrics.edges = <<>> THEN 20 ELSE @,
    !.report.flush = IF c.report.present THEN OrDefault(@, 10) ELSE @]

\* A suite overrides the load after the scenario has been validated: what the
\* override says is not looked at again.
MergeLoadOverride(load, override) ==
  [f \in DOMAIN load |->
    IF f \in DOMAIN override THEN OrDefault(override[f], load[f]) ELSE load[f]]

LoadScenario(c) ==
  LET filled == ApplyDefaults(c)
  IN [problems |-> ValidateScenario(filled), config |-> filled]

LoadSuiteEntry(c, override) ==
  LET loaded == LoadScenario(c)
  IN [loaded EXCEPT !.config.load = MergeLoadOverride(@, override)]

-----------------------------------------------------------------------------
(* The mock server's file. *)

Http2Problems(h) ==
  Problem(h.streams < 0, "max_concurrent_streams")
  \cup Problem(h.stream_window < 0, "initial_stream_window_size")
  \cup Problem(h.conn_window # 0 /\ h.stream_window # 0
                 /\ h.conn_window < h.stream_window, "initial_conn_window_size")
  \cup Problem(h.frame # 0 /\ h.frame \notin 16384..16777215, "max_frame_size")

\* Rates are in percent; "stream" is the number of chunks, -1 for no block.
EndpointProblems(type, e) ==
  Problem(type \in Nats /\ e.subject = Blank, "subject")
  \cup Problem(type \in Http /\ e.path = Blank, "path")
  \cup Problem(e.fail_rate \notin 0..100, "fail_rate")
  \cup Problem(e.no_answer_rate \notin 0..100, "no_answer_rate")
  \cup Problem(DOMAIN e.ok.fields = {}, "ok_response")
  \cup Problem(DOMAIN e.fail.fields = {} /\ e.fail_rate > 0, "fail_response")
  \cup Problem(e.stream = 0, "stream.chunks")

ValidateMock(m) ==
  Problem(m.type \notin Transports, "transport.type")
  \cup Problem(~m.url, "transport.url")
  \cup Problem(m.endpoints = <<>>, "endpoint")
  \cup Problem(m.cert # m.key, "transport.tls")
  \cup Http2Problems(m.http2)
  \cup (UNION {EndpointProblems(m.type, m.endpoints[i]) : i \in DOMAIN m.endpoints})
=============================================================================
