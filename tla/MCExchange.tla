----------------------------- MODULE MCExchange -----------------------------
(***************************************************************************)
(* Scenario files for the model checker: good ones, over NATS and HTTP,    *)
(* and one for each rule that keeps a session out of trouble.              *)
(***************************************************************************)
EXTENDS Exchange

T(fields) == [fields |-> fields, hidden |-> {}, parses |-> TRUE, fails |-> FALSE]
Const(v) == T("t" :> <<"const", v>>)
WithId == T([t |-> <<"const", "x">>, id |-> <<"ctx", "id">>])
WithCode == T("c" :> <<"session", "code">>)
OfPlace == T("p" :> <<"ctx", "place">>)
Empty == T(<<>>)
Hidden == [WithId EXCEPT !.hidden = {"id"}]
Broken == [WithId EXCEPT !.fails = TRUE]
Unparsed == [WithId EXCEPT !.parses = FALSE]

P(field, key, op, value, next) ==
  [name |-> "p", field |-> field, key |-> key, op |-> op, value |-> value, next |-> next,
   compiles |-> TRUE]
E(field, path) == [field |-> field, path |-> path]

S(name, template, extracts, predicates) ==
  [name |-> name, subject |-> name, path |-> name, method |-> "POST", template |-> template,
   faf |-> FALSE, timeout |-> [set |-> FALSE, value |-> 0], headers |-> <<>>,
   extracts |-> extracts, predicates |-> predicates]
Published(step) == [step EXCEPT !.faf = TRUE]
Within(step, seconds) == [step EXCEPT !.timeout = [set |-> TRUE, value |-> seconds]]

Scalar == [kind |-> "scalar", type |-> Blank, start |-> 0, step |-> 0, range |-> 0, values |-> 0]
Generator(type) == [Scalar EXCEPT !.kind = "table", !.type = type]
Seq10 == [Generator("sequence") EXCEPT !.start = 10]
Context == [id |-> Seq10, place |-> Scalar]

NoAuth == [type |-> "none", user |-> FALSE, token |-> FALSE]
Over(type, scheme) ==
  [type |-> type, scheme |-> scheme, http2 |-> "unset", tls |-> "none", auth |-> NoAuth]
Login(transport, type) == [transport EXCEPT !.auth = [type |-> type, user |-> TRUE, token |-> FALSE]]

Config(transport, context, steps) ==
  [named |-> TRUE, transport |-> transport, context |-> context, steps |-> steps,
   load |-> [concurrency |-> 0, rate |-> 0, total |-> 0, duration |-> 0, timeout |-> 0],
   metrics |-> [percentiles |-> {}, count |-> 0, edges |-> <<>>],
   report |-> [present |-> FALSE, path |-> FALSE, flush |-> 0]]

Mock(name, noAnswer, fail, extracts, ok) ==
  [subject |-> name, path |-> name, method |-> "POST", no_answer_rate |-> noAnswer,
   fail_rate |-> fail, extracts |-> extracts, ok |-> ok, fail |-> Const("500"), stream |-> -1]

MockFile(type, endpoints) ==
  [type |-> type, url |-> TRUE, cert |-> FALSE, key |-> FALSE, endpoints |-> endpoints,
   http2 |-> [streams |-> 0, stream_window |-> 0, conn_window |-> 0, frame |-> 16384]]

Answering ==
  <<Mock("a", 10, 10, {"t"}, T([code |-> <<"const", "200">>, t |-> <<"extracted", "t">>])),
    Mock("b", 0, 0, {"t"}, T("t" :> <<"extracted", "t">>))>>

File(config, override, mock) == [config |-> config, override |-> override, mock |-> mock]
Plain(config) == File(config, <<>>, MockFile(config.transport.type, Answering))

Code == E("code", <<"response", "code">>)

\* Log in, jump by the code, and report without waiting.
NatsFlow ==
  Config(Login(Over("nats", "nats"), "userpass"), Context,
    <<S("a", WithId, <<Code>>, <<P("session", "code", "gt", "300", Blank)>>),
      S("b", OfPlace, <<>>, <<P("body", "t", "expr ==", "x", "b")>>),
      Published(S("c", WithCode, <<>>, <<P("id", Blank, "ne", "x", "a")>>))>>)

HttpFlow(steps) == Config(Login(Over("https", "https"), "basic"), Context, steps)

\* The second step is polled until its status is not 200.
Polling ==
  HttpFlow(<<S("b", Const("x"), <<E("t", <<"body", "t">>)>>,
               <<P("body", "t", "expr ==", "y", Blank), P("status", Blank, "eq", "404", Blank)>>),
             S("a", WithId, <<E("st", <<"status">>)>>, <<P("status", Blank, "expr >", "300", Blank),
                                                      P("status", Blank, "lt", "300", "a")>>)>>)
\* The answer decides between a step whose header is not rendered and one
\* whose extract finds nothing.
Branching ==
  HttpFlow(<<S("a", WithId, <<E("ct", <<"header", "Content-Type">>), E("t", <<"body", "t">>)>>,
               <<P("headers", "X", "expr ==", "1", Blank), P("session", "t", "contains", "500", "c")>>),
             [S("b", WithId, <<>>, <<>>) EXCEPT !.headers = <<[name |-> "h", template |-> Broken]>>],
             Within(S("c", OfPlace, <<E("m", <<"meta", "x">>)>>, <<>>), 1)>>)

One(step) == Config(Over("http", "http"), Context, <<step>>)
Faulty ==
  {One(Within(S("a", WithId, <<>>, <<>>), -1)),
   One(S("a", WithId, <<>>, <<P("status", Blank, "eq", "200", "nowhere")>>)),
   One(S("a", Empty, <<>>, <<>>)),
   One(Published(S("a", WithId, <<>>, <<>>))),
   One([S("a", WithId, <<>>, <<>>) EXCEPT !.method = Blank]),
   Config(Over("ftp", "ftp"), Context, <<>>),
   Config(Login(Over("http", "http"), "userpass"), Context, <<S("a", WithId, <<>>, <<>>)>>),
   Config(Over("http", "http"), [r |-> Generator("random_range")], <<S("a", Const("x"), <<>>, <<>>)>>)}

\* Accepted, and not built, or built and never sent.
Unbuildable ==
  {Config(Over("http", "ws"), Context, <<S("a", WithId, <<>>, <<>>)>>),
   Config(Over("http", "http"), [o |-> [Scalar EXCEPT !.kind = "odd"]], <<S("a", OfPlace, <<>>, <<>>)>>),
   Config(Over("http", "http"), [u |-> Generator(Blank)], <<S("a", OfPlace, <<>>, <<>>)>>),
   One(S("a", [Const("x") EXCEPT !.parses = FALSE], <<>>, <<>>)),
   One(S("a", Unparsed, <<>>, <<>>)),
   One(S("a", WithId, <<>>, <<[P("status", Blank, "expr ==", "x", Blank) EXCEPT !.compiles = FALSE]>>))}

MCSetups ==
  {Plain(NatsFlow), Plain(Branching), File(Polling, [concurrency |-> 2, timeout |-> 0], MockFile("https", Answering))}
  \cup {Plain(c) : c \in Faulty \cup Unbuildable}
  \cup {Plain(One(S("a", Hidden, <<>>, <<>>))),
        File(One(S("a", OfPlace, <<>>, <<>>)), <<>>, MockFile("http", Answering \o Answering))}
=============================================================================
