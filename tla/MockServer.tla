----------------------------- MODULE MockServer -----------------------------
(***************************************************************************)
(* The mock server (internal/mockserver): what an endpoint may answer, and *)
(* the server's own life.  Rates are in percent.                           *)
(***************************************************************************)
EXTENDS Replies

VARIABLE
  server  \* "new", "up", "stopping" (Shutdown waits), "down", or "gave_up"
          \* when the 5 s of Shutdown have passed; "failed" or "crashed" when
          \* it did not come up

\* text/template prints a reference to a missing key like this.
NoValue == "<no value>"

\* What template t, of JSON keys, renders to in an environment of namespaces.
Render(t, env) ==
  [k \in DOMAIN t.fields |->
    IF t.fields[k][1] = "const" THEN t.fields[k][2]
    ELSE Get(env[t.fields[k][1]], t.fields[k][2], NoValue)]

Possible(rate) == (IF rate > 0 THEN {TRUE} ELSE {}) \cup (IF rate < 100 THEN {FALSE} ELSE {})

\* If one of the fields is missing, none is extracted.
ExtractBodyFields(fields, body) ==
  IF fields \subseteq DOMAIN body THEN [f \in fields |-> body[f]] ELSE <<>>

\* The rolls of the dice: an answer is kept back, else one of the two
\* templates is rendered; "error" is a template that cannot be.
Handle(e, body) ==
  LET extracted == ExtractBodyFields(e.extracts, body)
      answer(isFail) ==
        LET t == IF isFail /\ DOMAIN e.fail.fields # {} THEN e.fail ELSE e.ok
        IN IF t.fails THEN [kind |-> "error", body |-> <<>>]
           ELSE [kind |-> "answer", body |-> Render(t, [extracted |-> extracted])]
  IN UNION {IF drop THEN {[kind |-> "none", body |-> <<>>]}
            ELSE {answer(f) : f \in Possible(e.fail_rate)} :
            drop \in Possible(e.no_answer_rate)}

Reply(status, json, body) ==
  [status |-> status, json |-> json, body |-> body, meta |-> <<>>,
   headers |-> IF status = 200 THEN ("Content-Type" :> "json") ELSE <<>>]

\* The HTTP handler around it: any FAIL answer is a 200 as well.
HttpReplies(method, e, body) ==
  IF method # (IF e.method = Blank THEN "POST" ELSE e.method)
  THEN {[kind |-> "answer", reply |-> Reply(405, FALSE, <<>>)]}
  ELSE {[kind |-> IF o.kind = "none" THEN "none" ELSE "answer",
         reply |-> IF o.kind = "error" THEN Reply(500, FALSE, <<>>)
                                       ELSE Reply(200, TRUE, o.body)] : o \in Handle(e, body)}

\* The NATS callback replies with what there is, on a render error with
\* nothing.
NatsReplies(e, body) ==
  {[kind |-> IF o.kind = "none" THEN "none" ELSE "answer",
    reply |-> Reply(0, TRUE, o.body)] : o \in Handle(e, body)}

-----------------------------------------------------------------------------

\* A second handler for a path makes the multiplexer panic, whatever its
\* method; the rules for the file let it pass.
DuplicatePath(m) ==
  m.type \in Http /\ \E i, j \in DOMAIN m.endpoints :
    i # j /\ m.endpoints[i].path = m.endpoints[j].path

\* The address, the broker, a certificate or a subscription may fail.
ServerStart(m) ==
  /\ server = "new"
  /\ ValidateMock(m) = {}
  /\ server' \in (IF DuplicatePath(m) THEN {"crashed"} ELSE {"up", "failed"})

\* Stop: NATS closes at once, HTTP stops listening and waits for the handlers
\* that hold a request.
ServerStop(isNats) ==
  /\ server = "up"
  /\ server' = IF isNats THEN "down" ELSE "stopping"

ShutdownEnds(held) ==
  /\ server = "stopping"
  /\ server' = IF held = {} THEN "down" ELSE "gave_up"
=============================================================================
