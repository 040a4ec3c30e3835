------------------------------- MODULE Replies -------------------------------
(***************************************************************************)
(* What a session makes of a reply: it extracts fields                     *)
(* (internal/template/extractor.go) and evaluates predicates               *)
(* (internal/engine/predicate).                                            *)
(*                                                                         *)
(* A reply is a record: status (0 over NATS), headers, meta (the NATS      *)
(* headers), and a body that is JSON or not, a function from the keys of   *)
(* the object to their values.  Values are texts; a path is a sequence,    *)
(* its segments between slashes.                                           *)
(***************************************************************************)
EXTENDS ScenarioRules, TLC

CONSTANT Numbers  \* the integers whose texts ParseFloat and Atoi understand

NumberTexts == {ToString(n) : n \in Numbers}
NumberOf(text) == CHOOSE n \in Numbers : ToString(n) = text

Get(map, key, default) == IF key \in DOMAIN map THEN map[key] ELSE default

-----------------------------------------------------------------------------
(* Extraction: the value, or an error. *)

Failure == [ok |-> FALSE, value |-> Blank]
Found(value) == [ok |-> TRUE, value |-> value]
Look(map, key) == IF key \in DOMAIN map THEN Found(map[key]) ELSE Failure

ExtractJSON(reply, rest) ==
  IF DOMAIN reply.body = {} THEN Failure
  ELSE IF rest = <<>> THEN Found("raw")
  ELSE IF ~reply.json \/ Len(rest) > 1 THEN Failure
  ELSE Look(reply.body, Head(rest))

Extract(reply, path) ==
  LET prefix == Head(path)
      key == IF Len(path) > 1 THEN path[2] ELSE Blank
  IN CASE path = <<"status">>              -> Found(ToString(reply.status))
       [] prefix \in {"response", "body"}  -> ExtractJSON(reply, Tail(path))
       [] prefix = "header"                -> Look(reply.headers, key)
       [] prefix = "meta"                  -> Look(reply.meta, key)
       [] OTHER                            -> Failure

-----------------------------------------------------------------------------
(* The classic operators compare texts, or numbers where both sides are. *)

\* A field that is neither the status nor of the session stands for itself.
ClassicLookup(p, vals) ==
  CASE p.field = "status"  -> Get(vals, "status", Blank)
    [] p.field = "session" -> Get(vals, p.key, Blank)
    [] OTHER               -> p.field

NumericCompare(op, lhs, rhs) ==
  /\ {lhs, rhs} \subseteq NumberTexts
  /\ IF op = "gt" THEN NumberOf(lhs) > NumberOf(rhs) ELSE NumberOf(lhs) < NumberOf(rhs)

MatchesClassic(p, vals) ==
  LET lhs == ClassicLookup(p, vals)
  IN CASE p.op = "eq"       -> lhs = p.value
       [] p.op = "ne"       -> lhs # p.value
       [] p.op = "contains" -> p.value \in {Blank, lhs}
       [] p.op \in {"gt", "lt"} -> NumericCompare(p.op, lhs, p.value)
       [] OTHER             -> FALSE

\* The status of a reply that has one shadows an extracted field "status".
MergedSession(reply, vals) ==
  IF reply.status = 0 THEN vals ELSE ("status" :> ToString(reply.status)) @@ vals

-----------------------------------------------------------------------------
(* An expr program compares one operand, of the namespace p.field, with    *)
(* the literal p.value.  Only the status is a number.                      *)

Compile(p) == p.compiles

\* The body is a tree only under a JSON Content-Type, which NATS does not
\* have: over NATS it is a text.
IsTree(reply) == reply.json /\ Get(reply.headers, "Content-Type", Blank) = "json"

\* A key the program names but the session or the headers lack reads as "";
\* one the tree lacks is nil.
Operand(p, reply, vals) ==
  CASE p.field = "status"  -> ToString(reply.status)
    [] p.field = "session" -> Get(vals, p.key, Blank)
    [] p.field = "headers" -> Get(reply.headers, p.key, Blank)
    [] p.field = "body"    -> Get(reply.body, p.key, "nil")

\* A text has no fields, and no text is greater than a number.
EvalFails(p, reply) ==
  \/ p.field = "body" /\ ~IsTree(reply)
  \/ p.op = "expr >" /\ p.field # "status"

Eval(p, reply, vals) ==
  IF p.op = "expr >" THEN reply.status > NumberOf(p.value)
  ELSE Operand(p, reply, vals) = p.value

-----------------------------------------------------------------------------

IsExpr(p) == p.op \in {"expr ==", "expr >"}

Matches(p, reply, vals) ==
  IF IsExpr(p) THEN Compile(p) /\ ~EvalFails(p, reply) /\ Eval(p, reply, vals)
  ELSE MatchesClassic(p, MergedSession(reply, vals))

\* The first predicate that holds decides; one that fails does not hold.
Evaluate(predicates, reply, vals) ==
  LET hits == {i \in DOMAIN predicates : Matches(predicates[i], reply, vals)}
  IN IF hits = {} THEN [hit |-> FALSE, name |-> Blank, next |-> Blank]
     ELSE LET p == predicates[CHOOSE i \in hits : \A j \in hits : i <= j]
          IN [hit |-> TRUE, name |-> p.name, next |-> p.next]
=============================================================================
