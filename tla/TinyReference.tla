---------------------------- MODULE TinyReference ----------------------------
(***************************************************************************)
(* What TINY means, without the compiler: the grammar of yacc/tiny.y as a  *)
(* set of ends for each phrase and start (no lookahead, no recovery), the  *)
(* canonical text of a tree, and an interpreter of trees.                  *)
(***************************************************************************)
EXTENDS TinyParse, FiniteSets

At(t, i) == IF i \in DOMAIN t THEN t[i].tok ELSE "ENDFILE"
After(t, S, toks) == {i + 1 : i \in {j \in S : At(t, j) \in toks}}

RECURSIVE ExpEnds(_, _), StmtEnds(_, _), TermMore(_, _), SumMore(_, _), SeqMore(_, _)
FactorEnds(t, i) ==
  After(t, {i}, {"NUM", "ID"}) \cup After(t, ExpEnds(t, After(t, {i}, {"LPAREN"})), {"RPAREN"})

Factors1(t, S) == UNION {FactorEnds(t, i) : i \in S}
TermMore(t, S) ==
  LET N == S \cup Factors1(t, After(t, S, {"TIMES", "OVER"})) IN IF N = S THEN S ELSE TermMore(t, N)
TermEnds(t, S) == TermMore(t, Factors1(t, S))

SumMore(t, S) ==
  LET N == S \cup TermEnds(t, After(t, S, {"PLUS", "MINUS"})) IN IF N = S THEN S ELSE SumMore(t, N)
SumEnds(t, S) == SumMore(t, TermEnds(t, S))

\* The starts are a set: where it is empty so is the result, which ends the
\* recursion.
ExpEnds(t, S) ==
  IF S = {} THEN {} ELSE SumEnds(t, S) \cup SumEnds(t, After(t, SumEnds(t, S), {"LT", "EQ"}))

SeqMore(t, S) ==
  LET N == S \cup StmtEnds(t, After(t, S, {"SEMI"})) IN IF N = S THEN S ELSE SeqMore(t, N)
SeqEnds(t, S) == IF S = {} THEN {} ELSE SeqMore(t, StmtEnds(t, S))

StmtEnds(t, S) ==
  LET then == SeqEnds(t, After(t, ExpEnds(t, After(t, S, {"IF"})), {"THEN"}))
      else == SeqEnds(t, After(t, then, {"ELSE"}))
      body == SeqEnds(t, After(t, S, {"REPEAT"}))
  IN  After(t, then \cup else, {"END"})
      \cup ExpEnds(t, After(t, body, {"UNTIL"}))
      \cup ExpEnds(t, After(t, After(t, S, {"ID"}), {"ASSIGN"}))
      \cup After(t, After(t, S, {"READ"}), {"ID"})
      \cup ExpEnds(t, After(t, S, {"WRITE"}))

InGrammar(t) == Len(t) + 1 \in SeqEnds(t, {1})

(***************************************************************************)
(* Only comparisons are tests, and only of numbers.                        *)
(***************************************************************************)
RECURSIVE Number(_)
Number(e) ==
  \/ e.k \in {"const", "id"}
  \/ e.k = "op" /\ e.op \notin {"EQ", "LT"} /\ Number(e.l) /\ Number(e.r)
Test(e) == e.k = "op" /\ e.op \in {"EQ", "LT"} /\ Number(e.l) /\ Number(e.r)

RECURSIVE WellTyped(_)
WellTyped(ss) ==
  \A i \in DOMAIN ss :
    LET s == ss[i]
    IN  CASE s.k = "if"     -> Test(s.test) /\ WellTyped(s.then) /\ WellTyped(s.else)
          [] s.k = "repeat" -> Test(s.test) /\ WellTyped(s.body)
          [] s.k = "read"   -> TRUE
          [] OTHER          -> Number(s.e)

(***************************************************************************)
(* The tokens of a tree, parenthesised only where the grammar needs it.    *)
(***************************************************************************)
T(tok) == <<[tok |-> tok, lex |-> <<>>]>>
Name(x) == <<[tok |-> "ID", lex |-> x]>>

Level(e) ==
  CASE e.k # "op" -> 3
    [] e.op \in {"TIMES", "OVER"} -> 2
    [] e.op \in {"PLUS", "MINUS"} -> 1
    [] OTHER -> 0

Digit == ("0" :> 0) @@ ("1" :> 1) @@ ("2" :> 2) @@ ("3" :> 3)

RECURSIVE UnparseExp(_, _), Unparse(_)
UnparseExp(e, level) ==
  LET l == Level(e)
      text == CASE e.k = "const" -> <<[tok |-> "NUM", lex |-> <<CHOOSE d \in DOMAIN Digit : Digit[d] = e.val>>]>>
                [] e.k = "id"    -> Name(e.name)
                [] e.k = "op"    -> UnparseExp(e.l, IF l = 0 THEN 1 ELSE l) \o T(e.op)
                                    \o UnparseExp(e.r, l + 1)
  IN  IF l < level THEN T("LPAREN") \o text \o T("RPAREN") ELSE text

UnparseStmt(s) ==
  CASE s.k = "if"     -> T("IF") \o UnparseExp(s.test, 0) \o T("THEN") \o Unparse(s.then)
                         \o (IF s.else = <<>> THEN <<>> ELSE T("ELSE") \o Unparse(s.else)) \o T("END")
    [] s.k = "repeat" -> T("REPEAT") \o Unparse(s.body) \o T("UNTIL") \o UnparseExp(s.test, 0)
    [] s.k = "assign" -> Name(s.name) \o T("ASSIGN") \o UnparseExp(s.e, 0)
    [] s.k = "read"   -> T("READ") \o Name(s.name)
    [] s.k = "write"  -> T("WRITE") \o UnparseExp(s.e, 0)

Unparse(ss) ==
  IF Len(ss) = 1 THEN UnparseStmt(ss[1])
  ELSE UnparseStmt(ss[1]) \o T("SEMI") \o Unparse(Tail(ss))

(***************************************************************************)
(* The meaning of a tree for the given inputs.  A state m is the values of *)
(* the variables (0 where none was given), what is still to be read, what  *)
(* was written, the rounds of loops left, and the status: "ok" or why the  *)
(* program stopped.  An expression stops it too; max is the largest int,   *)
(* and two values are only compared when their difference is an int.       *)
(***************************************************************************)
Abs(x) == IF x < 0 THEN -x ELSE x
Sign(x) == IF x < 0 THEN -1 ELSE 1

Apply(op, a, b) ==
  CASE op = "PLUS"  -> a + b
    [] op = "MINUS" -> a - b
    [] op = "TIMES" -> a * b
    [] op = "OVER"  -> Sign(a) * Sign(b) * (Abs(a) \div Abs(b))
    [] op = "EQ"    -> IF a = b THEN 1 ELSE 0
    [] op = "LT"    -> IF a < b THEN 1 ELSE 0

Value(v) == [status |-> "ok", v |-> v]
Stop(status) == [status |-> status, v |-> 0]

RECURSIVE Eval(_, _, _)
Eval(env, e, max) ==
  CASE e.k = "const" -> Value(e.val)
    [] e.k = "id"    -> Value(IF e.name \in DOMAIN env THEN env[e.name] ELSE 0)
    [] e.k = "op"    ->
         LET a == Eval(env, e.l, max)
             b == Eval(env, e.r, max)
             checked == IF e.op \in {"EQ", "LT"} THEN a.v - b.v ELSE Apply(e.op, a.v, b.v)
         IN  CASE a.status # "ok" -> a
               [] b.status # "ok" -> b
               [] e.op = "OVER" /\ b.v = 0 -> Stop("div0")
               [] checked > max \/ checked < -max - 1 -> Stop("overflow")
               [] OTHER -> Value(Apply(e.op, a.v, b.v))

RECURSIVE Perform(_, _, _)
Loop(m, s, max) ==
  LET once == Perform(m, s.body, max)
      test == Eval(once.env, s.test, max)
  IN  CASE once.status # "ok" -> once
        [] test.status # "ok" -> [once EXCEPT !.status = test.status]
        [] test.v # 0         -> once
        [] m.rounds = 0       -> [once EXCEPT !.status = "endless"]
        [] OTHER -> Perform([once EXCEPT !.rounds = m.rounds - 1], <<s>>, max)

Assigned(m, x, v) == [m EXCEPT !.env = (x :> v) @@ @]

One(m, s, max) ==
  IF s.k = "repeat" THEN Loop(m, s, max)
  ELSE IF s.k = "read" THEN
    IF m.in = <<>> THEN [m EXCEPT !.status = "waiting"]
    ELSE Assigned([m EXCEPT !.in = Tail(@)], s.name, Head(m.in))
  ELSE
    LET r == Eval(m.env, IF s.k = "if" THEN s.test ELSE s.e, max)
    IN  CASE r.status # "ok" -> [m EXCEPT !.status = r.status]
          [] s.k = "if"     -> Perform(m, IF r.v # 0 THEN s.then ELSE s.else, max)
          [] s.k = "assign" -> Assigned(m, s.name, r.v)
          [] s.k = "write"  -> [m EXCEPT !.out = Append(@, r.v)]

Perform(m, ss, max) ==
  IF ss = <<>> \/ m.status # "ok" THEN m ELSE Perform(One(m, Head(ss), max), Tail(ss), max)

Meaning(ss, inputs, max) ==
  Perform([env |-> <<>>, in |-> inputs, out |-> <<>>, rounds |-> 2 * (max + 1), status |-> "ok"], ss, max)
=============================================================================
