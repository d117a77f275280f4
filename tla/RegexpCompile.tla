--------------------------- MODULE RegexpCompile ---------------------------
(***************************************************************************)
(* The compiler shared by the three matchers of src/regexp: infix pattern  *)
(* to postfix (re2post), postfix to a nondeterministic automaton           *)
(* (post2nfa).  A pattern is a sequence of tokens: the members of Chars    *)
(* and the six operators.  The lines given in the map are those of dfa1.c; *)
(* nfa.c and dfa0.c hold the same text.                                    *)
(***************************************************************************)
EXTENDS Integers, Sequences, SequencesExt

CONSTANTS
  Chars,    \* the characters that stand for themselves
  MAXPAREN  \* size of re2post's array paren (100 in the code)

Repeats == {"*", "+", "?"}
Tokens == Chars \cup Repeats \cup {"(", ")", "|"}

(***************************************************************************)
(* re2post.  The two counters of the current group, the saved counters of  *)
(* the groups around it, and the text written so far.                      *)
(***************************************************************************)
Converter == [ok |-> TRUE, nalt |-> 0, natom |-> 0, paren |-> <<>>, dst |-> <<>>]

Rejected(p) == [p EXCEPT !.ok = FALSE]

\* if(natom > 1){ --natom; *dst++ = '.'; }
JoinAtoms(p) ==
  IF p.natom > 1 THEN [p EXCEPT !.natom = @ - 1, !.dst = Append(@, ".")] ELSE p

\* while(--natom > 0) *dst++ = '.';
JoinAll(p) ==
  [p EXCEPT !.natom = 0, !.dst = @ \o [i \in 1 .. (p.natom - 1) |-> "."]]

\* for(; nalt > 0; nalt--) *dst++ = '|';
CloseAlternatives(p) ==
  [p EXCEPT !.nalt = 0, !.dst = @ \o [i \in 1 .. p.nalt |-> "|"]]

OpenGroup(p) ==
  LET q == JoinAtoms(p)
  IN  IF Len(q.paren) >= MAXPAREN THEN Rejected(q)
      ELSE [q EXCEPT !.paren = Append(@, <<q.nalt, q.natom>>),
                     !.nalt = 0, !.natom = 0]

Alternative(p) ==
  IF p.natom = 0 THEN Rejected(p) ELSE [JoinAll(p) EXCEPT !.nalt = @ + 1]

\* mutant: an empty group is let through
MutCloseEmpty(p) ==
  IF p.paren = <<>> THEN Rejected(p)
  ELSE LET saved == Last(p.paren)
       IN  [CloseAlternatives(JoinAll(p)) EXCEPT
              !.paren = Front(@), !.nalt = saved[1], !.natom = saved[2] + 1]

CloseGroup(p) ==
  IF p.paren = <<>> \/ p.natom = 0 THEN Rejected(p)
  ELSE LET saved == Last(p.paren)
       IN  [CloseAlternatives(JoinAll(p)) EXCEPT
              !.paren = Front(@), !.nalt = saved[1], !.natom = saved[2] + 1]

Repeat(p, t) == IF p.natom = 0 THEN Rejected(p) ELSE [p EXCEPT !.dst = Append(@, t)]

Atom(p, t) ==
  LET q == JoinAtoms(p)
  IN  [q EXCEPT !.dst = Append(@, t), !.natom = @ + 1]

InfixToken(p, t) ==
  IF ~p.ok THEN p
  ELSE CASE t = "("      -> OpenGroup(p)
         [] t = "|"      -> Alternative(p)
         [] t = ")"      -> CloseGroup(p)
         [] t \in Repeats -> Repeat(p, t)
         [] OTHER        -> Atom(p, t)

\* The postfix text, with ok = FALSE for NULL.
Re2post(re) ==
  LET turn[n \in Nat] == IF n = 0 THEN Converter ELSE InfixToken(turn[n - 1], re[n])
      p == turn[Len(re)]
  IN  IF p.ok /\ p.paren = <<>> THEN CloseAlternatives(JoinAll(p)) ELSE Rejected(p)

(***************************************************************************)
(* post2nfa.  The automaton is a sequence of states; state 1 is the static *)
(* matchstate, the others are malloc'ed in order, 0 is the null pointer.   *)
(* A fragment's list of dangling arrows is a sequence of <<state, field>>. *)
(***************************************************************************)
NULL == 0
MATCHSTATE == 1

State(c, out, out1) == [c |-> c, out |-> out, out1 |-> out1]
Frag(start, out) == [start |-> start, out |-> out]

Builder == [nodes |-> <<State("Match", NULL, NULL)>>, stack |-> <<>>, underflow |-> FALSE]

Patch(nodes, l, s) ==
  [i \in DOMAIN nodes |->
     State(nodes[i].c, IF <<i, "out">> \in ToSet(l) THEN s ELSE nodes[i].out,
                       IF <<i, "out1">> \in ToSet(l) THEN s ELSE nodes[i].out1)]

\* b with the n topmost fragments replaced by e, over the states ns.
Push(b, n, ns, e) ==
  [b EXCEPT !.nodes = ns, !.stack = Append(SubSeq(@, 1, Len(@) - n), e)]

Catenate(b) ==
  LET e1 == b.stack[Len(b.stack) - 1]
      e2 == Last(b.stack)
  IN  Push(b, 2, Patch(b.nodes, e1.out, e2.start), Frag(e1.start, e2.out))

Alternate(b, s) ==
  LET e1 == b.stack[Len(b.stack) - 1]
      e2 == Last(b.stack)
  IN  Push(b, 2, Append(b.nodes, State("Split", e1.start, e2.start)),
           Frag(s, e1.out \o e2.out))

ZeroOrOne(b, s) ==
  LET e == Last(b.stack)
  IN  Push(b, 1, Append(b.nodes, State("Split", e.start, NULL)),
           Frag(s, e.out \o <<<<s, "out1">>>>))

ZeroOrMore(b, s) ==
  LET e == Last(b.stack)
  IN  Push(b, 1, Patch(Append(b.nodes, State("Split", e.start, NULL)), e.out, s),
           Frag(s, <<<<s, "out1">>>>))

\* mutant: the fragment starts at the split
MutPlus(b, s) ==
  LET e == Last(b.stack)
  IN  Push(b, 1, Patch(Append(b.nodes, State("Split", e.start, NULL)), e.out, s),
           Frag(s, <<<<s, "out1">>>>))

OneOrMore(b, s) ==
  LET e == Last(b.stack)
  IN  Push(b, 1, Patch(Append(b.nodes, State("Split", e.start, NULL)), e.out, s),
           Frag(e.start, <<<<s, "out1">>>>))

Literal(b, s, t) ==
  Push(b, 0, Append(b.nodes, State(t, NULL, NULL)), Frag(s, <<<<s, "out">>>>))

PostfixToken(b, t) ==
  LET s == Len(b.nodes) + 1   \* where the next malloc'ed state goes
      needed == CASE t \in {".", "|"} -> 2 [] t \in Repeats -> 1 [] OTHER -> 0
  IN  IF b.underflow \/ Len(b.stack) < needed THEN [b EXCEPT !.underflow = TRUE]
      ELSE CASE t = "." -> Catenate(b)
             [] t = "|" -> Alternate(b, s)
             [] t = "?" -> ZeroOrOne(b, s)
             [] t = "*" -> ZeroOrMore(b, s)
             [] t = "+" -> OneOrMore(b, s)
             [] OTHER   -> Literal(b, s, t)

(***************************************************************************)
(* What main has before its loop over the strings: status "ok" with the    *)
(* automaton, "rejected" where a NULL made it exit, "undefined" where      *)
(* post2nfa read below its stack.                                          *)
(***************************************************************************)
NoAutomaton(status) == [status |-> status, nodes |-> <<>>, start |-> NULL]

Post2nfa(postfix) ==
  LET turn[n \in Nat] == IF n = 0 THEN Builder ELSE PostfixToken(turn[n - 1], postfix[n])
      b == turn[Len(postfix)]
      e == Last(b.stack)
  IN  CASE b.underflow \/ b.stack = <<>> -> NoAutomaton("undefined")
        [] ~b.underflow /\ Len(b.stack) > 1 -> NoAutomaton("rejected")
        [] OTHER -> [status |-> "ok", nodes |-> Patch(b.nodes, e.out, MATCHSTATE),
                     start |-> e.start]

Compile(re) ==
  LET post == Re2post(re)
  IN  IF post.ok THEN Post2nfa(post.dst) ELSE NoAutomaton("rejected")
=============================================================================
