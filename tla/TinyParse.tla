------------------------------ MODULE TinyParse ------------------------------
(***************************************************************************)
(* The parser of the TINY compiler (parse.c) with its error recovery: a    *)
(* token that match does not expect stays where it is, one that begins no  *)
(* statement or factor is thrown away, and parsing goes on.  A parser      *)
(* state p is the list of tokens from the current one on, the flag Error,  *)
(* and the stack of the locals and results of the procedures under way; a  *)
(* procedure takes a state to the state it leaves, its tree on top.        *)
(***************************************************************************)
EXTENDS Integers, Sequences, SequencesExt

\* A tree: statements are sequences (the sibling chain), NULL is NoExp.
NoExp == [k |-> "none"]
Const(v) == [k |-> "const", val |-> v]
Id(x) == [k |-> "id", name |-> x]
Op(op, l, r) == [k |-> "op", op |-> op, l |-> l, r |-> r]
If(test, then, else) == [k |-> "if", test |-> test, then |-> then, else |-> else]
RepeatUntil(body, test) == [k |-> "repeat", body |-> body, test |-> test]
Assign(x, e) == [k |-> "assign", name |-> x, e |-> e]
Read(x) == [k |-> "read", name |-> x]
Write(e) == [k |-> "write", e |-> e]

Current(p) == IF p.in = <<>> THEN "ENDFILE" ELSE Head(p.in).tok
Lexeme(p) == Head(p.in).lex
Advance(p) == IF p.in = <<>> THEN p ELSE [p EXCEPT !.in = Tail(@)]
SyntaxError(p) == [p EXCEPT !.error = TRUE]

Put(p, t) == [p EXCEPT !.stack = Append(@, t)]
Arg(p, k) == p.stack[Len(p.stack) - k + 1]
Replace(p, n, t) == [p EXCEPT !.stack = Append(SubSeq(@, 1, Len(@) - n), t)]

\* mutant: the unexpected token is dropped without a word
MutMatch(p, expected) == Advance(p)

Match(p, expected) == IF Current(p) = expected THEN Advance(p) ELSE SyntaxError(p)

\* t->attr.name is set only when the token is an ID.
NameAt(p) == IF Current(p) = "ID" THEN Lexeme(p) ELSE <<>>

DigitValue == ("0" :> 0) @@ ("1" :> 1) @@ ("2" :> 2) @@ ("3" :> 3)
Atoi(lex) == FoldLeft(LAMBDA n, c : 10 * n + DigitValue[c], 0, lex)

RECURSIVE Expr(_), Statement(_)

Factor(p) ==
  CASE Current(p) = "NUM"    -> Advance(Put(p, Const(Atoi(Lexeme(p)))))
    [] Current(p) = "ID"     -> Advance(Put(p, Id(Lexeme(p))))
    [] Current(p) = "LPAREN" -> Match(Expr(Advance(p)), "RPAREN")
    [] OTHER                 -> Advance(SyntaxError(Put(p, NoExp)))

\* p->child[0] = t; p->attr.op = token; match(token) ... and child[1].
Operator(p) == Advance(Put(p, Current(p)))
Binary(p) == Replace(p, 3, Op(Arg(p, 2), Arg(p, 3), Arg(p, 1)))

RECURSIVE Factors(_), Terms(_), Statements(_)
Factors(p) ==
  IF Current(p) \in {"TIMES", "OVER"} THEN Factors(Binary(Factor(Operator(p)))) ELSE p

Term(p) == Factors(Factor(p))

\* mutant: the operators + and - associate to the right
MutTerms(p) ==
  IF Current(p) \in {"PLUS", "MINUS"} THEN Binary(Terms(Term(Operator(p)))) ELSE p

Terms(p) ==
  IF Current(p) \in {"PLUS", "MINUS"} THEN Terms(Binary(Term(Operator(p)))) ELSE p

SimpleExp(p) == Terms(Term(p))

Comparison(p) == IF Current(p) \in {"LT", "EQ"} THEN Binary(SimpleExp(Operator(p))) ELSE p

Expr(p) == Comparison(SimpleExp(p))

\* The loop of stmt_sequence: a statement returns a list of one or none.
Sibling(p) == Replace(p, 2, Arg(p, 2) \o Arg(p, 1))

Statements(p) ==
  IF Current(p) \in {"ENDFILE", "END", "ELSE", "UNTIL"} THEN p
  ELSE Statements(Sibling(Statement(Match(p, "SEMI"))))

StmtSequence(p) == Statements(Statement(p))

ElsePart(p) == IF Current(p) = "ELSE" THEN StmtSequence(Advance(p)) ELSE Put(p, <<>>)

IfNode(p) == Replace(p, 3, <<If(Arg(p, 3), Arg(p, 2), Arg(p, 1))>>)
IfStmt(p) == Match(IfNode(ElsePart(StmtSequence(Match(Expr(Advance(p)), "THEN")))), "END")

RepeatNode(p) == Replace(p, 2, <<RepeatUntil(Arg(p, 2), Arg(p, 1))>>)
RepeatStmt(p) == RepeatNode(Expr(Match(StmtSequence(Advance(p)), "UNTIL")))

AssignNode(p) == Replace(p, 2, <<Assign(Arg(p, 2), Arg(p, 1))>>)
AssignStmt(p) == AssignNode(Expr(Match(Advance(Put(p, NameAt(p))), "ASSIGN")))

ReadNode(p) == Match(Put(p, <<Read(NameAt(p))>>), "ID")
ReadStmt(p) == ReadNode(Advance(p))

WriteNode(p) == Replace(p, 1, <<Write(Arg(p, 1))>>)
WriteStmt(p) == WriteNode(Expr(Advance(p)))

Statement(p) ==
  CASE Current(p) = "IF"     -> IfStmt(p)
    [] Current(p) = "REPEAT" -> RepeatStmt(p)
    [] Current(p) = "ID"     -> AssignStmt(p)
    [] Current(p) = "READ"   -> ReadStmt(p)
    [] Current(p) = "WRITE"  -> WriteStmt(p)
    [] OTHER                 -> Advance(SyntaxError(Put(p, <<>>)))

\* parse(): the statements, and Error, which is also set when tokens are left.
Parse(tokens) ==
  LET p == StmtSequence([in |-> tokens, error |-> FALSE, stack |-> <<>>])
  IN  [stmts |-> Arg(p, 1), error |-> p.error \/ Current(p) # "ENDFILE"]
=============================================================================
