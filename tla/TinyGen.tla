------------------------------- MODULE TinyGen -------------------------------
(***************************************************************************)
(* The later passes of the TINY compiler: symbol table and type check      *)
(* (analyze.c, symtab.c), code generation with backpatching (cgen.c,       *)
(* code.c).  Only a tree without syntax errors gets here.                  *)
(***************************************************************************)
EXTENDS Integers, Sequences, SequencesExt

(***************************************************************************)
(* buildSymtab: each name gets the next location where traverse first      *)
(* meets it, in preorder.  The hash table is a function from names.        *)
(***************************************************************************)
\* mutant: a name met again is entered anew, with the 0 that comes with it
MutInsert(st, name) ==
  (name :> IF name \in DOMAIN st THEN 0 ELSE Cardinality(DOMAIN st)) @@ st

st_insert(st, name) == IF name \in DOMAIN st THEN st ELSE st @@ (name :> Cardinality(DOMAIN st))

RECURSIVE InsertExp(_, _), InsertStmts(_, _)
InsertExp(st, e) ==
  CASE e.k = "id" -> st_insert(st, e.name)
    [] e.k = "op" -> InsertExp(InsertExp(st, e.l), e.r)
    [] OTHER      -> st

InsertNode(st, s) ==
  CASE s.k = "if"     -> InsertStmts(InsertStmts(InsertExp(st, s.test), s.then), s.else)
    [] s.k = "repeat" -> InsertExp(InsertStmts(st, s.body), s.test)
    [] s.k = "assign" -> InsertExp(st_insert(st, s.name), s.e)
    [] s.k = "read"   -> st_insert(st, s.name)
    [] s.k = "write"  -> InsertExp(st, s.e)

InsertStmts(st, ss) == FoldLeft(InsertNode, st, ss)

BuildSymtab(ss) == InsertStmts(<<>>, ss)

(***************************************************************************)
(* typeCheck: an operator is applied to integers, a test is a comparison,  *)
(* what is assigned or written is not.                                     *)
(***************************************************************************)
Type(e) == IF e.k = "op" /\ e.op \in {"EQ", "LT"} THEN "Boolean" ELSE "Integer"

RECURSIVE ExpError(_), StmtsError(_)
ExpError(e) ==
  /\ e.k = "op"
  /\ Type(e.l) # "Integer" \/ Type(e.r) # "Integer" \/ ExpError(e.l) \/ ExpError(e.r)

NodeError(s) ==
  CASE s.k = "if"     -> Type(s.test) = "Integer" \/ ExpError(s.test)
                         \/ StmtsError(s.then) \/ StmtsError(s.else)
    [] s.k = "repeat" -> Type(s.test) = "Integer" \/ ExpError(s.test) \/ StmtsError(s.body)
    [] s.k \in {"assign", "write"} -> Type(s.e) # "Integer" \/ ExpError(s.e)
    [] OTHER          -> FALSE

StmtsError(ss) == \E i \in DOMAIN ss : NodeError(ss[i])

(***************************************************************************)
(* code.c: the lines written so far, where the next goes, the highest      *)
(* location reached; and cgen.c's offset for temporaries.                  *)
(***************************************************************************)
Emitter == [lines |-> <<>>, emitLoc |-> 0, highEmitLoc |-> 0, tmpOffset |-> 0]

pc == 7
mp == 6
gp == 5
ac == 0
ac1 == 1

SetLoc(g, loc) ==
  [g EXCEPT !.emitLoc = loc, !.highEmitLoc = IF @ < loc THEN loc ELSE @]

\* emitRO and emitRM: one line at the current location.
Emit(g, iop, a, b, c) ==
  SetLoc([g EXCEPT !.lines = Append(@, [loc |-> g.emitLoc, iop |-> iop,
                                        iarg1 |-> a, iarg2 |-> b, iarg3 |-> c])],
         g.emitLoc + 1)

emitRM_Abs(g, iop, r, a) == Emit(g, iop, r, a - (g.emitLoc + 1), pc)
emitSkip(g, howMany) == SetLoc(g, g.emitLoc + howMany)
emitBackup(g, loc) == [g EXCEPT !.emitLoc = loc]

\* mutant: emission goes on right behind the backpatched line
MutRestore(g) == g

emitRestore(g) == [g EXCEPT !.emitLoc = g.highEmitLoc]

(***************************************************************************)
(* cgen.c                                                                  *)
(***************************************************************************)
ArithmeticOp == ("PLUS" :> "ADD") @@ ("MINUS" :> "SUB") @@ ("TIMES" :> "MUL") @@ ("OVER" :> "DIV")

\* mutant: the operands of the subtraction are exchanged
MutCompare(g, jump) ==
  LET g1 == Emit(g, "SUB", ac, ac, ac1)
      g2 == Emit(g1, jump, ac, 2, pc)
      g3 == Emit(g2, "LDC", ac, 0, ac)
      g4 == Emit(g3, "LDA", pc, 1, pc)
  IN  Emit(g4, "LDC", ac, 1, ac)

\* ac becomes 1 or 0 by the sign of ac1 - ac.
Compare(g, jump) ==
  LET g1 == Emit(g, "SUB", ac, ac1, ac)
      g2 == Emit(g1, jump, ac, 2, pc)
      g3 == Emit(g2, "LDC", ac, 0, ac)
      g4 == Emit(g3, "LDA", pc, 1, pc)
  IN  Emit(g4, "LDC", ac, 1, ac)

\* mutant: every operand is pushed at the same offset
MutPush(g) == Emit(g, "ST", ac, g.tmpOffset, mp)

\* emitRM("ST",ac,tmpOffset--,mp) and emitRM("LD",ac1,++tmpOffset,mp)
Push(g) == [Emit(g, "ST", ac, g.tmpOffset, mp) EXCEPT !.tmpOffset = @ - 1]
Pop(g) == Emit([g EXCEPT !.tmpOffset = @ + 1], "LD", ac1, g.tmpOffset + 1, mp)

RECURSIVE GenExp(_, _, _), GenStmts(_, _, _)
GenExp(g, st, e) ==
  CASE e.k = "const" -> Emit(g, "LDC", ac, e.val, 0)
    [] e.k = "id"    -> Emit(g, "LD", ac, st[e.name], gp)
    [] e.k = "op"    ->
         LET h == Pop(GenExp(Push(GenExp(g, st, e.l)), st, e.r))
         IN  CASE e.op = "LT" -> Compare(h, "JLT")
               [] e.op = "EQ" -> Compare(h, "JEQ")
               [] OTHER       -> Emit(h, ArithmeticOp[e.op], ac, ac1, ac)

GenIf(g, st, s) ==
  LET g1 == GenExp(g, st, s.test)
      savedLoc1 == g1.emitLoc
      g2 == GenStmts(emitSkip(g1, 1), st, s.then)
      savedLoc2 == g2.emitLoc
      g3 == emitSkip(g2, 1)
      g4 == emitRestore(emitRM_Abs(emitBackup(g3, savedLoc1), "JEQ", ac, g3.emitLoc))
      g5 == GenStmts(g4, st, s.else)
  IN  emitRestore(emitRM_Abs(emitBackup(g5, savedLoc2), "LDA", pc, g5.emitLoc))

GenRepeat(g, st, s) ==
  emitRM_Abs(GenExp(GenStmts(g, st, s.body), st, s.test), "JEQ", ac, g.emitLoc)

GenStmt(st, g, s) ==
  CASE s.k = "if"     -> GenIf(g, st, s)
    [] s.k = "repeat" -> GenRepeat(g, st, s)
    [] s.k = "assign" -> Emit(GenExp(g, st, s.e), "ST", ac, st[s.name], gp)
    [] s.k = "read"   -> Emit(Emit(g, "IN", ac, 0, 0), "ST", ac, st[s.name], gp)
    [] s.k = "write"  -> Emit(GenExp(g, st, s.e), "OUT", ac, 0, 0)

GenStmts(g, st, ss) == FoldLeft(LAMBDA h, s : GenStmt(st, h, s), g, ss)

CodeGen(ss, st) ==
  LET prelude == Emit(Emit(Emitter, "LD", mp, 0, ac), "ST", ac, 0, ac)
  IN  Emit(GenStmts(prelude, st, ss), "HALT", 0, 0, 0).lines
=============================================================================
