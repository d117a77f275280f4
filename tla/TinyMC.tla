------------------------------- MODULE TinyMC -------------------------------
(***************************************************************************)
(* Instances of Tiny: small programs, the same programs with one token     *)
(* wrong, several ways to lay a text out; and the properties.              *)
(***************************************************************************)
EXTENDS Tiny, FiniteSets

Reference == INSTANCE TinyReference

(***************************************************************************)
(* The programs, as trees.                                                 *)
(***************************************************************************)
x == <<"x">>
y == <<"f", "a">>
Plus(a, b) == Op("PLUS", a, b)
Minus(a, b) == Op("MINUS", a, b)
Times(a, b) == Op("TIMES", a, b)
Over(a, b) == Op("OVER", a, b)
Less(a, b) == Op("LT", a, b)
Equal(a, b) == Op("EQ", a, b)
X == Id(x)
Y == Id(y)

\* Two operators in every shape, written and compared.
Shapes == {Op(p, Op(q, X, Const(2)), Y) : p \in DOMAIN ArithmeticOp, q \in DOMAIN ArithmeticOp}
          \cup {Op(p, X, Op(q, Const(2), Y)) : p \in DOMAIN ArithmeticOp, q \in DOMAIN ArithmeticOp}

Straight == {<<Read(x), Assign(y, Plus(X, Const(1))), Write(e)>> : e \in Shapes}

Deep == <<Read(x), Write(Minus(X, Minus(Const(1), Minus(X, Times(Const(2), X)))))>>

\* sample.tiny
Factorial ==
  <<Read(x),
    If(Less(Const(0), X),
       <<Assign(y, Const(1)),
         RepeatUntil(<<Assign(y, Times(Y, X)), Assign(x, Minus(X, Const(1)))>>, Equal(X, Const(0))),
         Write(Y)>>, <<>>)>>

Branches ==
  <<Read(x), Read(y),
    If(Less(X, Y), <<If(Equal(X, Const(0)), <<Write(Y)>>, <<Write(X), Assign(x, Y)>>)>>,
       <<Assign(x, Over(X, Y)), Write(X)>>),
    Write(Plus(X, Y))>>

Nested ==
  <<Assign(x, Const(2)),
    RepeatUntil(<<Read(y), If(Less(Y, X), <<Write(Y)>>, <<>>),
                  RepeatUntil(<<Assign(y, Over(Y, Const(2)))>>, Less(Y, Const(1))),
                  Assign(x, Minus(X, Const(1)))>>, Less(X, Const(1)))>>

IllTyped == {<<Write(Less(X, Y))>>, <<If(X, <<Read(x)>>, <<>>)>>, <<RepeatUntil(<<Read(x)>>, X)>>,
             <<If(Less(Equal(X, Y), Y), <<Read(x)>>, <<>>)>>, <<Read(x), Assign(x, Plus(Less(X, Y), Y))>>}

\* One operand more than DADDR_SIZE has room for, and two more.
TooDeep == {<<Read(x), Write(Minus(X, Minus(X, Minus(X, Minus(X, Minus(X, Const(1)))))))>>,
            <<Read(x), Write(Minus(X, Minus(X, Minus(X, Minus(X, Minus(X, Minus(X, Const(1))))))))>>}

\* HALT one location past the end of iMem, and three.
TooLong == {Branches \o <<Write(X), Write(X)>>, Branches \o <<Write(X), Write(X), Write(X)>>}

Programs == Straight \cup {Deep, Factorial, Branches, Nested} \cup IllTyped
            \cup TooDeep \cup TooLong

(***************************************************************************)
(* One token missing, doubled, out of order, replaced or too many.         *)
(***************************************************************************)
Strange == {[tok |-> k, lex |-> <<>>] : k \in {"SEMI", "END", "ELSE", "LPAREN", "LT", "ERROR"}}

Damages(t) ==
  {RemoveAt(t, i) : i \in DOMAIN t}
  \cup {InsertAt(t, i, t[i]) : i \in DOMAIN t}
  \cup {[t EXCEPT ![i] = t[i + 1], ![i + 1] = t[i]] : i \in 1 .. Len(t) - 1}
  \cup {InsertAt(t, i, s) : i \in DOMAIN t, s \in Strange}
  \cup {[t EXCEPT ![i] = s] : i \in DOMAIN t, s \in Strange}

Damageable == {Factorial, Branches, Nested, Deep}

(***************************************************************************)
(* The text of a list of tokens, in three layouts.                         *)
(***************************************************************************)
Spelling(t) ==
  CASE t.tok \in {"ID", "NUM"} -> t.lex
    [] t.tok = "ASSIGN" -> <<":", "=">>
    [] t.tok = "ERROR"  -> <<":">>
    [] t.tok \in {Symbols[c] : c \in DOMAIN Symbols} -> <<CHOOSE c \in DOMAIN Symbols : Symbols[c] = t.tok>>
    [] OTHER -> CHOOSE w \in DOMAIN Reserved : Reserved[w] = t.tok

Class(c) == CASE c \in Letters -> "letter" [] c \in Digits -> "digit" [] OTHER -> c

\* The first layout separates two tokens only when they would run together.
Together(a, b) ==
  \/ Class(Last(a)) = Class(Head(b)) /\ Class(Last(a)) \in {"letter", "digit"}
  \/ Last(a) = ":" /\ Head(b) = "="

Comment == <<"{", ":", "{", "}">>
Separator(layout, a, b) ==
  CASE layout = "tight"   -> IF Together(a, b) THEN <<" ">> ELSE <<>>
    [] layout = "lines"   -> <<"\n">>
    [] layout = "remarks" -> Comment

RECURSIVE Text(_, _)
Text(t, layout) ==
  IF t = <<>> THEN IF layout = "lines" THEN <<"\n">> ELSE <<>>
  ELSE LET a == Spelling(Head(t))
       IN  IF Len(t) = 1 THEN a ELSE a \o Separator(layout, a, Spelling(t[2])) \o Text(Tail(t), layout)

(***************************************************************************)
(* A case is a text and how many commands the user may give.               *)
(***************************************************************************)
NoTree == <<>>
Case(tokens, t, layout, commands) ==
  [file |-> [text |-> Text(tokens, layout), tokens |-> tokens, tree |-> t], commands |-> commands]

Cases ==
  {Case(Reference!Unparse(p), p, "tight", 1) : p \in Programs}
  \cup {Case(Reference!Unparse(p), p, layout, 1) : p \in Damageable, layout \in {"lines", "remarks"}}
  \cup {Case(Reference!Unparse(p), p, "tight", 4) : p \in {Branches, Deep}}
  \cup {Case(d, NoTree, "tight", 1) : d \in UNION {Damages(Reference!Unparse(p)) : p \in Damageable}}

MCInput == {-3, 0, 3, 100}

Init == \E c \in Cases : InitWith(c.file, c.commands)
Spec == Init /\ [][Next]_vars /\ Fairness

(***************************************************************************)
(* Properties.                                                             *)
(***************************************************************************)

Variables == Cardinality(DOMAIN hashTable)

\* The type of every variable; and the symbol table gives the variables the
\* first cells of dMem, one each, however often a name occurs.
TypeOK ==
  /\ phase \in {"parse", "analyze", "generate", "load", "machine", "rejected"}
  /\ Error \in BOOLEAN
  /\ phase \in {"generate", "load", "machine"} =>
       /\ \A n \in DOMAIN hashTable : hashTable[n] \in 0 .. Variables - 1
       /\ \A m, n \in DOMAIN hashTable : hashTable[m] = hashTable[n] => m = n
  /\ mode = "command" => iMem \in [0 .. IADDR_SIZE - 1 -> Instructions]
  /\ dMem \in [0 .. DADDR_SIZE - 1 -> Int]
  /\ reg \in [Registers -> Int]
  /\ mode \in {"off", "command", "go", "step", "done", "undefined"}
  /\ stepcnt \in Nat /\ stops \in Nat /\ left \in Nat
  /\ iloc \in Int /\ dloc \in Int
  /\ traceflag \in BOOLEAN /\ icountflag \in BOOLEAN

\* However a program is laid out, getToken returns the tokens it was written
\* from: the character that ends a name or a number is not lost, a comment and
\* a blank separate, and what need not be separated is not run together.
TokensRecovered == phase = "parse" => Scan(source.text) = source.tokens

\* The compiler rejects a text exactly when it is not in the grammar of
\* yacc/tiny.y or not well typed, although it decides by one token of
\* lookahead and goes on after an error with a guessed state.
RejectsExactly ==
  phase \in {"rejected", "generate"} =>
    (phase = "generate"
       <=> Reference!InGrammar(source.tokens) /\ Reference!WellTyped(syntaxTree))

\* The tree that is compiled has the structure of the program: operators of one
\* level group to the left, parentheses win, an else belongs to its if.
StructureKept == phase \notin {"parse", "rejected"} /\ source.tree # NoTree => syntaxTree = source.tree

\* What the code generator skips it comes back to: every location of the code
\* file is written once, and every jump stays in the program.
CodeHasNoHoles ==
  phase = "load" =>
    /\ {code[k].loc : k \in DOMAIN code} = 0 .. Len(code) - 1
    /\ \A k \in DOMAIN code :
         code[k].iop \in RAOps /\ code[k].iarg3 = pc => code[k].loc + 1 + code[k].iarg2 \in 0 .. Len(code) - 1

\* The cells the program needs: its variables and, at the deepest point of an
\* expression, its pushed operands.  Nothing in the code checks that they fit.
RECURSIVE Temps(_), TempsOf(_)
Temps(e) == IF e.k # "op" THEN 0
            ELSE LET l == Temps(e.l) r == 1 + Temps(e.r) IN IF l < r THEN r ELSE l
TempsOf(s) ==
  LET all == CASE s.k = "if"     -> {Temps(s.test)} \cup {TempsOf(s.then[i]) : i \in DOMAIN s.then}
                                    \cup {TempsOf(s.else[i]) : i \in DOMAIN s.else}
               [] s.k = "repeat" -> {Temps(s.test)} \cup {TempsOf(s.body[i]) : i \in DOMAIN s.body}
               [] s.k = "read"   -> {0}
               [] OTHER          -> {Temps(s.e)}
  IN  CHOOSE n \in all : \A k \in all : k <= n

Fits == \A i \in DOMAIN syntaxTree : Variables + TempsOf(syntaxTree[i]) <= DADDR_SIZE

\* The first time the machine stops, after loading or after a clear, by
\* whatever mixture of 's', 'g' and other commands it got there, it has read
\* and written what the program means and stopped for the program's reason;
\* after a HALT the variables are in their cells.
RunsFollowProgram ==
  stops = 1 /\ stepResult # "srOKAY" /\ Fits =>
    LET m == Reference!Meaning(syntaxTree, inputs, MAXINT)
    IN  /\ <<stepResult, m.status>> \in
             {<<"srHALT", "ok">>, <<"srZERODIVIDE", "div0">>, <<"undefined", "overflow">>}
        /\ outputs = m.out /\ m.in = <<>>
        /\ stepResult = "srHALT" =>
             \A n \in DOMAIN m.env : dMem[hashTable[n]] = m.env[n]

\* Pushed operands and variables share dMem from its two ends and never meet;
\* this also holds when the user goes on after the machine has stopped.
AccessIsApart ==
  LET i == iMem[PC]
      m == i.iarg2 + reg[i.iarg3]
  IN  /\ i.iarg3 = gp => m \in {hashTable[n] : n \in DOMAIN hashTable}
      /\ i.iarg3 = mp => m \in Variables .. DADDR_SIZE - 1

OperandsStayApart ==
  [][Running /\ Fits /\ PC \in DOMAIN iMem /\ iMem[PC].iop \in RMOps => AccessIsApart]_vars

\* These programs end, so the machine does: whatever it reads, a 'g' comes back.
RunsStop == mode = "go" ~> mode # "go"
=============================================================================
