----------------------------- MODULE RegexpProofs -----------------------------
(***************************************************************************)
(* What is proved of the matchers of src/regexp for every pattern, every   *)
(* alphabet, every maxstates and every command line: their data is what    *)
(* the steps take it for, every list fits its array, every DState is in    *)
(* the search tree or on the free list exactly once, and the three         *)
(* programs implement the abstract cache of DfaCache, and therefore (by    *)
(* DfaCacheProofs) give the answers of a matcher that stores nothing.      *)
(*                                                                         *)
(* The module goes bottom up: the operators on lists, the compiler re2post *)
(* and post2nfa, the operators on the heap, the inductive invariant Typed; *)
(* then the search tree and the free list as sets (Tree, Threaded,         *)
(* Stored), the inductive invariant Kept; then state lists as sets of      *)
(* states, and the refinement.                                             *)
(***************************************************************************)
EXTENDS RegexpProperties, FiniteSetTheorems, SequenceTheorems, WellFoundedInduction, TLAPS

-----------------------------------------------------------------------------
(* Induction, for a set of numbers.                                         *)
LEMMA NatSets ==
  ASSUME NEW S \in SUBSET Nat, 0 \in S, \A n \in S : n + 1 \in S
  PROVE  S = Nat
<1> SUFFICES ASSUME S # Nat PROVE FALSE
  OBVIOUS
<1> DEFINE T == Nat \ S
           R == {ss \in Nat \X Nat : ss[1] < ss[2]}
<1>1. T \subseteq Nat /\ T # {}
  OBVIOUS
<1>2. IsWellFoundedOn(R, Nat)
  BY NatLessThanWellFounded DEF OpToRel
<1>3. PICK x \in T : \A y \in T : ~ (<<y, x>> \in R)
  BY <1>1, <1>2, WFMin
<1>4. \A y \in T : ~(y < x)
  BY <1>1, <1>3
<1>5. x - 1 \in Nat /\ x - 1 \notin T
  BY <1>4
<1> QED
  BY <1>5

(* The turns of a loop that starts with a and in turn n goes from x to      *)
(* h[<<n, x>>], as the model writes them.                                   *)
Turns(f, a, h) == f = [n \in Nat |-> IF n = 0 THEN a ELSE h[<<n, f[n - 1]>>]]

(* The loop that AddState, Descend and Visit are turns of, as a function.  *)
LEMMA TurnsExist ==
  ASSUME NEW A, NEW a \in A, NEW h \in [Nat \X A -> A]
  PROVE  \E f \in [Nat -> A] : Turns(f, a, h)
<1> DEFINE Good(f, n) == f \in [0 .. n -> A] /\ f[0] = a
                         /\ \A i \in 0 .. n - 1 : f[i + 1] = h[<<i + 1, f[i]>>]
<1>1. \A n \in Nat : \E f : Good(f, n)
  <2> DEFINE S == {n \in Nat : \E f : Good(f, n)}
  <2>1. 0 \in S
    <3>1. Good([i \in 0 .. 0 |-> a], 0)
      OBVIOUS
    <3> QED
      BY <3>1
  <2>2. ASSUME NEW n \in S PROVE n + 1 \in S
    <3> USE n \in Nat
    <3>1. PICK f : Good(f, n)
      OBVIOUS
    <3> DEFINE g == [i \in 0 .. n + 1 |-> IF i <= n THEN f[i] ELSE h[<<n + 1, f[n]>>]]
    <3>2. f[n] \in A /\ h[<<n + 1, f[n]>>] \in A
      BY <3>1
    <3>3. g \in [0 .. n + 1 -> A] /\ g[0] = a
      BY <3>1, <3>2
    <3>4. ASSUME NEW i \in 0 .. n PROVE g[i + 1] = h[<<i + 1, g[i]>>]
      <4>1. CASE i = n
        <5>1. g[n + 1] = h[<<n + 1, f[n]>>] /\ g[n] = f[n]
          OBVIOUS
        <5> QED
          BY <4>1, <5>1
      <4>2. CASE i # n
        <5>1. i \in 0 .. n - 1 /\ i + 1 \in 0 .. n
          BY <4>2
        <5> QED
          BY <3>1, <5>1
      <4> QED
        BY <4>1, <4>2
    <3>5. Good(g, n + 1)
      <4> HIDE DEF g
      <4>1. (n + 1) - 1 = n
        OBVIOUS
      <4> QED
        BY <3>3, <3>4, <4>1
    <3>6. \E e : Good(e, n + 1)
      BY <3>5
    <3> HIDE DEF Good
    <3> QED
      BY <3>6
  <2> HIDE DEF Good
  <2>3. S = Nat
    BY <2>1, <2>2, NatSets
  <2> QED
    BY <2>3
<1>2. ASSUME NEW m \in Nat, NEW n \in Nat, NEW f, NEW g, Good(f, m), Good(g, n), m <= n
      PROVE  f[m] = g[m]
  <2> DEFINE S == {i \in Nat : i <= m => f[i] = g[i]}
  <2>1. 0 \in S
    BY <1>2
  <2>2. ASSUME NEW i \in S PROVE i + 1 \in S
    <3> SUFFICES ASSUME i + 1 <= m PROVE f[i + 1] = g[i + 1]
      OBVIOUS
    <3>1. i \in 0 .. m - 1 /\ i \in 0 .. n - 1 /\ f[i] = g[i]
      BY <1>2
    <3>2. f[i + 1] = h[<<i + 1, f[i]>>] /\ g[i + 1] = h[<<i + 1, g[i]>>]
      BY <1>2, <3>1
    <3> QED
      BY <3>1, <3>2
  <2> HIDE DEF Good
  <2>3. S = Nat
    BY <2>1, <2>2, NatSets
  <2> QED
    BY <2>3
<1> DEFINE Upto(n) == CHOOSE f : Good(f, n)
           F == [n \in Nat |-> Upto(n)[n]]
<1>3. \A n \in Nat : Good(Upto(n), n)
  BY <1>1
<1>4. ASSUME NEW n \in Nat PROVE F[n] \in A /\ F[n + 1] = h[<<n + 1, F[n]>>]
  <2>1. n + 1 \in Nat /\ n \in 0 .. n /\ n \in 0 .. (n + 1) - 1 /\ n <= n + 1
    OBVIOUS
  <2>2. Good(Upto(n), n) /\ Good(Upto(n + 1), n + 1)
    BY <1>3, <2>1
  <2>3. F[n] = Upto(n)[n] /\ F[n + 1] = Upto(n + 1)[n + 1]
    BY <2>1
  <2>4. Upto(n)[n] = Upto(n + 1)[n]
    <3> HIDE DEF Good, Upto
    <3> QED
      BY <2>1, <2>2, <1>2
  <2> HIDE DEF Upto, F
  <2>5. Upto(n)[n] \in A /\ Upto(n + 1)[n + 1] = h[<<n + 1, Upto(n + 1)[n]>>]
    BY <2>1, <2>2
  <2> QED
    BY <2>3, <2>4, <2>5
<1>5. F[0] = a
  <2>1. Good(Upto(0), 0)
    BY <1>3
  <2> HIDE DEF Upto
  <2> QED
    BY <2>1
<1>6. F \in [Nat -> A]
  BY <1>4
<1>7. ASSUME NEW n \in Nat PROVE F[n] = IF n = 0 THEN a ELSE h[<<n, F[n - 1]>>]
  <2> HIDE DEF F
  <2>1. CASE n = 0
    BY <1>5, <2>1
  <2>2. CASE n # 0
    <3>1. n - 1 \in Nat /\ (n - 1) + 1 = n
      BY <2>2
    <3> QED
      BY <1>4, <2>2, <3>1
  <2> QED
    BY <2>1, <2>2
<1> HIDE DEF F
<1>8. Turns(F, a, h)
  BY <1>6, <1>7 DEF Turns
<1> QED
  BY <1>6, <1>8

(* What the first turn has and every turn keeps, every turn has.            *)
LEMMA TurnsStay ==
  ASSUME NEW A, NEW g, g[0] \in A, \A n \in Nat : g[n] \in A => g[n + 1] \in A
  PROVE  \A n \in Nat : g[n] \in A
<1> DEFINE S == {n \in Nat : g[n] \in A}
<1>1. S \in SUBSET Nat /\ 0 \in S /\ \A n \in S : n + 1 \in S
  OBVIOUS
<1>2. S = Nat
  <2> HIDE DEF S
  <2> QED
    BY <1>1, NatSets
<1> QED
  BY <1>2

-----------------------------------------------------------------------------
(* Sequences.                                                               *)
LEMMA FunctionIsSeq ==
  ASSUME NEW S, NEW n \in Nat, NEW f \in [1 .. n -> S]
  PROVE  f \in Seq(S) /\ Len(f) = n
<1>1. f \in UNION {[1 .. k -> S] : k \in Nat}
  OBVIOUS
<1>2. f \in Seq(S)
  BY <1>1, SeqDef
<1>3. Len(f) \in Nat /\ 1 .. Len(f) = 1 .. n
  BY <1>2, LenProperties
<1>4. Len(f) = n
  <2>1. CASE Len(f) < n
    <3>1. n \in 1 .. n /\ n \notin 1 .. Len(f)
      BY <1>3, <2>1
    <3> QED
      BY <1>3, <3>1
  <2>2. CASE n < Len(f)
    <3>1. Len(f) \in 1 .. Len(f) /\ Len(f) \notin 1 .. n
      BY <1>3, <2>2
    <3> QED
      BY <1>3, <3>1
  <2> QED
    BY <1>3, <2>1, <2>2
<1> QED
  BY <1>2, <1>4

(* Sums, of numbers.                                                        *)
LEMMA SumBounds ==
  ASSUME NEW a \in Nat, NEW b \in Nat, NEW m \in Nat, a + b <= m
  PROVE  a + (b - 1) <= m /\ (a + 1) + (b - 1) <= m /\ a <= m /\ b <= m
<1>1. a + (b - 1) <= m
  OBVIOUS
<1>2. (a + 1) + (b - 1) <= m
  OBVIOUS
<1> QED
  BY <1>1, <1>2

LEMMA CountTo ==
  ASSUME NEW n \in Nat
  PROVE  IsFiniteSet(1 .. n) /\ Cardinality(1 .. n) = n
<1>1. Cardinality(1 .. n) = (IF 1 > n THEN 0 ELSE n - 1 + 1) /\ IsFiniteSet(1 .. n)
  BY FS_Interval
<1>2. (IF 1 > n THEN 0 ELSE n - 1 + 1) = n
  OBVIOUS
<1> QED
  BY <1>1, <1>2

-----------------------------------------------------------------------------
(* re2post: whatever the pattern, the postfix text is a sequence.           *)
Converters(D) ==
  [ok : BOOLEAN, nalt : Nat, natom : Nat, paren : Seq(Nat \X Nat), dst : Seq(D)]

LEMMA Repeated ==
  ASSUME NEW D, NEW x \in D, NEW n \in Int
  PROVE  [i \in 1 .. n |-> x] \in Seq(D)
<1>1. CASE n \in Nat
  <2>1. [i \in 1 .. n |-> x] \in [1 .. n -> D]
    OBVIOUS
  <2> QED
    BY <1>1, <2>1, SeqDef
<1>2. CASE n \notin Nat
  <2>1. 1 .. n = 1 .. 0
    BY <1>2
  <2>2. [i \in 1 .. 0 |-> x] \in [1 .. 0 -> D]
    OBVIOUS
  <2> QED
    BY <2>1, <2>2, SeqDef
<1> QED
  BY <1>1, <1>2

LEMMA LastFront ==
  ASSUME NEW S, NEW s \in Seq(S), s # <<>>
  PROVE  /\ Len(s) \in Nat \ {0}
         /\ Last(s) \in S /\ Last(s) = s[Len(s)]
         /\ Front(s) \in Seq(S)
<1>1. Len(s) \in Nat \ {0} /\ s[Len(s)] \in S
  BY EmptySeq, ElementOfSeq
<1>2. SubSeq(s, 1, Len(s) - 1) \in Seq(S)
  <2>1. \A i \in 1 .. Len(s) - 1 : s[i] \in S
    BY <1>1, ElementOfSeq
  <2> QED
    BY <1>1, <2>1, SubSeqProperties
<1> QED
  BY <1>1, <1>2 DEF Last, Front

LEMMA ConverterParts ==
  ASSUME NEW D, NEW p \in Converters(D)
  PROVE  /\ p.nalt \in Nat /\ p.natom \in Nat /\ p.natom - 1 \in Int
         /\ p.paren \in Seq(Nat \X Nat) /\ p.dst \in Seq(D)
  BY DEF Converters

LEMMA ConverterTyped ==
  ASSUME NEW D, "." \in D, "|" \in D, NEW t \in D, NEW p \in Converters(D)
  PROVE  InfixToken(p, t) \in Converters(D)
<1>1. Rejected(p) \in Converters(D) /\ \A q \in Converters(D) : Rejected(q) \in Converters(D)
  BY DEF Converters, Rejected
<1>2. JoinAtoms(p) \in Converters(D)
  <2>1. Append(p.dst, ".") \in Seq(D)
    BY ConverterParts, AppendProperties
  <2>2. p.natom > 1 => p.natom - 1 \in Nat
    BY ConverterParts
  <2> QED
    BY <2>1, <2>2 DEF JoinAtoms, Converters
<1>3. \A q \in Converters(D) : CloseAlternatives(q) \in Converters(D)
  <2> TAKE q \in Converters(D)
  <2>1. [i \in 1 .. q.nalt |-> "|"] \in Seq(D) /\ q.dst \in Seq(D)
    <3>1. q.nalt \in Int /\ q.dst \in Seq(D)
      BY ConverterParts
    <3> QED
      BY <3>1, Repeated
  <2>2. q.dst \o [i \in 1 .. q.nalt |-> "|"] \in Seq(D)
    BY <2>1, ConcatProperties
  <2> QED
    BY <2>2 DEF CloseAlternatives, Converters
<1>4. JoinAll(p) \in Converters(D)
  <2>1. [i \in 1 .. (p.natom - 1) |-> "."] \in Seq(D) /\ p.dst \in Seq(D)
    BY ConverterParts, Repeated
  <2>2. p.dst \o [i \in 1 .. (p.natom - 1) |-> "."] \in Seq(D)
    BY <2>1, ConcatProperties
  <2> QED
    BY <2>2 DEF JoinAll, Converters
<1>5. OpenGroup(p) \in Converters(D)
  <2> DEFINE q == JoinAtoms(p)
  <2>1. q \in Converters(D) /\ Rejected(q) \in Converters(D)
    BY <1>1, <1>2
  <2>2. Append(q.paren, <<q.nalt, q.natom>>) \in Seq(Nat \X Nat)
    <3> HIDE DEF q
    <3>1. <<q.nalt, q.natom>> \in Nat \X Nat /\ q.paren \in Seq(Nat \X Nat)
      BY <2>1 DEF Converters
    <3> QED
      BY <3>1, AppendProperties
  <2> HIDE DEF q
  <2>3. [q EXCEPT !.paren = Append(q.paren, <<q.nalt, q.natom>>), !.nalt = 0, !.natom = 0] \in Converters(D)
    BY <2>1, <2>2 DEF Converters
  <2> QED
    BY <2>1, <2>3 DEF OpenGroup, q
<1>6. Alternative(p) \in Converters(D)
  <2> DEFINE q == JoinAll(p)
  <2> HIDE DEF q
  <2>1. q \in Converters(D)
    BY <1>4 DEF q
  <2>2. [q EXCEPT !.nalt = @ + 1] \in Converters(D)
    <3>1. q.nalt + 1 \in Nat
      BY <2>1, ConverterParts
    <3> QED
      BY <2>1, <3>1 DEF Converters
  <2> QED
    BY <1>1, <2>2 DEF Alternative, q
<1>7. CloseGroup(p) \in Converters(D)
  <2>1. CASE p.paren = <<>> \/ p.natom = 0
    BY <1>1, <2>1 DEF CloseGroup
  <2>2. CASE ~(p.paren = <<>> \/ p.natom = 0)
    <3> DEFINE q == CloseAlternatives(JoinAll(p))
               saved == Last(p.paren)
    <3>1. q \in Converters(D)
      BY <1>3, <1>4
    <3>2. p.paren \in Seq(Nat \X Nat) /\ q.paren = p.paren
      BY DEF CloseAlternatives, JoinAll, Converters
    <3>3. saved \in Nat \X Nat /\ Front(q.paren) \in Seq(Nat \X Nat)
      BY <2>2, <3>2, LastFront
    <3> HIDE DEF q, saved
    <3>4. [q EXCEPT !.paren = Front(q.paren), !.nalt = saved[1], !.natom = saved[2] + 1] \in Converters(D)
      <4>1. saved[1] \in Nat /\ saved[2] + 1 \in Nat
        BY <3>3
      <4> QED
        BY <3>1, <3>3, <4>1 DEF Converters
    <3> QED
      BY <2>2, <3>4 DEF CloseGroup, q, saved
  <2> QED
    BY <2>1, <2>2
<1>8. Repeat(p, t) \in Converters(D)
  <2>1. Append(p.dst, t) \in Seq(D)
    BY AppendProperties DEF Converters
  <2> QED
    BY <1>1, <2>1 DEF Converters, Repeat
<1>9. Atom(p, t) \in Converters(D)
  <2> DEFINE q == JoinAtoms(p)
  <2> HIDE DEF q
  <2>1. q \in Converters(D)
    BY <1>2 DEF q
  <2>2. Append(q.dst, t) \in Seq(D)
    BY <2>1, AppendProperties DEF Converters
  <2>3. [q EXCEPT !.dst = Append(@, t), !.natom = @ + 1] \in Converters(D)
    <3>1. q.natom + 1 \in Nat
      BY <2>1, ConverterParts
    <3> QED
      BY <2>1, <2>2, <3>1 DEF Converters
  <2> QED
    BY <2>3 DEF Atom, q
<1> QED
  BY <1>5, <1>6, <1>7, <1>8, <1>9 DEF InfixToken

PostStep(f, re) == f = [n \in Nat |-> IF n = 0 THEN Converter ELSE InfixToken(f[n - 1], re[n])]
PostTurns(re) == CHOOSE f : PostStep(f, re)

(* re2post gives a sequence of tokens, or refuses.                         *)
LEMMA PostfixIsSequence ==
  ASSUME NEW re, Len(re) \in Nat
  PROVE  Re2post(re).ok => \E D : Re2post(re).dst \in Seq(D)
<1> DEFINE D == {re[n] : n \in Nat} \cup {".", "|"}
           A == Converters(D)
           h == [x \in Nat \X A |-> InfixToken(x[2], re[x[1]])]
<1>1. "." \in D /\ "|" \in D /\ \A n \in Nat : re[n] \in D
  OBVIOUS
<1>2. Converter \in A
  BY DEF Converter, Converters
<1>3. \A n \in Nat, p \in A : InfixToken(p, re[n]) \in A
  <2> HIDE DEF D
  <2> QED
    BY <1>1, ConverterTyped
<1>4. h \in [Nat \X A -> A]
  <2> HIDE DEF A, D
  <2> QED
    BY <1>3
<1>5. PICK f \in [Nat -> A] : Turns(f, Converter, h)
  <2> HIDE DEF A, h
  <2> QED
    BY <1>2, <1>4, TurnsExist
<1>6. PostStep(f, re)
  <2>1. \A n \in Nat : n # 0 => h[<<n, f[n - 1]>>] = InfixToken(f[n - 1], re[n])
    <3> HIDE DEF A
    <3> QED
      OBVIOUS
  <2> HIDE DEF h, A
  <2> QED
    BY <1>5, <2>1 DEF Turns, PostStep
<1> DEFINE g == PostTurns(re)
<1>7. PostStep(g, re)
  BY <1>6 DEF PostTurns
<1> HIDE DEF A, D, g
<1>8. g[0] \in A /\ \A n \in Nat : g[n] \in A => g[n + 1] \in A
  <2>1. g[0] = Converter
    BY <1>7 DEF PostStep
  <2>2. ASSUME NEW n \in Nat, g[n] \in A PROVE g[n + 1] \in A
    <3>1. n + 1 \in Nat /\ n + 1 # 0 /\ (n + 1) - 1 = n
      OBVIOUS
    <3>2. g[n + 1] = InfixToken(g[(n + 1) - 1], re[n + 1])
      BY <1>7, <3>1 DEF PostStep
    <3> QED
      BY <1>3, <2>2, <3>1, <3>2
  <2> QED
    BY <1>2, <2>1, <2>2
<1>9. g[Len(re)] \in A
  BY <1>8, TurnsStay
<1> DEFINE p == g[Len(re)]
<1>10. Re2post(re) = IF p.ok /\ p.paren = <<>> THEN CloseAlternatives(JoinAll(p)) ELSE Rejected(p)
  BY DEF Re2post, g, PostTurns, PostStep
<1> HIDE DEF p
<1>11. JoinAll(p).dst \in Seq(D)
  <2>1. p \in Converters(D)
    BY <1>9 DEF A, p
  <2>2. [i \in 1 .. (p.natom - 1) |-> "."] \in Seq(D) /\ p.dst \in Seq(D)
    BY <1>1, <2>1, ConverterParts, Repeated
  <2>3. p.dst \o [i \in 1 .. (p.natom - 1) |-> "."] \in Seq(D)
    BY <2>2, ConcatProperties
  <2> QED
    BY <2>1, <2>3 DEF JoinAll, Converters
<1>12. CloseAlternatives(JoinAll(p)).dst \in Seq(D)
  <2>1. p \in Converters(D)
    BY <1>9 DEF A, p
  <2> DEFINE q == JoinAll(p)
  <2>2. q.dst \in Seq(D) /\ q = [q EXCEPT !.dst = q.dst] /\ q.nalt = p.nalt /\ p.nalt \in Nat
    BY <1>11, <2>1 DEF JoinAll, Converters
  <2>3. [i \in 1 .. q.nalt |-> "|"] \in Seq(D)
    BY <1>1, <2>2, Repeated
  <2>4. q.dst \o [i \in 1 .. q.nalt |-> "|"] \in Seq(D)
    BY <2>2, <2>3, ConcatProperties
  <2>5. CloseAlternatives(q).dst = q.dst \o [i \in 1 .. q.nalt |-> "|"]
    BY <2>1 DEF CloseAlternatives, JoinAll, Converters
  <2> QED
    BY <2>4, <2>5
<1>13. Re2post(re).ok => p.ok /\ p.paren = <<>>
  <2>1. p \in Converters(D)
    BY <1>9 DEF A, p
  <2>2. Rejected(p).ok = FALSE
    BY <2>1 DEF Rejected, Converters
  <2> QED
    BY <1>10, <2>2
<1> QED
  BY <1>10, <1>12, <1>13

-----------------------------------------------------------------------------
(* post2nfa: whatever the postfix text, every arrow and the start of every  *)
(* fragment lead to a state that exists, and a fragment needs a state       *)
(* beside the static one.                                                   *)
Nodes(C) == Seq([c : C, out : Nat, out1 : Nat])

ArrowsInside(nodes) ==
  \A i \in 1 .. Len(nodes) : nodes[i].out <= Len(nodes) /\ nodes[i].out1 <= Len(nodes)

Fragments == [start : Nat \ {0}, out : Seq(Nat \X {"out", "out1"})]

Builders(C) ==
  {b \in [nodes : Nodes(C), stack : Seq(Fragments), underflow : BOOLEAN] :
     /\ ArrowsInside(b.nodes) /\ Len(b.nodes) >= 1
     /\ b.stack # <<>> => Len(b.nodes) >= 2
     /\ \A k \in 1 .. Len(b.stack) : b.stack[k].start <= Len(b.nodes)}

(* patch leaves the automaton one whose arrows lead to its own states.     *)
LEMMA Patched ==
  ASSUME NEW C, NEW nodes \in Nodes(C), NEW l, NEW s \in Nat, s <= Len(nodes),
         ArrowsInside(nodes)
  PROVE  /\ Patch(nodes, l, s) \in Nodes(C) /\ Len(Patch(nodes, l, s)) = Len(nodes)
         /\ ArrowsInside(Patch(nodes, l, s))
<1> DEFINE N == [c : C, out : Nat, out1 : Nat]
           e(i) == State(nodes[i].c, IF <<i, "out">> \in ToSet(l) THEN s ELSE nodes[i].out,
                                     IF <<i, "out1">> \in ToSet(l) THEN s ELSE nodes[i].out1)
           m == Patch(nodes, l, s)
<1>1. Len(nodes) \in Nat /\ DOMAIN nodes = 1 .. Len(nodes)
  BY LenProperties DEF Nodes
<1>2. ASSUME NEW i \in 1 .. Len(nodes)
      PROVE  e(i) \in [c : C, out : Nat, out1 : Nat] /\ e(i).out <= Len(nodes) /\ e(i).out1 <= Len(nodes)
  <2>1. nodes[i] \in [c : C, out : Nat, out1 : Nat]
    BY ElementOfSeq DEF Nodes
  <2>2. nodes[i].out <= Len(nodes) /\ nodes[i].out1 <= Len(nodes)
    BY DEF ArrowsInside
  <2> QED
    BY <2>1, <2>2 DEF State
<1>3. m = [i \in 1 .. Len(nodes) |-> e(i)]
  BY <1>1 DEF Patch
<1> HIDE DEF e, m
<1>4. m \in [1 .. Len(nodes) -> [c : C, out : Nat, out1 : Nat]]
  BY <1>2, <1>3
<1>5. m \in Seq([c : C, out : Nat, out1 : Nat]) /\ Len(m) = Len(nodes)
  BY <1>1, <1>4, FunctionIsSeq
<1> QED
  BY <1>2, <1>3, <1>5 DEF Nodes, ArrowsInside, m

LEMMA NodeAdded ==
  ASSUME NEW C, NEW nodes \in Nodes(C), NEW c \in C, NEW out \in Nat, NEW out1 \in Nat,
         out <= Len(nodes), out1 <= Len(nodes), ArrowsInside(nodes)
  PROVE  /\ Append(nodes, State(c, out, out1)) \in Nodes(C)
         /\ Len(Append(nodes, State(c, out, out1))) = Len(nodes) + 1
         /\ ArrowsInside(Append(nodes, State(c, out, out1)))
<1>1. State(c, out, out1) \in [c : C, out : Nat, out1 : Nat]
  BY DEF State
<1> DEFINE n == State(c, out, out1)
           m == Append(nodes, n)
<1>2. n.out = out /\ n.out1 = out1
  BY DEF State
<1> HIDE DEF n
<1>3. /\ m \in Seq([c : C, out : Nat, out1 : Nat]) /\ Len(m) = Len(nodes) + 1
      /\ \A i \in 1 .. Len(nodes) : m[i] = nodes[i]
      /\ m[Len(nodes) + 1] = n
  BY <1>1, AppendProperties DEF Nodes, n
<1> HIDE DEF m
<1>4. Len(nodes) \in Nat
  BY LenProperties DEF Nodes
<1>5. ASSUME NEW i \in 1 .. Len(m) PROVE m[i].out <= Len(m) /\ m[i].out1 <= Len(m)
  <2>1. CASE i = Len(nodes) + 1
    BY <1>2, <1>3, <1>4, <2>1
  <2>2. CASE i # Len(nodes) + 1
    <3>1. i \in 1 .. Len(nodes)
      BY <1>3, <1>4, <2>2
    <3>2. nodes[i] \in [c : C, out : Nat, out1 : Nat]
      BY <3>1, ElementOfSeq DEF Nodes
    <3>3. nodes[i].out <= Len(nodes) /\ nodes[i].out1 <= Len(nodes) /\ nodes[i].out \in Nat /\ nodes[i].out1 \in Nat
      BY <3>1, <3>2 DEF ArrowsInside
    <3>4. \A x \in Nat, y \in Nat : x <= y => x <= y + 1
      OBVIOUS
    <3>5. nodes[i].out <= Len(nodes) + 1 /\ nodes[i].out1 <= Len(nodes) + 1
      BY <1>4, <3>3, <3>4
    <3> QED
      BY <1>3, <3>1, <3>5
  <2> QED
    BY <2>1, <2>2
<1> QED
  BY <1>3, <1>5 DEF Nodes, ArrowsInside, m, n

LEMMA BuilderParts ==
  ASSUME NEW C, NEW b \in Builders(C)
  PROVE  /\ b.nodes \in Nodes(C) /\ Len(b.nodes) \in Nat /\ ArrowsInside(b.nodes)
         /\ b.stack \in Seq(Fragments) /\ Len(b.stack) \in Nat
         /\ b.underflow \in BOOLEAN /\ Len(b.nodes) >= 1
         /\ b.stack # <<>> => Len(b.nodes) >= 2
         /\ \A k \in 1 .. Len(b.stack) :
              b.stack[k] \in Fragments /\ b.stack[k].start <= Len(b.nodes)
<1>1. b.nodes \in Nodes(C) /\ b.stack \in Seq(Fragments)
  BY DEF Builders
<1>2. Len(b.nodes) \in Nat /\ Len(b.stack) \in Nat
  BY <1>1, LenProperties DEF Nodes
<1>3. \A k \in 1 .. Len(b.stack) : b.stack[k] \in Fragments
  BY <1>1, ElementOfSeq
<1> QED
  BY <1>1, <1>2, <1>3 DEF Builders

LEMMA Pushed ==
  ASSUME NEW C, NEW b \in Builders(C), NEW n \in Nat, n <= Len(b.stack),
         NEW ns \in Nodes(C), ArrowsInside(ns), Len(ns) >= Len(b.nodes), Len(ns) >= 2,
         NEW e \in Fragments, e.start <= Len(ns)
  PROVE  Push(b, n, ns, e) \in Builders(C)
<1> DEFINE top == Len(b.stack) - n
           kept == SubSeq(b.stack, 1, top)
           st == Append(kept, e)
<1>1. top \in Nat /\ top <= Len(b.stack) /\ Len(ns) \in Nat
  BY BuilderParts, LenProperties DEF Nodes
<1>2. \A i \in 1 .. top : b.stack[i] \in Fragments /\ b.stack[i].start <= Len(b.nodes)
  <2>1. \A i \in 1 .. top : i \in 1 .. Len(b.stack)
    BY <1>1, BuilderParts
  <2> QED
    BY <2>1, BuilderParts
<1> HIDE DEF top
<1>3. kept \in Seq(Fragments) /\ Len(kept) = top /\ \A i \in 1 .. top : kept[i] = b.stack[i]
  <2>1. /\ kept \in Seq(Fragments) /\ Len(kept) = IF 1 <= top THEN top - 1 + 1 ELSE 0
        /\ \A i \in 1 .. top - 1 + 1 : kept[i] = b.stack[1 + i - 1]
    BY <1>1, <1>2, SubSeqProperties
  <2> QED
    BY <1>1, <2>1
<1> HIDE DEF kept
<1>4. /\ st \in Seq(Fragments) /\ Len(st) = top + 1 /\ st[top + 1] = e
      /\ \A i \in 1 .. top : st[i] = kept[i]
  BY <1>3, AppendProperties
<1> HIDE DEF st
<1>5. ASSUME NEW k \in 1 .. Len(st) PROVE st[k].start <= Len(ns)
  <2>1. CASE k = top + 1
    BY <1>4, <2>1
  <2>2. CASE k # top + 1
    <3>1. k \in 1 .. top
      BY <1>1, <1>4, <2>2
    <3>2. st[k] \in Fragments /\ st[k].start <= Len(b.nodes)
      BY <1>2, <1>3, <1>4, <3>1
    <3>3. st[k].start \in Nat
      BY <3>2 DEF Fragments
    <3> QED
      BY <1>1, <3>2, <3>3, BuilderParts
  <2> QED
    BY <2>1, <2>2
<1> DEFINE r == [b EXCEPT !.nodes = ns, !.stack = st]
<1>6. Push(b, n, ns, e) = r
  BY DEF Push, st, kept, top
<1>7. r \in [nodes : Nodes(C), stack : Seq(Fragments), underflow : BOOLEAN]
  BY <1>4 DEF Builders
<1>8. r.nodes = ns /\ r.stack = st
  BY DEF Builders
<1> HIDE DEF r
<1>9. Len(r.nodes) >= 1 /\ Len(r.nodes) >= 2
  BY <1>1, <1>8
<1> QED
  BY <1>5, <1>6, <1>7, <1>8, <1>9 DEF Builders

LEMMA FragmentTyped ==
  ASSUME NEW x \in Nat \ {0}, NEW l \in Seq(Nat \X {"out", "out1"})
  PROVE  Frag(x, l) \in Fragments /\ Frag(x, l).start = x
  BY DEF Fragments, Frag

LEMMA DanglingArrows ==
  ASSUME NEW e \in Fragments, NEW f \in Fragments, NEW s \in Nat
  PROVE  /\ e.start \in Nat \ {0} /\ e.out \in Seq(Nat \X {"out", "out1"})
         /\ e.out \o f.out \in Seq(Nat \X {"out", "out1"})
         /\ e.out \o <<<<s, "out1">>>> \in Seq(Nat \X {"out", "out1"})
         /\ <<<<s, "out1">>>> \in Seq(Nat \X {"out", "out1"})
         /\ <<<<s, "out">>>> \in Seq(Nat \X {"out", "out1"})
<1> DEFINE L == Nat \X {"out", "out1"}
<1>1. e.start \in Nat \ {0} /\ e.out \in Seq(L) /\ f.out \in Seq(L)
  BY DEF Fragments
<1>2. <<<<s, "out1">>>> \in Seq(L) /\ <<<<s, "out">>>> \in Seq(L)
  OBVIOUS
<1>3. e.out \o f.out \in Seq(L) /\ e.out \o <<<<s, "out1">>>> \in Seq(L)
  BY <1>1, <1>2, ConcatProperties
<1> QED
  BY <1>1, <1>2, <1>3

LEMMA BuilderTyped ==
  ASSUME NEW C, "Split" \in C, NEW t \in C, NEW b \in Builders(C)
  PROVE  PostfixToken(b, t) \in Builders(C)
<1> DEFINE s == Len(b.nodes) + 1
           n == Len(b.stack)
<1>1. /\ b.nodes \in Nodes(C) /\ Len(b.nodes) \in Nat /\ ArrowsInside(b.nodes)
      /\ b.stack \in Seq(Fragments) /\ n \in Nat /\ Len(b.nodes) >= 1
      /\ s \in Nat \ {0} /\ s >= 2
      /\ s = Len(b.nodes) + 1
  BY BuilderParts
<1> HIDE DEF s
<1>2. ASSUME NEW k \in 1 .. n
      PROVE  b.stack[k] \in Fragments /\ b.stack[k].start \in Nat \ {0}
             /\ b.stack[k].start <= Len(b.nodes) /\ b.stack[k].start <= s /\ Len(b.nodes) >= 2
  <2>1. b.stack[k] \in Fragments /\ b.stack[k].start <= Len(b.nodes)
    BY BuilderParts
  <2>2. b.stack # <<>>
    BY <1>1
  <2>3. b.stack[k].start \in Nat \ {0}
    BY <2>1 DEF Fragments
  <2> QED
    BY <1>1, <2>1, <2>2, <2>3, BuilderParts
<1>3. n >= 1 => n \in 1 .. n /\ Last(b.stack) = b.stack[n] /\ 1 <= n
  BY <1>1 DEF Last
<1>4. n >= 2 => n - 1 \in 1 .. n /\ 2 <= n
  BY <1>1
<1>5. [b EXCEPT !.underflow = TRUE] \in Builders(C)
  <2> DEFINE r == [b EXCEPT !.underflow = TRUE]
  <2>1. r \in [nodes : Nodes(C), stack : Seq(Fragments), underflow : BOOLEAN]
        /\ r.nodes = b.nodes /\ r.stack = b.stack
    BY DEF Builders
  <2> HIDE DEF r
  <2> QED
    BY <2>1 DEF Builders, r
<1>6. ASSUME n >= 2 PROVE Catenate(b) \in Builders(C)
  <2> DEFINE e1 == b.stack[n - 1]
             e2 == b.stack[n]
             ns == Patch(b.nodes, e1.out, e2.start)
  <2>1. e1 \in Fragments /\ e2 \in Fragments /\ e1.start <= Len(b.nodes)
        /\ e2.start \in Nat /\ e2.start <= Len(b.nodes) /\ Len(b.nodes) >= 2
    BY <1>2, <1>3, <1>4, <1>6, <1>1
  <2> HIDE DEF e1, e2
  <2>2. ns \in Nodes(C) /\ Len(ns) = Len(b.nodes) /\ ArrowsInside(ns)
    BY <1>1, <2>1, Patched
  <2>3. Frag(e1.start, e2.out) \in Fragments /\ Frag(e1.start, e2.out).start = e1.start
    <3>1. s \in Nat /\ s \in Nat \ {0}
      BY <1>1
    <3> QED
      BY <2>1, <3>1, DanglingArrows, FragmentTyped
  <2> HIDE DEF ns
  <2>4. Push(b, 2, ns, Frag(e1.start, e2.out)) \in Builders(C)
    BY <1>1, <1>4, <1>6, <2>1, <2>2, <2>3, Pushed
  <2> QED
    BY <1>3, <1>1, <1>6, <2>4 DEF Catenate, ns, e1, e2
<1>7. ASSUME n >= 2 PROVE Alternate(b, s) \in Builders(C)
  <2> DEFINE e1 == b.stack[n - 1]
             e2 == b.stack[n]
             ns == Append(b.nodes, State("Split", e1.start, e2.start))
             f == Frag(s, e1.out \o e2.out)
  <2>1. e1 \in Fragments /\ e2 \in Fragments
        /\ e1.start \in Nat /\ e1.start <= Len(b.nodes) 
        /\ e2.start \in Nat /\ e2.start <= Len(b.nodes)
    BY <1>2, <1>3, <1>4, <1>6, <1>1, <1>7
  <2> HIDE DEF e1, e2
  <2>2. ns \in Nodes(C) /\ Len(ns) = s /\ ArrowsInside(ns)
    BY <1>1, <2>1, NodeAdded
  <2>3. f \in Fragments /\ f.start = s
    <3>1. s \in Nat /\ s \in Nat \ {0}
      BY <1>1
    <3> QED
      BY <2>1, <3>1, DanglingArrows, FragmentTyped
  <2> HIDE DEF ns, f
  <2>4. Push(b, 2, ns, f) \in Builders(C)
    BY <1>1, <1>4, <1>7, <2>1, <2>2, <2>3, Pushed
  <2> QED
    BY <1>3, <1>1, <1>7, <2>4 DEF Alternate, ns, e1, e2, f
<1>8. ASSUME n >= 1
      PROVE  /\ ZeroOrOne(b, s) \in Builders(C) /\ ZeroOrMore(b, s) \in Builders(C)
             /\ OneOrMore(b, s) \in Builders(C)
  <2> DEFINE e == b.stack[n]
             ns == Append(b.nodes, State("Split", e.start, NULL))
             ms == Patch(ns, e.out, s)
             f == Frag(s, e.out \o <<<<s, "out1">>>>)
             g == Frag(s, <<<<s, "out1">>>>)
             k == Frag(e.start, <<<<s, "out1">>>>)
  <2>1. e \in Fragments /\ e.start \in Nat /\ e.start <= Len(b.nodes) /\ e.start <= s
    BY <1>2, <1>3, <1>8
  <2> HIDE DEF e
  <2>2. ns \in Nodes(C) /\ Len(ns) = s /\ ArrowsInside(ns)
    <3>1. NULL \in Nat /\ NULL <= Len(b.nodes)
      BY <1>1 DEF NULL
    <3> QED
      BY <1>1, <2>1, <3>1, NodeAdded
  <2>3. /\ f \in Fragments /\ f.start = s /\ g \in Fragments /\ g.start = s
        /\ k \in Fragments /\ k.start = e.start
    <3>1. s \in Nat /\ s \in Nat \ {0}
      BY <1>1
    <3> QED
      BY <2>1, <3>1, DanglingArrows, FragmentTyped
  <2> HIDE DEF ns
  <2>4. ms \in Nodes(C) /\ Len(ms) = s /\ ArrowsInside(ms)
    BY <1>1, <2>2, Patched
  <2> HIDE DEF ms, f, g, k
  <2>5. s <= s /\ s >= Len(b.nodes)
    BY <1>1
  <2>6. /\ Push(b, 1, ns, f) \in Builders(C)
        /\ Push(b, 1, ms, g) \in Builders(C)
        /\ Push(b, 1, ms, k) \in Builders(C)
    BY <1>1, <1>3, <1>8, <2>1, <2>2, <2>3, <2>4, <2>5, Pushed
  <2>7. ZeroOrOne(b, s) = Push(b, 1, ns, f)
    BY <1>3, <1>8 DEF ZeroOrOne, ns, f, e
  <2>8. ZeroOrMore(b, s) = Push(b, 1, ms, g)
    BY <1>3, <1>8 DEF ZeroOrMore, ms, ns, g, e
  <2>9. OneOrMore(b, s) = Push(b, 1, ms, k)
    BY <1>3, <1>8 DEF OneOrMore, ms, ns, k, e
  <2> QED
    BY <2>6, <2>7, <2>8, <2>9
<1>9. Literal(b, s, t) \in Builders(C)
  <2> DEFINE ns == Append(b.nodes, State(t, NULL, NULL))
             f == Frag(s, <<<<s, "out">>>>)
  <2>1. ns \in Nodes(C) /\ Len(ns) = s /\ ArrowsInside(ns)
    <3>1. NULL \in Nat /\ NULL <= Len(b.nodes)
      BY <1>1 DEF NULL
    <3> QED
      BY <1>1, <3>1, NodeAdded
  <2>2. f \in Fragments /\ f.start = s
    <3>1. <<<<s, "out">>>> \in Seq(Nat \X {"out", "out1"})
      BY <1>1
    <3> QED
      BY <1>1, <3>1 DEF Fragments, Frag
  <2> HIDE DEF ns, f
  <2>3. s <= s /\ s >= Len(b.nodes) /\ 0 \in Nat /\ 0 <= Len(b.stack)
    BY <1>1
  <2>4. Push(b, 0, ns, f) \in Builders(C)
    BY <1>1, <2>1, <2>2, <2>3, Pushed
  <2> QED
    BY <2>4 DEF Literal, ns, f
<1> DEFINE needed == CASE t \in {".", "|"} -> 2 [] t \in Repeats -> 1 [] OTHER -> 0
<1>10. /\ t \in {".", "|"} => needed = 2
       /\ t \in Repeats => needed = 1
  BY DEF Repeats
<1> HIDE DEF needed
<1>11. PostfixToken(b, t) =
         IF b.underflow \/ n < needed THEN [b EXCEPT !.underflow = TRUE]
         ELSE CASE t = "." -> Catenate(b)
                [] t = "|" -> Alternate(b, s)
                [] t = "?" -> ZeroOrOne(b, s)
                [] t = "*" -> ZeroOrMore(b, s)
                [] t = "+" -> OneOrMore(b, s)
                [] OTHER   -> Literal(b, s, t)
  BY DEF PostfixToken, needed, s
<1> HIDE DEF n
<1>12. CASE b.underflow \/ n < needed
  BY <1>5, <1>11, <1>12
<1>13. CASE ~(b.underflow \/ n < needed)
  <2>1. /\ t \in {".", "|"} => n >= 2
        /\ t \in Repeats => n >= 1
    BY <1>1, <1>10, <1>13
  <2> QED
    BY <1>6, <1>7, <1>8, <1>9, <1>11, <1>13, <2>1 DEF Repeats
<1> QED
  BY <1>12, <1>13

BuildStep(f, postfix) ==
  f = [n \in Nat |-> IF n = 0 THEN Builder ELSE PostfixToken(f[n - 1], postfix[n])]
BuildTurns(postfix) == CHOOSE f : BuildStep(f, postfix)

(* post2nfa works on nodes and fragments over some set of labels.          *)
LEMMA BuilderReached ==
  ASSUME NEW postfix, Len(postfix) \in Nat
  PROVE  \E C : BuildTurns(postfix)[Len(postfix)] \in Builders(C)
<1> DEFINE C == {postfix[n] : n \in Nat} \cup {"Split", "Match"}
           A == Builders(C)
           h == [x \in Nat \X A |-> PostfixToken(x[2], postfix[x[1]])]
<1>1. "Split" \in C /\ "Match" \in C /\ \A n \in Nat : postfix[n] \in C
  OBVIOUS
<1> HIDE DEF C
<1>2. Builder \in A
  <2> DEFINE n1 == State("Match", NULL, NULL)
             ns == <<n1>>
  <2>1. n1 \in [c : C, out : Nat, out1 : Nat] /\ n1.out = 0 /\ n1.out1 = 0
    BY <1>1 DEF State, NULL
  <2> HIDE DEF n1
  <2>2. ns \in Nodes(C) /\ Len(ns) = 1 /\ ns[1] = n1
    BY <2>1 DEF Nodes
  <2> HIDE DEF ns
  <2>3. ArrowsInside(ns)
    BY <2>1, <2>2 DEF ArrowsInside
  <2>4. Builder = [nodes |-> ns, stack |-> <<>>, underflow |-> FALSE]
    BY DEF Builder, ns, n1
  <2>5. Builder \in [nodes : Nodes(C), stack : Seq(Fragments), underflow : BOOLEAN]
    BY <2>2, <2>4, EmptySeq
  <2> QED
    BY <2>2, <2>3, <2>4, <2>5 DEF Builders
<1>3. \A n \in Nat, b \in A : PostfixToken(b, postfix[n]) \in A
  BY <1>1, BuilderTyped
<1>4. h \in [Nat \X A -> A]
  <2> HIDE DEF A
  <2> QED
    BY <1>3
<1>5. PICK f \in [Nat -> A] : Turns(f, Builder, h)
  <2> HIDE DEF A, h
  <2> QED
    BY <1>2, <1>4, TurnsExist
<1>6. BuildStep(f, postfix)
  <2>1. \A n \in Nat : n # 0 => h[<<n, f[n - 1]>>] = PostfixToken(f[n - 1], postfix[n])
    <3> HIDE DEF A
    <3> QED
      OBVIOUS
  <2> HIDE DEF h, A
  <2> QED
    BY <1>5, <2>1 DEF Turns, BuildStep
<1> DEFINE g == BuildTurns(postfix)
<1>7. BuildStep(g, postfix)
  BY <1>6 DEF BuildTurns
<1> HIDE DEF A, g
<1>8. g[0] \in A /\ \A n \in Nat : g[n] \in A => g[n + 1] \in A
  <2>1. g[0] = Builder
    BY <1>7 DEF BuildStep
  <2>2. ASSUME NEW n \in Nat, g[n] \in A PROVE g[n + 1] \in A
    <3>1. n + 1 \in Nat /\ n + 1 # 0 /\ (n + 1) - 1 = n
      OBVIOUS
    <3>2. g[n + 1] = PostfixToken(g[(n + 1) - 1], postfix[n + 1])
      BY <1>7, <3>1 DEF BuildStep
    <3> QED
      BY <1>3, <2>2, <3>1, <3>2
  <2> QED
    BY <1>2, <2>1, <2>2
<1>9. g[Len(postfix)] \in A
  BY <1>8, TurnsStay
<1> QED
  BY <1>9 DEF A, g

(* What the matchers rely on.                                               *)
Automaton(a) ==
  /\ Len(a.nodes) \in Nat /\ Len(a.nodes) >= 2 /\ DOMAIN a.nodes = 1 .. Len(a.nodes)
  /\ \A i \in 1 .. Len(a.nodes) :
       a.nodes[i].out \in 0 .. Len(a.nodes) /\ a.nodes[i].out1 \in 0 .. Len(a.nodes)
  /\ a.start \in 1 .. Len(a.nodes)

Compiled(a) ==
  \/ a.status = "ok" /\ Automaton(a)
  \/ a.status \in {"rejected", "undefined"} /\ a.nodes = <<>>

(* post2nfa gives an automaton, or null.                                   *)
LEMMA BuiltIsCompiled ==
  ASSUME NEW postfix, Len(postfix) \in Nat
  PROVE  Compiled(Post2nfa(postfix))
<1> DEFINE b == BuildTurns(postfix)[Len(postfix)]
           e == Last(b.stack)
           a == Post2nfa(postfix)
<1>1. PICK C : b \in Builders(C)
  BY BuilderReached
<1>2. a = CASE b.underflow \/ b.stack = <<>> -> NoAutomaton("undefined")
            [] ~b.underflow /\ Len(b.stack) > 1 -> NoAutomaton("rejected")
            [] OTHER -> [status |-> "ok", nodes |-> Patch(b.nodes, e.out, MATCHSTATE),
                         start |-> e.start]
  BY DEF Post2nfa, BuildTurns, BuildStep
<1> HIDE DEF b, a
<1>3. /\ b.nodes \in Nodes(C) /\ ArrowsInside(b.nodes) /\ Len(b.nodes) \in Nat
      /\ b.stack \in Seq(Fragments) /\ Len(b.stack) \in Nat
  BY <1>1, BuilderParts
<1>4. CASE b.underflow \/ b.stack = <<>>
  <2>1. Len(b.stack) > 1 => b.stack # <<>>
    OBVIOUS
  <2>2. a = NoAutomaton("undefined")
    BY <1>2, <1>4, <2>1
  <2> QED
    BY <2>2 DEF NoAutomaton, Compiled, a
<1>5. CASE ~(b.underflow \/ b.stack = <<>>) /\ Len(b.stack) > 1
  <2>1. a = NoAutomaton("rejected")
    BY <1>2, <1>5
  <2> QED
    BY <2>1 DEF NoAutomaton, Compiled, a
<1>6. CASE ~(b.underflow \/ b.stack = <<>>) /\ ~(Len(b.stack) > 1)
  <2> DEFINE ns == Patch(b.nodes, e.out, MATCHSTATE)
  <2>1. a = [status |-> "ok", nodes |-> ns, start |-> e.start]
    BY <1>2, <1>6
  <2>2. Len(b.nodes) >= 2
    BY <1>1, <1>6, BuilderParts
  <2>3. ns \in Nodes(C) /\ Len(ns) = Len(b.nodes) /\ ArrowsInside(ns)
    <3>1. MATCHSTATE \in Nat /\ MATCHSTATE <= Len(b.nodes)
      BY <1>3, <2>2 DEF MATCHSTATE
    <3> QED
      BY <1>3, <3>1, Patched
  <2>4. e.start \in Nat \ {0} /\ e.start <= Len(b.nodes)
    <3>1. e \in Fragments /\ e = b.stack[Len(b.stack)] /\ Len(b.stack) \in Nat \ {0}
      BY <1>3, <1>6, LastFront
    <3>2. Len(b.stack) \in 1 .. Len(b.stack)
      BY <3>1
    <3>3. b.stack[Len(b.stack)].start <= Len(b.nodes)
      BY <1>1, <3>2, BuilderParts
    <3>4. e.start \in Nat \ {0}
      BY <3>1 DEF Fragments
    <3> QED
      BY <3>1, <3>3, <3>4
  <2> HIDE DEF ns, e
  <2>5. DOMAIN ns = 1 .. Len(ns)
    BY <2>3, LenProperties DEF Nodes
  <2>6. ASSUME NEW i \in 1 .. Len(ns)
        PROVE  ns[i].out \in 0 .. Len(ns) /\ ns[i].out1 \in 0 .. Len(ns)
    <3>1. ns[i] \in [c : C, out : Nat, out1 : Nat]
      BY <2>3, ElementOfSeq DEF Nodes
    <3>2. ns[i].out \in Nat /\ ns[i].out1 \in Nat
      BY <3>1
    <3>3. ns[i].out <= Len(ns) /\ ns[i].out1 <= Len(ns)
      BY <2>3 DEF ArrowsInside
    <3> QED
      BY <1>3, <2>3, <3>2, <3>3
  <2>7. a.status = "ok" /\ a.nodes = ns /\ a.start = e.start
    BY <2>1
  <2>8. e.start \in 1 .. Len(ns) /\ Len(ns) \in Nat /\ Len(ns) >= 2
    BY <1>3, <2>2, <2>3, <2>4
  <2> QED
    BY <2>5, <2>6, <2>7, <2>8 DEF Compiled, Automaton, a
<1> QED
  BY <1>4, <1>5, <1>6

(* main matches only with an automaton whose arrows lead to its states.    *)
LEMMA CompileIsSound ==
  ASSUME NEW re, Len(re) \in Nat
  PROVE  Compiled(Compile(re))
<1>1. Compiled(NoAutomaton("rejected"))
  BY DEF Compiled, NoAutomaton
<1>2. CASE Re2post(re).ok
  <2>1. PICK D : Re2post(re).dst \in Seq(D)
    BY <1>2, PostfixIsSequence
  <2>2. Len(Re2post(re).dst) \in Nat
    BY <2>1, LenProperties
  <2> QED
    BY <1>2, <2>2, BuiltIsCompiled DEF Compile
<1> QED
  BY <1>1, <1>2 DEF Compile

-----------------------------------------------------------------------------
(* A list under construction, over N states.                                *)
Walks(N) == [todo : Seq(0 .. N), mark : [1 .. N -> Nat], l : Seq(1 .. N)]

Splits == {s \in DOMAIN nfa.nodes : nfa.nodes[s].c = "Split"}

(* One call of addstate: nothing is left to do, a null or marked state, a   *)
(* Split, any other state.                                                  *)
Idle(w, v) == w.todo = <<>> /\ v = w

Skipped(w, id, v) ==
  /\ w.todo # <<>> /\ (Head(w.todo) = NULL \/ w.mark[Head(w.todo)] = id)
  /\ v.todo = Tail(w.todo) /\ v.mark = w.mark /\ v.l = w.l

Forked(w, id, v) ==
  LET s == Head(w.todo)
  IN  /\ w.todo # <<>> /\ s \in Splits /\ w.mark[s] # id
      /\ v.todo = <<nfa.nodes[s].out, nfa.nodes[s].out1>> \o Tail(w.todo)
      /\ v.mark = [w.mark EXCEPT ![s] = id] /\ v.l = w.l

Listed(w, id, v) ==
  LET s == Head(w.todo)
  IN  /\ w.todo # <<>> /\ s \in DOMAIN nfa.nodes \ Splits /\ w.mark[s] # id
      /\ v.todo = Tail(w.todo)
      /\ v.mark = [w.mark EXCEPT ![s] = id] /\ v.l = Append(w.l, s)

LEMMA HeadTail ==
  ASSUME NEW S, NEW s \in Seq(S), s # <<>>
  PROVE  /\ Head(s) \in S /\ Head(s) = s[1] /\ Tail(s) \in Seq(S)
         /\ Len(s) \in Nat \ {0} /\ Len(Tail(s)) = Len(s) - 1
         /\ \A i \in 1 .. Len(s) - 1 : Tail(s)[i] = s[i + 1]
<1>1. Len(s) \in Nat \ {0}
  BY EmptySeq
<1>2. Head(s) = s[1]
  OBVIOUS
<1> QED
  BY <1>1, <1>2, HeadTailProperties

LEMMA AddStateCases ==
  ASSUME Automaton(nfa), NEW id \in Nat, NEW w \in Walks(Len(nfa.nodes))
  PROVE  LET v == AddState(w, id)
         IN  /\ v \in Walks(Len(nfa.nodes))
             /\ Idle(w, v) \/ Skipped(w, id, v) \/ Forked(w, id, v) \/ Listed(w, id, v)
<1> DEFINE v == AddState(w, id)
           s == Head(w.todo)
           t == Tail(w.todo)
           m == [w.mark EXCEPT ![s] = id]
           f == <<nfa.nodes[s].out, nfa.nodes[s].out1>> \o t
<1> DEFINE N == Len(nfa.nodes)
<1>1. /\ N \in Nat /\ DOMAIN nfa.nodes = 1 .. N
      /\ \A i \in 1 .. N : nfa.nodes[i].out \in 0 .. N /\ nfa.nodes[i].out1 \in 0 .. N
  BY DEF Automaton
<1>2. w.todo \in Seq(0 .. N) /\ w.mark \in [1 .. N -> Nat] /\ w.l \in Seq(1 .. N)
      /\ w = [todo |-> w.todo, mark |-> w.mark, l |-> w.l]
  BY DEF Walks
<1> HIDE DEF N
<1>3. CASE w.todo = <<>>
  <2>1. v = w
    BY <1>3 DEF AddState
  <2> QED
    BY <1>3, <2>1 DEF Idle
<1>4. ASSUME w.todo # <<>>
      PROVE  s \in 0 .. N /\ t \in Seq(0 .. N)
  BY <1>2, <1>4, HeadTail
<1>5. CASE w.todo # <<>> /\ (s = NULL \/ w.mark[s] = id)
  <2>1. v = [w EXCEPT !.todo = t]
    BY <1>5 DEF AddState
  <2>2. v = [todo |-> t, mark |-> w.mark, l |-> w.l]
    BY <1>2, <2>1
  <2> HIDE DEF v, s, t
  <2>3. v \in Walks(N)
    BY <1>2, <1>4, <1>5, <2>2 DEF Walks
  <2>4. Skipped(w, id, v)
    BY <1>5, <2>2 DEF Skipped, s, t
  <2> QED
    BY <2>3, <2>4 DEF v, N
<1>6. CASE w.todo # <<>> /\ ~(s = NULL \/ w.mark[s] = id)
  <2>1. v = [todo |-> IF nfa.nodes[s].c = "Split" THEN f ELSE t, mark |-> m,
             l    |-> IF nfa.nodes[s].c = "Split" THEN w.l ELSE Append(w.l, s)]
    BY <1>6 DEF AddState
  <2>2. s \in 1 .. N
    BY <1>4, <1>6, <1>1 DEF NULL
  <2>3. m \in [1 .. N -> Nat]
    BY <1>2
  <2>4. f \in Seq(0 .. N)
    <3>1. <<nfa.nodes[s].out, nfa.nodes[s].out1>> \in Seq(0 .. N)
      BY <1>1, <2>2
    <3> QED
      BY <1>4, <1>6, <3>1, ConcatProperties
  <2>5. Append(w.l, s) \in Seq(1 .. N)
    BY <1>2, <2>2, AppendProperties
  <2>6. CASE nfa.nodes[s].c = "Split"
    <3>1. v = [todo |-> f, mark |-> m, l |-> w.l]
      BY <2>1, <2>6
    <3>2. s \in Splits
      BY <1>1, <2>2, <2>6 DEF Splits
    <3> HIDE DEF v, f, m, s
    <3>3. v \in Walks(N)
      BY <1>2, <2>3, <2>4, <3>1 DEF Walks
    <3>4. v.todo = f /\ v.mark = m /\ v.l = w.l
      BY <3>1
    <3>5. Forked(w, id, v)
      BY <1>6, <3>2, <3>4 DEF Forked, f, m, s
    <3> QED
      BY <3>3, <3>5 DEF v, N
  <2>7. CASE nfa.nodes[s].c # "Split"
    <3>1. v = [todo |-> t, mark |-> m, l |-> Append(w.l, s)]
      BY <2>1, <2>7
    <3>2. s \in DOMAIN nfa.nodes \ Splits
      BY <1>1, <2>2, <2>7 DEF Splits
    <3> HIDE DEF v, t, m, s
    <3>3. v \in Walks(N)
      BY <1>2, <1>4, <1>6, <2>3, <2>5, <3>1 DEF Walks
    <3>4. v.todo = t /\ v.mark = m /\ v.l = Append(w.l, s)
      BY <3>1
    <3>5. Listed(w, id, v)
      BY <1>6, <3>2, <3>4 DEF Listed, t, m, s
    <3> QED
      BY <3>3, <3>5 DEF v, N
  <2> QED
    BY <2>6, <2>7
<1> QED
  BY <1>3, <1>5, <1>6 DEF N

(* The turns of AddStates.                                                  *)
AddStep(f, todo) ==
  f = [n \in Nat |-> IF n = 0 THEN [todo |-> todo, mark |-> lastlist, l |-> <<>>]
                     ELSE AddState(f[n - 1], listid + 1)]
AddTurns(todo) == CHOOSE f : AddStep(f, todo)

Marks == lastlist \in [DOMAIN nfa.nodes -> 0 .. listid] /\ listid \in Nat

LEMMA AddTurnsTyped ==
  ASSUME Automaton(nfa), Marks, NEW todo \in Seq(0 .. Len(nfa.nodes))
  PROVE  LET g == AddTurns(todo)
         IN  /\ AddStates(todo) = g[Len(todo) + 2 * Len(nfa.nodes)]
             /\ g[0] = [todo |-> todo, mark |-> lastlist, l |-> <<>>]
             /\ \A n \in Nat : g[n] \in Walks(Len(nfa.nodes))
             /\ \A n \in Nat : g[n + 1] = AddState(g[n], listid + 1)
<1> DEFINE A == Walks(Len(nfa.nodes))
           a == [todo |-> todo, mark |-> lastlist, l |-> <<>>]
           h == [x \in Nat \X A |-> AddState(x[2], listid + 1)]
<1>1. listid + 1 \in Nat
  BY DEF Marks
<1>2. a \in A
  <2>1. DOMAIN nfa.nodes = 1 .. Len(nfa.nodes) /\ 0 .. listid \subseteq Nat
    BY DEF Automaton, Marks
  <2>2. lastlist \in [1 .. Len(nfa.nodes) -> Nat]
    BY <2>1 DEF Marks
  <2> QED
    BY <2>2, EmptySeq DEF Walks
<1>3. \A w \in A : AddState(w, listid + 1) \in A
  BY <1>1, AddStateCases
<1>4. h \in [Nat \X A -> A]
  <2> HIDE DEF A
  <2> QED
    BY <1>3
<1>5. PICK f \in [Nat -> A] : Turns(f, a, h)
  <2> HIDE DEF A, h, a
  <2> QED
    BY <1>2, <1>4, TurnsExist
<1>6. AddStep(f, todo)
  <2>1. \A n \in Nat : n # 0 => h[<<n, f[n - 1]>>] = AddState(f[n - 1], listid + 1)
    <3> HIDE DEF A
    <3> QED
      OBVIOUS
  <2> HIDE DEF h, A
  <2> QED
    BY <1>5, <2>1 DEF Turns, AddStep
<1> DEFINE g == AddTurns(todo)
<1>7. AddStep(g, todo)
  BY <1>6 DEF AddTurns
<1>8. AddStates(todo) = g[Len(todo) + 2 * Len(nfa.nodes)]
  BY DEF AddStates, AddTurns, AddStep
<1> HIDE DEF A, g
<1>9. g[0] = a /\ \A n \in Nat : g[n + 1] = AddState(g[n], listid + 1)
  <2>1. g[0] = a
    BY <1>7 DEF AddStep
  <2>2. ASSUME NEW n \in Nat PROVE g[n + 1] = AddState(g[n], listid + 1)
    <3>1. n + 1 \in Nat /\ n + 1 # 0 /\ (n + 1) - 1 = n
      OBVIOUS
    <3>2. g[n + 1] = AddState(g[(n + 1) - 1], listid + 1)
      BY <1>7, <3>1 DEF AddStep
    <3> QED
      BY <3>1, <3>2
  <2> QED
    BY <2>1, <2>2
<1>10. \A n \in Nat : g[n] \in A
  BY <1>2, <1>3, <1>9, TurnsStay
<1> QED
  BY <1>8, <1>9, <1>10 DEF A, g

(* No state is listed twice and none that is a Split; without a Split a     *)
(* walk lists no more states than it was called for.                        *)
Plain(l) ==
  /\ \A i \in 1 .. Len(l) : l[i] \notin Splits
  /\ \A i, j \in 1 .. Len(l) : l[i] = l[j] => i = j

PlainWalk(w, id, m) ==
  /\ \A s \in DOMAIN nfa.nodes : w.mark[s] <= id
  /\ \A i \in 1 .. Len(w.l) : w.mark[w.l[i]] = id
  /\ Plain(w.l)
  /\ Splits = {} => Len(w.l) + Len(w.todo) <= m

(* A turn of addstate lists no state twice, and no Split.                  *)
LEMMA PlainWalkStep ==
  ASSUME Automaton(nfa), NEW id \in Nat, NEW m \in Nat,
         NEW w \in Walks(Len(nfa.nodes)), PlainWalk(w, id, m)
  PROVE  PlainWalk(AddState(w, id), id, m)
<1> DEFINE v == AddState(w, id)
           s == Head(w.todo)
           N == Len(nfa.nodes)
<1>1. /\ v \in Walks(N)
      /\ Idle(w, v) \/ Skipped(w, id, v) \/ Forked(w, id, v) \/ Listed(w, id, v)
  BY AddStateCases
<1>2. N \in Nat /\ DOMAIN nfa.nodes = 1 .. N
  BY DEF Automaton
<1> HIDE DEF v, N
<1>3. /\ w.todo \in Seq(0 .. N) /\ w.mark \in [1 .. N -> Nat] /\ w.l \in Seq(1 .. N)
      /\ Len(w.l) \in Nat /\ Len(w.todo) \in Nat
  <2>1. w.todo \in Seq(0 .. N) /\ w.mark \in [1 .. N -> Nat] /\ w.l \in Seq(1 .. N)
    BY DEF Walks, N
  <2> QED
    BY <2>1, LenProperties
<1>4. \A i \in 1 .. Len(w.l) : w.l[i] \in 1 .. N
  BY <1>3, ElementOfSeq
<1>5. CASE Idle(w, v)
  BY <1>5 DEF Idle, v
<1>6. CASE Skipped(w, id, v)
  <2>1. Len(v.todo) = Len(w.todo) - 1
    BY <1>3, <1>6, HeadTail DEF Skipped
  <2>2. Len(w.l) + Len(w.todo) <= m => Len(w.l) + (Len(w.todo) - 1) <= m
    BY <1>3, SumBounds
  <2> QED
    BY <1>6, <2>1, <2>2 DEF Skipped, PlainWalk, v
<1>7. CASE Forked(w, id, v)
  <2>1. s \in 1 .. N /\ Splits # {} /\ v.l = w.l /\ v.mark = [w.mark EXCEPT ![s] = id]
    BY <1>2, <1>7 DEF Forked, Splits
  <2>2. \A x \in 1 .. N : v.mark[x] = IF x = s THEN id ELSE w.mark[x]
    BY <1>3, <2>1
  <2>3. \A x \in 1 .. N : v.mark[x] <= id
    BY <1>2, <2>2 DEF PlainWalk
  <2>4. \A i \in 1 .. Len(w.l) : v.mark[w.l[i]] = id
    BY <1>4, <2>2 DEF PlainWalk
  <2> QED
    BY <1>2, <2>1, <2>3, <2>4 DEF PlainWalk, v
<1>8. CASE Listed(w, id, v)
  <2>1. /\ s \in 1 .. N /\ s \notin Splits /\ w.mark[s] # id /\ v.l = Append(w.l, s)
        /\ v.mark = [w.mark EXCEPT ![s] = id] /\ v.todo = Tail(w.todo) /\ w.todo # <<>>
    BY <1>2, <1>8 DEF Listed
  <2>2. \A x \in 1 .. N : v.mark[x] = IF x = s THEN id ELSE w.mark[x]
    BY <1>3, <2>1
  <2>3. \A x \in 1 .. N : v.mark[x] <= id
    BY <1>2, <2>2 DEF PlainWalk
  <2>4. /\ Len(v.l) = Len(w.l) + 1 /\ v.l[Len(w.l) + 1] = s
        /\ \A i \in 1 .. Len(w.l) : v.l[i] = w.l[i]
    BY <1>3, <2>1, AppendProperties
  <2>5. ASSUME NEW i \in 1 .. Len(v.l)
        PROVE  i = Len(w.l) + 1 \/ i \in 1 .. Len(w.l)
    BY <1>3, <2>4
  <2>6. \A i \in 1 .. Len(w.l) : w.l[i] # s /\ w.l[i] \notin Splits /\ w.mark[w.l[i]] = id
    BY <2>1 DEF PlainWalk, Plain
  <2>7. \A i \in 1 .. Len(v.l) : v.mark[v.l[i]] = id /\ v.l[i] \notin Splits
    BY <1>4, <2>1, <2>2, <2>4, <2>5, <2>6
  <2>8. ASSUME NEW i \in 1 .. Len(v.l), NEW j \in 1 .. Len(v.l), v.l[i] = v.l[j]
        PROVE  i = j
    <3>1. CASE i \in 1 .. Len(w.l) /\ j \in 1 .. Len(w.l)
      BY <2>4, <2>8, <3>1 DEF PlainWalk, Plain
    <3>2. CASE ~(i \in 1 .. Len(w.l) /\ j \in 1 .. Len(w.l))
      BY <2>4, <2>5, <2>6, <2>8, <3>2
    <3> QED
      BY <3>1, <3>2
  <2>9. Len(v.todo) = Len(w.todo) - 1
    BY <1>3, <2>1, HeadTail
  <2>10. Len(w.l) + Len(w.todo) <= m => (Len(w.l) + 1) + (Len(w.todo) - 1) <= m
    BY <1>3, SumBounds
  <2> QED
    BY <1>2, <2>3, <2>4, <2>7, <2>8, <2>9, <2>10 DEF PlainWalk, Plain, v
<1> QED
  BY <1>1, <1>5, <1>6, <1>7, <1>8

(* A list as the programs keep it: it fits its array.                       *)
StateList(l) ==
  /\ l \in Seq(DOMAIN nfa.nodes) /\ Plain(l)
  /\ Splits = {} => Len(l) <= 1

(* What addstate leaves in a list, for the states it is called with.       *)
LEMMA BuiltList ==
  ASSUME Automaton(nfa), Marks, NEW todo \in Seq(0 .. Len(nfa.nodes)),
         Splits = {} => Len(todo) <= 1
  PROVE  /\ StateList(AddStates(todo).l)
         /\ AddStates(todo).mark \in [DOMAIN nfa.nodes -> 0 .. listid + 1]
<1> DEFINE g == AddTurns(todo)
           N == Len(nfa.nodes)
           id == listid + 1
           k == Len(todo) + 2 * N
           I == {w \in Walks(N) : PlainWalk(w, id, Len(todo))}
<1>1. /\ AddStates(todo) = g[k]
      /\ g[0] = [todo |-> todo, mark |-> lastlist, l |-> <<>>]
      /\ \A n \in Nat : g[n] \in Walks(N)
      /\ \A n \in Nat : g[n + 1] = AddState(g[n], id)
  BY AddTurnsTyped
<1>2. N \in Nat /\ DOMAIN nfa.nodes = 1 .. N /\ id \in Nat /\ Len(todo) \in Nat
  BY LenProperties DEF Automaton, Marks
<1> HIDE DEF g, N
<1>3. k \in Nat
  BY <1>2
<1>4. g[0] \in I
  <2>1. \A s \in 1 .. N : lastlist[s] <= id
    BY <1>2 DEF Marks
  <2>2. Len(<<>>) = 0 /\ 1 .. 0 = {}
    OBVIOUS
  <2>3. g[0].mark = lastlist /\ g[0].l = <<>> /\ g[0].todo = todo
    BY <1>1
  <2>4. Plain(<<>>)
    BY <2>2 DEF Plain
  <2> HIDE DEF id
  <2>5. PlainWalk(g[0], id, Len(todo))
    <3>1. Len(g[0].l) + Len(g[0].todo) <= Len(todo)
      BY <1>2, <2>2, <2>3
    <3> QED
      BY <1>2, <2>1, <2>2, <2>3, <2>4, <3>1 DEF PlainWalk
  <2> QED
    BY <1>1, <2>5
<1>5. \A n \in Nat : g[n] \in I => g[n + 1] \in I
  <2> TAKE n \in Nat
  <2> HAVE g[n] \in I
  <2>1. g[n] \in Walks(N) /\ PlainWalk(g[n], id, Len(todo)) /\ g[n + 1] = AddState(g[n], id)
    BY <1>1
  <2> HIDE DEF id
  <2>2. PlainWalk(g[n + 1], id, Len(todo))
    BY <1>2, <2>1, PlainWalkStep DEF N
  <2>3. g[n + 1] \in Walks(N)
    BY <1>1
  <2> QED
    BY <2>2, <2>3
<1>6. g[k] \in I
  <2> HIDE DEF I, k
  <2> QED
    BY <1>3, <1>4, <1>5, TurnsStay
<1> HIDE DEF k, id
<1>7. /\ g[k].l \in Seq(1 .. N) /\ g[k].mark \in [1 .. N -> Nat] /\ Plain(g[k].l)
      /\ g[k].todo \in Seq(0 .. N)
      /\ \A s \in 1 .. N : g[k].mark[s] <= id
      /\ Splits = {} => Len(g[k].l) + Len(g[k].todo) <= Len(todo)
  BY <1>2, <1>6 DEF Walks, PlainWalk
<1>8. Len(g[k].l) \in Nat /\ Len(g[k].todo) \in Nat
  BY <1>7, LenProperties
<1>9. Splits = {} => Len(g[k].l) <= 1
  <2>1. Splits = {} => Len(g[k].l) <= Len(todo) /\ Len(todo) <= 1
    BY <1>2, <1>7, <1>8, SumBounds
  <2>2. \A a, b \in Nat : a <= b /\ b <= 1 => a <= 1
    OBVIOUS
  <2> QED
    BY <1>2, <1>8, <2>1, <2>2
<1>10. g[k].mark \in [1 .. N -> 0 .. id]
  <2> DEFINE m == g[k].mark
  <2>1. m \in [1 .. N -> Nat] /\ \A s \in 1 .. N : m[s] <= id
    BY <1>7
  <2> HIDE DEF m
  <2>2. ASSUME NEW s \in 1 .. N
        PROVE  m[s] \in 0 .. id
    BY <1>2, <2>1
  <2>3. m \in [1 .. N -> 0 .. id]
    BY <2>1, <2>2, Zenon
  <2> QED
    BY <2>3 DEF m
<1> QED
  BY <1>1, <1>2, <1>7, <1>9, <1>10 DEF StateList, id

(* startlist gives a list that holds no state twice.                       *)
LEMMA StartListIsGood ==
  ASSUME Automaton(nfa), Marks
  PROVE  /\ StateList(StartList.l)
         /\ StartList.mark \in [DOMAIN nfa.nodes -> 0 .. listid + 1]
<1>1. nfa.start \in 0 .. Len(nfa.nodes)
  BY DEF Automaton
<1>2. <<nfa.start>> \in Seq(0 .. Len(nfa.nodes)) /\ Len(<<nfa.start>>) <= 1
  BY <1>1
<1> QED
  BY <1>2, BuiltList DEF StartList

(* The states that c leads to from a list, null pointers included.          *)
Targets(from, c) ==
  [i \in DOMAIN from |-> IF nfa.nodes[from[i]].c = c THEN nfa.nodes[from[i]].out ELSE NULL]

LEMMA TargetsTyped ==
  ASSUME Automaton(nfa), NEW from \in Seq(DOMAIN nfa.nodes), NEW c
  PROVE  Targets(from, c) \in Seq(0 .. Len(nfa.nodes)) /\ Len(Targets(from, c)) = Len(from)
<1>1. Len(from) \in Nat /\ DOMAIN from = 1 .. Len(from)
  BY LenProperties
<1>2. \A i \in 1 .. Len(from) : from[i] \in 1 .. Len(nfa.nodes)
  BY ElementOfSeq DEF Automaton
<1>3. \A i \in 1 .. Len(from) : nfa.nodes[from[i]].out \in 0 .. Len(nfa.nodes)
  BY <1>2 DEF Automaton
<1>4. 0 \in 0 .. Len(nfa.nodes)
  BY DEF Automaton
<1>5. Targets(from, c) \in [1 .. Len(from) -> 0 .. Len(nfa.nodes)]
  BY <1>1, <1>3, <1>4 DEF Targets, NULL
<1> QED
  BY <1>1, <1>5, FunctionIsSeq

(* step gives a list that holds no state twice.                            *)
LEMMA StepListIsGood ==
  ASSUME Automaton(nfa), Marks, NEW from, StateList(from), NEW c
  PROVE  /\ StateList(StepList(from, c).l)
         /\ StepList(from, c).mark \in [DOMAIN nfa.nodes -> 0 .. listid + 1]
<1>1. /\ Targets(from, c) \in Seq(0 .. Len(nfa.nodes))
      /\ Splits = {} => Len(Targets(from, c)) <= 1
  BY TargetsTyped DEF StateList
<1>2. StepList(from, c) = AddStates(Targets(from, c))
  BY DEF StepList, Targets
<1> QED
  BY <1>1, <1>2, BuiltList

(* qsort keeps what dstate needs of a list.                                *)
LEMMA SortedList ==
  ASSUME NEW l, StateList(l)
  PROVE  StateList(Qsort(l)) /\ Len(Qsort(l)) = Len(l)
<1> DEFINE r == Reverse(l)
           D == DOMAIN nfa.nodes
<1>1. Len(l) \in Nat /\ l \in Seq(D) /\ \A i \in 1 .. Len(l) : l[i] \in D
  BY LenProperties, ElementOfSeq DEF StateList
<1> HIDE DEF D
<1>2. \A i \in 1 .. Len(l) : (Len(l) - i) + 1 \in 1 .. Len(l)
  BY <1>1
<1>3. r = [i \in 1 .. Len(l) |-> l[(Len(l) - i) + 1]]
  BY DEF Reverse
<1> HIDE DEF r
<1>4. r \in Seq(D) /\ Len(r) = Len(l) /\ \A i \in 1 .. Len(l) : r[i] = l[(Len(l) - i) + 1]
  <2>1. r \in [1 .. Len(l) -> D]
    BY <1>1, <1>2, <1>3
  <2> QED
    BY <1>1, <1>3, <2>1, FunctionIsSeq
<1>5. Plain(r)
  <2>1. \A i \in 1 .. Len(l) : r[i] \notin Splits
    BY <1>2, <1>4 DEF StateList, Plain
  <2>2. ASSUME NEW i \in 1 .. Len(l), NEW j \in 1 .. Len(l), r[i] = r[j]
        PROVE  i = j
    <3>1. (Len(l) - i) + 1 = (Len(l) - j) + 1
      BY <1>2, <1>4, <2>2 DEF StateList, Plain
    <3> QED
      BY <1>1, <3>1
  <2> QED
    BY <1>4, <2>1, <2>2 DEF Plain
<1> QED
  BY <1>4, <1>5 DEF StateList, Qsort, D, r

(* The bound that ListsFit states.                                          *)
LEMMA ListFits ==
  ASSUME Automaton(nfa), NEW l, StateList(l)
  PROVE  Len(l) \in Nat /\ Len(l) <= Len(nfa.nodes) - 1
<1> DEFINE N == Len(nfa.nodes)
<1>1. N \in Nat /\ N >= 2 /\ DOMAIN nfa.nodes = 1 .. N
  BY DEF Automaton
<1> HIDE DEF N
<1>2. l \in Seq(1 .. N) /\ Len(l) \in Nat /\ DOMAIN l = 1 .. Len(l)
  BY <1>1, LenProperties DEF StateList
<1>3. CASE Splits = {}
  BY <1>1, <1>2, <1>3 DEF StateList, N
<1>4. CASE Splits # {}
  <2>1. PICK s \in 1 .. N : s \in Splits
    BY <1>1, <1>4 DEF Splits
  <2> DEFINE T == (1 .. N) \ {s}
  <2>2. IsFiniteSet(1 .. N) /\ Cardinality(1 .. N) = N
    BY <1>1, CountTo
  <2>3. IsFiniteSet(T) /\ Cardinality(T) = N - 1
    BY <2>1, <2>2, FS_RemoveElement
  <2>4. ASSUME NEW i \in 1 .. Len(l)
        PROVE  l[i] \in T
    <3>1. l[i] \in 1 .. N
      BY <1>2, ElementOfSeq
    <3>2. l[i] \notin Splits
      BY DEF StateList, Plain
    <3> QED
      BY <2>1, <3>1, <3>2, Zenon
  <2>5. l \in Injection(1 .. Len(l), T)
    <3>1. l \in [1 .. Len(l) -> T]
      BY <1>2, <2>4, LenProperties
    <3>2. \A i, j \in 1 .. Len(l) : l[i] = l[j] => i = j
      BY DEF StateList, Plain
    <3> QED
      BY <3>1, <3>2 DEF Injection, IsInjective
  <2> HIDE DEF T
  <2>6. Cardinality(1 .. Len(l)) <= Cardinality(T)
    BY <2>3, <2>5, FS_Injection
  <2>7. Cardinality(1 .. Len(l)) = Len(l)
    BY <1>2, CountTo
  <2> QED
    BY <1>2, <2>3, <2>6, <2>7 DEF N
<1> QED
  BY <1>3, <1>4

-----------------------------------------------------------------------------
(* The DStates of a heap of n: arrows, subtrees and the free list stay in   *)
(* the heap, and the lists fit.                                             *)
Lists == {l \in Seq(DOMAIN nfa.nodes) : StateList(l)}

DStatesOf(n) == [l : Lists, next : [Chars -> 0 .. n], left : 0 .. n, right : 0 .. n]

HeapOf(heap) ==
  /\ Len(heap) \in Nat /\ heap \in Seq(DStatesOf(Len(heap)))
  /\ DOMAIN heap = 1 .. Len(heap)

LEMMA HeapParts ==
  ASSUME NEW heap, HeapOf(heap), NEW e \in 1 .. Len(heap)
  PROVE  /\ heap[e].l \in Lists /\ StateList(heap[e].l)
         /\ heap[e].left \in 0 .. Len(heap) /\ heap[e].right \in 0 .. Len(heap)
         /\ heap[e].next \in [Chars -> 0 .. Len(heap)]
         /\ heap[e] \in DStatesOf(Len(heap))
<1>1. heap[e] \in DStatesOf(Len(heap))
  BY ElementOfSeq DEF HeapOf
<1> QED
  BY <1>1 DEF DStatesOf, Lists

(* dstate's search.                                                         *)
Finds(n) == [d : 0 .. n, at : {<<>>} \cup ((1 .. n) \X {"left", "right"})]

LEMMA DescendTyped ==
  ASSUME NEW heap, HeapOf(heap), NEW l, NEW w \in Finds(Len(heap))
  PROVE  Descend(heap, l, w) \in Finds(Len(heap))
<1> DEFINE N == Len(heap)
<1>1. CASE w.d = NULL \/ ~(Precedes(l, heap[w.d].l) \/ Precedes(heap[w.d].l, l))
  <2>1. Descend(heap, l, w) = w
    BY <1>1 DEF Descend
  <2> QED
    BY <2>1
<1>2. CASE w.d # NULL /\ (Precedes(l, heap[w.d].l) \/ Precedes(heap[w.d].l, l))
  <2>1. w.d \in 1 .. N
    BY <1>2 DEF Finds, NULL, HeapOf
  <2>2. heap[w.d].left \in 0 .. N /\ heap[w.d].right \in 0 .. N
    BY <2>1, HeapParts
  <2>3. /\ [d |-> heap[w.d].left, at |-> <<w.d, "left">>] \in Finds(N)
        /\ [d |-> heap[w.d].right, at |-> <<w.d, "right">>] \in Finds(N)
    BY <2>1, <2>2 DEF Finds
  <2>4. Descend(heap, l, w) \in {[d |-> heap[w.d].left, at |-> <<w.d, "left">>],
                                 [d |-> heap[w.d].right, at |-> <<w.d, "right">>]}
    BY <1>2 DEF Descend
  <2> QED
    BY <2>3, <2>4
<1> QED
  BY <1>1, <1>2

SearchStep(f, heap, l, t) ==
  f = [n \in Nat |-> IF n = 0 THEN [d |-> t, at |-> <<>>] ELSE Descend(heap, l, f[n - 1])]
SearchTurns(heap, l, t) == CHOOSE f : SearchStep(f, heap, l, t)

LEMMA SearchTurnsTyped ==
  ASSUME NEW heap, HeapOf(heap), NEW l, NEW t \in 0 .. Len(heap)
  PROVE  LET g == SearchTurns(heap, l, t)
         IN  /\ Search(heap, l, t) = g[Len(heap)]
             /\ g[0] = [d |-> t, at |-> <<>>]
             /\ \A n \in Nat : g[n] \in Finds(Len(heap))
             /\ \A n \in Nat : g[n + 1] = Descend(heap, l, g[n])
<1> DEFINE A == Finds(Len(heap))
           a == [d |-> t, at |-> <<>>]
           h == [x \in Nat \X A |-> Descend(heap, l, x[2])]
<1>1. a \in A
  BY DEF Finds
<1>2. \A w \in A : Descend(heap, l, w) \in A
  BY DescendTyped
<1>3. h \in [Nat \X A -> A]
  <2> HIDE DEF A
  <2> QED
    BY <1>2
<1>4. PICK f \in [Nat -> A] : Turns(f, a, h)
  <2> HIDE DEF A, h, a
  <2> QED
    BY <1>1, <1>3, TurnsExist
<1>5. SearchStep(f, heap, l, t)
  <2>1. \A n \in Nat : n # 0 => h[<<n, f[n - 1]>>] = Descend(heap, l, f[n - 1])
    <3> HIDE DEF A
    <3> QED
      OBVIOUS
  <2> HIDE DEF h, A
  <2> QED
    BY <1>4, <2>1 DEF Turns, SearchStep
<1> DEFINE g == SearchTurns(heap, l, t)
<1>6. SearchStep(g, heap, l, t)
  BY <1>5 DEF SearchTurns
<1>7. Search(heap, l, t) = g[Len(heap)]
  BY DEF Search, SearchTurns, SearchStep
<1> HIDE DEF A, g
<1>8. g[0] = a /\ \A n \in Nat : g[n + 1] = Descend(heap, l, g[n])
  <2>1. g[0] = a
    BY <1>6 DEF SearchStep
  <2>2. ASSUME NEW n \in Nat PROVE g[n + 1] = Descend(heap, l, g[n])
    <3>1. n + 1 \in Nat /\ n + 1 # 0 /\ (n + 1) - 1 = n
      OBVIOUS
    <3>2. g[n + 1] = Descend(heap, l, g[(n + 1) - 1])
      BY <1>6, <3>1 DEF SearchStep
    <3> QED
      BY <3>1, <3>2
  <2> QED
    BY <2>1, <2>2
<1>9. \A n \in Nat : g[n] \in A
  BY <1>1, <1>2, <1>8, TurnsStay
<1> QED
  BY <1>7, <1>8, <1>9 DEF A, g

(* A search ends at a DState of the heap or at null.                       *)
LEMMA SearchTyped ==
  ASSUME NEW heap, HeapOf(heap), NEW l, NEW t \in 0 .. Len(heap)
  PROVE  Search(heap, l, t) \in Finds(Len(heap))
  BY SearchTurnsTyped DEF HeapOf

(* A walk over a tree.                                                      *)
Visits(n) == [todo : Seq(0 .. n), l : Seq(1 .. n)]

Passed(w, v) == w.todo # <<>> /\ Head(w.todo) = NULL /\ v.todo = Tail(w.todo) /\ v.l = w.l

Visited(heap, w, v) ==
  LET t == Head(w.todo)
  IN  /\ w.todo # <<>> /\ t \in DOMAIN heap
      /\ v.todo = <<heap[t].right, heap[t].left>> \o Tail(w.todo) /\ v.l = Append(w.l, t)

LEMMA VisitCases ==
  ASSUME NEW heap, HeapOf(heap), NEW w \in Visits(Len(heap))
  PROVE  LET v == Visit(heap, w)
         IN  /\ v \in Visits(Len(heap))
             /\ Idle(w, v) \/ Passed(w, v) \/ Visited(heap, w, v)
<1> DEFINE v == Visit(heap, w)
           t == Head(w.todo)
           u == Tail(w.todo)
           N == Len(heap)
           f == <<heap[t].right, heap[t].left>> \o u
<1>1. N \in Nat /\ DOMAIN heap = 1 .. N
  BY DEF HeapOf
<1>2. w.todo \in Seq(0 .. N) /\ w.l \in Seq(1 .. N) /\ w = [todo |-> w.todo, l |-> w.l]
  BY DEF Visits
<1>3. CASE w.todo = <<>>
  BY <1>3 DEF Visit, Idle
<1>4. ASSUME w.todo # <<>>
      PROVE  t \in 0 .. N /\ u \in Seq(0 .. N)
  BY <1>2, <1>4, HeadTail
<1>5. CASE w.todo # <<>> /\ t = NULL
  <2>1. v = [w EXCEPT !.todo = u]
    BY <1>5 DEF Visit
  <2>2. v = [todo |-> u, l |-> w.l]
    BY <1>2, <2>1
  <2> HIDE DEF v, t, u
  <2>3. v \in Visits(N)
    BY <1>2, <1>4, <1>5, <2>2 DEF Visits
  <2>4. Passed(w, v)
    BY <1>5, <2>2 DEF Passed, t, u
  <2> QED
    BY <2>3, <2>4 DEF v
<1>6. CASE w.todo # <<>> /\ t # NULL
  <2>1. v = [todo |-> f, l |-> Append(w.l, t)]
    BY <1>6 DEF Visit
  <2>2. t \in 1 .. N
    BY <1>1, <1>4, <1>6 DEF NULL
  <2>3. f \in Seq(0 .. N)
    <3>1. <<heap[t].right, heap[t].left>> \in Seq(0 .. N)
      BY <2>2, HeapParts
    <3> QED
      BY <1>4, <1>6, <3>1, ConcatProperties
  <2>4. Append(w.l, t) \in Seq(1 .. N)
    BY <1>2, <2>2, AppendProperties
  <2> HIDE DEF v, f, t
  <2>5. v \in Visits(N)
    BY <2>1, <2>3, <2>4 DEF Visits
  <2>6. Visited(heap, w, v)
    BY <1>1, <1>6, <2>1, <2>2 DEF Visited, f, t
  <2> QED
    BY <2>5, <2>6 DEF v
<1> QED
  BY <1>3, <1>5, <1>6

VisitStep(f, heap, t) ==
  f = [n \in Nat |-> IF n = 0 THEN [todo |-> <<t>>, l |-> <<>>] ELSE Visit(heap, f[n - 1])]
VisitTurns(heap, t) == CHOOSE f : VisitStep(f, heap, t)

LEMMA VisitTurnsTyped ==
  ASSUME NEW heap, HeapOf(heap), NEW t \in 0 .. Len(heap)
  PROVE  LET g == VisitTurns(heap, t)
         IN  /\ TreeList(heap, t) = g[1 + 2 * Len(heap)].l
             /\ g[0] = [todo |-> <<t>>, l |-> <<>>]
             /\ \A n \in Nat : g[n] \in Visits(Len(heap))
             /\ \A n \in Nat : g[n + 1] = Visit(heap, g[n])
<1> DEFINE A == Visits(Len(heap))
           a == [todo |-> <<t>>, l |-> <<>>]
           h == [x \in Nat \X A |-> Visit(heap, x[2])]
<1>1. a \in A
  BY DEF Visits
<1>2. \A w \in A : Visit(heap, w) \in A
  BY VisitCases
<1>3. h \in [Nat \X A -> A]
  <2> HIDE DEF A
  <2> QED
    BY <1>2
<1>4. PICK f \in [Nat -> A] : Turns(f, a, h)
  <2> HIDE DEF A, h, a
  <2> QED
    BY <1>1, <1>3, TurnsExist
<1>5. VisitStep(f, heap, t)
  <2>1. \A n \in Nat : n # 0 => h[<<n, f[n - 1]>>] = Visit(heap, f[n - 1])
    <3> HIDE DEF A
    <3> QED
      OBVIOUS
  <2> HIDE DEF h, A
  <2> QED
    BY <1>4, <2>1 DEF Turns, VisitStep
<1> DEFINE g == VisitTurns(heap, t)
<1>6. VisitStep(g, heap, t)
  BY <1>5 DEF VisitTurns
<1>7. TreeList(heap, t) = g[1 + 2 * Len(heap)].l
  BY DEF TreeList, VisitTurns, VisitStep
<1> HIDE DEF A, g
<1>8. g[0] = a /\ \A n \in Nat : g[n + 1] = Visit(heap, g[n])
  <2>1. g[0] = a
    BY <1>6 DEF VisitStep
  <2>2. ASSUME NEW n \in Nat PROVE g[n + 1] = Visit(heap, g[n])
    <3>1. n + 1 \in Nat /\ n + 1 # 0 /\ (n + 1) - 1 = n
      OBVIOUS
    <3>2. g[n + 1] = Visit(heap, g[(n + 1) - 1])
      BY <1>6, <3>1 DEF VisitStep
    <3> QED
      BY <3>1, <3>2
  <2> QED
    BY <2>1, <2>2
<1>9. \A n \in Nat : g[n] \in A
  BY <1>1, <1>2, <1>8, TurnsStay
<1> QED
  BY <1>7, <1>8, <1>9 DEF A, g

(* freestates walks over DStates of the heap.                              *)
LEMMA TreeListTyped ==
  ASSUME NEW heap, HeapOf(heap), NEW t \in 0 .. Len(heap)
  PROVE  /\ TreeList(heap, t) \in Seq(1 .. Len(heap))
         /\ Len(TreeList(heap, t)) \in Nat
         /\ \A i \in 1 .. Len(TreeList(heap, t)) : TreeList(heap, t)[i] \in 1 .. Len(heap)
<1>1. 1 + 2 * Len(heap) \in Nat
  BY DEF HeapOf
<1>2. TreeList(heap, t) \in Seq(1 .. Len(heap))
  BY <1>1, VisitTurnsTyped DEF Visits
<1> QED
  BY <1>2, LenProperties, ElementOfSeq

-----------------------------------------------------------------------------
(* What dstate makes of a cache keeps its types.                            *)
CacheOf(k) ==
  /\ HeapOf(k.heap) /\ k.nstates \in Nat
  /\ k.alldstates \in 0 .. Len(k.heap) /\ k.freelist \in 0 .. Len(k.heap)
  /\ k = [heap |-> k.heap, alldstates |-> k.alldstates, freelist |-> k.freelist,
          nstates |-> k.nstates]

NewDState(l) == [NoDState EXCEPT !.l = l]

LEMMA NewDStateParts ==
  ASSUME NEW l \in Lists, NEW n \in Nat
  PROVE  /\ NewDState(l) \in DStatesOf(n)
         /\ NewDState(l) = [l |-> l, next |-> [c \in Chars |-> NULL], left |-> NULL, right |-> NULL]
<1>1. NewDState(l) = [l |-> l, next |-> [c \in Chars |-> NULL], left |-> NULL, right |-> NULL]
  BY DEF NewDState, NoDState
<1>2. NULL \in 0 .. n
  BY DEF NULL
<1>3. [c \in Chars |-> NULL] \in [Chars -> 0 .. n]
  BY <1>2
<1> QED
  BY <1>1, <1>2, <1>3 DEF DStatesOf

LEMMA DStatesOfMore ==
  ASSUME NEW n \in Nat, NEW m \in Nat, n <= m
  PROVE  DStatesOf(n) \subseteq DStatesOf(m)
<1>1. 0 .. n \subseteq 0 .. m
  OBVIOUS
<1> QED
  BY <1>1 DEF DStatesOf

LEMMA HeapGrown ==
  ASSUME NEW heap, HeapOf(heap), NEW l \in Lists
  PROVE  LET h == Append(heap, NewDState(l))
         IN  /\ HeapOf(h) /\ Len(h) = Len(heap) + 1
             /\ \A e \in 1 .. Len(heap) : h[e] = heap[e]
             /\ h[Len(heap) + 1] = NewDState(l)
<1> DEFINE n == Len(heap)
           h == Append(heap, NewDState(l))
<1>1. n \in Nat /\ n + 1 \in Nat /\ n <= n + 1
  BY DEF HeapOf
<1>2. heap \in Seq(DStatesOf(n + 1))
  BY <1>1, DStatesOfMore, SeqMonotonic DEF HeapOf
<1>3. NewDState(l) \in DStatesOf(n + 1)
  BY <1>1, NewDStateParts
<1> HIDE DEF n
<1>4. /\ h \in Seq(DStatesOf(n + 1)) /\ Len(h) = Len(heap) + 1
      /\ \A e \in 1 .. Len(heap) : h[e] = heap[e]
      /\ h[Len(heap) + 1] = NewDState(l)
  BY <1>2, <1>3, AppendProperties
<1>5. HeapOf(h)
  <2> HIDE DEF h
  <2>1. Len(h) = n + 1 /\ DOMAIN h = 1 .. Len(h)
    BY <1>4, LenProperties DEF n
  <2> QED
    BY <1>1, <1>4, <2>1 DEF HeapOf
<1> QED
  BY <1>4, <1>5

LEMMA HeapChanged ==
  ASSUME NEW heap, HeapOf(heap), NEW e \in 1 .. Len(heap), NEW r \in DStatesOf(Len(heap))
  PROVE  LET h == [heap EXCEPT ![e] = r]
         IN  /\ HeapOf(h) /\ Len(h) = Len(heap)
             /\ \A x \in 1 .. Len(heap) : h[x] = IF x = e THEN r ELSE heap[x]
<1> DEFINE h == [heap EXCEPT ![e] = r]
           S == DStatesOf(Len(heap))
<1>1. heap \in Seq(S) /\ Len(heap) \in Nat
  BY DEF HeapOf
<1> HIDE DEF S
<1>2. r \in S
  BY DEF S
<1>3. /\ h \in Seq(S) /\ Len(h) = Len(heap)
      /\ \A x \in 1 .. Len(heap) : h[x] = IF x = e THEN r ELSE heap[x]
  BY <1>1, <1>2, ExceptSeq
<1> HIDE DEF h
<1>4. DOMAIN h = 1 .. Len(h)
  BY <1>3, LenProperties
<1> QED
  BY <1>1, <1>3, <1>4 DEF HeapOf, S, h

(* A link in a DState.                                                      *)
LEMMA LeftChanged ==
  ASSUME NEW n \in Nat, NEW r \in DStatesOf(n), NEW x, x \in 0 .. n
  PROVE  /\ [r EXCEPT !.left = x] \in DStatesOf(n)
         /\ [r EXCEPT !.left = x] = [l |-> r.l, next |-> r.next, left |-> x, right |-> r.right]
  BY DEF DStatesOf

LEMMA RightChanged ==
  ASSUME NEW n \in Nat, NEW r \in DStatesOf(n), NEW x, x \in 0 .. n
  PROVE  /\ [r EXCEPT !.right = x] \in DStatesOf(n)
         /\ [r EXCEPT !.right = x] = [l |-> r.l, next |-> r.next, left |-> r.left, right |-> x]
  BY DEF DStatesOf

LEMMA ArrowChanged ==
  ASSUME NEW n \in Nat, NEW r \in DStatesOf(n), NEW x, x \in 0 .. n, NEW c \in Chars
  PROVE  /\ [r EXCEPT !.next[c] = x] \in DStatesOf(n)
         /\ [r EXCEPT !.next[c] = x] =
              [l |-> r.l, next |-> [r.next EXCEPT ![c] = x], left |-> r.left, right |-> r.right]
  BY DEF DStatesOf

(* freestates threads the DStates of the tree in front of the free list.    *)
(* f is the cache k with the DStates w threaded in front of the free list.  *)
ThreadedOn(k, f, w) ==
  /\ f.freelist = IF w = <<>> THEN k.freelist ELSE w[1]
  /\ \A e \in 1 .. Len(k.heap) :
       /\ (\A i \in 1 .. Len(w) : w[i] # e) => f.heap[e] = k.heap[e]
       /\ (\E i \in 1 .. Len(w) : w[i] = e) =>
            \E i \in 1 .. Len(w) :
              /\ w[i] = e
              /\ f.heap[e].left = IF i = Len(w) THEN k.freelist ELSE w[i + 1]

(* freestates threads the tree on the free list, and writes only left.     *)
LEMMA FreeStatesParts ==
  ASSUME NEW k, CacheOf(k), NEW t \in 0 .. Len(k.heap)
  PROVE  LET f == FreeStates(k, t)
             freed == TreeList(k.heap, t)
         IN  /\ CacheOf(f) /\ Len(f.heap) = Len(k.heap)
             /\ f.alldstates = k.alldstates /\ f.nstates = k.nstates
             /\ \A e \in 1 .. Len(k.heap) :
                  /\ f.heap[e].l = k.heap[e].l /\ f.heap[e].next = k.heap[e].next
                  /\ f.heap[e].right = k.heap[e].right
             /\ ThreadedOn(k, f, freed)
<1> DEFINE heap == k.heap
           n == Len(heap)
           freed == TreeList(heap, t)
           m == Len(freed)
           after(i) == IF i = m THEN k.freelist ELSE freed[i + 1]
           at(e) == CHOOSE i \in DOMAIN freed : freed[i] = e
           cell(e) == IF \E i \in DOMAIN freed : freed[i] = e
                      THEN [heap[e] EXCEPT !.left = after(at(e))] ELSE heap[e]
           hh == [e \in DOMAIN heap |-> cell(e)]
<1>1. /\ n \in Nat /\ HeapOf(heap) /\ DOMAIN heap = 1 .. n
      /\ freed \in Seq(1 .. n) /\ m \in Nat
      /\ \A i \in 1 .. m : freed[i] \in 1 .. n
      /\ DOMAIN freed = 1 .. m
  BY TreeListTyped, LenProperties DEF CacheOf, HeapOf
<1>2. FreeStates(k, t) = IF freed = <<>> THEN k ELSE [k EXCEPT !.freelist = freed[1], !.heap = hh]
  BY DEF FreeStates
<1> HIDE DEF freed, m, n
<1>3. CASE freed = <<>>
  <2>1. m = 0 /\ 1 .. 0 = {}
    BY <1>3 DEF m
  <2> QED
    BY <1>2, <1>3, <2>1 DEF ThreadedOn, freed, m, n
<1>4. CASE freed # <<>>
  <2>1. \A i \in 1 .. m : after(i) \in 0 .. n
    <3> SUFFICES ASSUME NEW i \in 1 .. m PROVE after(i) \in 0 .. n
      OBVIOUS
    <3>1. CASE i = m
      BY <3>1 DEF CacheOf, n
    <3>2. CASE i # m
      <4>1. i + 1 \in 1 .. m
        BY <1>1, <3>2
      <4>2. freed[i + 1] \in 1 .. n
        BY <1>1, <4>1
      <4> QED
        BY <3>2, <4>2
    <3> QED
      BY <3>1, <3>2
  <2> HIDE DEF after
  <2>2. ASSUME NEW e \in 1 .. n, \A i \in 1 .. m : freed[i] # e
        PROVE  cell(e) = heap[e] /\ cell(e) \in DStatesOf(n)
    BY <1>1, <2>2, HeapParts DEF n
  <2>3. ASSUME NEW e \in 1 .. n, \E i \in 1 .. m : freed[i] = e
        PROVE  /\ at(e) \in 1 .. m /\ freed[at(e)] = e
               /\ cell(e) = [l |-> heap[e].l, next |-> heap[e].next, left |-> after(at(e)),
                             right |-> heap[e].right]
               /\ cell(e) \in DStatesOf(n)
    <3>1. at(e) \in 1 .. m /\ freed[at(e)] = e
      BY <1>1, <2>3
    <3>2. cell(e) = [heap[e] EXCEPT !.left = after(at(e))]
      BY <1>1, <2>3
    <3>3. heap[e] \in DStatesOf(n) /\ after(at(e)) \in 0 .. n
      BY <1>1, <2>1, <3>1, HeapParts DEF n
    <3> DEFINE r == heap[e]
               x == after(at(e))
    <3> HIDE DEF r, x, cell
    <3>4. /\ [r EXCEPT !.left = x] \in DStatesOf(n)
          /\ [r EXCEPT !.left = x] = [l |-> r.l, next |-> r.next, left |-> x, right |-> r.right]
      BY <1>1, <3>3, LeftChanged DEF r, x
    <3>5. cell(e) = [r EXCEPT !.left = x]
      BY <3>2 DEF r, x
    <3> QED
      BY <3>1, <3>4, <3>5 DEF r, x
  <2>4. ASSUME NEW e \in 1 .. n PROVE hh[e] = cell(e)
    BY <1>1
  <2>5. hh \in [1 .. n -> DStatesOf(n)]
    <3>1. \A e \in 1 .. n : cell(e) \in DStatesOf(n)
      BY <2>2, <2>3
    <3> HIDE DEF cell
    <3> QED
      BY <1>1, <3>1
  <2> HIDE DEF cell, hh, at
  <2>6. HeapOf(hh) /\ Len(hh) = n
    <3>1. hh \in Seq(DStatesOf(n)) /\ Len(hh) = n
      BY <1>1, <2>5, FunctionIsSeq
    <3>2. DOMAIN hh = 1 .. n
      BY <2>5
    <3> QED
      BY <1>1, <3>1, <3>2 DEF HeapOf
  <2> DEFINE f == [heap |-> hh, alldstates |-> k.alldstates, freelist |-> freed[1],
                   nstates |-> k.nstates]
  <2>7. FreeStates(k, t) = f
    BY <1>2, <1>4 DEF CacheOf
  <2>8. freed[1] \in 1 .. n
    <3>1. 1 \in 1 .. m
      BY <1>1, <1>4 DEF m
    <3> QED
      BY <1>1, <3>1
  <2>9. CacheOf(f)
    BY <2>6, <2>8 DEF CacheOf, n
  <2>10. /\ f.heap = hh /\ f.freelist = freed[1] /\ f.alldstates = k.alldstates
         /\ f.nstates = k.nstates
    OBVIOUS
  <2> HIDE DEF f
  <2>11. ASSUME NEW e \in 1 .. n
         PROVE  /\ hh[e].l = heap[e].l /\ hh[e].next = heap[e].next
                /\ hh[e].right = heap[e].right
                /\ (\A i \in 1 .. m : freed[i] # e) => hh[e] = heap[e]
                /\ (\E i \in 1 .. m : freed[i] = e) =>
                     \E i \in 1 .. m :
                       /\ freed[i] = e
                       /\ hh[e].left = IF i = m THEN k.freelist ELSE freed[i + 1]
    <3>1. CASE \A i \in 1 .. m : freed[i] # e
      BY <2>2, <2>4, <3>1
    <3>2. CASE \E i \in 1 .. m : freed[i] = e
      <4>1. at(e) \in 1 .. m /\ freed[at(e)] = e
        BY <2>3, <3>2
      <4>2. hh[e] = [l |-> heap[e].l, next |-> heap[e].next, left |-> after(at(e)),
                     right |-> heap[e].right]
        BY <2>3, <2>4, <3>2
      <4> QED
        BY <3>2, <4>1, <4>2 DEF after
    <3> QED
      BY <3>1, <3>2
  <2> HIDE DEF heap
  <2>12. Len(f.heap) = n /\ f.freelist = IF freed = <<>> THEN k.freelist ELSE freed[1]
    BY <1>4, <2>6, <2>10
  <2>13. \A e \in 1 .. n :
           /\ f.heap[e].l = heap[e].l /\ f.heap[e].next = heap[e].next
           /\ f.heap[e].right = heap[e].right
    BY <2>10, <2>11
  <2>14. ThreadedOn(k, f, freed)
    BY <2>10, <2>11, <2>12 DEF ThreadedOn, m, n, heap
  <2> QED
    BY <2>7, <2>9, <2>10, <2>12, <2>13, <2>14 DEF freed, n, heap
<1> QED
  BY <1>3, <1>4

LEMMA FreeCacheParts ==
  ASSUME NEW k, CacheOf(k)
  PROVE  LET f == FreeCache(k)
             m == FreeStates(k, k.alldstates)
         IN  /\ CacheOf(f) /\ f.heap = m.heap /\ f.freelist = m.freelist
             /\ f.alldstates = NULL /\ f.nstates = 0
             /\ Len(f.heap) = Len(k.heap)
<1> DEFINE m == FreeStates(k, k.alldstates)
           f == [heap |-> m.heap, alldstates |-> NULL, freelist |-> m.freelist, nstates |-> 0]
<1>1. k.alldstates \in 0 .. Len(k.heap)
  BY DEF CacheOf
<1>2. CacheOf(m) /\ Len(m.heap) = Len(k.heap)
  BY <1>1, FreeStatesParts
<1>3. FreeCache(k) = [m EXCEPT !.alldstates = NULL, !.nstates = 0]
  BY DEF FreeCache
<1> HIDE DEF m
<1>4. FreeCache(k) = f
  BY <1>2, <1>3 DEF CacheOf
<1>5. CacheOf(f)
  BY <1>2 DEF CacheOf, HeapOf, NULL
<1> QED
  BY <1>2, <1>4, <1>5 DEF m

LEMMA GrownParts ==
  ASSUME NEW k, CacheOf(k), NEW l \in Lists
  PROVE  LET f == [k EXCEPT !.heap = Append(@, [NoDState EXCEPT !.l = l])]
         IN  /\ CacheOf(f) /\ Len(f.heap) = Len(k.heap) + 1
             /\ Len(k.heap) + 1 \in 1 .. Len(f.heap)
             /\ f.alldstates = k.alldstates /\ f.nstates = k.nstates
             /\ f.freelist = k.freelist
             /\ f.heap[Len(k.heap) + 1] = NewDState(l)
             /\ \A x \in 1 .. Len(k.heap) : f.heap[x] = k.heap[x]
<1> DEFINE h == Append(k.heap, NewDState(l))
           f == [heap |-> h, alldstates |-> k.alldstates, freelist |-> k.freelist,
                 nstates |-> k.nstates]
<1>1. HeapOf(k.heap) /\ Len(k.heap) \in Nat /\ k.freelist \in 0 .. Len(k.heap)
  BY DEF CacheOf, HeapOf
<1>2. [k EXCEPT !.heap = Append(@, [NoDState EXCEPT !.l = l])] = f
  <2>1. [k EXCEPT !.heap = Append(@, [NoDState EXCEPT !.l = l])] = [k EXCEPT !.heap = h]
    BY DEF NewDState
  <2>2. k = [heap |-> k.heap, alldstates |-> k.alldstates, freelist |-> k.freelist,
             nstates |-> k.nstates]
    BY DEF CacheOf
  <2> HIDE DEF h
  <2> QED
    BY <2>1, <2>2
<1>3. /\ HeapOf(h) /\ Len(h) = Len(k.heap) + 1
      /\ \A x \in 1 .. Len(k.heap) : h[x] = k.heap[x]
      /\ h[Len(k.heap) + 1] = NewDState(l)
  BY <1>1, HeapGrown
<1> HIDE DEF h
<1>4. CacheOf(f)
  <2>1. \A x \in 0 .. Len(k.heap) : x \in 0 .. Len(k.heap) + 1
    BY <1>1
  <2>2. k.alldstates \in 0 .. Len(h) /\ k.freelist \in 0 .. Len(h) /\ k.nstates \in Nat
    BY <1>3, <2>1 DEF CacheOf
  <2> QED
    BY <1>3, <2>2 DEF CacheOf
<1>5. /\ f.heap = h /\ f.alldstates = k.alldstates /\ f.nstates = k.nstates
      /\ f.freelist = k.freelist
  OBVIOUS
<1> HIDE DEF f
<1>6. Len(k.heap) + 1 \in 1 .. Len(h)
  BY <1>1, <1>3
<1> QED
  BY <1>2, <1>3, <1>4, <1>5, <1>6

(* allocdstate takes the head of the free list, or one new DState.         *)
LEMMA AllocParts ==
  ASSUME NEW k, CacheOf(k), NEW l \in Lists
  PROVE  LET e == AllocDState(k, l)[1]
             f == AllocDState(k, l)[2]
         IN  /\ CacheOf(f) /\ e \in 1 .. Len(f.heap)
             /\ f.alldstates = k.alldstates /\ f.nstates = k.nstates
             /\ f.heap[e] = NewDState(l)
             /\ \A x \in 1 .. Len(k.heap) : x # e => f.heap[x] = k.heap[x]
             /\ \/ /\ k.freelist # NULL /\ e = k.freelist
                   /\ Len(f.heap) = Len(k.heap) /\ f.freelist = k.heap[e].left
                \/ /\ k.freelist = NULL /\ e = Len(k.heap) + 1
                   /\ Len(f.heap) = Len(k.heap) + 1 /\ f.freelist = NULL
<1>1. HeapOf(k.heap) /\ Len(k.heap) \in Nat /\ k.freelist \in 0 .. Len(k.heap)
  BY DEF CacheOf, HeapOf
<1>2. CASE k.freelist # NULL
  <2> DEFINE e == k.freelist
             h == [k.heap EXCEPT ![e] = NewDState(l)]
             f == [heap |-> h, alldstates |-> k.alldstates, freelist |-> k.heap[e].left,
                   nstates |-> k.nstates]
  <2>1. e \in 1 .. Len(k.heap)
    BY <1>1, <1>2 DEF NULL
  <2>2. AllocDState(k, l) = <<e, f>>
    <3>1. AllocDState(k, l) = <<e, [k EXCEPT !.freelist = k.heap[e].left, !.heap = h]>>
      BY <1>2 DEF AllocDState, NewDState
    <3>2. k = [heap |-> k.heap, alldstates |-> k.alldstates, freelist |-> k.freelist,
               nstates |-> k.nstates]
      BY DEF CacheOf
    <3> DEFINE c == k.heap[e].left
    <3> HIDE DEF c, h, e
    <3>3. [k EXCEPT !.freelist = c, !.heap = h] =
            [heap |-> h, alldstates |-> k.alldstates, freelist |-> c, nstates |-> k.nstates]
      <4> DEFINE a == k.alldstates
                 b == k.freelist
                 n == k.nstates
                 g == k.heap
      <4> HIDE DEF a, b, n, g
      <4>1. k = [heap |-> g, alldstates |-> a, freelist |-> b, nstates |-> n]
        BY <3>2 DEF a, b, n, g
      <4>2. [k EXCEPT !.freelist = c, !.heap = h] =
              [heap |-> h, alldstates |-> a, freelist |-> c, nstates |-> n]
        <5> DEFINE m == [k EXCEPT !.freelist = c]
        <5>1. m = [heap |-> g, alldstates |-> a, freelist |-> c, nstates |-> n]
          BY <4>1
        <5>2. [k EXCEPT !.freelist = c, !.heap = h] = [m EXCEPT !.heap = h]
          OBVIOUS
        <5> HIDE DEF m
        <5> QED
          BY <5>1, <5>2
      <4> QED
        BY <4>2 DEF a, n
    <3> QED
      BY <3>1, <3>3 DEF c
  <2> HIDE DEF e
  <2>3. NewDState(l) \in DStatesOf(Len(k.heap))
    BY <1>1, NewDStateParts
  <2>4. /\ HeapOf(h) /\ Len(h) = Len(k.heap)
        /\ \A x \in 1 .. Len(k.heap) : h[x] = IF x = e THEN NewDState(l) ELSE k.heap[x]
    BY <1>1, <2>1, <2>3, HeapChanged
  <2>5. k.heap[e].left \in 0 .. Len(k.heap)
    BY <1>1, <2>1, HeapParts
  <2> HIDE DEF h
  <2>6. CacheOf(f)
    BY <2>4, <2>5 DEF CacheOf
  <2>7. /\ f.heap = h /\ f.alldstates = k.alldstates /\ f.nstates = k.nstates
        /\ f.freelist = k.heap[e].left
    OBVIOUS
  <2> HIDE DEF f
  <2>8. AllocDState(k, l)[1] = e /\ AllocDState(k, l)[2] = f
    BY <2>2
  <2> QED
    BY <1>2, <2>1, <2>4, <2>6, <2>7, <2>8 DEF e
<1>3. CASE k.freelist = NULL
  <2> DEFINE f == [k EXCEPT !.heap = Append(@, [NoDState EXCEPT !.l = l])]
  <2>1. AllocDState(k, l)[1] = Len(k.heap) + 1 /\ AllocDState(k, l)[2] = f
    BY <1>3 DEF AllocDState
  <2>2. /\ CacheOf(f) /\ Len(f.heap) = Len(k.heap) + 1
        /\ Len(k.heap) + 1 \in 1 .. Len(f.heap)
        /\ f.alldstates = k.alldstates /\ f.nstates = k.nstates
        /\ f.freelist = k.freelist
        /\ f.heap[Len(k.heap) + 1] = NewDState(l)
        /\ \A x \in 1 .. Len(k.heap) : f.heap[x] = k.heap[x]
    BY GrownParts
  <2> HIDE DEF f
  <2> QED
    BY <1>3, <2>1, <2>2
<1> QED
  BY <1>2, <1>3

LEMMA HangParts ==
  ASSUME NEW k, CacheOf(k), NEW e \in 1 .. Len(k.heap),
         NEW at \in {<<>>} \cup ((1 .. Len(k.heap)) \X {"left", "right"})
  PROVE  LET f == Hang(k, at, e)
         IN  /\ CacheOf(f) /\ Len(f.heap) = Len(k.heap)
             /\ f.freelist = k.freelist /\ f.nstates = k.nstates + 1
             /\ f.alldstates = IF at = <<>> THEN e ELSE k.alldstates
             /\ \A x \in 1 .. Len(k.heap) :
                  /\ f.heap[x].l = k.heap[x].l /\ f.heap[x].next = k.heap[x].next
                  /\ f.heap[x].left = IF at # <<>> /\ x = at[1] /\ at[2] = "left" THEN e
                                      ELSE k.heap[x].left
                  /\ f.heap[x].right = IF at # <<>> /\ x = at[1] /\ at[2] = "right" THEN e
                                       ELSE k.heap[x].right
<1> DEFINE n == Len(k.heap)
           F(h, r) == [heap |-> h, alldstates |-> r, freelist |-> k.freelist,
                       nstates |-> k.nstates + 1]
<1>1. /\ HeapOf(k.heap) /\ n \in Nat /\ e \in 0 .. n
      /\ k.nstates + 1 \in Nat /\ k.freelist \in 0 .. n /\ k.alldstates \in 0 .. n
      /\ k = [heap |-> k.heap, alldstates |-> k.alldstates, freelist |-> k.freelist,
              nstates |-> k.nstates]
  BY DEF CacheOf, HeapOf
<1>2. ASSUME NEW h, HeapOf(h), Len(h) = n, NEW r \in 0 .. n
      PROVE  CacheOf(F(h, r)) /\ F(h, r).heap = h /\ F(h, r).alldstates = r
             /\ F(h, r).freelist = k.freelist /\ F(h, r).nstates = k.nstates + 1
  BY <1>1, <1>2 DEF CacheOf
<1>3. CASE at = <<>>
  <2>1. Hang(k, at, e) = F(k.heap, e)
    BY <1>1, <1>3 DEF Hang
  <2> HIDE DEF F
  <2> QED
    BY <1>1, <1>2, <1>3, <2>1
<1>4. CASE at # <<>>
  <2> DEFINE p == at[1]
             r == k.heap[p]
  <2>1. p \in 1 .. n /\ at[2] \in {"left", "right"}
    BY <1>4
  <2>2. r \in DStatesOf(n) /\ r.l = k.heap[p].l
    BY <1>1, <2>1, HeapParts
  <2> HIDE DEF n, F
  <2>3. CASE at[2] = "left"
    <3> DEFINE s == [r EXCEPT !.left = e]
               h == [k.heap EXCEPT ![p] = s]
    <3>1. s \in DStatesOf(n)
          /\ s = [l |-> r.l, next |-> r.next, left |-> e, right |-> r.right]
      <4> HIDE DEF r
      <4> QED
        BY <1>1, <2>2, LeftChanged
    <3> HIDE DEF s
    <3>2. /\ HeapOf(h) /\ Len(h) = n
          /\ \A x \in 1 .. n : h[x] = IF x = p THEN s ELSE k.heap[x]
      <4> HIDE DEF p
      <4> QED
        BY <1>1, <2>1, <3>1, HeapChanged DEF n
    <3>3. Hang(k, at, e) = F(h, k.alldstates)
      BY <1>1, <1>4, <2>3 DEF Hang, F, s
    <3> HIDE DEF h
    <3>4. /\ s.l = r.l /\ s.next = r.next /\ s.left = e /\ s.right = r.right
      BY <3>1
    <3> QED
      BY <1>1, <1>2, <1>4, <2>1, <2>3, <3>2, <3>3, <3>4 DEF n
  <2>4. CASE at[2] = "right"
    <3> DEFINE s == [r EXCEPT !.right = e]
               h == [k.heap EXCEPT ![p] = s]
    <3>1. s \in DStatesOf(n)
          /\ s = [l |-> r.l, next |-> r.next, left |-> r.left, right |-> e]
      <4> HIDE DEF r
      <4> QED
        BY <1>1, <2>2, RightChanged
    <3> HIDE DEF s
    <3>2. /\ HeapOf(h) /\ Len(h) = n
          /\ \A x \in 1 .. n : h[x] = IF x = p THEN s ELSE k.heap[x]
      <4> HIDE DEF p
      <4> QED
        BY <1>1, <2>1, <3>1, HeapChanged DEF n
    <3>3. Hang(k, at, e) = F(h, k.alldstates)
      BY <1>1, <1>4, <2>4 DEF Hang, F, s
    <3> HIDE DEF h
    <3>4. /\ s.l = r.l /\ s.next = r.next /\ s.left = r.left /\ s.right = e
      BY <3>1
    <3> QED
      BY <1>1, <1>2, <1>4, <2>1, <2>4, <3>2, <3>3, <3>4 DEF n
  <2> QED
    BY <2>1, <2>3, <2>4
<1> QED
  BY <1>3, <1>4

(* The arrows a of x, once link leads to e.                                 *)
Linked(a, full, link, x, e) ==
  IF ~full /\ link # <<>> /\ x = link[1] THEN [a EXCEPT ![link[2]] = e] ELSE a

LEMMA LinkParts ==
  ASSUME NEW k, CacheOf(k), NEW e \in 1 .. Len(k.heap), NEW full \in BOOLEAN,
         NEW link \in {<<>>} \cup ((1 .. Len(k.heap)) \X Chars)
  PROVE  LET f == Link(k, full, link, e)
         IN  /\ CacheOf(f) /\ Len(f.heap) = Len(k.heap)
             /\ f.freelist = k.freelist /\ f.nstates = k.nstates
             /\ f.alldstates = k.alldstates
             /\ \A x \in 1 .. Len(k.heap) :
                  /\ f.heap[x].l = k.heap[x].l
                  /\ f.heap[x].left = k.heap[x].left /\ f.heap[x].right = k.heap[x].right
                  /\ f.heap[x].next = Linked(k.heap[x].next, full, link, x, e)
<1> DEFINE n == Len(k.heap)
<1>1. CASE full \/ link = <<>>
  BY <1>1 DEF Link, Linked
<1>2. CASE ~(full \/ link = <<>>)
  <2> DEFINE p == link[1]
             c == link[2]
             r == k.heap[p]
             s == [r EXCEPT !.next[c] = e]
             h == [k.heap EXCEPT ![p] = s]
             f == [heap |-> h, alldstates |-> k.alldstates, freelist |-> k.freelist,
                   nstates |-> k.nstates]
  <2>1. p \in 1 .. n /\ c \in Chars
    BY <1>2
  <2>2. n \in Nat /\ e \in 0 .. n /\ HeapOf(k.heap)
    BY DEF CacheOf, HeapOf
  <2>3. r \in DStatesOf(n)
    BY <2>1, <2>2, HeapParts
  <2>4. Link(k, full, link, e) = f
    BY <1>2 DEF Link, CacheOf
  <2> HIDE DEF n, c, p
  <2>5. s \in DStatesOf(n)
        /\ s = [l |-> r.l, next |-> [r.next EXCEPT ![c] = e], left |-> r.left, right |-> r.right]
    <3> HIDE DEF r
    <3> QED
      BY <2>1, <2>2, <2>3, ArrowChanged
  <2> HIDE DEF s
  <2>6. /\ HeapOf(h) /\ Len(h) = n
        /\ \A x \in 1 .. n : h[x] = IF x = p THEN s ELSE k.heap[x]
    BY <2>1, <2>2, <2>5, HeapChanged DEF n
  <2> HIDE DEF h
  <2>7. CacheOf(f)
    BY <2>6 DEF CacheOf, n
  <2>8. /\ f.heap = h /\ f.alldstates = k.alldstates /\ f.freelist = k.freelist
        /\ f.nstates = k.nstates
    OBVIOUS
  <2>9. s.l = r.l /\ s.next = [r.next EXCEPT ![c] = e] /\ s.left = r.left /\ s.right = r.right
    BY <2>5
  <2> HIDE DEF f
  <2> QED
    BY <1>2, <2>4, <2>6, <2>7, <2>8, <2>9 DEF n, p, c, Linked
<1> QED
  BY <1>1, <1>2

-----------------------------------------------------------------------------
(* dstate returns a DState of the new heap.                                 *)
LEMMA DState1Typed ==
  ASSUME CacheOf(cache), NEW list, StateList(list),
         NEW link \in {<<>>} \cup ((1 .. Len(cache.heap)) \X Chars)
  PROVE  LET r == DState1(list, link)
         IN  CacheOf(r[2]) /\ r[1] \in 1 .. Len(r[2].heap)
<1> DEFINE l == Qsort(list)
           found == Search(cache.heap, l, cache.alldstates)
           full == cache.nstates >= MAXSTATES
           base == IF full THEN FreeCache(cache) ELSE cache
           new == AllocDState(base, l)
           e == new[1]
           at == IF full THEN <<>> ELSE found.at
           k == Hang(new[2], at, e)
           f == Link(k, full, link, e)
<1>1. l \in Lists
  BY SortedList DEF Lists, StateList
<1>2. found \in Finds(Len(cache.heap)) /\ HeapOf(cache.heap)
  BY SearchTyped DEF CacheOf
<1>3. CacheOf(base) /\ Len(base.heap) = Len(cache.heap)
  BY FreeCacheParts
<1>4. DState1(list, link) = IF found.d # NULL THEN <<found.d, cache>> ELSE <<e, f>>
  BY DEF DState1
<1> HIDE DEF l, found, base
<1>5. CacheOf(new[2]) /\ e \in 1 .. Len(new[2].heap) /\ Len(new[2].heap) >= Len(cache.heap)
  <2>1. Len(base.heap) \in Nat
    BY <1>3 DEF CacheOf, HeapOf
  <2> QED
    BY <1>1, <1>3, <2>1, AllocParts
<1>6. /\ at \in {<<>>} \cup ((1 .. Len(new[2].heap)) \X {"left", "right"})
      /\ link \in {<<>>} \cup ((1 .. Len(new[2].heap)) \X Chars)
  <2>1. \A x \in 1 .. Len(cache.heap) : x \in 1 .. Len(new[2].heap)
    BY <1>2, <1>5 DEF CacheOf, HeapOf
  <2> QED
    BY <1>2, <2>1 DEF Finds
<1> HIDE DEF new, at
<1>7. CacheOf(k) /\ Len(k.heap) = Len(new[2].heap)
  BY <1>5, <1>6, HangParts
<1> HIDE DEF k
<1>8. CacheOf(f) /\ Len(f.heap) = Len(k.heap)
  <2>1. full \in BOOLEAN
    OBVIOUS
  <2> HIDE DEF full, e
  <2> QED
    BY <1>5, <1>6, <1>7, <2>1, LinkParts DEF e
<1> HIDE DEF f, e
<1>9. CASE found.d # NULL
  <2>1. found.d \in 1 .. Len(cache.heap)
    BY <1>2, <1>9 DEF Finds, NULL, HeapOf
  <2> QED
    BY <1>4, <1>9, <2>1
<1>10. CASE found.d = NULL
  BY <1>4, <1>5, <1>7, <1>8, <1>10 DEF e
<1> QED
  BY <1>9, <1>10

LEMMA DState0Typed ==
  ASSUME CacheOf(cache), NEW list, StateList(list),
         NEW link \in {<<>>} \cup ((1 .. Len(cache.heap)) \X Chars)
  PROVE  LET r == DState0(list, link)
         IN  CacheOf(r[2]) /\ r[1] \in 1 .. Len(r[2].heap)
<1> DEFINE l == Qsort(list)
           found == Search(cache.heap, l, cache.alldstates)
           e == Len(cache.heap) + 1
           g == [cache EXCEPT !.heap = Append(@, [NoDState EXCEPT !.l = l])]
           k == Hang(g, found.at, e)
           r == IF found.d # NULL THEN <<found.d, cache>> ELSE <<e, k>>
<1>1. l \in Lists
  BY SortedList DEF Lists, StateList
<1>2. found \in Finds(Len(cache.heap)) /\ HeapOf(cache.heap) /\ Len(cache.heap) \in Nat
  BY SearchTyped DEF CacheOf, HeapOf
<1>3. DState0(list, link) = <<r[1], Link(r[2], FALSE, link, r[1])>>
  BY DEF DState0
<1> HIDE DEF l, found
<1>4. CacheOf(g) /\ e \in 1 .. Len(g.heap) /\ Len(g.heap) = Len(cache.heap) + 1
  BY <1>1, GrownParts
<1>5. found.at \in {<<>>} \cup ((1 .. Len(g.heap)) \X {"left", "right"})
  <2>1. \A x \in 1 .. Len(cache.heap) : x \in 1 .. Len(g.heap)
    BY <1>2, <1>4
  <2> QED
    BY <1>2, <2>1 DEF Finds
<1> HIDE DEF g, e
<1>6. CacheOf(k) /\ Len(k.heap) = Len(g.heap)
  BY <1>4, <1>5, HangParts
<1> HIDE DEF k
<1>7. CacheOf(r[2]) /\ r[1] \in 1 .. Len(r[2].heap) /\ Len(r[2].heap) >= Len(cache.heap)
  <2>1. CASE found.d # NULL
    BY <1>2, <2>1 DEF Finds, NULL
  <2>2. CASE found.d = NULL
    BY <1>2, <1>4, <1>6, <2>2
  <2> QED
    BY <2>1, <2>2
<1>8. link \in {<<>>} \cup ((1 .. Len(r[2].heap)) \X Chars)
  <2>1. \A x \in 1 .. Len(cache.heap) : x \in 1 .. Len(r[2].heap)
    BY <1>2, <1>7 DEF CacheOf, HeapOf
  <2> QED
    BY <2>1
<1> HIDE DEF r
<1> DEFINE f == Link(r[2], FALSE, link, r[1])
<1>9. CacheOf(f) /\ Len(f.heap) = Len(r[2].heap)
  BY <1>7, <1>8, LinkParts
<1>10. DState0(list, link)[1] = r[1] /\ DState0(list, link)[2] = f
  BY <1>3
<1> HIDE DEF f
<1> QED
  BY <1>7, <1>9, <1>10

(* dstate of dfa1.c leaves a cache, and d in its heap.                     *)
LEMMA DStateTyped ==
  ASSUME CacheOf(cache), NEW list, StateList(list),
         NEW link \in {<<>>} \cup ((1 .. Len(cache.heap)) \X Chars)
  PROVE  LET r == DState(list, link)
         IN  CacheOf(r[2]) /\ r[1] \in 1 .. Len(r[2].heap)
  BY DState0Typed, DState1Typed DEF DState

-----------------------------------------------------------------------------
(* The inductive invariant of the types.                                    *)
Progress ==
  /\ program \in Programs /\ pattern \in Patterns
  /\ clist \in {"l1", "l2"} /\ phase \in {"match", "scan", "exit"}
  /\ words \in Seq(Seq(Chars)) /\ rest \in Seq(Chars) /\ verdicts \in Seq(BOOLEAN)
  /\ Len(verdicts) + Len(words) = Len(Argv)
  /\ phase = "scan" => words # <<>>
  /\ phase = "scan" /\ program # "nfa" => d # NULL

(* The lists, the marks and the cache belong to the automaton.              *)
Data ==
  /\ Compiled(nfa) /\ (phase # "exit" => Automaton(nfa)) /\ Marks
  /\ lists \in [l1 : Lists, l2 : Lists]
  /\ CacheOf(cache) /\ d \in 0 .. Len(cache.heap)

Typed == Progress /\ Data

LEMMA TypedIsTypeOK ==
  ASSUME Typed
  PROVE  TypeOK
<1>1. \A l \in {"l1", "l2"} : \A i \in DOMAIN lists[l] : lists[l][i] \in DOMAIN nfa.nodes
  <2> SUFFICES ASSUME NEW l \in {"l1", "l2"}, NEW i \in DOMAIN lists[l]
               PROVE  lists[l][i] \in DOMAIN nfa.nodes
    OBVIOUS
  <2>1. lists[l] \in Seq(DOMAIN nfa.nodes)
    BY DEF Typed, Data, Lists
  <2> HIDE DEF Typed
  <2> QED
    BY <2>1
<1>2. nfa.status \in {"ok", "rejected", "undefined"}
  BY DEF Typed, Data, Compiled
<1>3. lastlist \in [DOMAIN nfa.nodes -> 0 .. listid]
  BY DEF Typed, Data, Marks
<1> QED
  BY <1>1, <1>2, <1>3 DEF Typed, Progress, Data, TypeOK

LEMMA TypedIsListsFit ==
  ASSUME Typed
  PROVE  ListsFit
<1> SUFFICES ASSUME phase # "exit"
             PROVE  /\ Len(lists.l1) <= Len(nfa.nodes) - 1 /\ Len(lists.l2) <= Len(nfa.nodes) - 1
                    /\ \A e \in DOMAIN cache.heap : Len(cache.heap[e].l) <= Len(nfa.nodes) - 1
  BY DEF ListsFit
<1>1. Automaton(nfa)
  BY DEF Typed, Data
<1>2. StateList(lists.l1) /\ StateList(lists.l2)
  BY DEF Typed, Data, Lists
<1>3. HeapOf(cache.heap) /\ DOMAIN cache.heap = 1 .. Len(cache.heap)
  BY DEF Typed, Data, CacheOf, HeapOf
<1>4. \A e \in DOMAIN cache.heap : StateList(cache.heap[e].l)
  BY <1>3, HeapParts
<1> QED
  BY <1>1, <1>2, <1>4, ListFits

(* main starts with types that hold.                                       *)
LEMMA TypedAtFirst ==
  ASSUME Init
  PROVE  Typed
<1> USE MatchAssumption
<1>1. Len(pattern) \in Nat
  BY LenProperties DEF Init
<1>2. Compiled(nfa)
  BY <1>1, CompileIsSound DEF Init
<1>3. phase # "exit" => Automaton(nfa)
  BY <1>2 DEF Init, Compiled
<1>4. Marks
  BY DEF Init, Marks
<1>5. <<>> \in Lists
  BY DEF Lists, StateList, Plain
<1>6. CacheOf(cache) /\ d \in 0 .. Len(cache.heap)
  <2>1. cache = [heap |-> <<>>, alldstates |-> NULL, freelist |-> NULL, nstates |-> 0]
        /\ d = NULL
    BY DEF Init
  <2>2. HeapOf(<<>>)
    BY DEF HeapOf
  <2> QED
    BY <2>1, <2>2 DEF CacheOf, NULL
<1>7. Progress
  <2>1. Len(Argv) \in Nat
    BY LenProperties
  <2> QED
    BY <2>1 DEF Init, Progress
<1> QED
  BY <1>2, <1>3, <1>4, <1>5, <1>6, <1>7 DEF Typed, Data, Init

(* While nfa stays, a list, a heap and a cache are judged as before.        *)
LEMMA SameAutomaton ==
  ASSUME nfa' = nfa
  PROVE  /\ Compiled(nfa)' <=> Compiled(nfa)
         /\ Automaton(nfa)' <=> Automaton(nfa)
         /\ Lists' = Lists
  BY DEF Compiled, Automaton, Lists, StateList, Plain, Splits

LEMMA SameCacheOf ==
  ASSUME nfa' = nfa, CacheOf(cache')
  PROVE  CacheOf(cache)'
<1>1. Lists' = Lists
  BY SameAutomaton
<1> QED
  BY <1>1 DEF CacheOf, HeapOf, DStatesOf

(* The words and answers of a step.                                         *)
LEMMA ProgressStep ==
  ASSUME Typed, MatchStart \/ NfaStep \/ DfaFollow \/ DfaNextState \/ MatchReturn,
         phase' = "scan" /\ program # "nfa" => d' # NULL
  PROVE  Progress'
<1> USE DEF Typed, Progress
<1>1. CASE MatchStart
  <2>1. rest' \in Seq(Chars)
    BY <1>1, HeadTail DEF MatchStart
  <2>2. clist' \in {"l1", "l2"}
    BY <1>1 DEF MatchStart
  <2> QED
    BY <1>1, <2>1, <2>2 DEF MatchStart
<1>2. CASE NfaStep
  <2>1. rest' \in Seq(Chars)
    BY <1>2, HeadTail DEF NfaStep
  <2> QED
    BY <1>2, <2>1 DEF NfaStep
<1>3. CASE DfaFollow
  <2>1. rest' \in Seq(Chars)
    BY <1>3, HeadTail DEF DfaFollow
  <2> QED
    BY <1>3, <2>1 DEF DfaFollow
<1>4. CASE DfaNextState
  <2>1. rest' \in Seq(Chars)
    BY <1>4, HeadTail DEF DfaNextState
  <2> QED
    BY <1>4, <2>1 DEF DfaNextState
<1>5. CASE MatchReturn
  <2> DEFINE v == IsMatch(CurrentList)
             S == Seq(Chars)
  <2>1. v \in BOOLEAN
    BY DEF IsMatch
  <2>2. words # <<>> /\ verdicts' = Append(verdicts, v) /\ words' = Tail(words)
    BY <1>5 DEF MatchReturn
  <2> HIDE DEF v, S
  <2>3. words \in Seq(S)
    BY DEF S
  <2>4. words' \in Seq(S) /\ Len(words) \in Nat \ {0} /\ Len(words') = Len(words) - 1
    BY <2>2, <2>3, HeadTail
  <2>5. /\ verdicts' \in Seq(BOOLEAN) /\ Len(verdicts') = Len(verdicts) + 1
        /\ Len(verdicts) \in Nat
    BY <2>1, <2>2, AppendProperties, LenProperties
  <2>6. Len(verdicts') + Len(words') = Len(Argv)
    <3> DEFINE a == Len(verdicts)
               b == Len(words)
    <3>1. a \in Nat /\ b \in Nat /\ a + b = Len(Argv)
      BY <2>4, <2>5
    <3> HIDE DEF a, b
    <3>2. (a + 1) + (b - 1) = a + b
      BY <3>1
    <3> QED
      BY <2>4, <2>5, <3>1, <3>2 DEF a, b
  <2> QED
    BY <1>5, <2>4, <2>5, <2>6 DEF MatchReturn, S
<1> QED
  BY <1>1, <1>2, <1>3, <1>4, <1>5

(* A list has been built with the next generation number.                   *)
LEMMA MarksStep ==
  ASSUME Marks, NEW q, q.mark \in [DOMAIN nfa.nodes -> 0 .. listid + 1], Marked(q), nfa' = nfa
  PROVE  Marks'
  BY DEF Marks, Marked

LEMMA MatchStartData ==
  ASSUME Typed, MatchStart
  PROVE  Data' /\ (phase' = "scan" /\ program # "nfa" => d' # NULL)
<1> DEFINE q == StartList
           r == DState(q.l, <<>>)
<1>1. /\ Automaton(nfa) /\ Marks /\ CacheOf(cache) /\ nfa' = nfa /\ Compiled(nfa)
      /\ lists \in [l1 : Lists, l2 : Lists] /\ d \in 0 .. Len(cache.heap) /\ program' = program
  BY DEF Typed, Data, MatchStart
<1>2. StateList(q.l) /\ q.mark \in [DOMAIN nfa.nodes -> 0 .. listid + 1]
  BY <1>1, StartListIsGood
<1>3. CacheOf(r[2]) /\ r[1] \in 1 .. Len(r[2].heap)
  BY <1>1, <1>2, DStateTyped
<1>4. q.l \in Lists /\ Qsort(q.l) \in Lists
  BY <1>2, SortedList DEF Lists, StateList
<1>5. /\ Marked(q)
      /\ \/ program = "nfa" /\ lists' = [lists EXCEPT !.l1 = q.l] /\ d' = d /\ cache' = cache
         \/ /\ program # "nfa" /\ lists' = [lists EXCEPT !.l1 = Qsort(q.l)]
            /\ d' = r[1] /\ cache' = r[2]
  BY DEF MatchStart
<1> HIDE DEF q, r
<1>6. Marks'
  BY <1>1, <1>2, <1>5, MarksStep
<1>7. CacheOf(cache') /\ d' \in 0 .. Len(cache'.heap) /\ (program # "nfa" => d' # NULL)
  BY <1>1, <1>3, <1>5 DEF NULL
<1>8. lists' \in [l1 : Lists, l2 : Lists]
  BY <1>1, <1>4, <1>5
<1>9. CacheOf(cache)' /\ Compiled(nfa)' /\ Automaton(nfa)' /\ Lists' = Lists
  BY <1>1, <1>7, SameAutomaton, SameCacheOf
<1> QED
  BY <1>6, <1>7, <1>8, <1>9, <1>1 DEF Data

LEMMA NfaStepData ==
  ASSUME Typed, NfaStep
  PROVE  Data' /\ (phase' = "scan" /\ program # "nfa" => d' # NULL)
<1> DEFINE q == StepList(lists[clist], Head(rest))
<1>1. /\ Automaton(nfa) /\ Marks /\ CacheOf(cache) /\ nfa' = nfa /\ Compiled(nfa)
      /\ lists \in [l1 : Lists, l2 : Lists] /\ d \in 0 .. Len(cache.heap) /\ program = "nfa"
      /\ clist \in {"l1", "l2"} /\ cache' = cache /\ d' = d
  BY DEF Typed, Data, Progress, NfaStep
<1>2. StateList(lists[clist])
  BY <1>1 DEF Lists
<1>3. StateList(q.l) /\ q.mark \in [DOMAIN nfa.nodes -> 0 .. listid + 1]
  BY <1>1, <1>2, StepListIsGood
<1>4. /\ Marked(q)
      /\ lists' = [lists EXCEPT ![IF clist = "l1" THEN "l2" ELSE "l1"] = q.l]
  BY DEF NfaStep
<1> HIDE DEF q
<1>5. Marks'
  BY <1>1, <1>3, <1>4, MarksStep
<1>6. lists' \in [l1 : Lists, l2 : Lists]
  <2>1. q.l \in Lists
    BY <1>3 DEF Lists, StateList
  <2>2. lists' = [lists EXCEPT !.l1 = q.l] \/ lists' = [lists EXCEPT !.l2 = q.l]
    BY <1>1, <1>4
  <2> QED
    BY <1>1, <2>1, <2>2
<1>7. CacheOf(cache)' /\ Compiled(nfa)' /\ Automaton(nfa)' /\ Lists' = Lists
  BY <1>1, SameAutomaton, SameCacheOf
<1> QED
  BY <1>1, <1>5, <1>6, <1>7 DEF Data

LEMMA DfaFollowData ==
  ASSUME Typed, DfaFollow
  PROVE  Data' /\ (phase' = "scan" /\ program # "nfa" => d' # NULL)
<1>1. /\ Automaton(nfa) /\ Marks /\ CacheOf(cache) /\ nfa' = nfa /\ Compiled(nfa)
      /\ lists \in [l1 : Lists, l2 : Lists] /\ d \in 0 .. Len(cache.heap) /\ program # "nfa"
      /\ d # NULL /\ rest \in Seq(Chars) /\ rest # <<>>
      /\ lastlist' = lastlist /\ listid' = listid /\ lists' = lists /\ cache' = cache
      /\ d' = cache.heap[d].next[Head(rest)] /\ d' # NULL /\ HeapOf(cache.heap)
  BY DEF Typed, Data, Progress, DfaFollow, nodeVars, CacheOf
<1>2. Head(rest) \in Chars
  BY <1>1, HeadTail
<1>3. d \in 1 .. Len(cache.heap)
  BY <1>1 DEF NULL, HeapOf
<1>4. d' \in 0 .. Len(cache.heap)
  BY <1>1, <1>2, <1>3, HeapParts
<1>5. CacheOf(cache)' /\ Compiled(nfa)' /\ Automaton(nfa)' /\ Lists' = Lists
  BY <1>1, SameAutomaton, SameCacheOf
<1>6. Marks'
  BY <1>1 DEF Marks
<1> QED
  BY <1>1, <1>4, <1>5, <1>6 DEF Data

LEMMA DfaNextStateData ==
  ASSUME Typed, DfaNextState
  PROVE  Data' /\ (phase' = "scan" /\ program # "nfa" => d' # NULL)
<1> DEFINE c == Head(rest)
           q == StepList(cache.heap[d].l, c)
           r == DState(q.l, <<d, c>>)
<1>1. /\ Automaton(nfa) /\ Marks /\ CacheOf(cache) /\ nfa' = nfa /\ Compiled(nfa)
      /\ lists \in [l1 : Lists, l2 : Lists] /\ d \in 0 .. Len(cache.heap) /\ program # "nfa"
      /\ d # NULL /\ rest \in Seq(Chars) /\ rest # <<>> /\ HeapOf(cache.heap)
  BY DEF Typed, Data, Progress, DfaNextState, CacheOf
<1>2. c \in Chars
  BY <1>1, HeadTail
<1>3. d \in 1 .. Len(cache.heap)
  BY <1>1 DEF NULL, HeapOf
<1>4. StateList(q.l) /\ q.mark \in [DOMAIN nfa.nodes -> 0 .. listid + 1]
  BY <1>1, <1>3, HeapParts, StepListIsGood
<1>5. /\ Marked(q) /\ lists' = [lists EXCEPT !.l1 = Qsort(q.l)]
      /\ d' = r[1] /\ cache' = r[2]
  BY DEF DfaNextState
<1> HIDE DEF q, c
<1>6. CacheOf(r[2]) /\ r[1] \in 1 .. Len(r[2].heap)
  BY <1>1, <1>2, <1>3, <1>4, DStateTyped
<1> HIDE DEF r
<1>7. Marks'
  BY <1>1, <1>4, <1>5, MarksStep
<1>8. CacheOf(cache') /\ d' \in 0 .. Len(cache'.heap) /\ d' # NULL
  BY <1>5, <1>6 DEF NULL
<1>9. lists' \in [l1 : Lists, l2 : Lists]
  BY <1>1, <1>4, <1>5, SortedList DEF Lists, StateList
<1>10. CacheOf(cache)' /\ Compiled(nfa)' /\ Automaton(nfa)' /\ Lists' = Lists
  BY <1>1, <1>8, SameAutomaton, SameCacheOf
<1> QED
  BY <1>7, <1>8, <1>9, <1>10, <1>1 DEF Data

LEMMA MatchReturnData ==
  ASSUME Typed, MatchReturn
  PROVE  Data' /\ (phase' = "scan" /\ program # "nfa" => d' # NULL)
<1>1. /\ Automaton(nfa) /\ Marks /\ CacheOf(cache) /\ nfa' = nfa /\ Compiled(nfa)
      /\ lists \in [l1 : Lists, l2 : Lists] /\ d \in 0 .. Len(cache.heap)
      /\ lastlist' = lastlist /\ listid' = listid /\ lists' = lists /\ cache' = cache
      /\ d' = d /\ phase' = "match"
  BY DEF Typed, Data, MatchReturn, nodeVars
<1>2. CacheOf(cache)' /\ Compiled(nfa)' /\ Automaton(nfa)' /\ Lists' = Lists
  BY <1>1, SameAutomaton, SameCacheOf
<1>3. Marks'
  BY <1>1 DEF Marks
<1> QED
  BY <1>1, <1>2, <1>3 DEF Data

(* Every step keeps the types.                                             *)
LEMMA TypedStays ==
  ASSUME Typed, [Next]_vars
  PROVE  Typed'
<1>1. CASE MatchStart \/ NfaStep \/ DfaFollow \/ DfaNextState \/ MatchReturn
  <2>1. Data' /\ (phase' = "scan" /\ program # "nfa" => d' # NULL)
    BY <1>1, MatchStartData, NfaStepData, DfaFollowData, DfaNextStateData, MatchReturnData
  <2> QED
    BY <1>1, <2>1, ProgressStep DEF Typed
<1>2. CASE UNCHANGED vars
  <2>1. Progress'
    BY <1>2 DEF vars, Typed, Progress
  <2>2. CacheOf(cache)' /\ (Compiled(nfa)' <=> Compiled(nfa)) /\ (Automaton(nfa)' <=> Automaton(nfa))
        /\ Lists' = Lists
    BY <1>2, SameAutomaton, SameCacheOf DEF vars, Typed, Data
  <2>3. Marks'
    BY <1>2 DEF vars, nodeVars, Typed, Data, Marks
  <2>4. Data'
    BY <1>2, <2>2, <2>3 DEF vars, Typed, Data
  <2> QED
    BY <2>1, <2>4 DEF Typed
<1> QED
  BY <1>1, <1>2 DEF Next

(* Typed is invariant: the types and the bound of the lists together.      *)
THEOREM TypedAlways == Spec => []Typed
  BY TypedAtFirst, TypedStays, PTL DEF Spec

(* For every pattern, every number of DStates and every command line, the   *)
(* variables keep their types: a state's mark is never newer than listid,   *)
(* lists hold states of the automaton, d is a DState of the heap, and each  *)
(* argument is answered once (match, addstate, dstate, main).               *)
THEOREM TypesHold == Spec => []TypeOK
  BY TypedAlways, TypedIsTypeOK, PTL

(* A state list of any automaton fits the nstate pointers main and          *)
(* allocdstate reserve, although nstate leaves the static matchstate out:   *)
(* a list holds a state once and never a Split, and an automaton without a  *)
(* Split has one state in a list at a time (addstate, step, allocdstate).   *)
THEOREM ListsAlwaysFit == Spec => []ListsFit
  BY TypedAlways, TypedIsListsFit, PTL

-----------------------------------------------------------------------------
(* listcmp is a strict order of the lists.                                  *)
LEMMA PrecedesIrreflexive ==
  ASSUME NEW a \in Seq(Nat)
  PROVE  ~Precedes(a, a)
<1>1. Len(a) \in Nat /\ DOMAIN a = 1 .. Len(a) /\ \A i \in 1 .. Len(a) : a[i] \in Nat
  BY LenProperties, ElementOfSeq
<1> QED
  BY <1>1 DEF Precedes

(* listcmp is a strict order on lists.                                     *)
LEMMA PrecedesTransitive ==
  ASSUME NEW a \in Seq(Nat), NEW b \in Seq(Nat), NEW c \in Seq(Nat),
         Precedes(a, b), Precedes(b, c)
  PROVE  Precedes(a, c)
<1>1. /\ Len(a) \in Nat /\ DOMAIN a = 1 .. Len(a) /\ \A i \in 1 .. Len(a) : a[i] \in Nat
      /\ Len(b) \in Nat /\ DOMAIN b = 1 .. Len(b) /\ \A i \in 1 .. Len(b) : b[i] \in Nat
      /\ Len(c) \in Nat /\ DOMAIN c = 1 .. Len(c) /\ \A i \in 1 .. Len(c) : c[i] \in Nat
  BY LenProperties, ElementOfSeq
<1>2. CASE Len(a) < Len(b) \/ Len(b) < Len(c)
  <2>1. /\ Len(a) < Len(b) \/ Len(a) = Len(b)
        /\ Len(b) < Len(c) \/ Len(b) = Len(c)
    BY DEF Precedes
  <2>2. Len(a) < Len(c)
    <3> DEFINE p == Len(a)
               q == Len(b)
               r == Len(c)
    <3>1. /\ p \in Nat /\ q \in Nat /\ r \in Nat /\ (p < q \/ q < r)
          /\ (p < q \/ p = q) /\ (q < r \/ q = r)
      BY <1>1, <1>2, <2>1
    <3> HIDE DEF p, q, r
    <3>2. p < r
      BY <3>1
    <3> QED
      BY <3>2 DEF p, r
  <2> QED
    BY <2>2 DEF Precedes
<1>3. CASE ~(Len(a) < Len(b) \/ Len(b) < Len(c))
  <2>1. Len(a) = Len(b) /\ Len(b) = Len(c)
    BY <1>1, <1>3 DEF Precedes
  <2> DEFINE n == Len(a)
  <2>2. PICK i \in 1 .. n : a[i] < b[i] /\ \A j \in 1 .. (i - 1) : a[j] = b[j]
    BY <1>1, <1>3, <2>1 DEF Precedes
  <2>3. PICK k \in 1 .. n : b[k] < c[k] /\ \A j \in 1 .. (k - 1) : b[j] = c[j]
    BY <1>1, <1>3, <2>1 DEF Precedes
  <2>4. \E m \in 1 .. n : a[m] < c[m] /\ \A j \in 1 .. (m - 1) : a[j] = c[j]
    <3>0. n \in Nat /\ i \in Nat /\ k \in Nat
      BY <1>1
    <3> HIDE DEF n
    <3>1. CASE i < k
      <4>1. b[i] = c[i] /\ \A j \in 1 .. (i - 1) : a[j] = c[j]
        BY <2>2, <2>3, <3>0, <3>1
      <4> QED
        BY <2>2, <4>1
    <3>2. CASE k < i
      <4>1. a[k] = b[k] /\ \A j \in 1 .. (k - 1) : a[j] = c[j]
        BY <2>2, <2>3, <3>0, <3>2
      <4> QED
        BY <2>3, <4>1
    <3>3. CASE i = k
      <4>1. \A j \in 1 .. (i - 1) : a[j] = c[j]
        BY <2>2, <2>3, <3>0, <3>3
      <4>2. a[i] < c[i]
        BY <1>1, <2>1, <2>2, <2>3, <3>3 DEF n
      <4> QED
        BY <4>1, <4>2
    <3> QED
      BY <3>0, <3>1, <3>2, <3>3
  <2> QED
    BY <1>1, <2>1, <2>4 DEF Precedes
<1> QED
  BY <1>2, <1>3

LEMMA ListsAreNumbers ==
  ASSUME Automaton(nfa)
  PROVE  Lists \subseteq Seq(Nat)
<1>1. DOMAIN nfa.nodes \subseteq Nat
  BY DEF Automaton
<1> QED
  BY <1>1, SeqMonotonic DEF Lists

-----------------------------------------------------------------------------
(* The search tree: T is the set of its DStates and B[x] the set of those   *)
(* in the subtree at x.                                                     *)
Below(B, t) == IF t = NULL THEN {} ELSE B[t]

Ordered(h, T, B) ==
  \A x \in T : /\ \A y \in Below(B, h[x].left) : Precedes(h[y].l, h[x].l)
               /\ \A y \in Below(B, h[x].right) : Precedes(h[x].l, h[y].l)

Nested(h, T, B) ==
  /\ \A x \in T : B[x] = {x} \cup Below(B, h[x].left) \cup Below(B, h[x].right)
  /\ \A x \in T : \A q \in B[x] : B[q] \subseteq B[x]
  /\ \A x, q \in T : \A y \in {h[q].left, h[q].right} \ {NULL} :
       y \in B[x] => y = x \/ q \in B[x]

Tree(h, r, T, B) ==
  /\ T \subseteq 1 .. Len(h) /\ B \in [T -> SUBSET T]
  /\ r \in T \cup {NULL} /\ T = Below(B, r)
  /\ \A x \in T : h[x].left \in T \cup {NULL} /\ h[x].right \in T \cup {NULL}
  /\ Nested(h, T, B) /\ Ordered(h, T, B)

(* Lists that listcmp can tell apart, one per DState.                       *)
ListHeap(h) == Len(h) \in Nat /\ \A x \in 1 .. Len(h) : h[x].l \in Seq(Nat)

(* What the subtree of one DState is made of.                              *)
LEMMA TreeParts ==
  ASSUME NEW h, ListHeap(h), NEW r, NEW T, NEW B, Tree(h, r, T, B), NEW x \in T
  PROVE  LET L == Below(B, h[x].left)
             R == Below(B, h[x].right)
         IN  /\ x \in 1 .. Len(h) /\ x # NULL /\ x \in B[x] /\ B[x] \subseteq T
             /\ B[x] = {x} \cup L \cup R
             /\ x \notin L /\ x \notin R /\ L \cap R = {}
             /\ L \subseteq T /\ R \subseteq T
             /\ \A y \in L : Precedes(h[y].l, h[x].l)
             /\ \A y \in R : Precedes(h[x].l, h[y].l)
<1> DEFINE L == Below(B, h[x].left)
           R == Below(B, h[x].right)
<1>1. x \in 1 .. Len(h) /\ x # NULL /\ B[x] \subseteq T
  BY DEF Tree, NULL, ListHeap
<1>2. B[x] = {x} \cup L \cup R
  BY DEF Tree, Nested
<1>3. /\ \A y \in L : Precedes(h[y].l, h[x].l)
      /\ \A y \in R : Precedes(h[x].l, h[y].l)
  BY DEF Tree, Ordered
<1>4. \A y \in T : h[y].l \in Seq(Nat)
  BY DEF Tree, ListHeap
<1> HIDE DEF L, R
<1>5. L \subseteq T /\ R \subseteq T
  BY <1>1, <1>2
<1>6. x \notin L /\ x \notin R
  BY <1>3, <1>4, PrecedesIrreflexive
<1>7. L \cap R = {}
  <2> SUFFICES ASSUME NEW y \in L, y \in R PROVE FALSE
    OBVIOUS
  <2>1. Precedes(h[x].l, h[x].l)
    BY <1>3, <1>4, <1>5, PrecedesTransitive
  <2> QED
    BY <1>4, <2>1, PrecedesIrreflexive
<1> QED
  BY <1>1, <1>2, <1>3, <1>5, <1>6, <1>7 DEF L, R

-----------------------------------------------------------------------------
(* The way down to y is the one that l takes.                               *)
Guided(h, T, B, l, y) ==
  \A x \in T : /\ y \in Below(B, h[x].left) => Precedes(l, h[x].l)
               /\ y \in Below(B, h[x].right) => Precedes(h[x].l, l)

Done(h, l, w) == w.d = NULL \/ ~(Precedes(l, h[w.d].l) \/ Precedes(h[w.d].l, l))

WentLeft(h, l, w, v) ==
  w.d # NULL /\ Precedes(l, h[w.d].l) /\ v = [d |-> h[w.d].left, at |-> <<w.d, "left">>]
WentRight(h, l, w, v) ==
  w.d # NULL /\ Precedes(h[w.d].l, l) /\ v = [d |-> h[w.d].right, at |-> <<w.d, "right">>]

(* One turn of the search: it stops, goes left or goes right.              *)
LEMMA DescendCases ==
  ASSUME NEW h, ListHeap(h), NEW l \in Seq(Nat), NEW w, w.d \in 0 .. Len(h)
  PROVE  LET v == Descend(h, l, w)
         IN  \/ Done(h, l, w) /\ v = w
             \/ ~Done(h, l, w) /\ (WentLeft(h, l, w, v) \/ WentRight(h, l, w, v))
<1> DEFINE v == Descend(h, l, w)
<1>1. CASE Done(h, l, w)
  BY <1>1 DEF Done, Descend
<1>2. CASE ~Done(h, l, w)
  <2>1. w.d # NULL /\ w.d \in 1 .. Len(h)
    BY <1>2 DEF Done, ListHeap, NULL
  <2>2. h[w.d].l \in Seq(Nat)
    BY <2>1 DEF ListHeap
  <2>3. ~(Precedes(l, h[w.d].l) /\ Precedes(h[w.d].l, l))
    BY <2>2, PrecedesTransitive, PrecedesIrreflexive
  <2>4. CASE Precedes(l, h[w.d].l)
    <3>1. v = [d |-> h[w.d].left, at |-> <<w.d, "left">>]
      BY <2>1, <2>3, <2>4 DEF Descend
    <3> QED
      BY <1>2, <2>1, <2>4, <3>1 DEF WentLeft
  <2>5. CASE Precedes(h[w.d].l, l)
    <3>1. v = [d |-> h[w.d].right, at |-> <<w.d, "right">>]
      BY <2>1, <2>3, <2>5 DEF Descend
    <3> QED
      BY <1>2, <2>1, <2>5, <3>1 DEF WentRight
  <2> QED
    BY <1>2, <2>4, <2>5 DEF Done
<1> QED
  BY <1>1, <1>2

(* A DState below z has its whole subtree below z.                         *)
LEMMA BelowBelow ==
  ASSUME NEW h, NEW r, NEW T, NEW B, Tree(h, r, T, B), NEW z \in T \cup {NULL},
         NEW q \in Below(B, z)
  PROVE  q \in T /\ B[q] \subseteq Below(B, z)
<1>1. z # NULL /\ z \in T /\ q \in B[z] /\ Below(B, z) = B[z]
  BY DEF Below
<1>2. \A x \in T : B[x] \subseteq T /\ \A p \in B[x] : B[p] \subseteq B[x]
  BY DEF Tree, Nested
<1> QED
  BY <1>1, <1>2

(* One level deeper, the way is still l's.                                  *)
LEMMA GuidedLeft ==
  ASSUME NEW h, ListHeap(h), NEW r, NEW T, NEW B, Tree(h, r, T, B), NEW l \in Seq(Nat),
         NEW q \in T, Guided(h, T, B, l, q), Precedes(l, h[q].l)
  PROVE  Guided(h, T, B, l, h[q].left)
<1> DEFINE y == h[q].left
<1>1. CASE y = NULL
  <2>0. NULL \notin T
    BY DEF Tree, NULL
  <2>1. \A x \in T : y \notin Below(B, h[x].left) /\ y \notin Below(B, h[x].right)
    <3> HIDE DEF y
    <3> TAKE x \in T
    <3>1. Below(B, h[x].left) \subseteq T /\ Below(B, h[x].right) \subseteq T
      BY TreeParts
    <3> QED
      BY <1>1, <2>0, <3>1
  <2>2. Guided(h, T, B, l, y)
    <3> HIDE DEF y
    <3> QED
      BY <2>1 DEF Guided
  <2> QED
    BY <2>2
<1>2. CASE y # NULL
  <2>1. y \in T /\ y \in Below(B, y) /\ y \in B[q]
    <3>1. y \in T
      BY <1>2 DEF Tree
    <3>2. y \in Below(B, y)
      <4> HIDE DEF y
      <4> QED
        BY <1>2, <3>1, TreeParts DEF Below
    <3>3. Below(B, y) \subseteq B[q]
      BY TreeParts
    <3> QED
      BY <3>1, <3>2, <3>3
  <2> SUFFICES ASSUME NEW x \in T
               PROVE  /\ y \in Below(B, h[x].left) => Precedes(l, h[x].l)
                      /\ y \in Below(B, h[x].right) => Precedes(h[x].l, l)
    BY DEF Guided
  <2>2. ASSUME NEW z \in {h[x].left, h[x].right}, y \in Below(B, z)
        PROVE  q \in B[x]
    <3>1. y \in B[x] /\ y # x
      BY <2>2, TreeParts
    <3> QED
      BY <1>2, <3>1 DEF Tree, Nested
  <2>3. ASSUME q \in Below(B, h[x].left)
        PROVE  y \in Below(B, h[x].left)
    <3>1. h[x].left \in T \cup {NULL}
      BY DEF Tree
    <3> QED
      BY <2>1, <2>3, <3>1, BelowBelow
  <2>4. ASSUME q \in Below(B, h[x].right)
        PROVE  y \in Below(B, h[x].right)
    <3>1. h[x].right \in T \cup {NULL}
      BY DEF Tree
    <3> QED
      BY <2>1, <2>4, <3>1, BelowBelow
  <2>5. ~(y \in Below(B, h[x].left) /\ y \in Below(B, h[x].right))
    BY TreeParts
  <2>6. q \in B[x] => q = x \/ q \in Below(B, h[x].left) \/ q \in Below(B, h[x].right)
    BY TreeParts
  <2>7. ASSUME y \in Below(B, h[x].left) PROVE Precedes(l, h[x].l)
    BY <2>2, <2>4, <2>5, <2>6, <2>7 DEF Guided
  <2>8. ASSUME y \in Below(B, h[x].right) PROVE Precedes(h[x].l, l)
    <3>1. CASE q = x
      BY <2>1, <2>5, <2>8, <3>1
    <3>2. CASE q # x
      BY <2>2, <2>3, <2>5, <2>6, <2>8, <3>2 DEF Guided
    <3> QED
      BY <3>1, <3>2
  <2> QED
    BY <2>7, <2>8
<1> QED
  BY <1>1, <1>2

LEMMA GuidedRight ==
  ASSUME NEW h, ListHeap(h), NEW r, NEW T, NEW B, Tree(h, r, T, B), NEW l \in Seq(Nat),
         NEW q \in T, Guided(h, T, B, l, q), Precedes(h[q].l, l)
  PROVE  Guided(h, T, B, l, h[q].right)
<1> DEFINE y == h[q].right
<1>1. CASE y = NULL
  <2>0. NULL \notin T
    BY DEF Tree, NULL
  <2>1. \A x \in T : y \notin Below(B, h[x].left) /\ y \notin Below(B, h[x].right)
    <3> HIDE DEF y
    <3> TAKE x \in T
    <3>1. Below(B, h[x].left) \subseteq T /\ Below(B, h[x].right) \subseteq T
      BY TreeParts
    <3> QED
      BY <1>1, <2>0, <3>1
  <2>2. Guided(h, T, B, l, y)
    <3> HIDE DEF y
    <3> QED
      BY <2>1 DEF Guided
  <2> QED
    BY <2>2
<1>2. CASE y # NULL
  <2>1. y \in T /\ y \in Below(B, y) /\ y \in B[q]
    <3>1. y \in T
      BY <1>2 DEF Tree
    <3>2. y \in Below(B, y)
      <4> HIDE DEF y
      <4> QED
        BY <1>2, <3>1, TreeParts DEF Below
    <3>3. Below(B, y) \subseteq B[q]
      BY TreeParts
    <3> QED
      BY <3>1, <3>2, <3>3
  <2> SUFFICES ASSUME NEW x \in T
               PROVE  /\ y \in Below(B, h[x].left) => Precedes(l, h[x].l)
                      /\ y \in Below(B, h[x].right) => Precedes(h[x].l, l)
    BY DEF Guided
  <2>2. ASSUME NEW z \in {h[x].left, h[x].right}, y \in Below(B, z)
        PROVE  q \in B[x]
    <3>1. y \in B[x] /\ y # x
      BY <2>2, TreeParts
    <3> QED
      BY <1>2, <3>1 DEF Tree, Nested
  <2>3. ASSUME q \in Below(B, h[x].left)
        PROVE  y \in Below(B, h[x].left)
    <3>1. h[x].left \in T \cup {NULL}
      BY DEF Tree
    <3> QED
      BY <2>1, <2>3, <3>1, BelowBelow
  <2>4. ASSUME q \in Below(B, h[x].right)
        PROVE  y \in Below(B, h[x].right)
    <3>1. h[x].right \in T \cup {NULL}
      BY DEF Tree
    <3> QED
      BY <2>1, <2>4, <3>1, BelowBelow
  <2>5. ~(y \in Below(B, h[x].left) /\ y \in Below(B, h[x].right))
    BY TreeParts
  <2>6. q \in B[x] => q = x \/ q \in Below(B, h[x].left) \/ q \in Below(B, h[x].right)
    BY TreeParts
  <2>7. ASSUME y \in Below(B, h[x].right) PROVE Precedes(h[x].l, l)
    BY <2>2, <2>3, <2>5, <2>6, <2>7 DEF Guided
  <2>8. ASSUME y \in Below(B, h[x].left) PROVE Precedes(l, h[x].l)
    <3>1. CASE q = x
      BY <2>1, <2>5, <2>8, <3>1
    <3>2. CASE q # x
      BY <2>2, <2>4, <2>5, <2>6, <2>8, <3>2 DEF Guided
    <3> QED
      BY <3>1, <3>2
  <2> QED
    BY <2>7, <2>8
<1> QED
  BY <1>1, <1>2

(* Every search starts on its way.                                         *)
LEMMA RootIsGuided ==
  ASSUME NEW h, ListHeap(h), NEW r, NEW T, NEW B, Tree(h, r, T, B), NEW l
  PROVE  Guided(h, T, B, l, r)
<1> SUFFICES ASSUME NEW x \in T, NEW z \in {h[x].left, h[x].right}, r \in Below(B, z)
             PROVE  FALSE
  BY DEF Guided
<1>1. z \in T /\ r \in B[z] /\ x \notin B[z]
  BY TreeParts DEF Below, Tree
<1>2. r # NULL /\ B[r] = T
  BY <1>1, TreeParts DEF Tree, Below
<1>3. B[r] \subseteq B[z]
  BY <1>1 DEF Tree, Nested
<1> QED
  BY <1>1, <1>2, <1>3

(* dstate's loop: l belongs below the field that holds d.                   *)
OnTheWay(h, r, T, B, l, w) ==
  /\ w.d \in T \cup {NULL} /\ Guided(h, T, B, l, w.d)
  /\ \/ w.at = <<>> /\ w.d = r
     \/ \E p \in T :
          /\ Guided(h, T, B, l, p)
          /\ \/ w.at = <<p, "left">> /\ w.d = h[p].left /\ Precedes(l, h[p].l)
             \/ w.at = <<p, "right">> /\ w.d = h[p].right /\ Precedes(h[p].l, l)

(* Every turn keeps the search on its way.                                 *)
LEMMA DescendOnTheWay ==
  ASSUME NEW h, ListHeap(h), NEW r, NEW T, NEW B, Tree(h, r, T, B), NEW l \in Seq(Nat),
         NEW w, OnTheWay(h, r, T, B, l, w)
  PROVE  OnTheWay(h, r, T, B, l, Descend(h, l, w))
<1> DEFINE v == Descend(h, l, w)
<1>1. w.d \in 0 .. Len(h) /\ Guided(h, T, B, l, w.d) /\ w.d \in T \cup {NULL}
  BY DEF OnTheWay, Tree, NULL, ListHeap
<1> HIDE DEF v
<1>2. CASE v = w
  BY <1>2 DEF v
<1>3. CASE WentLeft(h, l, w, v)
  <2>1. w.d \in T /\ v.d = h[w.d].left /\ v.at = <<w.d, "left">> /\ Precedes(l, h[w.d].l)
    BY <1>1, <1>3 DEF WentLeft
  <2>2. v.d \in T \cup {NULL} /\ Guided(h, T, B, l, v.d)
    BY <1>1, <2>1, GuidedLeft DEF Tree
  <2> QED
    BY <1>1, <2>1, <2>2 DEF OnTheWay, v
<1>4. CASE WentRight(h, l, w, v)
  <2>1. w.d \in T /\ v.d = h[w.d].right /\ v.at = <<w.d, "right">> /\ Precedes(h[w.d].l, l)
    BY <1>1, <1>4 DEF WentRight
  <2>2. v.d \in T \cup {NULL} /\ Guided(h, T, B, l, v.d)
    BY <1>1, <2>1, GuidedRight DEF Tree
  <2> QED
    BY <1>1, <2>1, <2>2 DEF OnTheWay, v
<1> QED
  BY <1>1, <1>2, <1>3, <1>4, DescendCases DEF v

(* Each turn leaves at least one DState out of the subtree still searched.  *)
LEMMA DescendShrinks ==
  ASSUME NEW h, ListHeap(h), NEW r, NEW T, NEW B, Tree(h, r, T, B), NEW l \in Seq(Nat),
         NEW w, w.d \in T, ~Done(h, l, w)
  PROVE  /\ Descend(h, l, w).d \in T \cup {NULL}
         /\ IsFiniteSet(Below(B, Descend(h, l, w).d)) /\ IsFiniteSet(B[w.d])
         /\ Cardinality(Below(B, Descend(h, l, w).d)) < Cardinality(B[w.d])
<1> DEFINE v == Descend(h, l, w)
           L == Below(B, h[w.d].left)
           R == Below(B, h[w.d].right)
<1>1. w.d \in 0 .. Len(h)
  BY DEF Tree, ListHeap
<1>2. WentLeft(h, l, w, v) \/ WentRight(h, l, w, v)
  BY <1>1, DescendCases
<1> HIDE DEF v
<1>3. v.d = h[w.d].left \/ v.d = h[w.d].right
  BY <1>2 DEF WentLeft, WentRight
<1>4. /\ w.d \in B[w.d] /\ B[w.d] = {w.d} \cup L \cup R /\ w.d \notin L /\ w.d \notin R
      /\ B[w.d] \subseteq 1 .. Len(h)
  <2> DEFINE x == w.d
  <2>1. x \in T
    OBVIOUS
  <2> HIDE DEF x
  <2>2. /\ x \in B[x] /\ B[x] \subseteq T
        /\ B[x] = {x} \cup Below(B, h[x].left) \cup Below(B, h[x].right)
        /\ x \notin Below(B, h[x].left) /\ x \notin Below(B, h[x].right)
    BY <2>1, TreeParts
  <2>3. T \subseteq 1 .. Len(h)
    BY DEF Tree
  <2> QED
    BY <2>2, <2>3 DEF x
<1> DEFINE U == B[w.d]
           V == Below(B, v.d)
           N == Len(h)
<1>5. V \subseteq U /\ V # U /\ U \subseteq 1 .. N /\ N \in Nat
  BY <1>3, <1>4 DEF ListHeap
<1> HIDE DEF U, V, N
<1>6. IsFiniteSet(U)
  BY <1>5, CountTo, FS_Subset
<1>7. IsFiniteSet(V) /\ Cardinality(V) < Cardinality(U)
  <2>1. IsFiniteSet(V) /\ Cardinality(V) <= Cardinality(U) /\ Cardinality(U) # Cardinality(V)
    BY <1>5, <1>6, FS_Subset
  <2>2. Cardinality(V) \in Nat /\ Cardinality(U) \in Nat
    BY <1>6, <2>1, FS_CardinalityType
  <2> QED
    BY <2>1, <2>2
<1>8. v.d \in T \cup {NULL}
  BY <1>3 DEF Tree
<1> QED
  BY <1>6, <1>7, <1>8 DEF v, U, V

(* A search ends before its turns run out, and on its way.                 *)
LEMMA SearchEnds ==
  ASSUME NEW h, HeapOf(h), ListHeap(h), NEW r, NEW T, NEW B, Tree(h, r, T, B),
         NEW l \in Seq(Nat)
  PROVE  /\ OnTheWay(h, r, T, B, l, Search(h, l, r)) /\ Done(h, l, Search(h, l, r))
<1> DEFINE g == SearchTurns(h, l, r)
           N == Len(h)
<1>1. r \in 0 .. N /\ N \in Nat
  BY DEF Tree, HeapOf, NULL
<1>2. /\ Search(h, l, r) = g[N] /\ g[0] = [d |-> r, at |-> <<>>]
      /\ \A n \in Nat : g[n + 1] = Descend(h, l, g[n])
  BY <1>1, SearchTurnsTyped
<1> HIDE DEF g, N
<1>3. \A n \in Nat : OnTheWay(h, r, T, B, l, g[n])
  <2> DEFINE P(n) == OnTheWay(h, r, T, B, l, g[n])
  <2>1. P(0)
    <3>1. r \in T \cup {NULL} /\ Guided(h, T, B, l, r)
      BY RootIsGuided DEF Tree
    <3>2. g[0].d = r /\ g[0].at = <<>>
      BY <1>2
    <3> QED
      BY <3>1, <3>2 DEF OnTheWay
  <2>2. ASSUME NEW n \in Nat, P(n) PROVE P(n + 1)
    <3>1. g[n + 1] = Descend(h, l, g[n])
      BY <1>2
    <3> QED
      BY <2>2, <3>1, DescendOnTheWay
  <2> DEFINE S == {n \in Nat : P(n)}
  <2> HIDE DEF P
  <2>3. S \in SUBSET Nat /\ 0 \in S /\ \A n \in S : n + 1 \in S
    BY <2>1, <2>2
  <2> HIDE DEF S
  <2>4. S = Nat
    BY <2>3, NatSets
  <2> QED
    BY <2>4 DEF S, P
<1>4. \A n \in Nat : Done(h, l, g[n]) \/ Cardinality(B[g[n].d]) + n <= N
  <2> DEFINE P(n) == Done(h, l, g[n]) \/ Cardinality(B[g[n].d]) + n <= N
  <2>1. P(0)
    <3>1. CASE Done(h, l, g[0])
      BY <3>1
    <3>2. CASE ~Done(h, l, g[0])
      <4>0. g[0].d = r
        BY <1>2
      <4>1. r # NULL /\ g[0].d = r /\ B[r] = T /\ T \subseteq 1 .. N
        BY <3>2, <4>0 DEF Done, Tree, Below, N
      <4>2. IsFiniteSet(1 .. N) /\ Cardinality(1 .. N) = N
        BY <1>1, CountTo
      <4>3. IsFiniteSet(T) /\ Cardinality(T) <= N
        <5> DEFINE S == 1 .. N
        <5>1. T \in SUBSET S /\ IsFiniteSet(S) /\ Cardinality(S) = N
          BY <4>1, <4>2
        <5> HIDE DEF S, P
        <5>2. IsFiniteSet(T) /\ Cardinality(T) <= Cardinality(S)
          BY <5>1, FS_Subset
        <5> QED
          BY <5>1, <5>2
      <4>4. Cardinality(T) \in Nat
        BY <4>3, FS_CardinalityType
      <4>5. Cardinality(T) + 0 <= N
        BY <1>1, <4>3, <4>4
      <4>6. B[g[0].d] = T
        BY <4>1
      <4> QED
        BY <4>5, <4>6
    <3> QED
      BY <3>1, <3>2
  <2>2. ASSUME NEW n \in Nat, P(n) PROVE P(n + 1)
    <3>1. g[n + 1] = Descend(h, l, g[n]) /\ n \in Nat /\ n + 1 \in Nat
      <4> HIDE DEF P
      <4>1. g[n + 1] = Descend(h, l, g[n])
        BY <1>2
      <4>2. n + 1 \in Nat
        OBVIOUS
      <4> QED
        BY <4>1, <4>2
    <3>2. CASE Done(h, l, g[n])
      <4>0. g[n].d \in T \cup {NULL}
        BY <1>3, <3>1 DEF OnTheWay
      <4>1. g[n].d \in 0 .. Len(h)
        <5> HIDE DEF P
        <5>1. T \subseteq 1 .. Len(h) /\ NULL \in 0 .. Len(h)
          BY DEF Tree, NULL, ListHeap
        <5>2. \A x \in 1 .. Len(h) : x \in 0 .. Len(h)
          BY DEF ListHeap
        <5> QED
          BY <4>0, <5>1, <5>2
      <4>2. g[n + 1] = g[n]
        BY <3>1, <3>2, <4>1, DescendCases
      <4> QED
        BY <3>1, <3>2, <4>2
    <3>3. CASE ~Done(h, l, g[n])
      <4> DEFINE a == Cardinality(B[g[n].d])
                 b == Cardinality(Below(B, g[n + 1].d))
      <4>1. g[n].d \in T
        BY <1>3, <3>1, <3>3 DEF OnTheWay, Done
      <4>2. b < a /\ a \in Nat /\ b \in Nat
        BY <3>1, <3>3, <4>1, DescendShrinks, FS_CardinalityType
      <4>3. a + n <= N
        BY <2>2, <3>3
      <4> HIDE DEF a, b
      <4>4. b + (n + 1) <= N
        BY <1>1, <3>1, <4>2, <4>3
      <4>5. CASE g[n + 1].d = NULL
        BY <3>1, <4>5 DEF Done
      <4>6. CASE g[n + 1].d # NULL
        <5>1. b = Cardinality(B[g[n + 1].d])
          BY <4>6 DEF b, Below
        <5> QED
          BY <3>1, <4>4, <5>1
      <4> QED
        BY <4>5, <4>6
    <3> QED
      BY <3>2, <3>3
  <2> DEFINE S == {n \in Nat : P(n)}
  <2> HIDE DEF P
  <2>3. S \in SUBSET Nat /\ 0 \in S /\ \A n \in S : n + 1 \in S
    BY <2>1, <2>2
  <2> HIDE DEF S
  <2>4. S = Nat
    BY <2>3, NatSets
  <2> QED
    BY <2>4 DEF S, P
<1>5. Done(h, l, g[N])
  <2> SUFFICES ASSUME ~Done(h, l, g[N]) PROVE FALSE
    OBVIOUS
  <2> DEFINE x == g[N].d
  <2>1. x \in T
    BY <1>1, <1>3 DEF OnTheWay, Done
  <2>2. x \in B[x] /\ IsFiniteSet(B[x])
    BY <2>1, TreeParts, DescendShrinks
  <2>3. Cardinality(B[x]) \in Nat \ {0}
    BY <2>2, FS_CardinalityType, FS_EmptySet
  <2>4. Cardinality(B[x]) + N <= N
    BY <1>1, <1>4
  <2> QED
    BY <1>1, <2>3, <2>4
<1> QED
  BY <1>1, <1>2, <1>3, <1>5

(* Every list in the tree is found, where it is.                            *)
LEMMA SearchFinds ==
  ASSUME NEW h, HeapOf(h), ListHeap(h), NEW r, NEW T, NEW B, Tree(h, r, T, B), NEW t \in T
  PROVE  Search(h, h[t].l, r).d = t
<1> DEFINE l == h[t].l
           g == SearchTurns(h, l, r)
           N == Len(h)
           w == Search(h, l, r)
<1>1. r \in 0 .. N /\ N \in Nat /\ l \in Seq(Nat)
  BY DEF Tree, HeapOf, NULL, ListHeap
<1>2. /\ w = g[N] /\ g[0] = [d |-> r, at |-> <<>>]
      /\ \A n \in Nat : g[n + 1] = Descend(h, l, g[n]) /\ g[n] \in Finds(N)
  BY <1>1, SearchTurnsTyped
<1> HIDE DEF g, N
<1>3. \A n \in Nat : t \in Below(B, g[n].d) /\ g[n].d \in T
  <2> DEFINE P(n) == t \in Below(B, g[n].d) /\ g[n].d \in T
  <2>1. P(0)
    BY <1>2 DEF Tree, Below
  <2>2. ASSUME NEW n \in Nat, P(n) PROVE P(n + 1)
    <3> DEFINE x == g[n].d
               L == Below(B, h[x].left)
               R == Below(B, h[x].right)
               v == Descend(h, l, g[n])
    <3>1. g[n + 1] = v /\ x \in T /\ t \in B[x] /\ x \in 0 .. Len(h)
      <4>1. g[n + 1] = v /\ g[n] \in Finds(N)
        <5> HIDE DEF P
        <5> QED
          BY <1>2
      <4> QED
        BY <2>2, <4>1 DEF Below, Finds, N
    <3> HIDE DEF x
    <3>2. /\ t = x \/ t \in L \/ t \in R
          /\ \A y \in L : Precedes(h[y].l, h[x].l)
          /\ \A y \in R : Precedes(h[x].l, h[y].l)
          /\ h[x].l \in Seq(Nat)
      BY <3>1, TreeParts DEF ListHeap
    <3> USE DEF x
    <3>3. /\ ~Precedes(l, l)
          /\ ~(Precedes(l, h[x].l) /\ Precedes(h[x].l, l))
      BY <1>1, <3>2, PrecedesIrreflexive, PrecedesTransitive
    <3>4. CASE v = g[n]
      BY <2>2, <3>1, <3>4
    <3>5. CASE WentLeft(h, l, g[n], v)
      <4>1. Precedes(l, h[x].l) /\ v.d = h[x].left
        BY <3>5 DEF WentLeft
      <4>2. t \in L
        BY <3>2, <3>3, <4>1
      <4> QED
        BY <3>1, <4>1, <4>2 DEF Below, Tree
    <3>6. CASE WentRight(h, l, g[n], v)
      <4>1. Precedes(h[x].l, l) /\ v.d = h[x].right
        BY <3>6 DEF WentRight
      <4>2. t \in R
        BY <3>2, <3>3, <4>1
      <4> QED
        BY <3>1, <4>1, <4>2 DEF Below, Tree
    <3>7. v = g[n] \/ WentLeft(h, l, g[n], v) \/ WentRight(h, l, g[n], v)
      <4>1. g[n].d \in 0 .. Len(h)
        BY <3>1
      <4> HIDE DEF l, P
      <4> QED
        BY <1>1, <4>1, DescendCases
    <3> HIDE DEF P, v, l
    <3> QED
      BY <3>4, <3>5, <3>6, <3>7
  <2> DEFINE S == {n \in Nat : P(n)}
  <2> HIDE DEF P
  <2>3. S \in SUBSET Nat /\ 0 \in S /\ \A n \in S : n + 1 \in S
    BY <2>1, <2>2
  <2> HIDE DEF S
  <2>4. S = Nat
    BY <2>3, NatSets
  <2> QED
    BY <2>4 DEF S, P
<1> DEFINE x == w.d
<1>4. t \in B[x] /\ x \in T
  BY <1>1, <1>2, <1>3 DEF Below
<1>5. Done(h, l, w)
  BY <1>1, SearchEnds
<1>6. ~(Precedes(l, h[x].l) \/ Precedes(h[x].l, l))
  BY <1>4, <1>5, TreeParts DEF Done
<1> QED
  BY <1>4, <1>6, TreeParts

-----------------------------------------------------------------------------
(* The trees that dstate makes.                                             *)
LEMMA EmptyTree ==
  ASSUME NEW h
  PROVE  Tree(h, NULL, {}, [x \in {} |-> {}])
  BY DEF Tree, Nested, Ordered, Below

LEMMA TreeOfOne ==
  ASSUME NEW h, NEW e \in 1 .. Len(h), Len(h) \in Nat, h[e].left = NULL, h[e].right = NULL
  PROVE  Tree(h, e, {e}, [x \in {e} |-> {e}])
<1> DEFINE T == {e}
           B == [x \in T |-> T]
<1>1. e # NULL /\ B[e] = T /\ \A x \in T : x = e
  BY DEF NULL
<1>2. B \in [T -> SUBSET T] /\ Below(B, e) = T /\ Below(B, NULL) = {}
  BY <1>1 DEF Below
<1> HIDE DEF B
<1>3. Nested(h, T, B)
  BY <1>1, <1>2 DEF Nested
<1>4. Ordered(h, T, B)
  BY <1>1, <1>2 DEF Ordered
<1>5. T \subseteq 1 .. Len(h) /\ e \in T \cup {NULL}
  OBVIOUS
<1>6. \A x \in T : h[x].left \in T \cup {NULL} /\ h[x].right \in T \cup {NULL}
  OBVIOUS
<1> HIDE DEF T
<1>7. Tree(h, e, T, B)
  BY <1>2, <1>3, <1>4, <1>5, <1>6 DEF Tree
<1> QED
  BY <1>7 DEF T, B

(* Only the lists and links of its own DStates matter to a tree.            *)
LEMMA SameTree ==
  ASSUME NEW h, NEW g, NEW r, NEW T, NEW B, Tree(h, r, T, B),
         Len(h) \in Nat, Len(g) \in Nat, Len(g) >= Len(h),
         \A x \in T : g[x].l = h[x].l /\ g[x].left = h[x].left /\ g[x].right = h[x].right
  PROVE  Tree(g, r, T, B)
<1>1. T \subseteq 1 .. Len(g)
  BY DEF Tree
<1>2. Nested(g, T, B)
  BY DEF Tree, Nested
<1>3. Ordered(g, T, B)
  <2> SUFFICES ASSUME NEW x \in T
               PROVE  /\ \A y \in Below(B, g[x].left) : Precedes(g[y].l, g[x].l)
                      /\ \A y \in Below(B, g[x].right) : Precedes(g[x].l, g[y].l)
    BY DEF Ordered
  <2>1. Below(B, h[x].left) \subseteq T /\ Below(B, h[x].right) \subseteq T
    BY DEF Tree, Below
  <2>2. /\ \A y \in Below(B, h[x].left) : Precedes(h[y].l, h[x].l)
        /\ \A y \in Below(B, h[x].right) : Precedes(h[x].l, h[y].l)
    BY DEF Tree, Ordered
  <2> QED
    BY <2>1, <2>2
<1> QED
  BY <1>1, <1>2, <1>3 DEF Tree

(* TreeParts, of every DState of the tree.                                  *)
LEMMA TreeShape ==
  ASSUME NEW h, ListHeap(h), NEW r, NEW T, NEW B, Tree(h, r, T, B)
  PROVE  \A x \in T :
           LET L == Below(B, h[x].left)
               R == Below(B, h[x].right)
           IN  /\ B[x] = {x} \cup L \cup R /\ x \notin L /\ x \notin R
               /\ L \cap R = {} /\ L \subseteq T /\ R \subseteq T
               /\ x \in B[x] /\ B[x] \subseteq T
<1> SUFFICES ASSUME NEW x \in T
             PROVE  LET L == Below(B, h[x].left)
                        R == Below(B, h[x].right)
                    IN  /\ B[x] = {x} \cup L \cup R /\ x \notin L /\ x \notin R
                        /\ L \cap R = {} /\ L \subseteq T /\ R \subseteq T
                        /\ x \in B[x] /\ B[x] \subseteq T
  BY Zenon
<1> QED
  BY TreeParts

(* The new DState e hangs below p.                                          *)
Widened(T, B, p, e) ==
  [x \in T \cup {e} |-> IF x = e THEN {e} ELSE IF p \in B[x] THEN B[x] \cup {e} ELSE B[x]]

(* A DState hung at the null link its search ended at keeps the tree.      *)
LEMMA WidenedTree ==
  ASSUME NEW h, ListHeap(h), NEW r, NEW T, NEW B, Tree(h, r, T, B),
         NEW e \in 1 .. Len(h), e \notin T, h[e].left = NULL, h[e].right = NULL,
         NEW p \in T, Guided(h, T, B, h[e].l, p), NEW dir \in {"left", "right"},
         dir = "left" => h[p].left = NULL /\ Precedes(h[e].l, h[p].l),
         dir = "right" => h[p].right = NULL /\ Precedes(h[p].l, h[e].l),
         NEW g, Len(g) = Len(h),
         \A x \in 1 .. Len(h) :
           /\ g[x].l = h[x].l
           /\ g[x].left = IF x = p /\ dir = "left" THEN e ELSE h[x].left
           /\ g[x].right = IF x = p /\ dir = "right" THEN e ELSE h[x].right
  PROVE  Tree(g, r, T \cup {e}, Widened(T, B, p, e))
<1> DEFINE U == T \cup {e}
           C == Widened(T, B, p, e)
           L(x) == Below(B, h[x].left)
           R(x) == Below(B, h[x].right)
<1>1. /\ T \subseteq 1 .. Len(h) /\ B \in [T -> SUBSET T] /\ e # NULL /\ NULL \notin T
      /\ \A x \in T : h[x].left \in T \cup {NULL} /\ h[x].right \in T \cup {NULL}
  BY DEF Tree, NULL, ListHeap
<1>2. /\ C \in [U -> SUBSET U] /\ C[e] = {e}
      /\ \A x \in T : C[x] = IF p \in B[x] THEN B[x] \cup {e} ELSE B[x]
  BY <1>1 DEF Widened
<1>3. \A x \in T : /\ B[x] = {x} \cup L(x) \cup R(x) /\ x \notin L(x) /\ x \notin R(x)
                   /\ L(x) \cap R(x) = {} /\ L(x) \subseteq T /\ R(x) \subseteq T
                   /\ x \in B[x] /\ B[x] \subseteq T
  BY TreeShape, Zenon
<1> HIDE DEF C
<1>4. /\ Below(C, e) = {e} /\ Below(C, NULL) = {} /\ Below(B, NULL) = {}
      /\ \A z \in T \cup {NULL} :
           Below(C, z) = IF p \in Below(B, z) THEN Below(B, z) \cup {e} ELSE Below(B, z)
  BY <1>1, <1>2 DEF Below
<1>5. ASSUME NEW x \in T
      PROVE  /\ Below(C, g[x].left) = L(x) \cup IF p \in L(x) \/ (x = p /\ dir = "left")
                                               THEN {e} ELSE {}
             /\ Below(C, g[x].right) = R(x) \cup IF p \in R(x) \/ (x = p /\ dir = "right")
                                                THEN {e} ELSE {}
  <2>0. p \in 1 .. Len(h) /\ x \in 1 .. Len(h) /\ p \notin L(p) /\ p \notin R(p)
    BY <1>1, <1>3
  <2>1. CASE x = p /\ dir = "left"
    <3>1. g[x].left = e /\ g[x].right = h[x].right /\ L(x) = {} /\ dir # "right"
      BY <1>4, <2>0, <2>1
    <3>2. p \notin R(x) /\ h[x].right \in T \cup {NULL}
      BY <1>1, <2>0, <2>1
    <3>3. Below(C, g[x].left) = {e}
      BY <1>4, <3>1
    <3>4. Below(C, g[x].right) = R(x)
      BY <1>4, <3>1, <3>2
    <3> QED
      BY <2>1, <3>1, <3>2, <3>3, <3>4
  <2>2. CASE x = p /\ dir = "right"
    <3>1. g[x].right = e /\ g[x].left = h[x].left /\ R(x) = {} /\ dir # "left"
      BY <1>4, <2>0, <2>2
    <3>2. p \notin L(x) /\ h[x].left \in T \cup {NULL}
      BY <1>1, <2>0, <2>2
    <3>3. Below(C, g[x].right) = {e}
      BY <1>4, <3>1
    <3>4. Below(C, g[x].left) = L(x)
      BY <1>4, <3>1, <3>2
    <3> QED
      BY <2>2, <3>1, <3>2, <3>3, <3>4
  <2>3. CASE x # p
    <3>1. g[x].right = h[x].right /\ g[x].left = h[x].left
      BY <2>0, <2>3
    <3> QED
      BY <1>1, <1>4, <2>3, <3>1
  <2> QED
    BY <2>1, <2>2, <2>3
<1>6. g[e].left = NULL /\ g[e].right = NULL
  OBVIOUS
<1>7. \A x \in U : C[x] = {x} \cup Below(C, g[x].left) \cup Below(C, g[x].right)
  <2> SUFFICES ASSUME NEW x \in U
               PROVE  C[x] = {x} \cup Below(C, g[x].left) \cup Below(C, g[x].right)
    OBVIOUS
  <2>1. CASE x = e
    BY <1>2, <1>4, <1>6, <2>1
  <2>2. CASE x \in T
    <3> HIDE DEF L, R
    <3> QED
      BY <1>2, <1>3, <1>5, <2>2
  <2> QED
    BY <2>1, <2>2
<1>8. \A x \in U : \A q \in C[x] : C[q] \subseteq C[x]
  <2> SUFFICES ASSUME NEW x \in U, NEW q \in C[x] PROVE C[q] \subseteq C[x]
    OBVIOUS
  <2>1. CASE q = e
    BY <1>2, <2>1
  <2>2. CASE q # e
    <3>1. x \in T /\ q \in B[x] /\ q \in T
      BY <1>2, <1>3, <2>2
    <3>2. B[q] \subseteq B[x]
      BY <3>1 DEF Tree, Nested
    <3> QED
      BY <1>2, <3>1, <3>2
  <2> QED
    BY <2>1, <2>2
<1>9. \A x, q \in U : \A y \in {g[q].left, g[q].right} \ {NULL} :
        y \in C[x] => y = x \/ q \in C[x]
  <2> SUFFICES ASSUME NEW x \in U, NEW q \in U, NEW y \in {g[q].left, g[q].right} \ {NULL},
                      y \in C[x], y # x
               PROVE  q \in C[x]
    OBVIOUS
  <2>1. q \in T
    BY <1>6
  <2>2. CASE y = e
    <3>1. x \in T /\ p \in B[x]
      BY <1>1, <1>2, <2>2
    <3>2. q = p
      BY <1>1, <2>1, <2>2
    <3> QED
      BY <1>2, <3>1, <3>2
  <2>3. CASE y # e
    <3>1. x \in T /\ y \in B[x]
      BY <1>2, <2>3
    <3>2. y \in {h[q].left, h[q].right}
      BY <1>1, <2>1, <2>3
    <3>3. q \in B[x]
      BY <2>1, <3>1, <3>2 DEF Tree, Nested
    <3> QED
      BY <1>2, <3>1, <3>3
  <2> QED
    BY <2>2, <2>3
<1>10. Nested(g, U, C)
  BY <1>7, <1>8, <1>9 DEF Nested
<1>11. Ordered(g, U, C)
  <2> SUFFICES ASSUME NEW x \in U
               PROVE  /\ \A y \in Below(C, g[x].left) : Precedes(g[y].l, g[x].l)
                      /\ \A y \in Below(C, g[x].right) : Precedes(g[x].l, g[y].l)
    BY DEF Ordered
  <2>1. CASE x = e
    BY <1>4, <1>6, <2>1
  <2>2. CASE x \in T
    <3>0. /\ \A y \in L(x) : Precedes(h[y].l, h[x].l)
          /\ \A y \in R(x) : Precedes(h[x].l, h[y].l)
      BY <2>2 DEF Tree, Ordered
    <3>1. /\ \A y \in L(x) : Precedes(h[y].l, h[x].l) /\ y \in 1 .. Len(h)
          /\ \A y \in R(x) : Precedes(h[x].l, h[y].l) /\ y \in 1 .. Len(h)
      <4> HIDE DEF L, R
      <4>1. L(x) \subseteq 1 .. Len(h) /\ R(x) \subseteq 1 .. Len(h)
        BY <1>1, <1>3, <2>2
      <4> QED
        BY <3>0, <4>1
    <3>2. /\ p \in L(x) => Precedes(h[e].l, h[x].l)
          /\ p \in R(x) => Precedes(h[x].l, h[e].l)
      BY <2>2 DEF Guided
    <3>3. \A y \in 1 .. Len(h) : g[y].l = h[y].l
      OBVIOUS
    <3>4. x \in 1 .. Len(h)
      BY <1>1, <2>2
    <3> HIDE DEF L, R
    <3>5. ASSUME NEW y \in Below(C, g[x].left) PROVE Precedes(g[y].l, g[x].l)
      <4>1. y \in L(x) \/ (y = e /\ (p \in L(x) \/ (x = p /\ dir = "left")))
        BY <1>5, <2>2
      <4> QED
        BY <3>1, <3>2, <3>3, <3>4, <4>1
    <3>6. ASSUME NEW y \in Below(C, g[x].right) PROVE Precedes(g[x].l, g[y].l)
      <4>1. y \in R(x) \/ (y = e /\ (p \in R(x) \/ (x = p /\ dir = "right")))
        BY <1>5, <2>2
      <4> QED
        BY <3>1, <3>2, <3>3, <3>4, <4>1
    <3> QED
      BY <3>5, <3>6
  <2> QED
    BY <2>1, <2>2
<1>12. r \in U \cup {NULL} /\ U = Below(C, r)
  <2>1. r \in T /\ B[r] = T
    BY DEF Tree, Below
  <2> QED
    BY <1>1, <1>2, <2>1 DEF Below
<1>13. \A x \in U : g[x].left \in U \cup {NULL} /\ g[x].right \in U \cup {NULL}
  BY <1>1
<1>14. U \subseteq 1 .. Len(g)
  BY <1>1
<1> HIDE DEF U
<1>15. Tree(g, r, U, C)
  BY <1>2, <1>10, <1>11, <1>12, <1>13, <1>14 DEF Tree
<1> QED
  BY <1>15 DEF U, C

-----------------------------------------------------------------------------
(* Sequences without repetition, and the free list as one.                  *)
Unique(s) == \A i, j \in 1 .. Len(s) : s[i] = s[j] => i = j
Members(s) == {s[i] : i \in 1 .. Len(s)}

(* A list without repetitions has as many elements as its set.             *)
LEMMA MembersCounted ==
  ASSUME NEW S, NEW s \in Seq(S), Unique(s)
  PROVE  IsFiniteSet(Members(s)) /\ Cardinality(Members(s)) = Len(s) /\ Members(s) \subseteq S
<1> DEFINE n == Len(s)
           f == [i \in 1 .. n |-> s[i]]
<1>1. n \in Nat /\ \A i \in 1 .. n : s[i] \in S
  BY LenProperties, ElementOfSeq
<1>2. IsFiniteSet(1 .. n) /\ Cardinality(1 .. n) = n
  BY <1>1, CountTo
<1> HIDE DEF n
<1>3. f \in Bijection(1 .. n, Members(s))
  <2>1. f \in [1 .. n -> Members(s)]
    BY DEF Members, n
  <2>2. \A i, j \in 1 .. n : f[i] = f[j] => i = j
    BY DEF Unique, n
  <2>3. \A x \in Members(s) : \E i \in 1 .. n : f[i] = x
    BY DEF Members, n
  <2> HIDE DEF f
  <2> QED
    BY <2>1, <2>2, <2>3 DEF Bijection, Injection, Surjection, IsInjective
<1>4. ExistsBijection(1 .. n, Members(s))
  BY <1>3 DEF ExistsBijection
<1>5. IsFiniteSet(Members(s)) /\ Cardinality(Members(s)) = n
  BY <1>2, <1>4, FS_Bijection
<1> QED
  BY <1>1, <1>5 DEF Members, n

FreeWalks(n) == [d : 0 .. n, l : Seq(1 .. n)]

LEMMA FollowFreeTyped ==
  ASSUME NEW heap, HeapOf(heap), NEW w \in FreeWalks(Len(heap))
  PROVE  FollowFree(heap, w) \in FreeWalks(Len(heap))
<1> DEFINE N == Len(heap)
<1>1. w.d \in 0 .. N /\ w.l \in Seq(1 .. N) /\ N \in Nat
  BY DEF FreeWalks, HeapOf
<1>2. CASE w.d = NULL
  BY <1>2 DEF FollowFree
<1>3. CASE w.d # NULL
  <2>1. w.d \in 1 .. N
    BY <1>1, <1>3 DEF NULL
  <2>2. heap[w.d].left \in 0 .. N /\ Append(w.l, w.d) \in Seq(1 .. N)
    BY <1>1, <2>1, HeapParts, AppendProperties
  <2> QED
    BY <1>3, <2>2 DEF FollowFree, FreeWalks
<1> QED
  BY <1>2, <1>3

FreeStep(f, heap, t) ==
  f = [n \in Nat |-> IF n = 0 THEN [d |-> t, l |-> <<>>] ELSE FollowFree(heap, f[n - 1])]
FreeTurns(heap, t) == CHOOSE f : FreeStep(f, heap, t)

LEMMA FreeTurnsTyped ==
  ASSUME NEW heap, HeapOf(heap), NEW t \in 0 .. Len(heap)
  PROVE  LET g == FreeTurns(heap, t)
         IN  /\ FreeChain(heap, t) = g[Len(heap) + 1].l
             /\ g[0] = [d |-> t, l |-> <<>>]
             /\ \A n \in Nat : g[n] \in FreeWalks(Len(heap))
             /\ \A n \in Nat : g[n + 1] = FollowFree(heap, g[n])
<1> DEFINE A == FreeWalks(Len(heap))
           a == [d |-> t, l |-> <<>>]
           h == [x \in Nat \X A |-> FollowFree(heap, x[2])]
<1>1. a \in A
  BY DEF FreeWalks
<1>2. \A w \in A : FollowFree(heap, w) \in A
  BY FollowFreeTyped
<1>3. h \in [Nat \X A -> A]
  <2> HIDE DEF A
  <2> QED
    BY <1>2
<1>4. PICK f \in [Nat -> A] : Turns(f, a, h)
  <2> HIDE DEF A, h, a
  <2> QED
    BY <1>1, <1>3, TurnsExist
<1>5. FreeStep(f, heap, t)
  <2>1. \A n \in Nat : n # 0 => h[<<n, f[n - 1]>>] = FollowFree(heap, f[n - 1])
    <3> HIDE DEF A
    <3> QED
      OBVIOUS
  <2> HIDE DEF h, A
  <2> QED
    BY <1>4, <2>1 DEF Turns, FreeStep
<1> DEFINE g == FreeTurns(heap, t)
<1>6. FreeStep(g, heap, t)
  BY <1>5 DEF FreeTurns
<1>7. FreeChain(heap, t) = g[Len(heap) + 1].l
  BY DEF FreeChain, FreeTurns, FreeStep
<1> HIDE DEF A, g
<1>8. g[0] = a /\ \A n \in Nat : g[n + 1] = FollowFree(heap, g[n])
  <2>1. g[0] = a
    BY <1>6 DEF FreeStep
  <2>2. ASSUME NEW n \in Nat PROVE g[n + 1] = FollowFree(heap, g[n])
    <3>1. n + 1 \in Nat /\ n + 1 # 0 /\ (n + 1) - 1 = n
      OBVIOUS
    <3>2. g[n + 1] = FollowFree(heap, g[(n + 1) - 1])
      BY <1>6, <3>1 DEF FreeStep
    <3> QED
      BY <3>1, <3>2
  <2> QED
    BY <2>1, <2>2
<1>9. \A n \in Nat : g[n] \in A
  BY <1>1, <1>2, <1>8, TurnsStay
<1> QED
  BY <1>7, <1>8, <1>9 DEF A, g

(* F lists the DStates from t on, each with its left naming the next.       *)
Threaded(h, t, F) ==
  /\ t = IF F = <<>> THEN NULL ELSE F[1]
  /\ \A i \in 1 .. Len(F) : h[F[i]].left = IF i = Len(F) THEN NULL ELSE F[i + 1]

(* Following left from freelist gives the DStates that are threaded on it. *)
LEMMA FreeChainIs ==
  ASSUME NEW h, HeapOf(h), NEW t, NEW F \in Seq(1 .. Len(h)), Unique(F), Threaded(h, t, F)
  PROVE  FreeChain(h, t) = F
<1> DEFINE N == Len(h)
           m == Len(F)
           g == FreeTurns(h, t)
<1>1. N \in Nat /\ m \in Nat /\ \A i \in 1 .. m : F[i] \in 1 .. N
  BY LenProperties, ElementOfSeq DEF HeapOf
<1>2. m <= N
  <2>1. IsFiniteSet(1 .. N) /\ Cardinality(1 .. N) = N
    BY <1>1, CountTo
  <2>2. Cardinality(Members(F)) = m /\ Members(F) \subseteq 1 .. N
    BY MembersCounted
  <2> QED
    BY <2>1, <2>2, FS_Subset
<1>3. t \in 0 .. N
  <2>1. CASE F = <<>>
    BY <1>1, <2>1 DEF Threaded, NULL
  <2>2. CASE F # <<>>
    <3>1. 1 \in 1 .. m
      BY <1>1, <2>2
    <3> QED
      BY <1>1, <2>2, <3>1 DEF Threaded
  <2> QED
    BY <2>1, <2>2
<1>4. /\ FreeChain(h, t) = g[N + 1].l /\ g[0] = [d |-> t, l |-> <<>>]
      /\ \A n \in Nat : g[n + 1] = FollowFree(h, g[n]) /\ g[n] \in FreeWalks(N)
  BY <1>3, FreeTurnsTyped
<1> HIDE DEF g, N, m
<1> DEFINE K(n) == [d |-> IF n >= m THEN NULL ELSE F[n + 1],
                    l |-> IF n >= m THEN F ELSE SubSeq(F, 1, n)]
<1>5. g[0] = K(0)
  <2>1. CASE m = 0
    <3>1. F = <<>> /\ t = NULL
      BY <2>1 DEF Threaded, m
    <3> QED
      BY <1>4, <2>1, <3>1
  <2>2. CASE m # 0
    <3>1. F # <<>> /\ t = F[1] /\ ~(0 >= m)
      BY <1>1, <2>2 DEF Threaded, m
    <3>2. SubSeq(F, 1, 0) = <<>>
      OBVIOUS
    <3> DEFINE y == SubSeq(F, 1, 0)
    <3>3. K(0) = [d |-> F[1], l |-> y]
      <4> HIDE DEF y
      <4>1. K(0).d = F[1] /\ K(0).l = SubSeq(F, 1, 0)
        BY <3>1
      <4> QED
        BY <4>1 DEF y
    <3> HIDE DEF K, y
    <3> QED
      BY <1>4, <3>1, <3>2, <3>3 DEF y
  <2> QED
    BY <2>1, <2>2
<1>6. ASSUME NEW n \in Nat PROVE FollowFree(h, K(n)) = K(n + 1)
  <2>1. SubSeq(F, 1, m) = F
    BY DEF m
  <2>2. CASE n >= m
    <3>1. K(n) = [d |-> NULL, l |-> F] /\ n + 1 >= m
      BY <1>1, <2>2
    <3>2. K(n + 1) = [d |-> NULL, l |-> F]
      BY <3>1
    <3> HIDE DEF K
    <3> QED
      BY <3>1, <3>2 DEF FollowFree
  <2>3. CASE n < m
    <3> DEFINE x == F[n + 1]
               y == SubSeq(F, 1, n)
               z == Append(y, x)
    <3>1. n + 1 \in 1 .. m /\ x \in 1 .. N /\ x # NULL /\ ~(n >= m)
      BY <1>1, <2>3 DEF NULL
    <3>2. K(n) = [d |-> x, l |-> y]
      BY <3>1
    <3>3. h[x].left = IF n + 1 = m THEN NULL ELSE F[(n + 1) + 1]
      BY <3>1 DEF Threaded, m
    <3>4. z = SubSeq(F, 1, n + 1)
      BY <2>3 DEF m
    <3>5. z = IF n + 1 >= m THEN F ELSE SubSeq(F, 1, n + 1)
      BY <1>1, <2>1, <2>3, <3>4
    <3>6. (n + 1 = m) <=> (n + 1 >= m)
      BY <1>1, <2>3
    <3>7. K(n + 1) = [d |-> h[x].left, l |-> z]
      <4> HIDE DEF x, z
      <4> QED
        BY <3>3, <3>5, <3>6
    <3> HIDE DEF x, y, K
    <3> QED
      BY <3>1, <3>2, <3>7 DEF FollowFree
  <2> QED
    BY <1>1, <2>2, <2>3
<1>7. \A n \in Nat : g[n] = K(n)
  <2> DEFINE S == {n \in Nat : g[n] = K(n)}
  <2> HIDE DEF K
  <2>1. S \in SUBSET Nat /\ 0 \in S /\ \A n \in S : n + 1 \in S
    <3>1. ASSUME NEW n \in Nat, g[n] = K(n) PROVE g[n + 1] = K(n + 1)
      <4>1. g[n + 1] = FollowFree(h, g[n]) /\ FollowFree(h, K(n)) = K(n + 1)
        BY <1>4, <1>6
      <4> QED
        BY <3>1, <4>1
    <3> QED
      BY <1>5, <3>1
  <2> HIDE DEF S
  <2>2. S = Nat
    BY <2>1, NatSets
  <2> QED
    BY <2>2 DEF S
<1>8. g[N + 1].l = F
  <2>1. N + 1 \in Nat /\ N + 1 >= m
    BY <1>1, <1>2
  <2>2. g[N + 1] = K(N + 1)
    <3> HIDE DEF K
    <3> QED
      BY <1>7, <2>1
  <2> QED
    BY <2>1, <2>2
<1> QED
  BY <1>4, <1>8

-----------------------------------------------------------------------------
(* freestates' walk: each DStates of the tree is in l or below one of todo. *)
LEMMA PushedTwo ==
  ASSUME NEW S, NEW s \in Seq(S), s # <<>>, NEW a \in S, NEW b \in S
  PROVE  LET v == <<a, b>> \o Tail(s)
         IN  /\ Len(v) = Len(s) + 1 /\ v[1] = a /\ v[2] = b
             /\ \A i \in 3 .. Len(v) : v[i] = s[i - 1] /\ i - 1 \in 2 .. Len(s)
             /\ \A i \in 2 .. Len(s) : v[i + 1] = s[i] /\ i + 1 \in 3 .. Len(v)
<1> DEFINE p == <<a, b>>
           u == Tail(s)
           v == p \o u
           n == Len(s)
<1>1. /\ u \in Seq(S) /\ n \in Nat \ {0} /\ Len(u) = n - 1
      /\ \A i \in 1 .. n - 1 : u[i] = s[i + 1]
  BY HeadTail
<1>2. p \in Seq(S) /\ Len(p) = 2 /\ p[1] = a /\ p[2] = b
  OBVIOUS
<1> HIDE DEF p, u, n
<1>3. /\ Len(v) = Len(p) + Len(u)
      /\ \A i \in 1 .. Len(p) + Len(u) : v[i] = IF i <= Len(p) THEN p[i] ELSE u[i - Len(p)]
  BY <1>1, <1>2, ConcatProperties
<1> HIDE DEF v
<1>4. Len(v) = n + 1
  BY <1>1, <1>2, <1>3
<1>5. v[1] = a /\ v[2] = b
  BY <1>1, <1>2, <1>3
<1>6. ASSUME NEW i \in 3 .. Len(v) PROVE v[i] = s[i - 1] /\ i - 1 \in 2 .. n
  <2>1. i \in 1 .. 2 + (n - 1) /\ ~(i <= 2) /\ i - 2 \in 1 .. n - 1 /\ (i - 2) + 1 = i - 1
    BY <1>1, <1>4
  <2>2. v[i] = u[i - 2]
    BY <1>1, <1>2, <1>3, <2>1
  <2>3. u[i - 2] = s[(i - 2) + 1]
    BY <1>1, <2>1
  <2> QED
    BY <1>1, <1>4, <2>1, <2>2, <2>3
<1>7. ASSUME NEW i \in 2 .. n PROVE v[i + 1] = s[i] /\ i + 1 \in 3 .. Len(v)
  <2>1. i + 1 \in 3 .. Len(v) /\ (i + 1) - 1 = i
    BY <1>1, <1>4
  <2>2. v[i + 1] = s[(i + 1) - 1]
    BY <1>6, <2>1
  <2> QED
    BY <2>1, <2>2
<1> QED
  BY <1>4, <1>5, <1>6, <1>7 DEF v, p, u, n

Walked(h, T, B, w) ==
  /\ \A i \in 1 .. Len(w.todo) : w.todo[i] \in T \cup {NULL}
  /\ \A i \in 1 .. Len(w.l) : w.l[i] \in T
  /\ Unique(w.l)
  /\ \A i, j \in 1 .. Len(w.todo) :
       i # j => Below(B, w.todo[i]) \cap Below(B, w.todo[j]) = {}
  /\ \A i \in 1 .. Len(w.todo) : \A j \in 1 .. Len(w.l) : w.l[j] \notin Below(B, w.todo[i])
  /\ \A x \in T : \/ \E j \in 1 .. Len(w.l) : w.l[j] = x
                  \/ \E i \in 1 .. Len(w.todo) : x \in Below(B, w.todo[i])

(* freestates meets a DState of the tree once, and leaves none out.        *)
LEMMA VisitWalked ==
  ASSUME NEW h, HeapOf(h), ListHeap(h), NEW r, NEW T, NEW B, Tree(h, r, T, B),
         NEW w \in Visits(Len(h)), Walked(h, T, B, w)
  PROVE  Walked(h, T, B, Visit(h, w))
<1> DEFINE v == Visit(h, w)
           N == Len(h)
<1>1. /\ v \in Visits(N)
      /\ Idle(w, v) \/ Passed(w, v) \/ Visited(h, w, v)
  BY VisitCases
<1>2. /\ w.todo \in Seq(0 .. N) /\ w.l \in Seq(1 .. N) /\ Len(w.todo) \in Nat /\ Len(w.l) \in Nat
      /\ N \in Nat
  <2>1. w.todo \in Seq(0 .. N) /\ w.l \in Seq(1 .. N)
    BY DEF Visits
  <2> QED
    BY <2>1, LenProperties DEF HeapOf
<1> HIDE DEF v, N
<1>3. CASE Idle(w, v)
  BY <1>3 DEF Idle, v
<1>4. CASE Passed(w, v)
  <2> DEFINE n == Len(w.todo)
  <2>1. /\ n \in Nat \ {0} /\ Len(v.todo) = n - 1 /\ w.todo[1] = NULL
        /\ \A i \in 1 .. n - 1 : v.todo[i] = w.todo[i + 1]
        /\ v.l = w.l
    BY <1>2, <1>4, HeadTail DEF Passed
  <2> HIDE DEF n
  <2>2. \A i \in 1 .. n - 1 : i + 1 \in 1 .. n /\ \A j \in 1 .. n - 1 : i # j => i + 1 # j + 1
    BY <2>1
  <2>3. \A i \in 1 .. n : i = 1 \/ (i - 1 \in 1 .. n - 1 /\ v.todo[i - 1] = w.todo[i])
    <3> TAKE i \in 1 .. n
    <3>1. CASE i # 1
      <4>1. i - 1 \in 1 .. n - 1 /\ (i - 1) + 1 = i
        BY <2>1, <3>1
      <4> QED
        BY <2>1, <4>1
    <3> QED
      BY <3>1
  <2>4. Below(B, w.todo[1]) = {}
    BY <2>1 DEF Below
  <2>5. \A i \in 1 .. n - 1 : v.todo[i] \in T \cup {NULL}
    BY <2>1, <2>2 DEF Walked, n
  <2>6. ASSUME NEW i \in 1 .. n - 1, NEW j \in 1 .. n - 1, i # j
        PROVE  Below(B, v.todo[i]) \cap Below(B, v.todo[j]) = {}
    <3>1. \A a, b \in 1 .. n : a # b => Below(B, w.todo[a]) \cap Below(B, w.todo[b]) = {}
      BY DEF Walked, n
    <3>2. i + 1 \in 1 .. n /\ j + 1 \in 1 .. n /\ i + 1 # j + 1
      BY <2>2, <2>6
    <3>3. v.todo[i] = w.todo[i + 1] /\ v.todo[j] = w.todo[j + 1]
      BY <2>1
    <3> QED
      BY <3>1, <3>2, <3>3
  <2>7. \A i \in 1 .. n - 1 : \A j \in 1 .. Len(w.l) : w.l[j] \notin Below(B, v.todo[i])
    BY <2>1, <2>2 DEF Walked, n
  <2>8. \A x \in T : \/ \E j \in 1 .. Len(w.l) : w.l[j] = x
                     \/ \E i \in 1 .. n - 1 : x \in Below(B, v.todo[i])
    BY <2>1, <2>3, <2>4 DEF Walked, n
  <2> QED
    BY <2>1, <2>5, <2>6, <2>7, <2>8 DEF Walked, v
<1>5. CASE Visited(h, w, v)
  <2> DEFINE n == Len(w.todo)
             m == Len(w.l)
             t == w.todo[1]
             L == Below(B, h[t].left)
             R == Below(B, h[t].right)
  <2>1. /\ n \in Nat \ {0} /\ Head(w.todo) = t /\ t \in 1 .. N /\ w.todo # <<>> /\ 1 \in 1 .. n
    BY <1>2, <1>5, HeadTail DEF Visited, HeapOf, N
  <2>2. t \in T
    BY <2>1 DEF Walked, NULL
  <2>3. /\ B[t] = {t} \cup L \cup R /\ t \notin L /\ t \notin R /\ L \cap R = {} /\ Below(B, t) = B[t]
        /\ h[t].left \in T \cup {NULL} /\ h[t].right \in T \cup {NULL}
    <3> HIDE DEF t
    <3> DEFINE M == L
               S == R
    <3>1. B[t] = {t} \cup M \cup S /\ t \notin M /\ t \notin S /\ M \cap S = {}
      BY <2>2, TreeParts
    <3>2. t # NULL
      BY <2>2, TreeParts
    <3>3. Below(B, t) = B[t]
      BY <3>2 DEF Below
    <3>4. h[t].left \in T \cup {NULL} /\ h[t].right \in T \cup {NULL}
      BY <2>2 DEF Tree
    <3> HIDE DEF M, S
    <3>5. B[t] = {t} \cup M \cup S /\ t \notin M /\ t \notin S /\ M \cap S = {}
      BY <3>1
    <3> QED
      BY <3>3, <3>4, <3>5 DEF M, S
  <2>4. h[t].left \in 0 .. N /\ h[t].right \in 0 .. N
    BY <2>1, HeapParts DEF N
  <2>5. /\ v.todo = <<h[t].right, h[t].left>> \o Tail(w.todo) /\ v.l = Append(w.l, t)
    BY <1>5, <2>1 DEF Visited
  <2> HIDE DEF t, n, m
  <2>6. /\ Len(v.todo) = n + 1 /\ v.todo[1] = h[t].right /\ v.todo[2] = h[t].left
        /\ \A i \in 3 .. n + 1 : v.todo[i] = w.todo[i - 1] /\ i - 1 \in 2 .. n
        /\ \A i \in 2 .. n : v.todo[i + 1] = w.todo[i] /\ i + 1 \in 3 .. n + 1
    BY <1>2, <2>1, <2>4, <2>5, PushedTwo DEF n
  <2>7. /\ Len(v.l) = m + 1 /\ v.l[m + 1] = t /\ \A i \in 1 .. m : v.l[i] = w.l[i]
    BY <1>2, <2>1, <2>5, AppendProperties DEF m
  <2>8. /\ \A i \in 1 .. n + 1 : i = 1 \/ i = 2 \/ i \in 3 .. n + 1
        /\ \A i \in 1 .. n : i = 1 \/ i \in 2 .. n
        /\ \A i \in 2 .. n : i \in 1 .. n /\ i # 1
        /\ 1 \in 1 .. n + 1 /\ 2 \in 1 .. n + 1 /\ \A i \in 3 .. n + 1 : i \in 1 .. n + 1
        /\ \A i, j \in 3 .. n + 1 : i # j => i - 1 # j - 1
    BY <2>1
  <2>9. /\ m \in Nat /\ \A j \in 1 .. m + 1 : j = m + 1 \/ j \in 1 .. m
        /\ m + 1 \in 1 .. m + 1 /\ \A j \in 1 .. m : j \in 1 .. m + 1 /\ j # m + 1
    BY <1>2 DEF m
  <2>10. /\ \A i \in 1 .. n : w.todo[i] \in T \cup {NULL}
         /\ \A i \in 1 .. m : w.l[i] \in T
         /\ \A i, j \in 1 .. m : w.l[i] = w.l[j] => i = j
         /\ \A i, j \in 1 .. n : i # j => Below(B, w.todo[i]) \cap Below(B, w.todo[j]) = {}
         /\ \A i \in 1 .. n : \A j \in 1 .. m : w.l[j] \notin Below(B, w.todo[i])
         /\ \A x \in T : \/ \E j \in 1 .. m : w.l[j] = x
                         \/ \E i \in 1 .. n : x \in Below(B, w.todo[i])
    BY DEF Walked, Unique, n, m
  <2>11. w.todo[1] = t
    BY DEF t
  <2> HIDE DEF L, R
  <2>12. \A i \in 2 .. n : /\ Below(B, w.todo[i]) \cap L = {}
                           /\ Below(B, w.todo[i]) \cap R = {}
                           /\ t \notin Below(B, w.todo[i])
    <3> TAKE i \in 2 .. n
    <3>1. i \in 1 .. n /\ i # 1
      BY <2>8
    <3>2. Below(B, w.todo[i]) \cap Below(B, t) = {}
      BY <2>1, <2>10, <2>11, <3>1
    <3> QED
      BY <2>3, <3>2
  <2>13. \A j \in 1 .. m : w.l[j] # t /\ w.l[j] \notin L /\ w.l[j] \notin R
    BY <2>1, <2>3, <2>10, <2>11
  <2>14. Below(B, v.todo[1]) = R /\ Below(B, v.todo[2]) = L
    BY <2>6 DEF L, R
  <2>15. \A i \in 1 .. n + 1 : v.todo[i] \in T \cup {NULL}
    BY <2>3, <2>6, <2>8, <2>10
  <2>16. ASSUME NEW i \in 1 .. n + 1, NEW j \in 1 .. n + 1, i # j
         PROVE  Below(B, v.todo[i]) \cap Below(B, v.todo[j]) = {}
    <3>1. CASE i \in 3 .. n + 1 /\ j \in 3 .. n + 1
      <4>1. i - 1 \in 1 .. n /\ j - 1 \in 1 .. n /\ i - 1 # j - 1
        BY <2>6, <2>8, <2>16, <3>1
      <4>2. v.todo[i] = w.todo[i - 1] /\ v.todo[j] = w.todo[j - 1]
        BY <2>6, <3>1
      <4>3. Below(B, w.todo[i - 1]) \cap Below(B, w.todo[j - 1]) = {}
        BY <2>10, <4>1
      <4> QED
        BY <4>2, <4>3
    <3>2. CASE i \in 3 .. n + 1 /\ (j = 1 \/ j = 2)
      BY <2>6, <2>12, <2>14, <3>2
    <3>3. CASE j \in 3 .. n + 1 /\ (i = 1 \/ i = 2)
      BY <2>6, <2>12, <2>14, <3>3
    <3>4. CASE (i = 1 \/ i = 2) /\ (j = 1 \/ j = 2)
      BY <2>3, <2>14, <2>16, <3>4
    <3> QED
      BY <2>8, <3>1, <3>2, <3>3, <3>4
  <2>17. ASSUME NEW i \in 1 .. n + 1, NEW j \in 1 .. m + 1
         PROVE  v.l[j] \notin Below(B, v.todo[i])
    <3>1. CASE i \in 3 .. n + 1
      <4>1. v.todo[i] = w.todo[i - 1] /\ i - 1 \in 2 .. n
        BY <2>6, <3>1
      <4> QED
        BY <2>7, <2>8, <2>9, <2>10, <2>12, <4>1
    <3>2. CASE i = 1 \/ i = 2
      BY <2>3, <2>7, <2>9, <2>13, <2>14, <3>2
    <3> QED
      BY <2>8, <3>1, <3>2
  <2>18. ASSUME NEW x \in T
         PROVE  \/ \E j \in 1 .. m + 1 : v.l[j] = x
                \/ \E i \in 1 .. n + 1 : x \in Below(B, v.todo[i])
    <3>1. CASE \E j \in 1 .. m : w.l[j] = x
      BY <2>7, <2>9, <3>1
    <3>2. CASE x \in B[t]
      BY <2>3, <2>7, <2>8, <2>9, <2>14, <3>2
    <3>3. CASE \E i \in 2 .. n : x \in Below(B, w.todo[i])
      BY <2>6, <2>8, <3>3
    <3> QED
      BY <2>3, <2>8, <2>10, <2>11, <3>1, <3>2, <3>3
  <2>19. \A i, j \in 1 .. m + 1 : v.l[i] = v.l[j] => i = j
    BY <2>7, <2>9, <2>10, <2>13
  <2>20. \A i \in 1 .. m + 1 : v.l[i] \in T
    BY <2>2, <2>7, <2>9, <2>10
  <2> QED
    BY <2>6, <2>7, <2>15, <2>16, <2>17, <2>18, <2>19, <2>20 DEF Walked, Unique, v
<1> QED
  BY <1>1, <1>3, <1>4, <1>5 DEF v

(* Each turn settles a call: one of todo, or a DState and its two subtrees. *)
Left(T, w) == Cardinality(T \ Members(w.l))

LEMMA MembersAppended ==
  ASSUME NEW S, NEW s \in Seq(S), NEW x \in S
  PROVE  Members(Append(s, x)) = Members(s) \cup {x}
<1> DEFINE n == Len(s)
           t == Append(s, x)
<1>1. /\ n \in Nat /\ Len(t) = n + 1 /\ t[n + 1] = x
      /\ \A i \in 1 .. n : t[i] = s[i]
  BY LenProperties, AppendProperties
<1> HIDE DEF n, t
<1>2. \A i \in 1 .. n + 1 : i = n + 1 \/ i \in 1 .. n
  BY <1>1
<1>3. n + 1 \in 1 .. n + 1 /\ \A i \in 1 .. n : i \in 1 .. n + 1
  BY <1>1
<1> QED
  BY <1>1, <1>2, <1>3 DEF Members, n, t

LEMMA VisitSettles ==
  ASSUME NEW h, HeapOf(h), ListHeap(h), NEW r, NEW T, NEW B, Tree(h, r, T, B),
         NEW w \in Visits(Len(h)), Walked(h, T, B, w), w.todo # <<>>
  PROVE  LET v == Visit(h, w)
         IN  Len(v.todo) + 2 * Left(T, v) = (Len(w.todo) + 2 * Left(T, w)) - 1
<1> DEFINE v == Visit(h, w)
           N == Len(h)
           n == Len(w.todo)
           U == T \ Members(w.l)
           a == Cardinality(U)
<1>1. /\ v \in Visits(N)
      /\ Idle(w, v) \/ Passed(w, v) \/ Visited(h, w, v)
  BY VisitCases
<1>2. /\ w.todo \in Seq(0 .. N) /\ w.l \in Seq(1 .. N) /\ n \in Nat \ {0} /\ N \in Nat
      /\ 1 \in 1 .. n /\ Head(w.todo) = w.todo[1]
  <2>1. w.todo \in Seq(0 .. N) /\ w.l \in Seq(1 .. N)
    BY DEF Visits
  <2>2. n \in Nat \ {0} /\ Head(w.todo) = w.todo[1]
    BY <2>1, HeadTail
  <2> QED
    BY <2>1, <2>2 DEF HeapOf
<1> HIDE DEF v, N
<1>3. IsFiniteSet(U) /\ a \in Nat
  <2>1. U \subseteq 1 .. N
    BY DEF Tree, N
  <2>2. IsFiniteSet(1 .. N)
    BY <1>2, CountTo
  <2> HIDE DEF U
  <2> QED
    BY <2>1, <2>2, FS_Subset, FS_CardinalityType
<1>0. Left(T, w) = a
  BY DEF Left
<1>4. CASE Passed(w, v)
  <2>1. v.l = w.l /\ Len(v.todo) = n - 1
    BY <1>2, <1>4, HeadTail DEF Passed
  <2>2. Left(T, v) = a
    BY <2>1 DEF Left
  <2> HIDE DEF n, a
  <2>3. (n - 1) + 2 * a = (n + 2 * a) - 1
    BY <1>2, <1>3
  <2>4. Len(v.todo) + 2 * Left(T, v) = (n + 2 * Left(T, w)) - 1
    BY <1>0, <2>1, <2>2, <2>3
  <2> QED
    BY <2>4 DEF v, n
<1>5. CASE Visited(h, w, v)
  <2> DEFINE t == w.todo[1]
  <2>1. /\ t \in 1 .. N /\ v.l = Append(w.l, t)
        /\ v.todo = <<h[t].right, h[t].left>> \o Tail(w.todo)
    BY <1>2, <1>5 DEF Visited, HeapOf, N
  <2>2. t \in T /\ t \in Below(B, t)
    <3>1. t \in T \cup {NULL} /\ t # NULL
      BY <1>2, <2>1 DEF Walked, NULL
    <3> QED
      BY <3>1, TreeParts DEF Below
  <2>3. t \notin Members(w.l)
    BY <1>2, <2>2 DEF Walked, Members
  <2>4. h[t].left \in 0 .. N /\ h[t].right \in 0 .. N
    BY <2>1, HeapParts DEF N
  <2> HIDE DEF t
  <2>5. Len(v.todo) = n + 1
    BY <1>2, <2>1, <2>4, PushedTwo
  <2>6. Members(v.l) = Members(w.l) \cup {t}
    <3>1. Members(Append(w.l, t)) = Members(w.l) \cup {t}
      <4> DEFINE S == 1 .. N
      <4>1. w.l \in Seq(S) /\ t \in S
        BY <1>2, <2>1
      <4> HIDE DEF S
      <4> QED
        BY <4>1, MembersAppended
    <3> QED
      BY <2>1, <3>1
  <2>7. T \ Members(v.l) = U \ {t} /\ t \in U
    BY <2>2, <2>3, <2>6
  <2>8. Left(T, v) = a - 1
    <3> HIDE DEF U
    <3> QED
      BY <1>3, <2>7, FS_RemoveElement DEF Left
  <2> HIDE DEF n, a
  <2>9. (n + 1) + 2 * (a - 1) = (n + 2 * a) - 1
    BY <1>2, <1>3
  <2>10. Len(v.todo) + 2 * Left(T, v) = (n + 2 * Left(T, w)) - 1
    BY <1>0, <2>5, <2>8, <2>9
  <2> QED
    BY <2>10 DEF v, n
<1> QED
  BY <1>1, <1>4, <1>5 DEF Idle, v, Visit

(* The walk over the tree lists each of its DStates once.                  *)
LEMMA TreeListIs ==
  ASSUME NEW h, HeapOf(h), ListHeap(h), NEW r, NEW T, NEW B, Tree(h, r, T, B)
  PROVE  Unique(TreeList(h, r)) /\ Members(TreeList(h, r)) = T
<1> DEFINE g == VisitTurns(h, r)
           N == Len(h)
           K == 1 + 2 * N
<1>1. r \in 0 .. N /\ N \in Nat /\ K \in Nat
  BY DEF Tree, HeapOf, NULL
<1>2. /\ TreeList(h, r) = g[K].l /\ g[0] = [todo |-> <<r>>, l |-> <<>>]
      /\ \A n \in Nat : g[n] \in Visits(N)
      /\ \A n \in Nat : g[n + 1] = Visit(h, g[n])
  BY <1>1, VisitTurnsTyped
<1> HIDE DEF g, N, K
<1> DEFINE s == g[0]
<1>3. s.todo = <<r>> /\ s.l = <<>> /\ Len(s.todo) = 1 /\ s.todo[1] = r /\ Len(s.l) = 0
  BY <1>2
<1> HIDE DEF s
<1>4. Walked(h, T, B, s)
  <2>1. r \in T \cup {NULL} /\ T = Below(B, r)
    BY DEF Tree
  <2>2. 1 .. 0 = {} /\ \A i \in 1 .. 1 : i = 1
    OBVIOUS
  <2> QED
    BY <1>3, <2>1, <2>2 DEF Walked, Unique
<1>5. Left(T, s) \in Nat /\ Left(T, s) <= N
  <2>1. Members(s.l) = {}
    <3>1. 1 .. 0 = {}
      OBVIOUS
    <3> QED
      BY <1>3, <3>1 DEF Members
  <2>2. T \subseteq 1 .. N
    BY DEF Tree, N
  <2>3. IsFiniteSet(1 .. N) /\ Cardinality(1 .. N) = N
    BY <1>1, CountTo
  <2>4. IsFiniteSet(T) /\ Cardinality(T) <= N
    BY <2>2, <2>3, FS_Subset
  <2>5. T \ Members(s.l) = T
    BY <2>1
  <2> QED
    BY <2>4, <2>5, FS_CardinalityType DEF Left
<1> DEFINE M(n) == Len(g[n].todo) + 2 * Left(T, g[n])
           P(n) == Walked(h, T, B, g[n]) /\ (g[n].todo = <<>> \/ M(n) + n <= K)
<1>6. P(0)
  <2>1. M(0) + 0 <= K
    <3>1. M(0) = 1 + 2 * Left(T, s)
      BY <1>3 DEF s
    <3> DEFINE a == Left(T, s)
    <3> HIDE DEF a, M
    <3>2. M(0) = 1 + 2 * a /\ a \in Nat /\ a <= N
      BY <1>5, <3>1 DEF a
    <3> QED
      BY <1>1, <3>2 DEF K
  <2> QED
    BY <1>4, <2>1 DEF s
<1>7. ASSUME NEW n \in Nat, P(n) PROVE P(n + 1)
  <2>1. g[n + 1] = Visit(h, g[n]) /\ g[n] \in Visits(N) /\ g[n + 1] \in Visits(N) /\ n + 1 \in Nat
    <3> HIDE DEF P
    <3> QED
      BY <1>2
  <2>2. Walked(h, T, B, g[n + 1])
    BY <1>7, <2>1, VisitWalked DEF N
  <2>3. CASE g[n].todo = <<>>
    <3>1. g[n + 1] = g[n]
      BY <2>1, <2>3 DEF Visit
    <3> QED
      BY <1>7, <2>3, <3>1
  <2>4. CASE g[n].todo # <<>>
    <3>1. M(n + 1) = M(n) - 1
      <4> HIDE DEF P
      <4>1. Walked(h, T, B, g[n])
        BY <1>7 DEF P
      <4> QED
        BY <2>1, <2>4, <4>1, VisitSettles DEF N
    <3>2. M(n) + n <= K
      BY <1>7, <2>4
    <3>3. M(n) \in Nat
      <4>1. Len(g[n].todo) \in Nat
        BY <2>1, LenProperties DEF Visits
      <4>2. Left(T, g[n]) \in Nat
        <5>1. T \ Members(g[n].l) \subseteq 1 .. N
          BY DEF Tree, N
        <5>2. IsFiniteSet(1 .. N)
          BY <1>1, CountTo
        <5> QED
          BY <5>1, <5>2, FS_Subset, FS_CardinalityType DEF Left
      <4> QED
        BY <4>1, <4>2
    <3>4. M(n + 1) + (n + 1) <= K
      <4> HIDE DEF M
      <4> QED
        BY <1>1, <3>1, <3>2, <3>3
    <3> QED
      BY <2>2, <3>4
  <2> QED
    BY <2>3, <2>4
<1>8. \A n \in Nat : P(n)
  <2> DEFINE S == {n \in Nat : P(n)}
  <2> HIDE DEF P
  <2>1. S \in SUBSET Nat /\ 0 \in S /\ \A n \in S : n + 1 \in S
    BY <1>6, <1>7
  <2> HIDE DEF S
  <2>2. S = Nat
    BY <2>1, NatSets
  <2> QED
    BY <2>2 DEF S
<1>9. Walked(h, T, B, g[K]) /\ (g[K].todo = <<>> \/ M(K) + K <= K)
  <2>1. P(K)
    <3> HIDE DEF P
    <3> QED
      BY <1>1, <1>8
  <2> QED
    BY <2>1
<1>10. g[K].todo = <<>>
  <2>1. g[K] \in Visits(N)
    BY <1>1, <1>2
  <2>2. g[K].todo \in Seq(0 .. N) /\ Len(g[K].todo) \in Nat
    BY <2>1, LenProperties DEF Visits
  <2>3. Left(T, g[K]) \in Nat
    <3>1. T \ Members(g[K].l) \subseteq 1 .. N
      BY DEF Tree, N
    <3>2. IsFiniteSet(1 .. N)
      BY <1>1, CountTo
    <3> QED
      BY <3>1, <3>2, FS_Subset, FS_CardinalityType DEF Left
  <2> DEFINE a == Len(g[K].todo)
             b == Left(T, g[K])
  <2>4. a \in Nat /\ b \in Nat /\ (g[K].todo = <<>> \/ (a + 2 * b) + K <= K)
    BY <1>9, <2>2, <2>3
  <2> HIDE DEF a, b
  <2>5. (a + 2 * b) + K <= K => a = 0
    BY <1>1, <2>4
  <2>6. a = 0 => g[K].todo = <<>>
    BY <2>2 DEF a
  <2> QED
    BY <2>4, <2>5, <2>6
<1>11. Len(g[K].todo) = 0 /\ 1 .. 0 = {}
  BY <1>10
<1>12. \A x \in T : \E j \in 1 .. Len(g[K].l) : g[K].l[j] = x
  BY <1>9, <1>11 DEF Walked
<1>13. Unique(g[K].l) /\ \A i \in 1 .. Len(g[K].l) : g[K].l[i] \in T
  BY <1>9 DEF Walked
<1>14. Members(g[K].l) = T
  BY <1>12, <1>13 DEF Members
<1> QED
  BY <1>2, <1>13, <1>14

-----------------------------------------------------------------------------
(* Every DState is in the tree or on the free list.                         *)
Stored(k, T, B, F) ==
  /\ Tree(k.heap, k.alldstates, T, B)
  /\ F \in Seq(1 .. Len(k.heap)) /\ Unique(F) /\ Threaded(k.heap, k.freelist, F)
  /\ T \cap Members(F) = {} /\ T \cup Members(F) = 1 .. Len(k.heap)
  /\ k.nstates = Cardinality(T)

LEMMA HeapHasLists ==
  ASSUME Automaton(nfa), NEW h, HeapOf(h)
  PROVE  ListHeap(h)
<1>1. \A x \in 1 .. Len(h) : h[x].l \in Lists
  BY HeapParts
<1> QED
  BY <1>1, ListsAreNumbers DEF ListHeap, HeapOf

(* One after the other, two sequences without repetition or a common member *)
LEMMA UniqueJoined ==
  ASSUME NEW S, NEW s \in Seq(S), NEW u \in Seq(S), Unique(s), Unique(u),
         Members(s) \cap Members(u) = {}
  PROVE  /\ s \o u \in Seq(S) /\ Unique(s \o u) /\ Members(s \o u) = Members(s) \cup Members(u)
         /\ Len(s) \in Nat /\ Len(u) \in Nat
         /\ Len(s \o u) = Len(s) + Len(u)
         /\ \A i \in 1 .. Len(s) : i \in 1 .. Len(s \o u) /\ (s \o u)[i] = s[i]
         /\ \A i \in 1 .. Len(u) : /\ Len(s) + i \in 1 .. Len(s \o u)
                                   /\ (s \o u)[Len(s) + i] = u[i]
         /\ \A i \in 1 .. Len(s \o u) : i \in 1 .. Len(s) \/ i - Len(s) \in 1 .. Len(u)
<1> DEFINE v == s \o u
           m == Len(s)
           n == Len(u)
<1>1. m \in Nat /\ n \in Nat
  BY LenProperties
<1>2. /\ v \in Seq(S) /\ Len(v) = m + n
      /\ \A i \in 1 .. m + n : v[i] = IF i <= m THEN s[i] ELSE u[i - m]
  BY ConcatProperties
<1> HIDE DEF v, m, n
<1>3. \A i \in 1 .. m : i \in 1 .. m + n /\ v[i] = s[i]
  BY <1>1, <1>2
<1>4. ASSUME NEW i \in 1 .. n PROVE m + i \in 1 .. m + n /\ v[m + i] = u[i]
  <2>1. m + i \in 1 .. m + n /\ ~(m + i <= m) /\ (m + i) - m = i
    BY <1>1
  <2> QED
    BY <1>2, <2>1
<1>5. ASSUME NEW i \in 1 .. m + n
      PROVE  \/ i \in 1 .. m
             \/ i - m \in 1 .. n /\ m + (i - m) = i
  BY <1>1
<1>6. ASSUME NEW i \in 1 .. m + n
      PROVE  \/ i \in 1 .. m /\ v[i] = s[i] /\ v[i] \in Members(s) /\ v[i] \notin Members(u)
             \/ /\ i - m \in 1 .. n /\ m + (i - m) = i /\ v[i] = u[i - m]
                /\ v[i] \in Members(u) /\ v[i] \notin Members(s)
  <2>1. CASE i \in 1 .. m
    BY <1>3, <2>1 DEF Members, m
  <2>2. CASE i - m \in 1 .. n /\ m + (i - m) = i
    <3>1. v[i] = u[i - m]
      BY <1>4, <2>2
    <3> QED
      BY <2>2, <3>1 DEF Members, n
  <2> QED
    BY <1>5, <2>1, <2>2
<1>7. ASSUME NEW i \in 1 .. m + n, NEW j \in 1 .. m + n, v[i] = v[j] PROVE i = j
  <2>1. CASE i \in 1 .. m /\ v[i] = s[i] /\ v[i] \in Members(s) /\ v[i] \notin Members(u)
    <3>1. j \in 1 .. m /\ v[j] = s[j]
      BY <1>6, <1>7, <2>1
    <3> QED
      BY <1>7, <2>1, <3>1 DEF Unique, m
  <2>2. CASE /\ i - m \in 1 .. n /\ m + (i - m) = i /\ v[i] = u[i - m]
             /\ v[i] \in Members(u) /\ v[i] \notin Members(s)
    <3>1. j - m \in 1 .. n /\ v[j] = u[j - m] /\ m + (j - m) = j
      BY <1>6, <1>7, <2>2
    <3>2. i - m = j - m
      BY <1>7, <2>2, <3>1 DEF Unique, n
    <3> QED
      BY <2>2, <3>1, <3>2
  <2> QED
    BY <1>6, <2>1, <2>2
<1>8. Members(v) = Members(s) \cup Members(u)
  <2>1. \A i \in 1 .. Len(v) : v[i] \in Members(s) \cup Members(u)
    BY <1>2, <1>6
  <2>2. \A i \in 1 .. m : s[i] \in Members(v)
    BY <1>2, <1>3 DEF Members
  <2>3. \A i \in 1 .. n : u[i] \in Members(v)
    BY <1>2, <1>4 DEF Members
  <2>4. Members(v) \subseteq Members(s) \cup Members(u)
    BY <2>1 DEF Members
  <2>5. Members(s) \subseteq Members(v) /\ Members(u) \subseteq Members(v)
    BY <2>2, <2>3 DEF Members, m, n
  <2> QED
    BY <2>4, <2>5
<1>9. Unique(v)
  BY <1>2, <1>7 DEF Unique
<1>10. \A i \in 1 .. Len(v) : i \in 1 .. m \/ i - m \in 1 .. n
  BY <1>2, <1>5
<1> QED
  BY <1>1, <1>2, <1>3, <1>4, <1>8, <1>9, <1>10 DEF v, m, n

(* freecache moves the tree to the front of the free list.                  *)
LEMMA FreeCacheStored ==
  ASSUME NEW k, CacheOf(k), ListHeap(k.heap), NEW T, NEW B, NEW F, Stored(k, T, B, F)
  PROVE  Stored(FreeCache(k), {}, [x \in {} |-> {}], TreeList(k.heap, k.alldstates) \o F)
<1> DEFINE f == FreeCache(k)
           h == k.heap
           N == Len(h)
           freed == TreeList(h, k.alldstates)
           G == freed \o F
           m == Len(freed)
           n == Len(F)
<1>1. HeapOf(h) /\ N \in Nat /\ k.alldstates \in 0 .. N
  BY DEF CacheOf, HeapOf
<1>2. Unique(freed) /\ Members(freed) = T /\ freed \in Seq(1 .. N)
  BY <1>1, TreeListIs, TreeListTyped DEF Stored
<1>3. /\ f.alldstates = NULL /\ f.nstates = 0 /\ Len(f.heap) = N
      /\ f.freelist = IF freed = <<>> THEN k.freelist ELSE freed[1]
      /\ \A e \in 1 .. N :
           /\ (\A i \in 1 .. m : freed[i] # e) => f.heap[e] = h[e]
           /\ (\E i \in 1 .. m : freed[i] = e) =>
                \E i \in 1 .. m :
                  /\ freed[i] = e
                  /\ f.heap[e].left = IF i = m THEN k.freelist ELSE freed[i + 1]
  <2>1. /\ f.alldstates = NULL /\ f.nstates = 0 /\ Len(f.heap) = N
        /\ f.heap = FreeStates(k, k.alldstates).heap
        /\ f.freelist = FreeStates(k, k.alldstates).freelist
    BY FreeCacheParts
  <2> DEFINE g == FreeStates(k, k.alldstates)
  <2>2. ThreadedOn(k, g, freed)
    BY <1>1, FreeStatesParts
  <2>3. f.heap = g.heap /\ f.freelist = g.freelist
    BY <2>1
  <2> HIDE DEF f, g, freed
  <2> QED
    BY <2>1, <2>2, <2>3 DEF ThreadedOn
<1>4. /\ F \in Seq(1 .. N) /\ Unique(F) /\ Threaded(h, k.freelist, F)
      /\ T \cap Members(F) = {} /\ T \cup Members(F) = 1 .. N
  BY DEF Stored
<1> HIDE DEF f, freed, N, m, n
<1>5. /\ G \in Seq(1 .. N) /\ Unique(G) /\ Members(G) = 1 .. N
      /\ m \in Nat /\ n \in Nat /\ Len(G) = m + n
      /\ \A i \in 1 .. m : i \in 1 .. m + n /\ G[i] = freed[i]
      /\ \A i \in 1 .. n : m + i \in 1 .. m + n /\ G[m + i] = F[i]
      /\ \A i \in 1 .. m + n : i \in 1 .. m \/ i - m \in 1 .. n
  <2> DEFINE S == 1 .. N
  <2>1. freed \in Seq(S) /\ F \in Seq(S)
    BY <1>2, <1>4
  <2> HIDE DEF S
  <2>2. /\ G \in Seq(S) /\ Unique(G) /\ Members(G) = Members(freed) \cup Members(F)
        /\ m \in Nat /\ n \in Nat /\ Len(G) = m + n
        /\ \A i \in 1 .. m : i \in 1 .. Len(G) /\ G[i] = freed[i]
        /\ \A i \in 1 .. n : m + i \in 1 .. Len(G) /\ G[m + i] = F[i]
        /\ \A i \in 1 .. Len(G) : i \in 1 .. m \/ i - m \in 1 .. n
    BY <1>2, <1>4, <2>1, UniqueJoined DEF m, n
  <2> HIDE DEF G
  <2> QED
    BY <1>2, <1>4, <2>2 DEF S
<1> HIDE DEF G
<1>6. k.freelist = IF n = 0 THEN NULL ELSE G[m + 1]
  <2>1. CASE n = 0
    <3>1. F = <<>>
      BY <1>4, <2>1 DEF n
    <3> QED
      BY <1>4, <2>1, <3>1 DEF Threaded
  <2>2. CASE n # 0
    <3>1. F # <<>> /\ 1 \in 1 .. n
      BY <1>5, <2>2 DEF n
    <3> QED
      BY <1>4, <1>5, <2>2, <3>1 DEF Threaded
  <2> QED
    BY <2>1, <2>2
<1>7. f.freelist = IF m + n = 0 THEN NULL ELSE G[1]
  <2>1. CASE m = 0
    <3>1. freed = <<>> /\ m + n = n /\ m + 1 = 1
      BY <1>2, <1>5, <2>1 DEF m
    <3> QED
      BY <1>3, <1>6, <3>1
  <2>2. CASE m # 0
    <3>1. freed # <<>> /\ 1 \in 1 .. m /\ m + n # 0
      BY <1>5, <2>2 DEF m
    <3> QED
      BY <1>3, <1>5, <3>1
  <2> QED
    BY <2>1, <2>2
<1>8. ASSUME NEW i \in 1 .. m + n
      PROVE  f.heap[G[i]].left = IF i = m + n THEN NULL ELSE G[i + 1]
  <2>1. CASE i \in 1 .. m
    <3> DEFINE e == freed[i]
    <3>1. G[i] = e /\ e \in 1 .. N
      BY <1>2, <1>5, <2>1, ElementOfSeq DEF m
    <3>2. PICK j \in 1 .. m : /\ freed[j] = e
                              /\ f.heap[e].left = IF j = m THEN k.freelist ELSE freed[j + 1]
      <4> HIDE DEF e
      <4> QED
        BY <1>3, <2>1, <3>1 DEF e
    <3>3. j = i
      BY <1>2, <2>1, <3>2 DEF Unique, m
    <3>4. CASE i = m
      <4>1. f.heap[G[i]].left = IF n = 0 THEN NULL ELSE G[m + 1]
        BY <1>6, <3>1, <3>2, <3>3, <3>4
      <4>2. (i = m + n) <=> n = 0
        BY <1>5, <3>4
      <4> QED
        BY <3>4, <4>1, <4>2
    <3>5. CASE i # m
      <4>1. i + 1 \in 1 .. m /\ i # m + n
        BY <1>5, <2>1, <3>5
      <4>2. G[i + 1] = freed[i + 1]
        BY <1>5, <4>1
      <4> QED
        BY <3>1, <3>2, <3>3, <3>5, <4>1, <4>2
    <3> QED
      BY <3>4, <3>5
  <2>2. CASE i - m \in 1 .. n
    <3> DEFINE j == i - m
    <3>1. j \in 1 .. n /\ m + j = i /\ m + (j + 1) = i + 1 /\ ((j = n) <=> (i = m + n))
      BY <1>5, <2>2
    <3> HIDE DEF j
    <3>2. G[i] = F[j] /\ F[j] \in 1 .. N
      BY <1>4, <1>5, <3>1, ElementOfSeq DEF n
    <3>3. F[j] \in Members(F)
      BY <3>1 DEF Members, n
    <3>4. \A x \in 1 .. m : freed[x] # F[j]
      BY <1>2, <1>4, <3>3 DEF Members, m
    <3>5. f.heap[F[j]] = h[F[j]]
      BY <1>3, <3>2, <3>4
    <3>6. h[F[j]].left = IF j = n THEN NULL ELSE F[j + 1]
      BY <1>4, <3>1 DEF Threaded, n
    <3>7. j # n => G[i + 1] = F[j + 1]
      <4>1. j # n => j + 1 \in 1 .. n
        BY <1>5, <3>1
      <4> QED
        BY <1>5, <3>1, <4>1
    <3> QED
      BY <3>1, <3>2, <3>5, <3>6, <3>7
  <2> QED
    BY <1>5, <2>1, <2>2
<1>9. Threaded(f.heap, f.freelist, G)
  <2>1. (m + n = 0) <=> G = <<>>
    BY <1>5
  <2> QED
    BY <1>5, <1>7, <1>8, <2>1 DEF Threaded
<1>10. Cardinality({}) = 0
  BY FS_EmptySet
<1>11. Tree(f.heap, NULL, {}, [x \in {} |-> {}])
  BY EmptyTree
<1> QED
  BY <1>3, <1>5, <1>9, <1>10, <1>11 DEF Stored, f, G, freed

-----------------------------------------------------------------------------
(* allocdstate: e holds the list l and is in neither place yet.             *)
Spare(k, T, B, G, e, l) ==
  /\ Tree(k.heap, k.alldstates, T, B)
  /\ G \in Seq(1 .. Len(k.heap)) /\ Unique(G) /\ Threaded(k.heap, k.freelist, G)
  /\ e \in 1 .. Len(k.heap) /\ e \notin T /\ e \notin Members(G)
  /\ T \cap Members(G) = {} /\ T \cup Members(G) \cup {e} = 1 .. Len(k.heap)
  /\ k.nstates = Cardinality(T)
  /\ k.heap[e] = NewDState(l)

(* Nothing else of the heap has changed.                                    *)
Kin(h, g, e) ==
  /\ 1 .. Len(g) = (1 .. Len(h)) \cup {e}
  /\ \A x \in 1 .. Len(h) : x # e => g[x] = h[x]

(* The free list is judged by the fields left of its own DStates.           *)
LEMMA SameThread ==
  ASSUME NEW h, NEW g, NEW t, NEW F, Threaded(h, t, F),
         \A x \in Members(F) : g[x].left = h[x].left
  PROVE  Threaded(g, t, F)
  BY DEF Threaded, Members

(* A DState from malloc is in neither place.                               *)
LEMMA GrownStored ==
  ASSUME NEW k, CacheOf(k), NEW l \in Lists, NEW T, NEW B, NEW F, Stored(k, T, B, F),
         NEW f, CacheOf(f), NEW e, e = Len(k.heap) + 1, Len(f.heap) = Len(k.heap) + 1,
         f.alldstates = k.alldstates, f.nstates = k.nstates, f.freelist = k.freelist,
         f.heap[e] = NewDState(l),
         \A x \in 1 .. Len(k.heap) : f.heap[x] = k.heap[x]
  PROVE  Spare(f, T, B, F, e, l) /\ Kin(k.heap, f.heap, e)
<1> DEFINE n == Len(k.heap)
<1>1. n \in Nat
  BY DEF CacheOf, HeapOf
<1>2. /\ 1 .. n + 1 = (1 .. n) \cup {e} /\ e \notin 1 .. n /\ n <= n + 1
  BY <1>1
<1>3. /\ Tree(k.heap, k.alldstates, T, B) /\ T \subseteq 1 .. n
      /\ F \in Seq(1 .. n) /\ Unique(F) /\ Threaded(k.heap, k.freelist, F)
      /\ T \cap Members(F) = {} /\ T \cup Members(F) = 1 .. n
      /\ k.nstates = Cardinality(T)
  BY DEF Stored, Tree
<1>4. Tree(f.heap, f.alldstates, T, B)
  <2>1. Len(f.heap) \in Nat /\ Len(f.heap) >= Len(k.heap)
    BY <1>1
  <2>2. \A x \in T : /\ f.heap[x].l = k.heap[x].l /\ f.heap[x].left = k.heap[x].left
                     /\ f.heap[x].right = k.heap[x].right
    BY <1>3
  <2> QED
    BY <1>1, <1>3, <2>1, <2>2, SameTree
<1>5. Threaded(f.heap, f.freelist, F)
  BY <1>3, SameThread
<1>6. F \in Seq(1 .. n + 1)
  BY <1>2, <1>3, SeqMonotonic
<1>7. Kin(k.heap, f.heap, e)
  BY <1>2 DEF Kin
<1> QED
  BY <1>2, <1>3, <1>4, <1>5, <1>6, <1>7 DEF Spare

(* A DState taken from the free list is in neither place.                  *)
LEMMA TakenStored ==
  ASSUME NEW k, CacheOf(k), NEW l \in Lists, NEW T, NEW B, NEW F, Stored(k, T, B, F),
         NEW f, CacheOf(f), NEW e, e = k.freelist, e # NULL, Len(f.heap) = Len(k.heap),
         f.alldstates = k.alldstates, f.nstates = k.nstates, f.freelist = k.heap[e].left,
         f.heap[e] = NewDState(l),
         \A x \in 1 .. Len(k.heap) : x # e => f.heap[x] = k.heap[x]
  PROVE  Spare(f, T, B, Tail(F), e, l) /\ Kin(k.heap, f.heap, e)
<1> DEFINE n == Len(k.heap)
           G == Tail(F)
           m == Len(F)
           S == 1 .. n
<1>1. n \in Nat
  BY DEF CacheOf, HeapOf
<1>2. /\ Tree(k.heap, k.alldstates, T, B) /\ T \subseteq S
      /\ F \in Seq(S) /\ Unique(F) /\ Threaded(k.heap, k.freelist, F)
      /\ T \cap Members(F) = {} /\ T \cup Members(F) = S
      /\ k.nstates = Cardinality(T)
  BY DEF Stored, Tree
<1> HIDE DEF S
<1>3. F # <<>> /\ e = F[1] /\ \A i \in 1 .. m : k.heap[F[i]].left = IF i = m THEN NULL ELSE F[i + 1]
  BY <1>2 DEF Threaded
<1>4. /\ G \in Seq(S) /\ m \in Nat \ {0} /\ Len(G) = m - 1 /\ e \in S
      /\ \A i \in 1 .. m - 1 : G[i] = F[i + 1]
  BY <1>2, <1>3, HeadTail
<1> HIDE DEF G, m
<1>5. \A i \in 1 .. m - 1 : i + 1 \in 1 .. m /\ i + 1 # 1 /\ i \in 1 .. m
  BY <1>4
<1>6. Unique(G)
  <2> SUFFICES ASSUME NEW i \in 1 .. m - 1, NEW j \in 1 .. m - 1, G[i] = G[j] PROVE i = j
    BY <1>4 DEF Unique
  <2>1. i + 1 \in 1 .. m /\ j + 1 \in 1 .. m /\ F[i + 1] = F[j + 1]
    BY <1>4, <1>5
  <2>2. i + 1 = j + 1
    BY <1>2, <2>1 DEF Unique, m
  <2> QED
    BY <1>4, <2>2
<1>7. e \notin Members(G) /\ Members(F) = Members(G) \cup {e}
  <2>1. 1 \in 1 .. m /\ \A i \in 1 .. m : i = 1 \/ (i - 1 \in 1 .. m - 1 /\ (i - 1) + 1 = i)
    BY <1>4
  <2>2. \A i \in 1 .. m - 1 : G[i] # e /\ G[i] \in Members(F)
    BY <1>2, <1>3, <1>4, <1>5, <2>1 DEF Unique, Members, m
  <2>3. e \in Members(F)
    BY <1>3, <2>1 DEF Members, m
  <2>4. ASSUME NEW i \in 1 .. m PROVE F[i] \in Members(G) \cup {e}
    <3>1. CASE i = 1
      BY <1>3, <3>1
    <3>2. CASE i - 1 \in 1 .. m - 1 /\ (i - 1) + 1 = i
      <4>1. G[i - 1] = F[i]
        BY <1>4, <3>2
      <4> QED
        BY <1>4, <3>2, <4>1 DEF Members
    <3> QED
      BY <2>1, <3>1, <3>2
  <2>5. Members(F) \subseteq Members(G) \cup {e}
    BY <2>4 DEF Members, m
  <2>6. Members(G) \subseteq Members(F) /\ e \notin Members(G)
    BY <1>4, <2>2 DEF Members
  <2> QED
    BY <2>3, <2>5, <2>6
<1>8. Tree(f.heap, f.alldstates, T, B)
  <2>1. Len(f.heap) \in Nat /\ Len(f.heap) >= Len(k.heap)
    BY <1>1
  <2>2. \A x \in T : /\ f.heap[x].l = k.heap[x].l /\ f.heap[x].left = k.heap[x].left
                     /\ f.heap[x].right = k.heap[x].right
    BY <1>2, <1>7 DEF S
  <2> QED
    BY <1>1, <1>2, <2>1, <2>2, SameTree
<1>9. Threaded(f.heap, f.freelist, G)
  <2>1. Threaded(k.heap, f.freelist, G)
    <3>1. f.freelist = IF G = <<>> THEN NULL ELSE G[1]
      <4>1. 1 \in 1 .. m
        BY <1>4
      <4>2. f.freelist = IF 1 = m THEN NULL ELSE F[1 + 1]
        BY <1>3, <4>1
      <4>3. CASE m = 1
        <5>1. Len(G) = 0
          BY <1>4, <4>3
        <5>2. G = <<>>
          BY <1>4, <5>1
        <5> QED
          BY <4>2, <4>3, <5>2
      <4>4. CASE m # 1
        <5>1. 1 \in 1 .. m - 1 /\ Len(G) # 0
          BY <1>4, <4>4
        <5>2. G[1] = F[1 + 1] /\ G # <<>>
          BY <1>4, <5>1
        <5> QED
          BY <4>2, <4>4, <5>2
      <4> QED
        BY <4>3, <4>4
    <3>2. ASSUME NEW i \in 1 .. m - 1
          PROVE  k.heap[G[i]].left = IF i = m - 1 THEN NULL ELSE G[i + 1]
      <4>1. G[i] = F[i + 1] /\ i + 1 \in 1 .. m
        BY <1>4, <1>5
      <4>2. k.heap[G[i]].left = IF i + 1 = m THEN NULL ELSE F[(i + 1) + 1]
        BY <1>3, <4>1
      <4>3. (i + 1 = m) <=> (i = m - 1)
        BY <1>4
      <4>4. i # m - 1 => i + 1 \in 1 .. m - 1
        BY <1>4
      <4> QED
        BY <1>4, <4>2, <4>3, <4>4
    <3> QED
      BY <1>4, <3>1, <3>2 DEF Threaded
  <2>2. \A x \in Members(G) : f.heap[x].left = k.heap[x].left
    BY <1>2, <1>7 DEF S
  <2> QED
    BY <2>1, <2>2, SameThread
<1>10. Kin(k.heap, f.heap, e)
  BY <1>4 DEF Kin, S
<1> QED
  BY <1>2, <1>4, <1>6, <1>7, <1>8, <1>9, <1>10 DEF Spare, S, G

(* allocdstate gives a DState that is in neither place.                    *)
LEMMA AllocStored ==
  ASSUME NEW k, CacheOf(k), NEW l \in Lists, NEW T, NEW B, NEW F, Stored(k, T, B, F)
  PROVE  LET e == AllocDState(k, l)[1]
             f == AllocDState(k, l)[2]
         IN  Kin(k.heap, f.heap, e) /\ \E G : Spare(f, T, B, G, e, l)
<1> DEFINE e == AllocDState(k, l)[1]
           f == AllocDState(k, l)[2]
<1>1. /\ CacheOf(f) /\ e \in 1 .. Len(f.heap)
      /\ f.alldstates = k.alldstates /\ f.nstates = k.nstates
      /\ f.heap[e] = NewDState(l)
      /\ \A x \in 1 .. Len(k.heap) : x # e => f.heap[x] = k.heap[x]
      /\ \/ /\ k.freelist # NULL /\ e = k.freelist
            /\ Len(f.heap) = Len(k.heap) /\ f.freelist = k.heap[e].left
         \/ /\ k.freelist = NULL /\ e = Len(k.heap) + 1
            /\ Len(f.heap) = Len(k.heap) + 1 /\ f.freelist = NULL
  BY AllocParts
<1> HIDE DEF e, f
<1>2. CASE k.freelist # NULL
  <2>1. Spare(f, T, B, Tail(F), e, l) /\ Kin(k.heap, f.heap, e)
    BY <1>1, <1>2, TakenStored
  <2> QED
    BY <2>1 DEF e, f
<1>3. CASE k.freelist = NULL
  <2>1. \A x \in 1 .. Len(k.heap) : x # Len(k.heap) + 1
    BY DEF CacheOf, HeapOf
  <2>2. Spare(f, T, B, F, e, l) /\ Kin(k.heap, f.heap, e)
    BY <1>1, <1>3, <2>1, GrownStored
  <2> QED
    BY <2>2 DEF e, f
<1> QED
  BY <1>2, <1>3

-----------------------------------------------------------------------------
(* The field that the new DState hangs from: the root of an empty tree, or  *)
(* an empty field of p on the side that l belongs.                          *)
Place(h, T, B, l, at) ==
  \/ at = <<>> /\ T = {}
  \/ \E p \in T, dir \in {"left", "right"} :
       /\ at = <<p, dir>> /\ Guided(h, T, B, l, p)
       /\ dir = "left" => h[p].left = NULL /\ Precedes(l, h[p].l)
       /\ dir = "right" => h[p].right = NULL /\ Precedes(h[p].l, l)

(* The place where an unsuccessful search ends is a null link of the tree. *)
LEMMA PlaceFound ==
  ASSUME NEW h, NEW r, NEW T, NEW B, Tree(h, r, T, B), NEW l,
         NEW w, OnTheWay(h, r, T, B, l, w), w.d = NULL
  PROVE  Place(h, T, B, l, w.at)
<1>1. CASE w.at = <<>> /\ w.d = r
  <2>1. T = {}
    BY <1>1 DEF Tree, Below
  <2> QED
    BY <1>1, <2>1 DEF Place
<1>2. ASSUME NEW p \in T, Guided(h, T, B, l, p),
             w.at = <<p, "left">>, w.d = h[p].left, Precedes(l, h[p].l)
      PROVE  Place(h, T, B, l, w.at)
  BY <1>2 DEF Place
<1>3. ASSUME NEW p \in T, Guided(h, T, B, l, p),
             w.at = <<p, "right">>, w.d = h[p].right, Precedes(h[p].l, l)
      PROVE  Place(h, T, B, l, w.at)
  BY <1>3 DEF Place
<1> QED
  BY <1>1, <1>2, <1>3 DEF OnTheWay

LEMMA SamePlace ==
  ASSUME NEW h, NEW g, NEW T, NEW B, NEW l, NEW at, Place(h, T, B, l, at),
         \A x \in T : g[x] = h[x]
  PROVE  Place(g, T, B, l, at)
<1>1. \A p : Guided(h, T, B, l, p) => Guided(g, T, B, l, p)
  BY DEF Guided
<1> QED
  BY <1>1 DEF Place

(* dstate hangs the new DState at that place, and counts it.               *)
LEMMA HangStored ==
  ASSUME NEW k, CacheOf(k), ListHeap(k.heap), NEW T, NEW B, NEW G, NEW e, NEW l \in Lists,
         Spare(k, T, B, G, e, l), NEW at, Place(k.heap, T, B, l, at)
  PROVE  LET f == Hang(k, at, e)
         IN  /\ CacheOf(f) /\ Len(f.heap) = Len(k.heap)
             /\ \A x \in 1 .. Len(k.heap) :
                  f.heap[x].l = k.heap[x].l /\ f.heap[x].next = k.heap[x].next
             /\ \E C : Stored(f, T \cup {e}, C, G)
<1> DEFINE f == Hang(k, at, e)
           n == Len(k.heap)
<1>1. /\ Tree(k.heap, k.alldstates, T, B) /\ T \subseteq 1 .. n
      /\ G \in Seq(1 .. n) /\ Unique(G) /\ Threaded(k.heap, k.freelist, G)
      /\ e \in 1 .. n /\ e \notin T /\ e \notin Members(G)
      /\ T \cap Members(G) = {} /\ T \cup Members(G) \cup {e} = 1 .. n
      /\ k.nstates = Cardinality(T) /\ n \in Nat
      /\ k.heap[e].l = l /\ k.heap[e].left = NULL /\ k.heap[e].right = NULL
  <2>1. n \in Nat /\ k.heap[e] = NewDState(l)
    BY DEF CacheOf, HeapOf, Spare
  <2>2. k.heap[e].l = l /\ k.heap[e].left = NULL /\ k.heap[e].right = NULL
    BY <2>1, NewDStateParts
  <2> QED
    BY <2>1, <2>2 DEF Spare, Tree
<1>2. at \in {<<>>} \cup ((1 .. n) \X {"left", "right"})
  BY <1>1 DEF Place
<1>3. /\ CacheOf(f) /\ Len(f.heap) = n
      /\ f.freelist = k.freelist /\ f.nstates = k.nstates + 1
      /\ f.alldstates = IF at = <<>> THEN e ELSE k.alldstates
      /\ \A x \in 1 .. n :
           /\ f.heap[x].l = k.heap[x].l /\ f.heap[x].next = k.heap[x].next
           /\ f.heap[x].left = IF at # <<>> /\ x = at[1] /\ at[2] = "left" THEN e
                               ELSE k.heap[x].left
           /\ f.heap[x].right = IF at # <<>> /\ x = at[1] /\ at[2] = "right" THEN e
                                ELSE k.heap[x].right
  BY <1>1, <1>2, HangParts
<1> HIDE DEF f, n
<1>4. f.nstates = Cardinality(T \cup {e})
  <2>1. IsFiniteSet(1 .. n)
    BY <1>1, CountTo
  <2>2. IsFiniteSet(T)
    BY <1>1, <2>1, FS_Subset
  <2>3. Cardinality(T \cup {e}) = Cardinality(T) + 1
    BY <1>1, <2>2, FS_AddElement
  <2>4. f.nstates = k.nstates + 1 /\ k.nstates = Cardinality(T)
    BY <1>1, <1>3
  <2> QED
    BY <2>3, <2>4
<1>5. \A x \in Members(G) : x \in 1 .. n /\ x \notin T
  BY <1>1
<1>6. /\ (T \cup {e}) \cap Members(G) = {} /\ (T \cup {e}) \cup Members(G) = 1 .. n
  BY <1>1
<1>7. ASSUME NEW C, Tree(f.heap, f.alldstates, T \cup {e}, C),
             \A x \in Members(G) : f.heap[x].left = k.heap[x].left
      PROVE  Stored(f, T \cup {e}, C, G)
  <2>1. Threaded(f.heap, f.freelist, G)
    BY <1>1, <1>3, <1>7, SameThread
  <2> QED
    BY <1>1, <1>3, <1>4, <1>6, <1>7, <2>1 DEF Stored
<1>8. CASE at = <<>> /\ T = {}
  <2>1. \A x \in 1 .. n : f.heap[x].left = k.heap[x].left /\ f.heap[x].right = k.heap[x].right
    BY <1>3, <1>8
  <2>2. Tree(f.heap, e, {e}, [x \in {e} |-> {e}])
    <3> DEFINE g == f.heap
    <3>1. e \in 1 .. Len(g) /\ Len(g) \in Nat /\ g[e].left = NULL /\ g[e].right = NULL
      BY <1>1, <1>3, <2>1
    <3> HIDE DEF g
    <3>2. Tree(g, e, {e}, [x \in {e} |-> {e}])
      BY <3>1, TreeOfOne
    <3> QED
      BY <3>2 DEF g
  <2>3. T \cup {e} = {e} /\ f.alldstates = e
    BY <1>3, <1>8
  <2>4. \E C : Stored(f, T \cup {e}, C, G)
    BY <1>5, <1>7, <2>1, <2>2, <2>3
  <2> QED
    BY <1>3, <2>4 DEF f, n
<1>9. ASSUME NEW p \in T, NEW dir \in {"left", "right"},
             at = <<p, dir>>, Guided(k.heap, T, B, l, p),
             dir = "left" => k.heap[p].left = NULL /\ Precedes(l, k.heap[p].l),
             dir = "right" => k.heap[p].right = NULL /\ Precedes(k.heap[p].l, l)
      PROVE  \E C : Stored(f, T \cup {e}, C, G)
  <2>1. \A x \in 1 .. n : /\ f.heap[x].l = k.heap[x].l
                          /\ f.heap[x].left = IF x = p /\ dir = "left" THEN e ELSE k.heap[x].left
                          /\ f.heap[x].right = IF x = p /\ dir = "right" THEN e ELSE k.heap[x].right
    BY <1>3, <1>9
  <2>2. f.alldstates = k.alldstates
    BY <1>3, <1>9
  <2> DEFINE h == k.heap
             g == f.heap
             r == k.alldstates
  <2>3. /\ ListHeap(h) /\ Tree(h, r, T, B) /\ e \in 1 .. Len(h) /\ e \notin T
        /\ h[e].left = NULL /\ h[e].right = NULL /\ Guided(h, T, B, h[e].l, p)
        /\ dir = "left" => h[p].left = NULL /\ Precedes(h[e].l, h[p].l)
        /\ dir = "right" => h[p].right = NULL /\ Precedes(h[p].l, h[e].l)
        /\ Len(g) = Len(h)
        /\ \A x \in 1 .. Len(h) :
             /\ g[x].l = h[x].l
             /\ g[x].left = IF x = p /\ dir = "left" THEN e ELSE h[x].left
             /\ g[x].right = IF x = p /\ dir = "right" THEN e ELSE h[x].right
    BY <1>1, <1>3, <1>9, <2>1 DEF n
  <2> HIDE DEF h, g, r
  <2>4. Tree(g, r, T \cup {e}, Widened(T, B, p, e))
    BY <2>3, WidenedTree
  <2>5. \A x \in Members(G) : f.heap[x].left = k.heap[x].left
    BY <1>5, <2>1
  <2> QED
    BY <1>7, <2>2, <2>4, <2>5 DEF g, r
<1> QED
  BY <1>3, <1>8, <1>9 DEF Place, f, n

(* nextstate writes an arrow and leaves tree and free list alone.          *)
LEMMA LinkStored ==
  ASSUME NEW k, CacheOf(k), NEW T, NEW B, NEW F, Stored(k, T, B, F),
         NEW f, CacheOf(f), Len(f.heap) = Len(k.heap), f.freelist = k.freelist,
         f.nstates = k.nstates, f.alldstates = k.alldstates,
         \A x \in 1 .. Len(k.heap) :
           /\ f.heap[x].l = k.heap[x].l
           /\ f.heap[x].left = k.heap[x].left /\ f.heap[x].right = k.heap[x].right
  PROVE  Stored(f, T, B, F)
<1> DEFINE n == Len(k.heap)
<1>1. /\ Tree(k.heap, k.alldstates, T, B) /\ T \subseteq 1 .. n
      /\ F \in Seq(1 .. n) /\ Unique(F) /\ Threaded(k.heap, k.freelist, F)
      /\ T \cap Members(F) = {} /\ T \cup Members(F) = 1 .. n
      /\ k.nstates = Cardinality(T) /\ n \in Nat
  BY DEF Stored, Tree, CacheOf, HeapOf
<1>2. Tree(f.heap, f.alldstates, T, B)
  BY <1>1, SameTree
<1>3. Threaded(f.heap, f.freelist, F)
  BY <1>1, SameThread
<1> QED
  BY <1>1, <1>2, <1>3 DEF Stored

-----------------------------------------------------------------------------
(* Of two lists, one comes first.                                           *)
LEMMA PrecedesTotal ==
  ASSUME NEW a \in Seq(Nat), NEW b \in Seq(Nat), ~Precedes(a, b), ~Precedes(b, a)
  PROVE  a = b
<1> DEFINE n == Len(a)
           D == {i \in 1 .. n : a[i] # b[i]}
<1>1. /\ Len(a) \in Nat /\ DOMAIN a = 1 .. Len(a) /\ \A i \in 1 .. Len(a) : a[i] \in Nat
      /\ Len(b) \in Nat /\ DOMAIN b = 1 .. Len(b) /\ \A i \in 1 .. Len(b) : b[i] \in Nat
  BY LenProperties, ElementOfSeq
<1>2. Len(b) = n /\ n \in Nat
  <2> DEFINE m == Len(b)
  <2>1. ~(n < m) /\ ~(m < n) /\ n \in Nat /\ m \in Nat
    BY <1>1 DEF Precedes
  <2> HIDE DEF n, m
  <2>2. m = n
    BY <2>1
  <2> QED
    BY <2>1, <2>2 DEF m
<1>3. D = {}
  <2> SUFFICES ASSUME D # {} PROVE FALSE
    OBVIOUS
  <2> DEFINE R == {ss \in Nat \X Nat : ss[1] < ss[2]}
  <2>1. D \subseteq Nat
    BY <1>1
  <2>2. IsWellFoundedOn(R, Nat)
    BY NatLessThanWellFounded DEF OpToRel
  <2> HIDE DEF D
  <2>3. PICK i \in D : \A j \in D : ~ (<<j, i>> \in R)
    BY <2>1, <2>2, WFMin
  <2>4. i \in 1 .. n /\ a[i] # b[i] /\ \A j \in D : ~(j < i)
    BY <2>1, <2>3 DEF D
  <2>5. \A j \in 1 .. (i - 1) : j \in 1 .. n /\ j < i
    BY <1>2, <2>4
  <2>6. \A j \in 1 .. (i - 1) : a[j] = b[j]
    BY <2>4, <2>5 DEF D
  <2>7. a[i] < b[i] \/ b[i] < a[i]
    <3>1. a[i] \in Nat /\ b[i] \in Nat
      BY <1>1, <1>2, <2>4
    <3> QED
      BY <2>4, <3>1
  <2>8. i \in DOMAIN a /\ i \in DOMAIN b /\ Len(a) = Len(b)
    BY <1>1, <1>2, <2>4
  <2>9. CASE a[i] < b[i]
    BY <2>6, <2>8, <2>9 DEF Precedes
  <2>10. CASE b[i] < a[i]
    BY <2>6, <2>8, <2>10 DEF Precedes
  <2> QED
    BY <2>7, <2>9, <2>10
<1>4. \A i \in 1 .. n : a[i] = b[i]
  BY <1>3
<1> QED
  BY <1>1, <1>2, <1>4, SeqEqual

-----------------------------------------------------------------------------
(* What dstate may do with the cache k, for the list l: the DState e it     *)
(* returns was found, was added, or is the only one of a cache that was     *)
(* thrown away.  U is the set of DStates that are then in the tree.         *)
FreshArrows(k, e, x) == IF x = e THEN [c \in Chars |-> NULL] ELSE k.heap[x].next

Hit(k, f, T, U, l, e, link) ==
  /\ e \in T /\ U = T /\ k.heap[e].l = l /\ Len(f.heap) = Len(k.heap)
  /\ \A x \in 1 .. Len(k.heap) : f.heap[x].l = k.heap[x].l
  /\ \/ \A x \in 1 .. Len(k.heap) : f.heap[x].next = k.heap[x].next
     \/ \A x \in 1 .. Len(k.heap) : f.heap[x].next = Linked(k.heap[x].next, FALSE, link, x, e)

Fresh(k, f, l, e) ==
  /\ 1 .. Len(f.heap) = (1 .. Len(k.heap)) \cup {e}
  /\ f.heap[e].l = l
  /\ \A x \in 1 .. Len(k.heap) : x # e => f.heap[x].l = k.heap[x].l

Missed(k, f, T, U, l, e, link) ==
  /\ e \notin T /\ U = T \cup {e} /\ Fresh(k, f, l, e)
  /\ \A x \in 1 .. Len(f.heap) : f.heap[x].next = Linked(FreshArrows(k, e, x), FALSE, link, x, e)

Renewed(k, f, U, l, e) ==
  /\ U = {e} /\ Fresh(k, f, l, e)
  /\ \A x \in 1 .. Len(f.heap) : f.heap[x].next = FreshArrows(k, e, x)

Outcome(k, f, T, U, l, e, link) ==
  /\ \E C, F : Stored(f, U, C, F)
  /\ Hit(k, f, T, U, l, e, link) \/ Missed(k, f, T, U, l, e, link) \/ Renewed(k, f, U, l, e)

(* Only e's list and arrows have changed.                                   *)
Alike(k, m, e) ==
  /\ 1 .. Len(m.heap) = (1 .. Len(k.heap)) \cup {e}
  /\ \A x \in 1 .. Len(k.heap) :
       x # e => m.heap[x].l = k.heap[x].l /\ m.heap[x].next = k.heap[x].next

(* A DState with the list l is hung where it belongs.                       *)
Hung(k, f, T, l, e, full, link) ==
  /\ \E C, F : Stored(f, T \cup {e}, C, F)
  /\ Fresh(k, f, l, e) /\ f.nstates = Cardinality(T) + 1
  /\ \A x \in 1 .. Len(f.heap) :
       f.heap[x].next = Linked(FreshArrows(k, e, x), full, link, x, e)

(* dstate: a DState for a list that the search did not find.               *)
LEMMA NewStored ==
  ASSUME NEW k, NEW m, CacheOf(m), ListHeap(m.heap), NEW T, NEW B, NEW G, NEW e, NEW l \in Lists,
         Spare(m, T, B, G, e, l), Alike(k, m, e), NEW at, Place(m.heap, T, B, l, at),
         NEW full \in BOOLEAN, NEW link \in {<<>>} \cup ((1 .. Len(m.heap)) \X Chars)
  PROVE  Hung(k, Link(Hang(m, at, e), full, link, e), T, l, e, full, link)
<1> DEFINE u == Hang(m, at, e)
           f == Link(u, full, link, e)
           n == Len(m.heap)
           arrows == [c \in Chars |-> NULL]
<1>1. /\ e \in 1 .. n /\ e \notin T /\ n \in Nat /\ T \subseteq 1 .. n
      /\ m.heap[e].l = l /\ m.heap[e].next = arrows
  <2>1. n \in Nat /\ m.heap[e] = NewDState(l)
    BY DEF CacheOf, HeapOf, Spare
  <2>2. m.heap[e].l = l /\ m.heap[e].next = arrows
    BY <2>1, NewDStateParts
  <2> QED
    BY <2>1, <2>2 DEF Spare, Tree
<1> HIDE DEF arrows
<1>2. /\ CacheOf(u) /\ Len(u.heap) = n
      /\ \A x \in 1 .. n : u.heap[x].l = m.heap[x].l /\ u.heap[x].next = m.heap[x].next
      /\ \E C : Stored(u, T \cup {e}, C, G)
  BY HangStored
<1> HIDE DEF u
<1>3. PICK C : Stored(u, T \cup {e}, C, G)
  BY <1>2
<1>4. /\ CacheOf(f) /\ Len(f.heap) = Len(u.heap)
      /\ f.freelist = u.freelist /\ f.nstates = u.nstates /\ f.alldstates = u.alldstates
      /\ \A x \in 1 .. Len(u.heap) :
           /\ f.heap[x].l = u.heap[x].l
           /\ f.heap[x].left = u.heap[x].left /\ f.heap[x].right = u.heap[x].right
           /\ f.heap[x].next = Linked(u.heap[x].next, full, link, x, e)
  <2>1. e \in 1 .. Len(u.heap) /\ link \in {<<>>} \cup ((1 .. Len(u.heap)) \X Chars)
    BY <1>1, <1>2
  <2> QED
    BY <1>2, <2>1, LinkParts
<1> HIDE DEF f, n
<1>5. Stored(f, T \cup {e}, C, G)
  BY <1>2, <1>3, <1>4, LinkStored
<1>6. f.nstates = Cardinality(T) + 1
  <2>1. IsFiniteSet(1 .. n)
    BY <1>1, CountTo
  <2>2. IsFiniteSet(T)
    BY <1>1, <2>1, FS_Subset
  <2>3. Cardinality(T \cup {e}) = Cardinality(T) + 1
    BY <1>1, <2>2, FS_AddElement
  <2> QED
    BY <1>5, <2>3 DEF Stored
<1>7. /\ 1 .. n = (1 .. Len(k.heap)) \cup {e}
      /\ \A x \in 1 .. Len(k.heap) :
           x # e => m.heap[x].l = k.heap[x].l /\ m.heap[x].next = k.heap[x].next
  BY DEF Alike, n
<1>8. Fresh(k, f, l, e)
  BY <1>1, <1>2, <1>4, <1>7 DEF Fresh
<1>9. \A x \in 1 .. n : m.heap[x].next = FreshArrows(k, e, x)
  BY <1>1, <1>7 DEF FreshArrows, arrows
<1>10. ASSUME NEW x \in 1 .. Len(f.heap)
       PROVE  f.heap[x].next = Linked(FreshArrows(k, e, x), full, link, x, e)
  <2>1. x \in 1 .. n /\ u.heap[x].next = FreshArrows(k, e, x)
    BY <1>2, <1>4, <1>9
  <2> QED
    BY <1>2, <1>4, <2>1
<1> QED
  BY <1>5, <1>6, <1>8, <1>10 DEF f, u, Hung

(* dfa1: a hit, or a new DState in the cache or in an empty one.            *)
LEMMA DState1Stored ==
  ASSUME CacheOf(cache), Automaton(nfa), NEW list, StateList(list),
         NEW link \in {<<>>} \cup ((1 .. Len(cache.heap)) \X Chars),
         NEW T, NEW B, NEW F, Stored(cache, T, B, F)
  PROVE  LET r == DState1(list, link)
         IN  /\ \E U : Outcome(cache, r[2], T, U, Qsort(list), r[1], link)
             /\ cache.nstates <= MAXSTATES => r[2].nstates <= MAXSTATES
<1> DEFINE l == Qsort(list)
           k == cache
           found == Search(cache.heap, l, cache.alldstates)
           full == cache.nstates >= MAXSTATES
           base == IF full THEN FreeCache(cache) ELSE cache
           new == AllocDState(base, l)
           e == new[1]
           m == new[2]
           at == IF full THEN <<>> ELSE found.at
           f == Link(Hang(m, at, e), full, link, e)
           r == DState1(list, link)
<1>1. l \in Lists /\ l \in Seq(Nat)
  BY SortedList, ListsAreNumbers DEF Lists, StateList
<1>2. /\ HeapOf(cache.heap) /\ ListHeap(cache.heap) /\ Tree(cache.heap, cache.alldstates, T, B)
      /\ T \subseteq 1 .. Len(cache.heap) /\ cache.nstates = Cardinality(T)
      /\ Len(cache.heap) \in Nat /\ cache.nstates \in Nat
  BY HeapHasLists DEF CacheOf, HeapOf, Stored, Tree
<1>3. r = IF found.d # NULL THEN <<found.d, cache>> ELSE <<e, f>>
  BY DEF DState1
<1> HIDE DEF l, found, full, r
<1>4. /\ OnTheWay(cache.heap, cache.alldstates, T, B, l, found)
      /\ Done(cache.heap, l, found)
  BY <1>1, <1>2, SearchEnds DEF found
<1>5. CASE found.d # NULL
  <2>1. found.d \in T /\ found.d \in 1 .. Len(cache.heap)
    BY <1>2, <1>4, <1>5 DEF OnTheWay
  <2>2. cache.heap[found.d].l = l
    <3>1. cache.heap[found.d].l \in Seq(Nat)
      BY <1>2, <2>1 DEF ListHeap
    <3> QED
      BY <1>1, <1>4, <1>5, <3>1, PrecedesTotal DEF Done
  <2>3. r[1] = found.d /\ r[2] = cache
    BY <1>3, <1>5
  <2>4. Hit(cache, cache, T, T, l, found.d, link)
    BY <2>1, <2>2 DEF Hit
  <2>5. Outcome(cache, cache, T, T, l, found.d, link)
    BY <2>4 DEF Outcome
  <2> QED
    BY <2>3, <2>5 DEF r, l
<1>6. CASE found.d = NULL /\ ~full
  <2>1. base = cache
    BY <1>6
  <2>2. Kin(cache.heap, m.heap, e) /\ \E G : Spare(m, T, B, G, e, l)
    BY <1>1, <2>1, AllocStored
  <2>3. CacheOf(m)
    BY <1>1, <2>1, AllocParts
  <2>4. at = found.at
    BY <1>6
  <2> HIDE DEF new, at, base
  <2>5. PICK G : Spare(m, T, B, G, e, l)
    BY <2>2
  <2>6. ListHeap(m.heap)
    BY <2>3, HeapHasLists DEF CacheOf
  <2>7. Alike(cache, m, e)
    BY <2>2 DEF Kin, Alike
  <2>8. Place(m.heap, T, B, l, at)
    <3>1. Place(cache.heap, T, B, l, at)
      BY <1>2, <1>4, <1>6, <2>4, PlaceFound
    <3>2. \A x \in T : m.heap[x] = cache.heap[x]
      BY <1>2, <2>2, <2>5 DEF Spare, Kin
    <3> QED
      BY <3>1, <3>2, SamePlace
  <2>9. link \in {<<>>} \cup ((1 .. Len(m.heap)) \X Chars)
    BY <2>2 DEF Kin
  <2>10. full = FALSE /\ full \in BOOLEAN
    BY <1>6 DEF full
  <2> HIDE DEF e, m
  <2>11. /\ \E C, H : Stored(f, T \cup {e}, C, H)
         /\ Fresh(cache, f, l, e) /\ f.nstates = Cardinality(T) + 1
         /\ \A x \in 1 .. Len(f.heap) : f.heap[x].next = Linked(FreshArrows(cache, e, x), full, link, x, e)
    <3>1. Hung(cache, f, T, l, e, full, link)
      BY <1>1, <2>3, <2>5, <2>6, <2>7, <2>8, <2>9, <2>10, NewStored
    <3> QED
      BY <3>1 DEF Hung
  <2> HIDE DEF f
  <2>12. e \notin T
    BY <2>5 DEF Spare
  <2>13. Outcome(cache, f, T, T \cup {e}, l, e, link)
    <3>1. \A x \in 1 .. Len(f.heap) : f.heap[x].next = Linked(FreshArrows(cache, e, x), FALSE, link, x, e)
      BY <1>6, <2>11 DEF Linked
    <3> QED
      BY <2>11, <2>12, <3>1 DEF Outcome, Missed
  <2>14. r[1] = e /\ r[2] = f
    BY <1>3, <1>6
  <2>15. f.nstates <= MAXSTATES
    BY <1>2, <1>6, <2>11, MatchAssumption DEF full
  <2> QED
    BY <2>13, <2>14, <2>15 DEF r, l
<1>7. CASE found.d = NULL /\ full
  <2>1. base = FreeCache(cache) /\ at = <<>>
    BY <1>7
  <2> HIDE DEF base, at
  <2>2. /\ CacheOf(base) /\ Len(base.heap) = Len(cache.heap)
        /\ \E C, H : Stored(base, {}, C, H)
    BY <1>2, <2>1, FreeCacheParts, FreeCacheStored
  <2>3. \A x \in 1 .. Len(cache.heap) : /\ base.heap[x].l = cache.heap[x].l
                                        /\ base.heap[x].next = cache.heap[x].next
    <3>1. base.heap = FreeStates(cache, cache.alldstates).heap
      BY <2>1, FreeCacheParts
    <3>2. cache.alldstates \in 0 .. Len(cache.heap)
      BY DEF CacheOf
    <3> DEFINE g == FreeStates(cache, cache.alldstates)
    <3>3. \A x \in 1 .. Len(cache.heap) : /\ g.heap[x].l = cache.heap[x].l
                                          /\ g.heap[x].next = cache.heap[x].next
      BY <3>2, FreeStatesParts
    <3> HIDE DEF g
    <3> QED
      BY <3>1, <3>3 DEF g
  <2>4. PICK C, H : Stored(base, {}, C, H)
    BY <2>2
  <2>5. Kin(base.heap, m.heap, e) /\ \E G : Spare(m, {}, C, G, e, l)
    BY <1>1, <2>2, <2>4, AllocStored
  <2>6. CacheOf(m)
    BY <1>1, <2>2, AllocParts
  <2> HIDE DEF new, e, m
  <2>7. PICK G : Spare(m, {}, C, G, e, l)
    BY <2>5
  <2>8. ListHeap(m.heap)
    BY <2>6, HeapHasLists DEF CacheOf
  <2>9. Alike(cache, m, e)
    BY <2>2, <2>3, <2>5 DEF Kin, Alike
  <2>10. Place(m.heap, {}, C, l, at)
    BY <2>1 DEF Place
  <2>11. link \in {<<>>} \cup ((1 .. Len(m.heap)) \X Chars)
    BY <2>2, <2>5 DEF Kin
  <2>12. full = TRUE /\ full \in BOOLEAN
    BY <1>7 DEF full
  <2>13. /\ \E D, J : Stored(f, {} \cup {e}, D, J)
         /\ Fresh(cache, f, l, e) /\ f.nstates = Cardinality({}) + 1
         /\ \A x \in 1 .. Len(f.heap) : f.heap[x].next = Linked(FreshArrows(cache, e, x), full, link, x, e)
    <3>1. Hung(cache, f, {}, l, e, full, link)
      BY <1>1, <2>6, <2>7, <2>8, <2>9, <2>10, <2>11, <2>12, NewStored
    <3> QED
      BY <3>1 DEF Hung
  <2> HIDE DEF f
  <2>14. Outcome(cache, f, T, {e}, l, e, link)
    <3>1. {} \cup {e} = {e}
      OBVIOUS
    <3>2. \A x \in 1 .. Len(f.heap) : f.heap[x].next = FreshArrows(cache, e, x)
      BY <1>7, <2>13 DEF Linked
    <3> QED
      BY <2>13, <3>1, <3>2 DEF Outcome, Renewed
  <2>15. r[1] = e /\ r[2] = f
    BY <1>3, <1>7
  <2>16. f.nstates <= MAXSTATES
    BY <2>13, FS_EmptySet, MatchAssumption
  <2> QED
    BY <2>14, <2>15, <2>16 DEF r, l
<1> QED
  BY <1>5, <1>6, <1>7

(* dfa0: a hit or a new DState, and the arrow is set in either case.        *)
LEMMA DState0Stored ==
  ASSUME CacheOf(cache), Automaton(nfa), NEW list, StateList(list),
         NEW link \in {<<>>} \cup ((1 .. Len(cache.heap)) \X Chars),
         NEW T, NEW B, NEW F, Stored(cache, T, B, F)
  PROVE  LET r == DState0(list, link)
         IN  \E U : Outcome(cache, r[2], T, U, Qsort(list), r[1], link)
<1> DEFINE l == Qsort(list)
           found == Search(cache.heap, l, cache.alldstates)
           e == Len(cache.heap) + 1
           m == [cache EXCEPT !.heap = Append(@, [NoDState EXCEPT !.l = l])]
           k == Hang(m, found.at, e)
           q == IF found.d # NULL THEN <<found.d, cache>> ELSE <<e, k>>
           r == DState0(list, link)
<1>1. l \in Lists /\ l \in Seq(Nat)
  BY SortedList, ListsAreNumbers DEF Lists, StateList
<1>2. /\ HeapOf(cache.heap) /\ ListHeap(cache.heap) /\ Tree(cache.heap, cache.alldstates, T, B)
      /\ T \subseteq 1 .. Len(cache.heap) /\ cache.nstates = Cardinality(T)
      /\ Len(cache.heap) \in Nat /\ cache.nstates \in Nat
  BY HeapHasLists DEF CacheOf, HeapOf, Stored, Tree
<1>3. r = <<q[1], Link(q[2], FALSE, link, q[1])>>
  BY DEF DState0
<1> HIDE DEF l, found, r
<1>4. /\ OnTheWay(cache.heap, cache.alldstates, T, B, l, found)
      /\ Done(cache.heap, l, found)
  BY <1>1, <1>2, SearchEnds DEF found
<1>5. CASE found.d # NULL
  <2> DEFINE x == found.d
             no == FALSE
             f == Link(cache, no, link, x)
  <2>1. x \in T /\ x \in 1 .. Len(cache.heap)
    BY <1>2, <1>4, <1>5 DEF OnTheWay
  <2>2. cache.heap[x].l = l
    <3>1. cache.heap[x].l \in Seq(Nat)
      BY <1>2, <2>1 DEF ListHeap
    <3> QED
      BY <1>1, <1>4, <1>5, <3>1, PrecedesTotal DEF Done
  <2>3. r[1] = x /\ r[2] = f
    BY <1>3, <1>5
  <2>0. no \in BOOLEAN /\ ~no
    OBVIOUS
  <2> HIDE DEF x, no
  <2>4. /\ CacheOf(f) /\ Len(f.heap) = Len(cache.heap)
        /\ f.freelist = cache.freelist /\ f.nstates = cache.nstates
        /\ f.alldstates = cache.alldstates
        /\ \A y \in 1 .. Len(cache.heap) :
             /\ f.heap[y].l = cache.heap[y].l
             /\ f.heap[y].left = cache.heap[y].left /\ f.heap[y].right = cache.heap[y].right
             /\ f.heap[y].next = Linked(cache.heap[y].next, no, link, y, x)
    BY <2>0, <2>1, LinkParts
  <2> HIDE DEF f
  <2>5. Stored(f, T, B, F)
    BY <2>4, LinkStored
  <2>6. \A y \in 1 .. Len(cache.heap) : f.heap[y].next = Linked(cache.heap[y].next, FALSE, link, y, x)
    BY <2>0, <2>4 DEF Linked
  <2>7. Outcome(cache, f, T, T, l, x, link)
    BY <2>1, <2>2, <2>4, <2>5, <2>6 DEF Outcome, Hit
  <2> QED
    BY <2>3, <2>7 DEF r, l
<1>6. CASE found.d = NULL
  <2> DEFINE at == found.at
             no == FALSE
             f == Link(Hang(m, at, e), no, link, e)
  <2>1. /\ CacheOf(m) /\ Len(m.heap) = Len(cache.heap) + 1
        /\ m.alldstates = cache.alldstates /\ m.nstates = cache.nstates
        /\ m.freelist = cache.freelist
        /\ m.heap[e] = NewDState(l)
        /\ \A x \in 1 .. Len(cache.heap) : m.heap[x] = cache.heap[x]
    BY <1>1, GrownParts
  <2>2. r[1] = e /\ r[2] = f
    BY <1>3, <1>6
  <2>3. \A x \in 1 .. Len(cache.heap) : x # e
    BY <1>2
  <2>4. e = Len(cache.heap) + 1
    OBVIOUS
  <2> HIDE DEF m, e
  <2>5. Spare(m, T, B, F, e, l) /\ Kin(cache.heap, m.heap, e)
    BY <1>1, <2>1, <2>4, GrownStored
  <2>6. ListHeap(m.heap)
    BY <2>1, HeapHasLists DEF CacheOf
  <2>7. Alike(cache, m, e)
    BY <2>5 DEF Kin, Alike
  <2>8. Place(m.heap, T, B, l, at)
    <3>1. Place(cache.heap, T, B, l, at)
      BY <1>2, <1>4, <1>6, PlaceFound
    <3>2. \A x \in T : m.heap[x] = cache.heap[x]
      BY <1>2, <2>1
    <3> QED
      BY <3>1, <3>2, SamePlace
  <2>9. link \in {<<>>} \cup ((1 .. Len(m.heap)) \X Chars) /\ no \in BOOLEAN /\ ~no
    BY <2>5 DEF Kin
  <2> HIDE DEF at, no
  <2>10. /\ \E C, H : Stored(f, T \cup {e}, C, H)
         /\ Fresh(cache, f, l, e)
         /\ \A x \in 1 .. Len(f.heap) : f.heap[x].next = Linked(FreshArrows(cache, e, x), no, link, x, e)
    <3>1. Hung(cache, f, T, l, e, no, link)
      BY <1>1, <2>1, <2>5, <2>6, <2>7, <2>8, <2>9, NewStored
    <3> QED
      BY <3>1 DEF Hung
  <2> HIDE DEF f
  <2>11. e \notin T
    BY <2>5 DEF Spare
  <2>12. Outcome(cache, f, T, T \cup {e}, l, e, link)
    <3>1. \A x \in 1 .. Len(f.heap) : f.heap[x].next = Linked(FreshArrows(cache, e, x), FALSE, link, x, e)
      BY <2>9, <2>10 DEF Linked
    <3> QED
      BY <2>10, <2>11, <3>1 DEF Outcome, Missed
  <2> QED
    BY <2>2, <2>12 DEF r, l
<1> QED
  BY <1>5, <1>6

(* dstate: found, made, or made after the cache was emptied.               *)
LEMMA DStateStored ==
  ASSUME CacheOf(cache), Automaton(nfa), NEW list, StateList(list),
         NEW link \in {<<>>} \cup ((1 .. Len(cache.heap)) \X Chars),
         NEW T, NEW B, NEW F, Stored(cache, T, B, F)
  PROVE  LET r == DState(list, link)
         IN  /\ \E U : Outcome(cache, r[2], T, U, Qsort(list), r[1], link)
             /\ program # "dfa0" /\ cache.nstates <= MAXSTATES => r[2].nstates <= MAXSTATES
  BY DState0Stored, DState1Stored DEF DState

-----------------------------------------------------------------------------
(* The inductive invariant of the cache: T is the set of DStates in the     *)
(* tree, and no arrow leads out of it.                                      *)
ArrowsIn(h, T) == \A x \in T, c \in Chars : h[x].next[c] # NULL => h[x].next[c] \in T

InPlace(T) ==
  /\ \E B, F : Stored(cache, T, B, F)
  /\ ListHeap(cache.heap) /\ ArrowsIn(cache.heap, T)
  /\ d # NULL => d \in T
  /\ program = "dfa1" => cache.nstates <= MAXSTATES

Kept == Typed /\ \E T : InPlace(T)

(* A new DState has no arrows, and an arrow is set to the DState returned.  *)
LEMMA OutcomeArrows ==
  ASSUME NEW k, CacheOf(k), NEW f, CacheOf(f), NEW T, T \subseteq 1 .. Len(k.heap), NEW U, NEW l,
         NEW e, NEW link \in {<<>>} \cup ((1 .. Len(k.heap)) \X Chars),
         Outcome(k, f, T, U, l, e, link), ArrowsIn(k.heap, T)
  PROVE  e \in U /\ ArrowsIn(f.heap, U)
<1>1. \A x \in 1 .. Len(k.heap) : k.heap[x].next \in [Chars -> 0 .. Len(k.heap)]
  BY HeapParts DEF CacheOf
<1>2. U \subseteq 1 .. Len(f.heap)
  BY DEF Outcome, Stored, Tree
<1>3. ASSUME NEW a \in [Chars -> Nat], NEW no, NEW x, NEW c \in Chars
      PROVE  Linked(a, no, link, x, e)[c] \in {a[c], e}
  BY DEF Linked
<1>4. ASSUME NEW S, NEW y, y \in {NULL} \cup S, y # NULL PROVE y \in S
  BY <1>4
<1>5. \A x \in 1 .. Len(k.heap) : k.heap[x].next \in [Chars -> Nat]
  <2>1. \A i \in 0 .. Len(k.heap) : i \in Nat
    BY DEF CacheOf, HeapOf
  <2> QED
    BY <1>1, <2>1
<1>6. \A x \in 1 .. Len(k.heap) : FreshArrows(k, e, x) \in [Chars -> Nat]
  BY <1>5 DEF FreshArrows, NULL
<1>7. CASE Hit(k, f, T, U, l, e, link)
  <2>1. e \in T /\ U = T
    BY <1>7 DEF Hit
  <2>2. ASSUME NEW x \in T, NEW c \in Chars, f.heap[x].next[c] # NULL
        PROVE  f.heap[x].next[c] \in T
    <3>1. f.heap[x].next[c] \in {k.heap[x].next[c], e}
      <4>1. x \in 1 .. Len(k.heap) /\ k.heap[x].next \in [Chars -> Nat]
        BY <1>5
      <4>2. \/ f.heap[x].next = k.heap[x].next
            \/ f.heap[x].next = Linked(k.heap[x].next, FALSE, link, x, e)
        BY <1>7, <4>1 DEF Hit
      <4>3. Linked(k.heap[x].next, FALSE, link, x, e)[c] \in {k.heap[x].next[c], e}
        BY <1>3, <4>1
      <4> QED
        BY <4>2, <4>3
    <3> QED
      BY <2>1, <2>2, <3>1 DEF ArrowsIn
  <2> QED
    BY <2>1, <2>2 DEF ArrowsIn
<1>8. CASE Missed(k, f, T, U, l, e, link)
  <2>1. e \notin T /\ U = T \cup {e}
    BY <1>8 DEF Missed
  <2>2. ASSUME NEW x \in U, NEW c \in Chars, f.heap[x].next[c] # NULL
        PROVE  f.heap[x].next[c] \in U
    <3>1. x \in 1 .. Len(f.heap) /\ f.heap[x].next = Linked(FreshArrows(k, e, x), FALSE, link, x, e)
      BY <1>2, <1>8 DEF Missed
    <3>2. FreshArrows(k, e, x) \in [Chars -> Nat]
      BY <1>6, <2>1 DEF FreshArrows, NULL
    <3>3. f.heap[x].next[c] \in {FreshArrows(k, e, x)[c], e}
      BY <1>3, <3>1, <3>2
    <3>4. CASE x = e
      <4>1. FreshArrows(k, e, x)[c] = NULL
        BY <3>4 DEF FreshArrows
      <4> QED
        BY <2>1, <2>2, <3>3, <4>1
    <3>5. CASE x # e
      <4>1. x \in T /\ FreshArrows(k, e, x)[c] = k.heap[x].next[c]
        BY <2>1, <3>5 DEF FreshArrows
      <4> QED
        BY <2>1, <2>2, <3>3, <4>1 DEF ArrowsIn
    <3> QED
      BY <3>4, <3>5
  <2> QED
    BY <2>1, <2>2 DEF ArrowsIn
<1>9. CASE Renewed(k, f, U, l, e)
  <2>1. U = {e} /\ e \in 1 .. Len(f.heap)
    BY <1>2, <1>9 DEF Renewed
  <2>2. f.heap[e].next = [c \in Chars |-> NULL]
    BY <1>9, <2>1 DEF Renewed, FreshArrows
  <2> QED
    BY <2>1, <2>2 DEF ArrowsIn
<1> QED
  BY <1>7, <1>8, <1>9 DEF Outcome

(* dstate keeps the invariant.                                              *)
LEMMA DStateInPlace ==
  ASSUME CacheOf(cache), Automaton(nfa), NEW list, StateList(list),
         NEW link \in {<<>>} \cup ((1 .. Len(cache.heap)) \X Chars),
         NEW T, InPlace(T), program # "nfa",
         NEW r, r = DState(list, link)
  PROVE  \E U : /\ Outcome(cache, r[2], T, U, Qsort(list), r[1], link)
                /\ \E B, F : Stored(r[2], U, B, F)
                /\ ListHeap(r[2].heap) /\ ArrowsIn(r[2].heap, U) /\ r[1] \in U
                /\ program = "dfa1" => r[2].nstates <= MAXSTATES
<1>1. PICK B, F : Stored(cache, T, B, F)
  BY DEF InPlace
<1>2. /\ \E U : Outcome(cache, r[2], T, U, Qsort(list), r[1], link)
      /\ program # "dfa0" /\ cache.nstates <= MAXSTATES => r[2].nstates <= MAXSTATES
  BY <1>1, DStateStored
<1>3. CacheOf(r[2])
  BY DStateTyped
<1>4. PICK U : Outcome(cache, r[2], T, U, Qsort(list), r[1], link)
  BY <1>2
<1>5. T \subseteq 1 .. Len(cache.heap)
  BY <1>1 DEF Stored, Tree
<1>6. r[1] \in U /\ ArrowsIn(r[2].heap, U)
  BY <1>3, <1>4, <1>5, OutcomeArrows DEF InPlace
<1>7. ListHeap(r[2].heap)
  BY <1>3, HeapHasLists DEF CacheOf
<1>8. \E C, G : Stored(r[2], U, C, G)
  BY <1>4 DEF Outcome
<1>9. program = "dfa1" => r[2].nstates <= MAXSTATES
  BY <1>2 DEF InPlace
<1> QED
  BY <1>4, <1>6, <1>7, <1>8, <1>9

(* main starts with an empty tree and an empty free list.                  *)
LEMMA KeptAtFirst ==
  ASSUME Init
  PROVE  Kept
<1>1. Typed
  BY TypedAtFirst
<1>2. cache = [heap |-> <<>>, alldstates |-> NULL, freelist |-> NULL, nstates |-> 0] /\ d = NULL
  BY DEF Init
<1>3. /\ cache.heap = <<>> /\ cache.alldstates = NULL /\ cache.freelist = NULL
      /\ cache.nstates = 0 /\ Len(cache.heap) = 0 /\ 1 .. 0 = {}
  BY <1>2
<1>4. Stored(cache, {}, [x \in {} |-> {}], <<>>)
  <2>1. Tree(cache.heap, cache.alldstates, {}, [x \in {} |-> {}])
    BY <1>3, EmptyTree
  <2>2. Len(<<>>) = 0 /\ <<>> \in Seq(1 .. Len(cache.heap))
    OBVIOUS
  <2>3. Unique(<<>>) /\ Members(<<>>) = {} /\ Threaded(cache.heap, cache.freelist, <<>>)
    BY <1>3, <2>2 DEF Unique, Members, Threaded
  <2>4. cache.nstates = Cardinality({})
    BY <1>3, FS_EmptySet
  <2> QED
    BY <1>3, <2>1, <2>2, <2>3, <2>4 DEF Stored
<1>5. InPlace({})
  BY <1>2, <1>3, <1>4, MatchAssumption DEF InPlace, ListHeap, ArrowsIn
<1> QED
  BY <1>1, <1>5 DEF Kept

(* Every step keeps tree and free list.                                    *)
LEMMA KeptStays ==
  ASSUME Kept, [Next]_vars
  PROVE  Kept'
<1>1. Typed' /\ Typed
  BY TypedStays DEF Kept
<1>2. PICK T : InPlace(T)
  BY DEF Kept
<1>3. ASSUME cache' = cache, program' = program, d' = d \/ d' \in T
      PROVE  InPlace(T)'
  BY <1>2, <1>3 DEF InPlace, Stored, ListHeap, ArrowsIn
<1>4. ASSUME NEW list, StateList(list), phase # "exit", program # "nfa",
             NEW link \in {<<>>} \cup ((1 .. Len(cache.heap)) \X Chars),
             NEW r, r = DState(list, link), cache' = r[2], d' = r[1], program' = program
      PROVE  \E U : InPlace(U)'
  <2>1. CacheOf(cache) /\ Automaton(nfa)
    BY <1>1, <1>4 DEF Typed, Data
  <2>2. PICK U : /\ \E B, F : Stored(r[2], U, B, F)
                 /\ ListHeap(r[2].heap) /\ ArrowsIn(r[2].heap, U) /\ r[1] \in U
                 /\ program = "dfa1" => r[2].nstates <= MAXSTATES
    BY <1>2, <1>4, <2>1, DStateInPlace
  <2>3. InPlace(U)'
    BY <1>4, <2>2 DEF InPlace, Stored, ListHeap, ArrowsIn
  <2> QED
    BY <2>3
<1>5. CASE MatchStart
  <2>1. CASE program = "nfa"
    <3>1. cache' = cache /\ d' = d /\ program' = program
      BY <1>5, <2>1 DEF MatchStart
    <3> QED
      BY <1>1, <1>3, <3>1 DEF Kept
  <2>2. CASE program # "nfa"
    <3> DEFINE q == StartList
               r == DState(q.l, <<>>)
    <3>1. phase # "exit" /\ program' = program /\ cache' = r[2] /\ d' = r[1]
      BY <1>5, <2>2 DEF MatchStart
    <3>2. StateList(q.l)
      BY <1>1, <3>1, StartListIsGood DEF Typed, Data
    <3> HIDE DEF q
    <3>3. \E U : InPlace(U)'
      BY <1>4, <2>2, <3>1, <3>2
    <3> QED
      BY <1>1, <3>3 DEF Kept
  <2> QED
    BY <2>1, <2>2
<1>6. CASE NfaStep
  BY <1>1, <1>3, <1>6 DEF NfaStep, Kept
<1>7. CASE DfaFollow
  <2>1. /\ cache' = cache /\ program' = program /\ d \in 0 .. Len(cache.heap) /\ d # NULL
        /\ d' = cache.heap[d].next[Head(rest)] /\ d' # NULL
        /\ rest \in Seq(Chars) /\ rest # <<>>
    BY <1>1, <1>7 DEF DfaFollow, Typed, Progress, Data
  <2>2. Head(rest) \in Chars
    BY <2>1, HeadTail
  <2>3. d' \in T
    BY <1>2, <2>1, <2>2 DEF InPlace, ArrowsIn
  <2> QED
    BY <1>1, <1>3, <2>1, <2>3 DEF Kept
<1>8. CASE DfaNextState
  <2> DEFINE c == Head(rest)
             q == StepList(cache.heap[d].l, c)
             r == DState(q.l, <<d, c>>)
  <2>1. /\ phase # "exit" /\ program' = program /\ cache' = r[2] /\ d' = r[1] /\ program # "nfa"
        /\ rest \in Seq(Chars) /\ rest # <<>> /\ d # NULL /\ d \in 0 .. Len(cache.heap)
        /\ CacheOf(cache) /\ Automaton(nfa) /\ Marks /\ HeapOf(cache.heap)
    BY <1>1, <1>8 DEF DfaNextState, Typed, Progress, Data, CacheOf
  <2>2. c \in Chars
    BY <2>1, HeadTail
  <2>3. d \in 1 .. Len(cache.heap)
    BY <2>1 DEF NULL, HeapOf
  <2>4. StateList(q.l)
    BY <2>1, <2>3, HeapParts, StepListIsGood
  <2> HIDE DEF q, c
  <2>5. \E U : InPlace(U)'
    <3>1. <<d, c>> \in {<<>>} \cup ((1 .. Len(cache.heap)) \X Chars)
      BY <2>2, <2>3
    <3> QED
      BY <1>4, <2>1, <2>4, <3>1
  <2> QED
    BY <1>1, <2>5 DEF Kept
<1>9. CASE MatchReturn
  BY <1>1, <1>3, <1>9 DEF MatchReturn, Kept
<1>10. CASE UNCHANGED vars
  BY <1>1, <1>3, <1>10 DEF vars, Kept
<1> QED
  BY <1>5, <1>6, <1>7, <1>8, <1>9, <1>10 DEF Next

(* Kept is invariant: the heap is a search tree and a free list.           *)
THEOREM KeptAlways == Spec => []Kept
  BY KeptAtFirst, KeptStays, PTL DEF Spec

(* dfa1 takes what it freed before it allocates more.                       *)
Bounded == program = "dfa1" => Len(cache.heap) <= MAXSTATES

LEMMA KeptIsStatesInOnePlace ==
  ASSUME Kept, Bounded
  PROVE  StatesInOnePlace
<1> DEFINE h == cache.heap
           N == Len(h)
           tree == TreeList(h, cache.alldstates)
           free == FreeChain(h, cache.freelist)
           places == tree \o free
<1>1. PICK T : InPlace(T)
  BY DEF Kept
<1>2. PICK B, F : Stored(cache, T, B, F)
  BY <1>1 DEF InPlace
<1>3. /\ CacheOf(cache) /\ HeapOf(h) /\ ListHeap(h) /\ N \in Nat
      /\ cache.alldstates \in 0 .. N /\ DOMAIN h = 1 .. N
  BY <1>1 DEF Kept, Typed, Data, CacheOf, HeapOf, InPlace
<1>4. /\ Tree(h, cache.alldstates, T, B)
      /\ F \in Seq(1 .. N) /\ Unique(F) /\ Threaded(h, cache.freelist, F)
      /\ T \cap Members(F) = {} /\ T \cup Members(F) = 1 .. N
      /\ cache.nstates = Cardinality(T)
  BY <1>2 DEF Stored
<1>5. Unique(tree) /\ Members(tree) = T /\ tree \in Seq(1 .. N)
  BY <1>3, <1>4, TreeListIs, TreeListTyped
<1>6. free = F
  BY <1>3, <1>4, FreeChainIs
<1> HIDE DEF tree, free, N
<1>7. places \in Seq(1 .. N) /\ Unique(places) /\ Members(places) = 1 .. N
  <2> DEFINE S == 1 .. N
  <2>1. tree \in Seq(S) /\ F \in Seq(S) /\ Members(tree) \cup Members(F) = S
    BY <1>4, <1>5
  <2> HIDE DEF S
  <2>2. tree \o F \in Seq(S) /\ Unique(tree \o F) /\ Members(tree \o F) = S
    <3>1. Unique(tree) /\ Unique(F) /\ Members(tree) \cap Members(F) = {}
      BY <1>4, <1>5
    <3>2. /\ tree \o F \in Seq(S) /\ Unique(tree \o F)
          /\ Members(tree \o F) = Members(tree) \cup Members(F)
      BY <2>1, <3>1, UniqueJoined
    <3> QED
      BY <2>1, <3>2
  <2> QED
    BY <1>6, <2>2 DEF S
<1> HIDE DEF places
<1>8. \A s \in Seq(1 .. N) : ToSet(s) = Members(s)
  BY LenProperties DEF ToSet, Members
<1>9. Len(places) = N /\ ToSet(places) = 1 .. N
  <2>1. Cardinality(1 .. N) = N
    BY <1>3, CountTo DEF N
  <2>2. Cardinality(Members(places)) = Len(places)
    BY <1>7, MembersCounted
  <2> QED
    BY <1>7, <1>8, <2>1, <2>2
<1>10. ToSet(tree) = T /\ Cardinality(T) = Len(tree)
  BY <1>5, <1>8, MembersCounted
<1>11. \A t \in T : Search(h, h[t].l, cache.alldstates).d = t
  BY <1>3, <1>4, SearchFinds
<1>12. d # NULL => d \in T
  BY <1>1 DEF InPlace
<1>13. program = "dfa1" => Len(h) <= MAXSTATES
  BY DEF Bounded
<1> QED
  BY <1>3, <1>4, <1>9, <1>10, <1>11, <1>12, <1>13
     DEF StatesInOnePlace, places, tree, free, N

-----------------------------------------------------------------------------
(* What can be reached from S in N turns of F is all that can be reached.   *)
Spreads(g, S, F) == g[0] = S /\ \A n \in Nat : g[n + 1] = UNION {F[x] : x \in g[n]}

(* R is what can be reached from S.                                         *)
Reached(R, D, S, F) ==
  /\ R \subseteq D /\ S \subseteq R
  /\ \A x \in R : F[x] \subseteq R
  /\ \A C \in SUBSET D : S \subseteq C /\ (\A x \in C : F[x] \subseteq C) => R \subseteq C

LEMMA SpreadSettles ==
  ASSUME NEW N \in Nat, NEW F \in [1 .. N -> SUBSET (1 .. N)], \A x \in 1 .. N : x \in F[x],
         NEW S \in SUBSET (1 .. N), NEW g, Spreads(g, S, F)
  PROVE  Reached(g[N], 1 .. N, S, F)
<1> DEFINE D == 1 .. N
           next(R) == UNION {F[x] : x \in R}
<1>1. g[0] = S /\ \A n \in Nat : g[n + 1] = next(g[n])
  BY DEF Spreads
<1>2. IsFiniteSet(D) /\ Cardinality(D) = N
  BY CountTo
<1>3. F \in [D -> SUBSET D] /\ (\A x \in D : x \in F[x]) /\ S \in SUBSET D
  OBVIOUS
<1> HIDE DEF D
<1>4. \A R \in SUBSET D : next(R) \in SUBSET D /\ R \subseteq next(R)
  BY <1>3
<1> HIDE DEF next
<1>5. \A n \in Nat : g[n] \in SUBSET D
  <2> DEFINE A == SUBSET D
  <2>0. S \in A /\ \A R \in A : next(R) \in A
    BY <1>3, <1>4
  <2> HIDE DEF A
  <2>1. g[0] \in A /\ \A n \in Nat : g[n] \in A => g[n + 1] \in A
    BY <1>1, <2>0
  <2> HIDE DEF A
  <2>2. \A n \in Nat : g[n] \in A
    BY <2>1, TurnsStay
  <2> QED
    BY <2>2 DEF A
<1>6. \A n \in Nat : S \subseteq g[n]
  <2> DEFINE A == {R \in SUBSET D : S \subseteq R}
  <2>0. S \in A /\ \A R \in A : next(R) \in A
    BY <1>3, <1>4
  <2> HIDE DEF A
  <2>1. g[0] \in A /\ \A n \in Nat : g[n] \in A => g[n + 1] \in A
    BY <1>1, <2>0
  <2> HIDE DEF A
  <2>2. \A n \in Nat : g[n] \in A
    BY <2>1, TurnsStay
  <2> QED
    BY <2>2 DEF A
<1>7. ASSUME NEW C \in SUBSET D, S \subseteq C, \A x \in C : F[x] \subseteq C
      PROVE  \A n \in Nat : g[n] \subseteq C
  <2> DEFINE A == SUBSET C
  <2>1. \A R \in A : next(R) \in A
    BY <1>7 DEF next
  <2>2. g[0] \in A /\ \A n \in Nat : g[n] \in A => g[n + 1] \in A
    BY <1>1, <1>7, <2>1
  <2> HIDE DEF A
  <2>3. \A n \in Nat : g[n] \in A
    BY <2>2, TurnsStay
  <2> QED
    BY <2>3 DEF A
<1>8. \A n \in Nat : IsFiniteSet(g[n]) /\ Cardinality(g[n]) \in Nat
  BY <1>2, <1>5, FS_Subset, FS_CardinalityType
<1> DEFINE P(n) == g[n + 1] = g[n] \/ Cardinality(g[n]) >= n
<1>9. P(0)
  BY <1>8
<1>10. ASSUME NEW n \in Nat, P(n) PROVE P(n + 1)
  <2>1. /\ g[n + 1] = next(g[n]) /\ g[(n + 1) + 1] = next(g[n + 1]) /\ n + 1 \in Nat
        /\ g[n] \in SUBSET D /\ g[n + 1] \in SUBSET D
        /\ IsFiniteSet(g[n + 1]) /\ Cardinality(g[n + 1]) \in Nat
        /\ IsFiniteSet(g[n]) /\ Cardinality(g[n]) \in Nat
    <3> HIDE DEF P
    <3>1. n + 1 \in Nat
      OBVIOUS
    <3> QED
      BY <1>1, <1>5, <1>8, <3>1
  <2>2. CASE g[n + 1] = g[n]
    BY <2>1, <2>2
  <2>3. CASE g[n + 1] # g[n]
    <3>1. g[n] \subseteq g[n + 1]
      BY <1>4, <2>1
    <3> DEFINE a == Cardinality(g[n])
               b == Cardinality(g[n + 1])
    <3>2. a <= b /\ a # b
      BY <2>1, <2>3, <3>1, FS_Subset
    <3>3. a >= n
      BY <1>10, <2>3
    <3>4. a \in Nat /\ b \in Nat
      BY <2>1
    <3>5. b >= n + 1
      <4> HIDE DEF a, b
      <4> QED
        BY <3>2, <3>3, <3>4
    <3> QED
      BY <3>5
  <2> QED
    BY <2>2, <2>3
<1>11. \A n \in Nat : P(n)
  <2> DEFINE Q == {n \in Nat : P(n)}
  <2> HIDE DEF P
  <2>1. Q \in SUBSET Nat /\ 0 \in Q /\ \A n \in Q : n + 1 \in Q
    BY <1>9, <1>10
  <2> HIDE DEF Q
  <2>2. Q = Nat
    BY <2>1, NatSets
  <2> QED
    BY <2>2 DEF Q
<1>12. next(g[N]) = g[N]
  <2>1. g[N + 1] = g[N] \/ Cardinality(g[N]) >= N
    <3>1. P(N)
      <4> HIDE DEF P
      <4> QED
        BY <1>11
    <3> QED
      BY <3>1
  <2>2. g[N + 1] = next(g[N]) /\ g[N] \in SUBSET D /\ g[N] \subseteq next(g[N])
        /\ next(g[N]) \in SUBSET D
    BY <1>1, <1>4, <1>5
  <2>3. CASE g[N + 1] = g[N]
    BY <2>2, <2>3
  <2>4. CASE Cardinality(g[N]) >= N
    <3>1. Cardinality(g[N]) <= N
      BY <1>2, <2>2, FS_Subset
    <3>2. Cardinality(g[N]) = N
      BY <1>8, <2>4, <3>1
    <3>3. g[N] = D
      BY <1>2, <2>2, <3>2, FS_Subset
    <3> QED
      BY <2>2, <3>3
  <2> QED
    BY <2>1, <2>3, <2>4
<1>13. \A x \in g[N] : F[x] \subseteq g[N]
  BY <1>12 DEF next
<1>14. \A C \in SUBSET D : S \subseteq C /\ (\A x \in C : F[x] \subseteq C) => g[N] \subseteq C
  BY <1>7
<1> QED
  BY <1>5, <1>6, <1>13, <1>14 DEF D, Reached

(* The turns of a set that spreads, as the model writes them.               *)
SpreadStep(f, S, F) ==
  f = [n \in Nat |-> IF n = 0 THEN S ELSE UNION {F[x] : x \in f[n - 1]}]

(* The closure over Split arrows is reached after a number of spreads.     *)
LEMMA SpreadExists ==
  ASSUME NEW N \in Nat, NEW F \in [1 .. N -> SUBSET (1 .. N)], NEW S \in SUBSET (1 .. N)
  PROVE  \E f \in [Nat -> SUBSET (1 .. N)] : SpreadStep(f, S, F)
<1> DEFINE A == SUBSET (1 .. N)
           next(R) == UNION {F[x] : x \in R}
           h == [x \in Nat \X A |-> next(x[2])]
<1>1. \A R \in A : next(R) \in A
  OBVIOUS
<1>2. h \in [Nat \X A -> A]
  <2> HIDE DEF A, next
  <2> QED
    BY <1>1
<1>3. S \in A
  OBVIOUS
<1>4. PICK f \in [Nat -> A] : Turns(f, S, h)
  <2> HIDE DEF A, h
  <2> QED
    BY <1>2, <1>3, TurnsExist
<1>5. \A n \in Nat : n # 0 => h[<<n, f[n - 1]>>] = next(f[n - 1])
  <2> HIDE DEF A, next
  <2> QED
    OBVIOUS
<1>6. f = [n \in Nat |-> IF n = 0 THEN S ELSE next(f[n - 1])]
  <2> HIDE DEF h, A, next
  <2> QED
    BY <1>4, <1>5 DEF Turns
<1> QED
  BY <1>6 DEF SpreadStep

(* Closure: the states reached from S, without the Splits.                  *)
Onward(a) == [s \in 1 .. Len(a.nodes) |-> Followed(a, s)]

ClosureStep(f, a, S) ==
  f = [n \in Nat |-> IF n = 0 THEN S \ {NULL} ELSE UNION {Followed(a, s) : s \in f[n - 1]}]
ClosureTurns(a, S) == CHOOSE f : ClosureStep(f, a, S)

LEMMA OnwardTyped ==
  ASSUME NEW a, Automaton(a)
  PROVE  LET N == Len(a.nodes)
         IN  /\ Onward(a) \in [1 .. N -> SUBSET (1 .. N)]
             /\ \A s \in 1 .. N : s \in Onward(a)[s] /\ Onward(a)[s] = Followed(a, s)
<1> DEFINE N == Len(a.nodes)
<1>1. \A s \in 1 .. N : Followed(a, s) \in SUBSET (1 .. N) /\ s \in Followed(a, s)
  BY DEF Automaton, Followed, NULL
<1> QED
  BY <1>1 DEF Onward

(* Closure of DfaCache, over the arrows of the automaton.                  *)
LEMMA ClosureReached ==
  ASSUME NEW a, Automaton(a), NEW S, S \subseteq 0 .. Len(a.nodes)
  PROVE  \E R : /\ Reached(R, 1 .. Len(a.nodes), S \ {NULL}, Onward(a))
                /\ Closure(a, S) = {s \in R : a.nodes[s].c # "Split"}
<1> DEFINE N == Len(a.nodes)
           F == Onward(a)
           Q == S \ {NULL}
           g == ClosureTurns(a, S)
<1>1. /\ N \in Nat /\ Q \in SUBSET (1 .. N)
      /\ F \in [1 .. N -> SUBSET (1 .. N)]
      /\ \A s \in 1 .. N : s \in F[s] /\ F[s] = Followed(a, s)
  BY OnwardTyped DEF Automaton, NULL
<1> HIDE DEF F, N
<1>2. PICK f \in [Nat -> SUBSET (1 .. N)] : SpreadStep(f, Q, F)
  <2> HIDE DEF Q
  <2> QED
    BY <1>1, SpreadExists
<1>3. ClosureStep(f, a, S)
  <2>1. ASSUME NEW n \in Nat, n # 0
        PROVE  UNION {F[x] : x \in f[n - 1]} = UNION {Followed(a, x) : x \in f[n - 1]}
    <3>1. f[n - 1] \in SUBSET (1 .. N)
      BY <1>2, <2>1
    <3> QED
      BY <1>1, <3>1
  <2> QED
    BY <1>2, <2>1 DEF ClosureStep, SpreadStep
<1>4. ClosureStep(g, a, S)
  BY <1>3 DEF ClosureTurns
<1>5. Closure(a, S) = {s \in g[N] : a.nodes[s].c # "Split"}
  BY DEF Closure, ClosureTurns, ClosureStep, N
<1> HIDE DEF g
<1>6. g[0] = Q /\ \A n \in Nat : g[n + 1] = UNION {Followed(a, s) : s \in g[n]}
  <2>1. g[0] = Q
    BY <1>4 DEF ClosureStep
  <2>2. ASSUME NEW n \in Nat PROVE g[n + 1] = UNION {Followed(a, s) : s \in g[n]}
    <3>1. n + 1 \in Nat /\ n + 1 # 0 /\ (n + 1) - 1 = n
      OBVIOUS
    <3>2. g[n + 1] = UNION {Followed(a, s) : s \in g[(n + 1) - 1]}
      BY <1>4, <3>1 DEF ClosureStep
    <3> QED
      BY <3>1, <3>2
  <2> QED
    BY <2>1, <2>2
<1>7. Spreads(g, Q, F)
  <2> DEFINE A == SUBSET (1 .. N)
  <2>1. \A n \in Nat : g[n] \in A => g[n + 1] \in A /\ g[n + 1] = UNION {F[x] : x \in g[n]}
    <3> SUFFICES ASSUME NEW n \in Nat, g[n] \in A
                 PROVE  g[n + 1] \in A /\ g[n + 1] = UNION {F[x] : x \in g[n]}
      OBVIOUS
    <3>1. g[n + 1] = UNION {Followed(a, s) : s \in g[n]}
      BY <1>6
    <3>2. UNION {Followed(a, s) : s \in g[n]} = UNION {F[x] : x \in g[n]}
      BY <1>1
    <3>3. UNION {F[x] : x \in g[n]} \in A
      BY <1>1
    <3> QED
      BY <3>1, <3>2, <3>3
  <2>2. g[0] \in A
    BY <1>1, <1>6
  <2> HIDE DEF A
  <2>3. \A n \in Nat : g[n] \in A
    BY <2>1, <2>2, TurnsStay
  <2> QED
    BY <1>6, <2>1, <2>3 DEF Spreads
<1>8. Reached(g[N], 1 .. N, Q, F)
  <2> HIDE DEF Q
  <2> QED
    BY <1>1, <1>7, SpreadSettles
<1> QED
  BY <1>5, <1>8 DEF N, F

-----------------------------------------------------------------------------
(* The DStates reached from the root are those of the tree.                 *)
Downward(h) == [e \in 1 .. Len(h) |-> {e, h[e].left, h[e].right} \ {NULL}]

CachedStep(f, h, t) ==
  f = [n \in Nat |->
        IF n = 0 THEN {t} \ {NULL}
        ELSE UNION {{e, h[e].left, h[e].right} \ {NULL} : e \in f[n - 1]}]
CachedTurns(h, t) == CHOOSE f : CachedStep(f, h, t)

(* What DfaCache reads of an arrow, as a set of reached states.            *)
LEMMA CachedReached ==
  ASSUME NEW h, HeapOf(h), NEW t \in 0 .. Len(h)
  PROVE  Reached(Cached(h, t), 1 .. Len(h), {t} \ {NULL}, Downward(h))
<1> DEFINE N == Len(h)
           F == Downward(h)
           Q == {t} \ {NULL}
           g == CachedTurns(h, t)
           down(e) == {e, h[e].left, h[e].right} \ {NULL}
<1>1. /\ N \in Nat /\ Q \in SUBSET (1 .. N)
      /\ F \in [1 .. N -> SUBSET (1 .. N)]
      /\ \A e \in 1 .. N : e \in F[e] /\ F[e] = down(e)
  <2>1. N \in Nat /\ Q \in SUBSET (1 .. N)
    BY DEF HeapOf, NULL
  <2>2. \A e \in 1 .. N : e \in down(e) /\ down(e) \in SUBSET (1 .. N)
    <3> SUFFICES ASSUME NEW e \in 1 .. N PROVE e \in down(e) /\ down(e) \in SUBSET (1 .. N)
      OBVIOUS
    <3>1. h[e].left \in 0 .. N /\ h[e].right \in 0 .. N
      BY HeapParts
    <3>2. \A x \in 0 .. N : x # NULL => x \in 1 .. N
      BY <2>1 DEF NULL
    <3> HIDE DEF N
    <3>3. e # NULL
      BY <2>1 DEF NULL
    <3> QED
      BY <3>1, <3>2, <3>3
  <2> QED
    BY <2>1, <2>2 DEF Downward
<1> HIDE DEF F, N, down
<1>2. PICK f \in [Nat -> SUBSET (1 .. N)] : SpreadStep(f, Q, F)
  <2> HIDE DEF Q
  <2> QED
    BY <1>1, SpreadExists
<1>3. CachedStep(f, h, t)
  <2>1. ASSUME NEW n \in Nat, n # 0
        PROVE  UNION {F[x] : x \in f[n - 1]} = UNION {down(x) : x \in f[n - 1]}
    <3>1. f[n - 1] \in SUBSET (1 .. N)
      BY <1>2, <2>1
    <3> QED
      BY <1>1, <3>1
  <2> QED
    BY <1>2, <2>1 DEF CachedStep, SpreadStep, down
<1>4. CachedStep(g, h, t)
  BY <1>3 DEF CachedTurns
<1>5. Cached(h, t) = g[N]
  BY DEF Cached, CachedTurns, CachedStep, N
<1> HIDE DEF g
<1>6. g[0] = Q /\ \A n \in Nat : g[n + 1] = UNION {down(e) : e \in g[n]}
  <2>1. g[0] = Q
    BY <1>4 DEF CachedStep
  <2>2. ASSUME NEW n \in Nat PROVE g[n + 1] = UNION {down(e) : e \in g[n]}
    <3>1. n + 1 \in Nat /\ n + 1 # 0 /\ (n + 1) - 1 = n
      OBVIOUS
    <3>2. g[n + 1] = UNION {down(e) : e \in g[(n + 1) - 1]}
      BY <1>4, <3>1 DEF CachedStep, down
    <3> QED
      BY <3>1, <3>2
  <2> QED
    BY <2>1, <2>2
<1>7. Spreads(g, Q, F)
  <2> DEFINE A == SUBSET (1 .. N)
  <2>1. \A n \in Nat : g[n] \in A => g[n + 1] \in A /\ g[n + 1] = UNION {F[x] : x \in g[n]}
    <3> SUFFICES ASSUME NEW n \in Nat, g[n] \in A
                 PROVE  g[n + 1] \in A /\ g[n + 1] = UNION {F[x] : x \in g[n]}
      OBVIOUS
    <3>1. g[n + 1] = UNION {down(e) : e \in g[n]}
      BY <1>6
    <3>2. UNION {down(e) : e \in g[n]} = UNION {F[x] : x \in g[n]}
      BY <1>1
    <3>3. UNION {F[x] : x \in g[n]} \in A
      BY <1>1
    <3> QED
      BY <3>1, <3>2, <3>3
  <2>2. g[0] \in A
    BY <1>1, <1>6
  <2> HIDE DEF A
  <2>3. \A n \in Nat : g[n] \in A
    BY <2>1, <2>2, TurnsStay
  <2> QED
    BY <1>6, <2>1, <2>3 DEF Spreads
<1>8. Reached(g[N], 1 .. N, Q, F)
  <2> HIDE DEF Q
  <2> QED
    BY <1>1, <1>7, SpreadSettles
<1> QED
  BY <1>5, <1>8 DEF N, F

(* A walk stays where the fields left and right stay.                       *)
LEMMA TreeListInside ==
  ASSUME NEW h, HeapOf(h), NEW r \in 0 .. Len(h), NEW C \in SUBSET (1 .. Len(h)),
         r \in C \cup {NULL},
         \A x \in C : h[x].left \in C \cup {NULL} /\ h[x].right \in C \cup {NULL}
  PROVE  Members(TreeList(h, r)) \subseteq C
<1> DEFINE g == VisitTurns(h, r)
           N == Len(h)
           K == 1 + 2 * N
           D == C \cup {NULL}
           A == {w \in Visits(N) : w.todo \in Seq(D) /\ w.l \in Seq(C)}
<1>1. N \in Nat /\ K \in Nat
  BY DEF HeapOf
<1>2. /\ TreeList(h, r) = g[K].l /\ g[0] = [todo |-> <<r>>, l |-> <<>>]
      /\ \A n \in Nat : g[n] \in Visits(N)
      /\ \A n \in Nat : g[n + 1] = Visit(h, g[n])
  BY VisitTurnsTyped
<1> HIDE DEF g, N, K
<1>3. r \in D /\ \A x \in C : h[x].left \in D /\ h[x].right \in D
  OBVIOUS
<1>4. \A x \in D : x # NULL => x \in C
  OBVIOUS
<1> HIDE DEF D
<1>5. g[0] \in A
  <2>1. g[0] \in Visits(N)
    <3>1. 0 \in Nat
      OBVIOUS
    <3> QED
      BY <1>2, <3>1
  <2>2. g[0].todo = <<r>> /\ g[0].l = <<>>
    <3> HIDE DEF A
    <3> QED
      BY <1>2
  <2>3. <<r>> \in Seq(D) /\ <<>> \in Seq(C)
    BY <1>3
  <2> QED
    BY <2>1, <2>2, <2>3
<1>6. ASSUME NEW n \in Nat, g[n] \in A PROVE g[n + 1] \in A
  <2> DEFINE w == g[n]
             v == g[n + 1]
             good == v.todo \in Seq(D) /\ v.l \in Seq(C)
  <2>1. w \in Visits(N) /\ w.todo \in Seq(D) /\ w.l \in Seq(C) /\ v \in Visits(N) /\ v = Visit(h, w)
    <3>1. n + 1 \in Nat
      OBVIOUS
    <3>2. w \in Visits(N) /\ w.todo \in Seq(D) /\ w.l \in Seq(C)
      BY <1>6
    <3> HIDE DEF A
    <3> QED
      BY <1>2, <3>1, <3>2
  <2> HIDE DEF w, v
  <2>2. Idle(w, v) \/ Passed(w, v) \/ Visited(h, w, v)
    BY <2>1, VisitCases DEF N
  <2>3. ASSUME Idle(w, v) PROVE good
    BY <2>1, <2>3 DEF Idle
  <2>4. ASSUME Passed(w, v) PROVE good
    BY <2>1, <2>4, HeadTail DEF Passed
  <2>5. ASSUME Visited(h, w, v) PROVE good
    <3> DEFINE t == Head(w.todo)
    <3>1. t \in D /\ Tail(w.todo) \in Seq(D)
      BY <2>1, <2>5, HeadTail DEF Visited
    <3>2. /\ t \in DOMAIN h /\ v.todo = <<h[t].right, h[t].left>> \o Tail(w.todo)
          /\ v.l = Append(w.l, t)
      BY <2>5 DEF Visited
    <3>3. t # NULL
      BY <3>2 DEF HeapOf, NULL
    <3> HIDE DEF t
    <3>4. t \in C
      BY <1>4, <3>1, <3>3
    <3>5. <<h[t].right, h[t].left>> \in Seq(D)
      BY <1>3, <3>4
    <3>6. v.todo \in Seq(D)
      BY <3>1, <3>2, <3>5, ConcatProperties
    <3>7. v.l \in Seq(C)
      BY <2>1, <3>2, <3>4, AppendProperties
    <3> QED
      BY <3>6, <3>7
  <2>6. good
    BY <2>2, <2>3, <2>4, <2>5
  <2>7. v \in A
    BY <2>1, <2>6
  <2> QED
    BY <2>7 DEF v
<1>7. \A n \in Nat : g[n] \in A
  <2> HIDE DEF A
  <2> QED
    BY <1>5, <1>6, TurnsStay
<1>8. g[K].l \in Seq(C)
  BY <1>1, <1>7
<1>9. \A i \in 1 .. Len(g[K].l) : g[K].l[i] \in C
  BY <1>8, ElementOfSeq
<1> QED
  BY <1>2, <1>9 DEF Members

LEMMA CachedIs ==
  ASSUME NEW h, HeapOf(h), ListHeap(h), NEW r, NEW T, NEW B, Tree(h, r, T, B)
  PROVE  Cached(h, r) = T
<1> DEFINE C == Cached(h, r)
<1>1. r \in 0 .. Len(h) /\ T \subseteq 1 .. Len(h)
  BY DEF Tree, HeapOf, NULL
<1>2. Reached(C, 1 .. Len(h), {r} \ {NULL}, Downward(h))
  BY <1>1, CachedReached
<1> HIDE DEF C
<1>3. \A x \in 1 .. Len(h) : Downward(h)[x] = {x, h[x].left, h[x].right} \ {NULL}
  BY DEF Downward
<1>4. C \subseteq T
  <2>1. {r} \ {NULL} \subseteq T /\ T \in SUBSET (1 .. Len(h))
    BY <1>1 DEF Tree
  <2>2. \A x \in T : Downward(h)[x] \subseteq T
    BY <1>1, <1>3 DEF Tree
  <2> QED
    BY <1>2, <2>1, <2>2 DEF Reached
<1>5. T \subseteq C
  <2>1. C \in SUBSET (1 .. Len(h)) /\ r \in C \cup {NULL}
    BY <1>2 DEF Reached
  <2>2. \A x \in C : Downward(h)[x] \subseteq C
    BY <1>2 DEF Reached
  <2>3. \A x \in C : h[x].left \in C \cup {NULL} /\ h[x].right \in C \cup {NULL}
    BY <1>3, <2>1, <2>2
  <2>4. Members(TreeList(h, r)) \subseteq C
    BY <1>1, <2>1, <2>3, TreeListInside
  <2> QED
    BY <2>4, TreeListIs
<1> QED
  BY <1>4, <1>5 DEF C

-----------------------------------------------------------------------------
(* addstate follows the states that can be reached and lists those that are *)
(* not a Split: the closure.                                                *)
LEMMA MembersPopped ==
  ASSUME NEW S, NEW s \in Seq(S), s # <<>>
  PROVE  Members(s) = {Head(s)} \cup Members(Tail(s))
<1> DEFINE n == Len(s)
<1>1. /\ Head(s) = s[1] /\ Tail(s) \in Seq(S) /\ n \in Nat \ {0} /\ Len(Tail(s)) = n - 1
      /\ \A i \in 1 .. n - 1 : Tail(s)[i] = s[i + 1]
  BY HeadTail
<1> DEFINE t == Tail(s)
           m == Len(t)
<1> HIDE DEF n
<1>2. m = n - 1 /\ m \in Nat
  BY <1>1
<1> HIDE DEF t, m
<1>3. \A i \in 1 .. m : t[i] = s[i + 1] /\ i + 1 \in 1 .. n
  BY <1>1, <1>2 DEF t
<1>4. \A i \in 1 .. n : i # 1 => i - 1 \in 1 .. m /\ t[i - 1] = s[i]
  BY <1>1, <1>2, <1>3
<1>5. 1 \in 1 .. n
  BY <1>1
<1>6. {s[i] : i \in 1 .. n} = {s[1]} \cup {t[i] : i \in 1 .. m}
  <2>1. ASSUME NEW x \in {s[i] : i \in 1 .. n} PROVE x \in {s[1]} \cup {t[i] : i \in 1 .. m}
    BY <1>4
  <2>2. ASSUME NEW x \in {t[i] : i \in 1 .. m} PROVE x \in {s[i] : i \in 1 .. n}
    BY <1>3
  <2>3. s[1] \in {s[i] : i \in 1 .. n}
    BY <1>5
  <2> QED
    BY <2>1, <2>2, <2>3
<1> QED
  BY <1>1, <1>6 DEF Members, n, m, t

LEMMA MembersPushed ==
  ASSUME NEW S, NEW s \in Seq(S), s # <<>>, NEW a \in S, NEW b \in S
  PROVE  Members(<<a, b>> \o Tail(s)) = {a, b} \cup Members(Tail(s))
<1> DEFINE v == <<a, b>> \o Tail(s)
           u == Tail(v)
<1>1. Tail(s) \in Seq(S)
  BY HeadTail
<1>2. v \in Seq(S) /\ v # <<>> /\ Head(v) = a
  BY <1>1
<1>3. u = <<b>> \o Tail(s)
  BY <1>1
<1>4. u \in Seq(S) /\ u # <<>> /\ Head(u) = b /\ Tail(u) = Tail(s)
  BY <1>1, <1>3
<1> HIDE DEF u
<1>5. Members(u) = {b} \cup Members(Tail(s))
  BY <1>4, MembersPopped
<1> HIDE DEF v
<1>6. Members(v) = {a} \cup Members(u)
  BY <1>2, MembersPopped DEF u
<1> QED
  BY <1>5, <1>6 DEF v

(* The states a walk has followed, and what is left to be called for: each  *)
(* followed state has its successors followed or waiting, all within R.     *)
Seen(w, id) == {s \in 1 .. Len(nfa.nodes) : w.mark[s] = id}

Reaching(w, id, Q, R) ==
  /\ Q \subseteq Seen(w, id) \cup Members(w.todo)
  /\ \A s \in Seen(w, id) : Followed(nfa, s) \subseteq Seen(w, id) \cup Members(w.todo)
  /\ Members(w.l) = Seen(w, id) \ Splits
  /\ Seen(w, id) \subseteq R /\ Members(w.todo) \subseteq R \cup {NULL}

MarkedAt(w, v, s, id) == v.mark = [w.mark EXCEPT ![s] = id]

LEMMA SeenMore ==
  ASSUME Automaton(nfa), NEW id, NEW w \in Walks(Len(nfa.nodes)), NEW v,
         NEW s \in 1 .. Len(nfa.nodes), MarkedAt(w, v, s, id)
  PROVE  Seen(v, id) = Seen(w, id) \cup {s}
<1> DEFINE N == Len(nfa.nodes)
<1>1. w.mark \in [1 .. N -> Nat]
  BY DEF Walks
<1> HIDE DEF N
<1>2. \A x \in 1 .. N : v.mark[x] = IF x = s THEN id ELSE w.mark[x]
  BY <1>1 DEF MarkedAt
<1> QED
  BY <1>2 DEF Seen, N

(* A turn of addstate keeps what was seen and what can still be reached.   *)
LEMMA ReachingStep ==
  ASSUME Automaton(nfa), NEW id \in Nat, NEW w \in Walks(Len(nfa.nodes)),
         NEW Q, NULL \notin Q, NEW R, \A s \in R : Followed(nfa, s) \subseteq R,
         Reaching(w, id, Q, R)
  PROVE  Reaching(AddState(w, id), id, Q, R)
<1> DEFINE v == AddState(w, id)
           s == Head(w.todo)
           N == Len(nfa.nodes)
           M == Members(Tail(w.todo))
           W == Seen(w, id)
<1>1. /\ v \in Walks(N)
      /\ Idle(w, v) \/ Skipped(w, id, v) \/ Forked(w, id, v) \/ Listed(w, id, v)
  BY AddStateCases
<1>2. N \in Nat /\ DOMAIN nfa.nodes = 1 .. N
  BY DEF Automaton
<1>3. w.todo \in Seq(0 .. N) /\ w.l \in Seq(1 .. N)
  BY DEF Walks
<1>4. w.todo # <<>> => Members(w.todo) = {s} \cup M /\ s \in 0 .. N
  BY <1>3, MembersPopped, HeadTail
<1> DEFINE good == Reaching(v, id, Q, R)
<1> HIDE DEF v
<1>5. ASSUME Idle(w, v) PROVE good
  BY <1>5 DEF Idle
<1>6. ASSUME Skipped(w, id, v) PROVE good
  <2>1. Seen(v, id) = W /\ v.todo = Tail(w.todo) /\ v.l = w.l /\ w.todo # <<>>
    BY <1>6 DEF Skipped, Seen
  <2>2. s = NULL \/ s \in W
    <3>1. s = NULL \/ (w.mark[s] = id /\ s \in 0 .. N)
      BY <1>4, <1>6 DEF Skipped
    <3>2. ASSUME s \in 0 .. N, s # NULL PROVE s \in 1 .. N
      BY <1>2, <3>2 DEF NULL
    <3> QED
      BY <3>1, <3>2 DEF Seen
  <2>3. \A t \in W : NULL \notin Followed(nfa, t)
    BY DEF Followed, Seen, NULL
  <2> HIDE DEF M, W, s
  <2>4. Members(w.todo) = {s} \cup M /\ Members(v.todo) = M
    BY <1>4, <2>1 DEF M
  <2>5. Members(w.l) = W \ Splits /\ W \subseteq R /\ Members(w.todo) \subseteq R \cup {NULL}
        /\ Q \subseteq W \cup Members(w.todo)
        /\ \A t \in W : Followed(nfa, t) \subseteq W \cup Members(w.todo)
    BY DEF Reaching, W
  <2> QED
    BY <2>1, <2>2, <2>3, <2>4, <2>5 DEF Reaching
<1>7. ASSUME Forked(w, id, v) PROVE good
  <2> DEFINE a == nfa.nodes[s].out
             b == nfa.nodes[s].out1
  <2>1. /\ s \in 1 .. N /\ s \in Splits /\ v.todo = <<a, b>> \o Tail(w.todo) /\ v.l = w.l
        /\ w.todo # <<>> /\ v.mark = [w.mark EXCEPT ![s] = id]
    BY <1>2, <1>7 DEF Forked, Splits
  <2>2. a \in 0 .. N /\ b \in 0 .. N
    BY <2>1 DEF Automaton
  <2>3. Followed(nfa, s) = {s} \cup ({a, b} \ {NULL})
    BY <2>1 DEF Followed, Splits
  <2>4. Seen(v, id) = W \cup {s}
    <3>1. s \in 1 .. N /\ MarkedAt(w, v, s, id)
      BY <2>1 DEF MarkedAt
    <3> HIDE DEF s, W, M, good, a, b
    <3>2. Seen(v, id) = Seen(w, id) \cup {s}
      BY <3>1, SeenMore
    <3> QED
      BY <3>2 DEF W
  <2> HIDE DEF a, b, s
  <2>5. Members(v.todo) = {a, b} \cup M
    <3> DEFINE D == 0 .. N
    <3>1. w.todo \in Seq(D) /\ a \in D /\ b \in D /\ w.todo # <<>>
      BY <1>3, <2>1, <2>2
    <3> HIDE DEF D
    <3>2. Members(<<a, b>> \o Tail(w.todo)) = {a, b} \cup Members(Tail(w.todo))
      BY <3>1, MembersPushed
    <3> QED
      BY <2>1, <3>2
  <2>6. Members(w.l) = W \ Splits /\ W \subseteq R /\ Members(w.todo) \subseteq R \cup {NULL}
        /\ Q \subseteq W \cup Members(w.todo)
        /\ \A t \in W : Followed(nfa, t) \subseteq W \cup Members(w.todo)
    BY DEF Reaching
  <2>7. s \in R
    <3>1. s # NULL
      BY <2>1 DEF NULL
    <3> QED
      BY <1>4, <2>1, <2>6, <3>1
  <2>8. {a, b} \subseteq R \cup {NULL}
    BY <2>3, <2>7
  <2> HIDE DEF M, W
  <2>9. \A t \in Seen(v, id) : Followed(nfa, t) \subseteq Seen(v, id) \cup Members(v.todo)
    BY <1>4, <2>1, <2>3, <2>4, <2>5, <2>6
  <2>10. Members(v.l) = Seen(v, id) \ Splits
    BY <2>1, <2>4, <2>6
  <2>11. Q \subseteq Seen(v, id) \cup Members(v.todo)
    BY <1>4, <2>1, <2>4, <2>5, <2>6
  <2>12. Seen(v, id) \subseteq R /\ Members(v.todo) \subseteq R \cup {NULL}
    BY <1>4, <2>1, <2>4, <2>5, <2>6, <2>7, <2>8
  <2> QED
    BY <2>9, <2>10, <2>11, <2>12 DEF Reaching
<1>8. ASSUME Listed(w, id, v) PROVE good
  <2>1. /\ s \in 1 .. N /\ s \notin Splits /\ v.todo = Tail(w.todo) /\ v.l = Append(w.l, s)
        /\ w.todo # <<>> /\ v.mark = [w.mark EXCEPT ![s] = id]
    BY <1>2, <1>8 DEF Listed
  <2>2. Followed(nfa, s) = {s}
    BY <1>2, <2>1 DEF Followed, Splits
  <2>3. Seen(v, id) = W \cup {s}
    <3>1. s \in 1 .. N /\ MarkedAt(w, v, s, id)
      BY <2>1 DEF MarkedAt
    <3> HIDE DEF s, W, M, good
    <3>2. Seen(v, id) = Seen(w, id) \cup {s}
      BY <3>1, SeenMore
    <3> QED
      BY <3>2 DEF W
  <2>4. Members(v.l) = Members(w.l) \cup {s}
    <3> DEFINE D == 1 .. N
    <3>1. w.l \in Seq(D) /\ s \in D
      BY <1>3, <2>1
    <3> HIDE DEF D, s
    <3>2. Members(Append(w.l, s)) = Members(w.l) \cup {s}
      BY <3>1, MembersAppended
    <3> QED
      BY <2>1, <3>2
  <2> HIDE DEF s
  <2>5. Members(v.todo) = M
    BY <2>1
  <2>6. Members(w.l) = W \ Splits /\ W \subseteq R /\ Members(w.todo) \subseteq R \cup {NULL}
        /\ Q \subseteq W \cup Members(w.todo)
        /\ \A t \in W : Followed(nfa, t) \subseteq W \cup Members(w.todo)
    BY DEF Reaching
  <2>7. s \in R
    <3>1. s # NULL
      BY <2>1 DEF NULL
    <3> QED
      BY <1>4, <2>1, <2>6, <3>1
  <2> HIDE DEF M, W
  <2>8. \A t \in Seen(v, id) : Followed(nfa, t) \subseteq Seen(v, id) \cup Members(v.todo)
    BY <1>4, <2>1, <2>2, <2>3, <2>5, <2>6
  <2>9. Members(v.l) = Seen(v, id) \ Splits
    BY <2>1, <2>3, <2>4, <2>6
  <2>10. Q \subseteq Seen(v, id) \cup Members(v.todo)
    BY <1>4, <2>1, <2>3, <2>5, <2>6
  <2>11. Seen(v, id) \subseteq R /\ Members(v.todo) \subseteq R \cup {NULL}
    BY <1>4, <2>1, <2>3, <2>5, <2>6, <2>7
  <2> QED
    BY <2>8, <2>9, <2>10, <2>11 DEF Reaching
<1>9. good
  <2> HIDE DEF good
  <2> QED
    BY <1>1, <1>5, <1>6, <1>7, <1>8
<1> QED
  BY <1>9 DEF v

(* Each call settles one of todo, or marks a state and calls for two more.  *)
Unseen(w, id) == Cardinality((1 .. Len(nfa.nodes)) \ Seen(w, id))

LEMMA UnseenCounted ==
  ASSUME Automaton(nfa), NEW w, NEW id
  PROVE  /\ IsFiniteSet((1 .. Len(nfa.nodes)) \ Seen(w, id))
         /\ Unseen(w, id) \in Nat /\ Unseen(w, id) <= Len(nfa.nodes)
<1> DEFINE N == Len(nfa.nodes)
           D == 1 .. N
           U == D \ Seen(w, id)
<1>1. N \in Nat
  BY DEF Automaton
<1> HIDE DEF N
<1>2. IsFiniteSet(D) /\ Cardinality(D) = N
  BY <1>1, CountTo
<1>3. U \subseteq D
  OBVIOUS
<1> HIDE DEF U, D
<1>4. IsFiniteSet(U) /\ Cardinality(U) \in Nat /\ Cardinality(U) <= N
  BY <1>2, <1>3, FS_Subset, FS_CardinalityType
<1> QED
  BY <1>4 DEF Unseen, U, D, N

(* Every turn of addstate uses up some of what is left to do.              *)
LEMMA AddStateSettles ==
  ASSUME Automaton(nfa), NEW id \in Nat, NEW w \in Walks(Len(nfa.nodes)), w.todo # <<>>
  PROVE  LET v == AddState(w, id)
         IN  Len(v.todo) + 2 * Unseen(v, id) <= (Len(w.todo) + 2 * Unseen(w, id)) - 1
<1> DEFINE v == AddState(w, id)
           s == Head(w.todo)
           N == Len(nfa.nodes)
           n == Len(w.todo)
           a == Unseen(w, id)
           m == Len(v.todo)
           b == Unseen(v, id)
<1>1. /\ v \in Walks(N)
      /\ Idle(w, v) \/ Skipped(w, id, v) \/ Forked(w, id, v) \/ Listed(w, id, v)
  BY AddStateCases
<1>2. N \in Nat /\ DOMAIN nfa.nodes = 1 .. N
  BY DEF Automaton
<1>3. w.todo \in Seq(0 .. N)
  BY DEF Walks
<1>4. n \in Nat \ {0} /\ Len(Tail(w.todo)) = n - 1
  BY <1>3, HeadTail
<1>5. a \in Nat /\ b \in Nat
  <2> HIDE DEF v
  <2> QED
    BY UnseenCounted
<1>6. ASSUME s \in 1 .. N, w.mark[s] # id, v.mark = [w.mark EXCEPT ![s] = id]
      PROVE  b = a - 1
  <2> HIDE DEF v, s
  <2>1. Seen(v, id) = Seen(w, id) \cup {s}
    <3>1. MarkedAt(w, v, s, id)
      BY <1>6 DEF MarkedAt
    <3> QED
      BY <1>6, <3>1, SeenMore DEF N
  <2>2. s \notin Seen(w, id)
    BY <1>6 DEF Seen
  <2> DEFINE U == (1 .. N) \ Seen(w, id)
  <2>3. (1 .. N) \ Seen(v, id) = U \ {s} /\ s \in U
    BY <1>6, <2>1, <2>2
  <2>4. IsFiniteSet(U)
    BY UnseenCounted DEF N
  <2>5. a = Cardinality(U) /\ b = Cardinality((1 .. N) \ Seen(v, id))
    BY DEF Unseen, N
  <2> HIDE DEF U
  <2>6. Cardinality(U \ {s}) = Cardinality(U) - 1
    BY <2>3, <2>4, FS_RemoveElement
  <2> QED
    BY <2>3, <2>5, <2>6
<1> DEFINE good == m + 2 * b <= (n + 2 * a) - 1
<1>7. ASSUME Skipped(w, id, v) PROVE good
  <2>1. v.todo = Tail(w.todo) /\ v.mark = w.mark
    BY <1>7 DEF Skipped
  <2>2. b = a
    BY <2>1 DEF Unseen, Seen
  <2>3. m = n - 1
    BY <1>4, <2>1
  <2> HIDE DEF a, b, m, n
  <2> QED
    BY <1>4, <1>5, <2>2, <2>3
<1>8. ASSUME Forked(w, id, v) PROVE good
  <2>1. /\ s \in 1 .. N /\ w.mark[s] # id /\ v.mark = [w.mark EXCEPT ![s] = id]
        /\ v.todo = <<nfa.nodes[s].out, nfa.nodes[s].out1>> \o Tail(w.todo)
    <3> HIDE DEF v, n, a, m, b
    <3> QED
      BY <1>2, <1>8 DEF Forked, Splits
  <2>2. b = a - 1
    <3> HIDE DEF v, s, a, b
    <3> QED
      BY <1>6, <2>1
  <2>3. m = n + 1
    <3>1. nfa.nodes[s].out \in 0 .. N /\ nfa.nodes[s].out1 \in 0 .. N
      BY <2>1 DEF Automaton
    <3> HIDE DEF v, s, n
    <3>2. Len(<<nfa.nodes[s].out, nfa.nodes[s].out1>> \o Tail(w.todo)) = Len(w.todo) + 1
      BY <1>3, <3>1, PushedTwo
    <3> QED
      BY <2>1, <3>2 DEF n
  <2> HIDE DEF a, b, m, n
  <2> QED
    BY <1>4, <1>5, <2>2, <2>3
<1>9. ASSUME Listed(w, id, v) PROVE good
  <2>1. /\ s \in 1 .. N /\ w.mark[s] # id /\ v.mark = [w.mark EXCEPT ![s] = id]
        /\ v.todo = Tail(w.todo)
    BY <1>2, <1>9 DEF Listed
  <2>2. b = a - 1
    <3> HIDE DEF v, s, a, b
    <3> QED
      BY <1>6, <2>1
  <2>3. m = n - 1
    BY <1>4, <2>1
  <2> HIDE DEF a, b, m, n
  <2> QED
    BY <1>4, <1>5, <2>2, <2>3
<1>10. good
  <2>1. ~Idle(w, v)
    BY DEF Idle
  <2> HIDE DEF good, v
  <2> QED
    BY <1>1, <1>7, <1>8, <1>9, <2>1
<1> QED
  BY <1>10

-----------------------------------------------------------------------------
(* The lists that the programs build are the sets that the language of the  *)
(* automaton speaks of.                                                     *)
LEMMA AddedIsClosure ==
  ASSUME Automaton(nfa), Marks, NEW todo \in Seq(0 .. Len(nfa.nodes)),
         NEW S \in SUBSET (0 .. Len(nfa.nodes)), S \ {NULL} = Members(todo) \ {NULL}
  PROVE  Members(AddStates(todo).l) = Closure(nfa, S)
<1> DEFINE g == AddTurns(todo)
           N == Len(nfa.nodes)
           id == listid + 1
           K == Len(todo) + 2 * N
           Q == S \ {NULL}
<1>1. /\ AddStates(todo) = g[K]
      /\ g[0] = [todo |-> todo, mark |-> lastlist, l |-> <<>>]
      /\ \A n \in Nat : g[n] \in Walks(N)
      /\ \A n \in Nat : g[n + 1] = AddState(g[n], id)
  BY AddTurnsTyped
<1>2. N \in Nat /\ DOMAIN nfa.nodes = 1 .. N /\ id \in Nat /\ Len(todo) \in Nat
  BY LenProperties DEF Automaton, Marks
<1>3. PICK R : /\ Reached(R, 1 .. N, Q, Onward(nfa))
               /\ Closure(nfa, S) = {s \in R : nfa.nodes[s].c # "Split"}
  BY ClosureReached
<1>4. \A s \in 1 .. N : Onward(nfa)[s] = Followed(nfa, s)
  BY OnwardTyped
<1> HIDE DEF g, N
<1>5. K \in Nat
  BY <1>2
<1>6. /\ R \subseteq 1 .. N /\ Q \subseteq R /\ NULL \notin Q
      /\ \A s \in R : Followed(nfa, s) \subseteq R
  <2>1. R \subseteq 1 .. N /\ Q \subseteq R /\ \A s \in R : Onward(nfa)[s] \subseteq R
    BY <1>3 DEF Reached
  <2>2. NULL \notin Q
    OBVIOUS
  <2> HIDE DEF Q
  <2> QED
    BY <1>4, <2>1, <2>2
<1> DEFINE s0 == g[0]
<1>7. s0.todo = todo /\ s0.mark = lastlist /\ s0.l = <<>>
  BY <1>1
<1> HIDE DEF s0
<1>8. Reaching(s0, id, Q, R)
  <2>1. Seen(s0, id) = {}
    <3>1. \A s \in 1 .. N : lastlist[s] \in 0 .. listid /\ listid \in Nat
      BY <1>2 DEF Marks
    <3>2. \A n \in 0 .. listid : listid \in Nat => n # listid + 1
      OBVIOUS
    <3> QED
      BY <1>7, <3>1, <3>2 DEF Seen, N
  <2>2. Members(s0.l) = {}
    <3>1. Len(<<>>) = 0 /\ 1 .. 0 = {}
      OBVIOUS
    <3> QED
      BY <1>7, <3>1 DEF Members
  <2> HIDE DEF id
  <2>3. Q = Members(s0.todo) \ {NULL}
    BY <1>7
  <2> HIDE DEF Q
  <2> QED
    BY <1>6, <2>1, <2>2, <2>3 DEF Reaching
<1> HIDE DEF id, Q
<1> DEFINE M(n) == Len(g[n].todo) + 2 * Unseen(g[n], id)
           P(n) == Reaching(g[n], id, Q, R) /\ (g[n].todo = <<>> \/ M(n) + n <= K)
<1>9. \A n \in Nat : Len(g[n].todo) \in Nat /\ Unseen(g[n], id) \in Nat /\ Unseen(g[n], id) <= N
  <2> SUFFICES ASSUME NEW n \in Nat
               PROVE  Len(g[n].todo) \in Nat /\ Unseen(g[n], id) \in Nat /\ Unseen(g[n], id) <= N
    OBVIOUS
  <2>1. g[n] \in Walks(N)
    BY <1>1
  <2>2. g[n].todo \in Seq(0 .. N)
    BY <2>1 DEF Walks
  <2>3. Len(g[n].todo) \in Nat
    BY <2>2, LenProperties
  <2>4. Unseen(g[n], id) \in Nat /\ Unseen(g[n], id) <= N
    BY UnseenCounted DEF N
  <2> QED
    BY <2>3, <2>4
<1>10. P(0)
  <2>1. M(0) + 0 <= K
    <3> DEFINE a == Unseen(g[0], id)
               b == Len(todo)
    <3>1. M(0) = b + 2 * a
      BY <1>7 DEF s0
    <3>2. a \in Nat /\ a <= N /\ b \in Nat
      BY <1>2, <1>9
    <3>3. K = b + 2 * N
      OBVIOUS
    <3> HIDE DEF a, b, M, K
    <3> QED
      BY <1>2, <3>1, <3>2, <3>3
  <2> QED
    BY <1>8, <2>1 DEF s0
<1>11. ASSUME NEW n \in Nat, P(n) PROVE P(n + 1)
  <2>1. g[n + 1] = AddState(g[n], id) /\ g[n] \in Walks(N) /\ n + 1 \in Nat
    <3> HIDE DEF P, K, M
    <3>1. n + 1 \in Nat
      OBVIOUS
    <3>2. g[n] \in Walks(N)
      BY <1>1
    <3>3. g[n + 1] = AddState(g[n], id)
      BY <1>1
    <3> QED
      BY <3>1, <3>2, <3>3
  <2>2. Reaching(g[n + 1], id, Q, R)
    <3>1. Reaching(g[n], id, Q, R)
      BY <1>11
    <3> DEFINE w == g[n]
    <3> HIDE DEF P, K, M
    <3>2. w \in Walks(N) /\ Reaching(w, id, Q, R) /\ g[n + 1] = AddState(w, id)
      BY <2>1, <3>1
    <3> HIDE DEF w
    <3>3. Reaching(AddState(w, id), id, Q, R)
      BY <1>2, <1>6, <3>2, ReachingStep DEF N
    <3> QED
      BY <3>2, <3>3
  <2>3. CASE g[n].todo = <<>>
    <3>1. g[n + 1] = g[n]
      BY <2>1, <2>3 DEF AddState
    <3> QED
      BY <1>11, <2>3, <3>1
  <2>4. CASE g[n].todo # <<>>
    <3>1. M(n + 1) <= M(n) - 1
      <4> HIDE DEF P
      <4> QED
        BY <1>2, <2>1, <2>4, AddStateSettles DEF N
    <3>2. M(n) + n <= K
      BY <1>11, <2>4
    <3>3. M(n) \in Nat /\ M(n + 1) \in Nat
      <4>1. Len(g[n].todo) \in Nat /\ Unseen(g[n], id) \in Nat
        BY <1>9
      <4>2. Len(g[n + 1].todo) \in Nat /\ Unseen(g[n + 1], id) \in Nat
        BY <1>9, <2>1
      <4>3. \A a, b \in Nat : a + 2 * b \in Nat
        OBVIOUS
      <4> QED
        BY <4>1, <4>2, <4>3
    <3>4. M(n + 1) + (n + 1) <= K
      <4> HIDE DEF M, K, P
      <4> QED
        BY <1>5, <3>1, <3>2, <3>3
    <3> QED
      BY <2>2, <3>4
  <2> QED
    BY <2>3, <2>4
<1>12. \A n \in Nat : P(n)
  <2> DEFINE A == {n \in Nat : P(n)}
  <2> HIDE DEF P
  <2>1. A \in SUBSET Nat /\ 0 \in A /\ \A n \in A : n + 1 \in A
    BY <1>10, <1>11
  <2> HIDE DEF A
  <2>2. A = Nat
    BY <2>1, NatSets
  <2> QED
    BY <2>2 DEF A
<1>13. Reaching(g[K], id, Q, R) /\ (g[K].todo = <<>> \/ M(K) + K <= K)
  <2>1. P(K)
    <3> HIDE DEF P, K
    <3> QED
      BY <1>5, <1>12
  <2> QED
    BY <2>1
<1> HIDE DEF K
<1>14. g[K].todo = <<>>
  <2> DEFINE a == Len(g[K].todo)
             b == Unseen(g[K], id)
  <2>1. a \in Nat /\ b \in Nat /\ (g[K].todo = <<>> \/ (a + 2 * b) + K <= K)
    BY <1>5, <1>9, <1>13
  <2>2. a = 0 => g[K].todo = <<>>
    <3>1. g[K] \in Walks(N)
      BY <1>1, <1>5
    <3>2. g[K].todo \in Seq(0 .. N)
      BY <3>1 DEF Walks
    <3> QED
      BY <3>2
  <2> HIDE DEF a, b
  <2>3. (a + 2 * b) + K <= K => a = 0
    BY <1>5, <2>1
  <2> QED
    BY <2>1, <2>2, <2>3
<1> DEFINE W == Seen(g[K], id)
<1>15. Members(g[K].todo) = {}
  <2>1. Len(g[K].todo) = 0 /\ 1 .. 0 = {}
    BY <1>14
  <2> QED
    BY <2>1 DEF Members
<1>16. /\ Q \subseteq W /\ W \subseteq R /\ Members(g[K].l) = W \ Splits
       /\ \A s \in W : Followed(nfa, s) \subseteq W
  BY <1>13, <1>15 DEF Reaching
<1>17. W \in SUBSET (1 .. N)
  BY DEF Seen, N
<1> HIDE DEF W
<1>18. R \subseteq W
  <2>1. \A s \in W : Onward(nfa)[s] \subseteq W
    BY <1>4, <1>16, <1>17
  <2> QED
    BY <1>3, <1>16, <1>17, <2>1 DEF Reached
<1>19. W \ Splits = {s \in R : nfa.nodes[s].c # "Split"}
  BY <1>2, <1>6, <1>16, <1>18 DEF Splits
<1> QED
  BY <1>1, <1>3, <1>16, <1>19

(* The set that startlist lists is the closure of the start.               *)
LEMMA StartListIs ==
  ASSUME Automaton(nfa), Marks
  PROVE  Members(StartList.l) = StartSet(nfa)
<1> DEFINE N == Len(nfa.nodes)
           s == nfa.start
<1>1. s \in 0 .. N /\ <<s>> \in Seq(0 .. N)
  BY DEF Automaton
<1>2. Members(<<s>>) = {s}
  <2>1. Len(<<s>>) = 1 /\ <<s>>[1] = s
    OBVIOUS
  <2>2. \A i : i \in 1 .. 1 <=> i = 1
    OBVIOUS
  <2> QED
    BY <2>1, <2>2 DEF Members
<1>3. {s} \in SUBSET (0 .. N) /\ {s} \ {NULL} = Members(<<s>>) \ {NULL}
  BY <1>1, <1>2
<1> DEFINE u == <<s>>
           C == {s}
<1>4. u \in Seq(0 .. N) /\ C \in SUBSET (0 .. N) /\ C \ {NULL} = Members(u) \ {NULL}
  BY <1>1, <1>3
<1> HIDE DEF u, C
<1>5. Members(AddStates(u).l) = Closure(nfa, C)
  BY <1>4, AddedIsClosure
<1> QED
  BY <1>5 DEF StartList, StartSet, u, C

(* The set that step lists is the successor of the set it starts from.     *)
LEMMA StepListIs ==
  ASSUME Automaton(nfa), Marks, NEW from \in Seq(DOMAIN nfa.nodes), NEW c
  PROVE  Members(StepList(from, c).l) = StepSet(nfa, Members(from), c)
<1> DEFINE N == Len(nfa.nodes)
           u == Targets(from, c)
           C == {nfa.nodes[s].out : s \in {r \in Members(from) : nfa.nodes[r].c = c}}
<1>1. u \in Seq(0 .. N) /\ Len(u) = Len(from)
  BY TargetsTyped
<1>2. /\ Len(from) \in Nat /\ DOMAIN from = 1 .. Len(from)
      /\ \A i \in 1 .. Len(from) : from[i] \in 1 .. N
  BY ElementOfSeq, LenProperties DEF Automaton
<1>3. C \in SUBSET (0 .. N)
  BY <1>2 DEF Members, Automaton
<1>4. \A i \in 1 .. Len(from) : u[i] = IF nfa.nodes[from[i]].c = c THEN nfa.nodes[from[i]].out
                                       ELSE NULL
  BY <1>2 DEF Targets
<1>5. C \ {NULL} = Members(u) \ {NULL}
  <2> HIDE DEF u
  <2>1. ASSUME NEW x \in C, x # NULL PROVE x \in Members(u)
    <3>1. PICK s \in Members(from) : nfa.nodes[s].c = c /\ x = nfa.nodes[s].out
      BY <2>1
    <3>2. PICK i \in 1 .. Len(from) : s = from[i]
      BY <3>1 DEF Members
    <3>3. u[i] = x
      BY <1>4, <3>1, <3>2
    <3> QED
      BY <1>1, <3>2, <3>3 DEF Members
  <2>2. ASSUME NEW x \in Members(u), x # NULL PROVE x \in C
    <3>1. PICK i \in 1 .. Len(from) : x = u[i]
      BY <1>1, <2>2 DEF Members
    <3>2. nfa.nodes[from[i]].c = c /\ x = nfa.nodes[from[i]].out
      BY <1>4, <2>2, <3>1
    <3>3. from[i] \in Members(from)
      BY DEF Members
    <3> QED
      BY <3>2, <3>3
  <2> QED
    BY <2>1, <2>2
<1> HIDE DEF u, C
<1>6. Members(AddStates(u).l) = Closure(nfa, C)
  BY <1>1, <1>3, <1>5, AddedIsClosure
<1>7. StepList(from, c) = AddStates(u)
  BY DEF StepList, u, Targets
<1> QED
  BY <1>6, <1>7 DEF StepSet, C

(* Sorting a list does not change what is in it.                            *)
LEMMA SortedMembers ==
  ASSUME NEW S, NEW l \in Seq(S)
  PROVE  Members(Qsort(l)) = Members(l)
<1> DEFINE n == Len(l)
           r == Reverse(l)
<1>1. n \in Nat
  BY LenProperties
<1>2. Len(r) = n /\ \A i \in 1 .. n : r[i] = l[n - i + 1]
  BY <1>1 DEF Reverse
<1> HIDE DEF r
<1>3. \A i \in 1 .. n : n - i + 1 \in 1 .. n /\ n - (n - i + 1) + 1 = i
  BY <1>1
<1>4. Members(r) = Members(l)
  <2> HIDE DEF n
  <2>1. \A i \in 1 .. n : \E j \in 1 .. n : r[i] = l[j]
    BY <1>2, <1>3
  <2>2. \A i \in 1 .. n : \E j \in 1 .. n : l[i] = r[j]
    <3> SUFFICES ASSUME NEW i \in 1 .. n PROVE \E j \in 1 .. n : l[i] = r[j]
      OBVIOUS
    <3> DEFINE k == n - i + 1
    <3>1. k \in 1 .. n /\ n - k + 1 = i
      BY <1>3
    <3> HIDE DEF k
    <3>2. r[k] = l[n - k + 1]
      BY <1>2, <3>1
    <3> QED
      BY <3>1, <3>2
  <2>3. Len(r) = n /\ Len(l) = n
    BY <1>2 DEF n
  <2>4. {r[i] : i \in 1 .. n} = {l[i] : i \in 1 .. n}
    <3>1. ASSUME NEW x \in {r[i] : i \in 1 .. n} PROVE x \in {l[i] : i \in 1 .. n}
      <4>1. PICK i \in 1 .. n : x = r[i]
        OBVIOUS
      <4>2. PICK j \in 1 .. n : r[i] = l[j]
        BY <2>1
      <4> QED
        BY <4>1, <4>2
    <3>2. ASSUME NEW x \in {l[i] : i \in 1 .. n} PROVE x \in {r[i] : i \in 1 .. n}
      <4>1. PICK i \in 1 .. n : x = l[i]
        OBVIOUS
      <4>2. PICK j \in 1 .. n : l[i] = r[j]
        BY <2>2
      <4> QED
        BY <4>1, <4>2
    <3> QED
      BY <3>1, <3>2
  <2> QED
    BY <2>3, <2>4 DEF Members
<1> QED
  BY <1>4 DEF Qsort, r

LEMMA ToSetIsMembers ==
  ASSUME NEW S, NEW l \in Seq(S)
  PROVE  ToSet(l) = Members(l)
<1>1. DOMAIN l = 1 .. Len(l)
  OBVIOUS
<1> QED
  BY <1>1 DEF ToSet, Members

-----------------------------------------------------------------------------
(* The cache as the abstract one sees it.                                   *)
ContentOf(h) == [e \in DStates |-> IF e \in DOMAIN h THEN ToSet(h[e].l) ELSE {}]
ArrowsOf(h) ==
  [e \in DStates |-> IF e \in DOMAIN h THEN h[e].next ELSE [c \in Chars |-> NULL]]
Blank == [c \in Chars |-> NULL]

(* All of the heap is seen.                                                 *)
Fits(h) == 1 .. Len(h) \subseteq DStates

Follows(a, link, x, e) == Linked(a, FALSE, link, x, e)
ArrowTable == [DStates -> [Chars -> Nat]]
Wiped(A, e) == [A EXCEPT ![e] = [c \in Chars |-> NULL]]
Led(A, link, e) == IF link = <<>> THEN A ELSE [A EXCEPT ![link[1]][link[2]] = e]

LEMMA StoredIsLive ==
  ASSUME NEW k, CacheOf(k), ListHeap(k.heap), NEW T, \E B, F : Stored(k, T, B, F)
  PROVE  Cached(k.heap, k.alldstates) = T /\ T \subseteq 1 .. Len(k.heap)
<1>1. PICK B, F : Stored(k, T, B, F)
  OBVIOUS
<1>2. Tree(k.heap, k.alldstates, T, B)
  BY <1>1 DEF Stored
<1>3. HeapOf(k.heap)
  BY DEF CacheOf
<1>4. T \subseteq 1 .. Len(k.heap)
  BY <1>2 DEF Tree
<1> QED
  BY <1>2, <1>3, <1>4, CachedIs

LEMMA SeenOf ==
  ASSUME NEW h, HeapOf(h), Fits(h)
  PROVE  /\ \A e \in 1 .. Len(h) : e \in DStates
         /\ \A e \in 1 .. Len(h) : /\ ContentOf(h)[e] = Members(h[e].l)
                                   /\ ArrowsOf(h)[e] = h[e].next
         /\ \A e \in DStates : e \notin 1 .. Len(h) =>
              ContentOf(h)[e] = {} /\ ArrowsOf(h)[e] = Blank
         /\ ArrowsOf(h) \in ArrowTable
<1> DEFINE n == Len(h)
<1>1. n \in Nat /\ DOMAIN h = 1 .. n
  BY DEF HeapOf
<1>2. \A e \in 1 .. n : e \in DStates
  BY DEF Fits
<1>3. \A e \in 1 .. n : ToSet(h[e].l) = Members(h[e].l)
  <2> TAKE e \in 1 .. n
  <2>1. h[e].l \in Seq(DOMAIN nfa.nodes)
    BY HeapParts DEF Lists
  <2> QED
    BY <2>1, ToSetIsMembers
<1>4. \A e \in 1 .. n : h[e].next \in [Chars -> Nat]
  <2> TAKE e \in 1 .. n
  <2>1. h[e].next \in [Chars -> 0 .. n]
    BY HeapParts
  <2> HIDE DEF n
  <2>2. 0 .. n \subseteq Nat
    BY <1>1
  <2> QED
    BY <2>1, <2>2
<1>5. [c \in Chars |-> NULL] \in [Chars -> Nat]
  BY DEF NULL
<1> HIDE DEF n
<1>6. \A e \in 1 .. n : ContentOf(h)[e] = Members(h[e].l) /\ ArrowsOf(h)[e] = h[e].next
  BY <1>1, <1>2, <1>3 DEF ContentOf, ArrowsOf
<1>7. \A e \in DStates : e \notin 1 .. n =>
        ContentOf(h)[e] = {} /\ ArrowsOf(h)[e] = Blank
  BY <1>1 DEF ContentOf, ArrowsOf, Blank
<1>8. ArrowsOf(h) \in ArrowTable
  BY <1>1, <1>4, <1>5 DEF ArrowsOf, ArrowTable
<1> QED
  BY <1>2, <1>6, <1>7, <1>8 DEF n

LEMMA WipedLed ==
  ASSUME NEW A \in ArrowTable, NEW e \in DStates, e \in Nat,
         NEW link \in {<<>>} \cup ((DStates) \X Chars)
  PROVE  /\ Wiped(A, e) \in ArrowTable
         /\ \A x \in DStates : Wiped(A, e)[x] = IF x = e THEN Blank ELSE A[x]
         /\ Led(A, link, e) \in ArrowTable
         /\ \A x \in DStates : Led(A, link, e)[x] = Follows(A[x], link, x, e)
<1>1. [c \in Chars |-> NULL] \in [Chars -> Nat]
  BY DEF NULL
<1>2. /\ Wiped(A, e) \in ArrowTable
      /\ \A x \in DStates : Wiped(A, e)[x] = IF x = e THEN Blank ELSE A[x]
  BY <1>1 DEF Wiped, ArrowTable, Blank
<1>3. CASE link = <<>>
  BY <1>2, <1>3 DEF Led, Linked, Follows
<1>4. CASE link # <<>>
  <2> DEFINE y == link[1]
             c == link[2]
  <2>1. y \in DStates /\ c \in Chars
    BY <1>4
  <2> HIDE DEF y, c
  <2>2. Led(A, link, e) = [A EXCEPT ![y] = [A[y] EXCEPT ![c] = e]]
    BY <1>4 DEF Led, y, c
  <2>3. [A[y] EXCEPT ![c] = e] \in [Chars -> Nat]
    BY <2>1 DEF ArrowTable
  <2>4. Led(A, link, e) \in ArrowTable
    BY <2>1, <2>2, <2>3 DEF ArrowTable
  <2>5. \A x \in DStates : Led(A, link, e)[x] = IF x = y THEN [A[y] EXCEPT ![c] = e] ELSE A[x]
    BY <2>1, <2>2 DEF ArrowTable
  <2>6. \A x \in DStates : Led(A, link, e)[x] = Follows(A[x], link, x, e)
    BY <1>4, <2>5 DEF Linked, Follows, y, c
  <2> QED
    BY <1>2, <2>4, <2>6
<1> QED
  BY <1>3, <1>4

(* Tables are equal when their entries are.                                 *)
LEMMA SameTable ==
  ASSUME NEW A \in ArrowTable, NEW B \in ArrowTable, \A x \in DStates : A[x] = B[x]
  PROVE  A = B
<1> DEFINE I == DStates
<1>1. A = [x \in I |-> A[x]] /\ B = [x \in I |-> B[x]]
  BY DEF ArrowTable
<1> HIDE DEF I
<1>2. [x \in I |-> A[x]] = [x \in I |-> B[x]]
  BY DEF I
<1> QED
  BY <1>1, <1>2

(* dstate's outcome is a step of the abstract cache.                        *)
CacheStep(T, U, C, D, A, N, s, e, link) ==
  \/ e \in T /\ C[e] = s /\ U = T /\ D = C /\ (N = A \/ N = Led(A, link, e))
  \/ e \notin T /\ U = T \cup {e} /\ D = [C EXCEPT ![e] = s] /\ N = Led(Wiped(A, e), link, e)
  \/ U = {e} /\ D = [C EXCEPT ![e] = s] /\ N = Wiped(A, e)

LEMMA OutcomeList ==
  ASSUME NEW k, NEW f, NEW T, T \subseteq 1 .. Len(k.heap), NEW U, NEW l, NEW e, NEW link,
         Outcome(k, f, T, U, l, e, link)
  PROVE  f.heap[e].l = l
  BY DEF Outcome, Hit, Missed, Renewed, Fresh

(* Each outcome of dstate is a step of the abstract cache.                 *)
LEMMA OutcomeIsCacheStep ==
  ASSUME NEW k, CacheOf(k), NEW f, CacheOf(f), Fits(f.heap), Fits(k.heap),
         NEW T, T \subseteq 1 .. Len(k.heap), NEW U, NEW l, NEW e,
         e \in 1 .. Len(f.heap), NEW link \in {<<>>} \cup ((1 .. Len(k.heap)) \X Chars),
         Outcome(k, f, T, U, l, e, link)
  PROVE  CacheStep(T, U, ContentOf(k.heap), ContentOf(f.heap), ArrowsOf(k.heap),
                   ArrowsOf(f.heap), Members(l), e, link)
<1> DEFINE C == ContentOf(k.heap)
           D == ContentOf(f.heap)
           A == ArrowsOf(k.heap)
           N == ArrowsOf(f.heap)
           n == Len(k.heap)
           m == Len(f.heap)
           I == DStates
<1>1. HeapOf(k.heap) /\ HeapOf(f.heap)
  BY DEF CacheOf
<1>2. /\ \A x \in 1 .. n : x \in I /\ C[x] = Members(k.heap[x].l) /\ A[x] = k.heap[x].next
      /\ \A x \in I : x \notin 1 .. n => C[x] = {} /\ A[x] = Blank
      /\ A \in ArrowTable
  BY <1>1, SeenOf
<1>3. /\ \A x \in 1 .. m : x \in I /\ D[x] = Members(f.heap[x].l) /\ N[x] = f.heap[x].next
      /\ \A x \in I : x \notin 1 .. m => D[x] = {} /\ N[x] = Blank
      /\ N \in ArrowTable
  BY <1>1, SeenOf
<1>4. C = [x \in I |-> C[x]] /\ D = [x \in I |-> D[x]]
  BY DEF ContentOf
<1> HIDE DEF C, D, A, N, n, m, I
<1>5. e \in I /\ e \in Nat /\ link \in {<<>>} \cup (I \X Chars)
  <2>1. e \in 1 .. m
    BY DEF m
  <2>2. e \in I
    BY <1>3, <2>1
  <2>3. e \in Nat
    BY <2>2, DStatesAssumption DEF I
  <2>4. link \in {<<>>} \cup ((1 .. n) \X Chars)
    BY DEF n
  <2>5. 1 .. n \subseteq I
    BY <1>2
  <2> QED
    BY <2>2, <2>3, <2>4, <2>5
<1>6. /\ Wiped(A, e) \in ArrowTable
      /\ \A x \in I : Wiped(A, e)[x] = IF x = e THEN Blank ELSE A[x]
      /\ Led(A, link, e) \in ArrowTable
      /\ \A x \in I : Led(A, link, e)[x] = Follows(A[x], link, x, e)
  BY <1>2, <1>5, WipedLed DEF I
<1>7. /\ Led(Wiped(A, e), link, e) \in ArrowTable
      /\ \A x \in I : Led(Wiped(A, e), link, e)[x] = Follows(Wiped(A, e)[x], link, x, e)
  <2> DEFINE W == Wiped(A, e)
  <2>1. W \in ArrowTable
    BY <1>6
  <2> HIDE DEF W
  <2>2. /\ Led(W, link, e) \in ArrowTable
        /\ \A x \in I : Led(W, link, e)[x] = Follows(W[x], link, x, e)
    BY <1>5, <2>1, WipedLed DEF I
  <2> QED
    BY <2>2 DEF W
<1>8. \A x, a : x \notin 1 .. n => Follows(a, link, x, e) = a
  BY DEF Linked, Follows, n
<1> DEFINE good == CacheStep(T, U, C, D, A, N, Members(l), e, link)
<1>9. ASSUME Hit(k, f, T, U, l, e, link) PROVE good
  <2>1. /\ e \in T /\ U = T /\ k.heap[e].l = l /\ m = n
        /\ \A x \in 1 .. n : f.heap[x].l = k.heap[x].l
        /\ \/ \A x \in 1 .. n : f.heap[x].next = k.heap[x].next
           \/ \A x \in 1 .. n : f.heap[x].next = Follows(k.heap[x].next, link, x, e)
    BY <1>9 DEF Hit, Follows, n, m
  <2>2. \A x \in I : D[x] = C[x]
    <3> TAKE x \in I
    <3>1. CASE x \in 1 .. n
      BY <1>2, <1>3, <2>1, <3>1
    <3>2. CASE x \notin 1 .. n
      BY <1>2, <1>3, <2>1, <3>2
    <3> QED
      BY <3>1, <3>2
  <2>3. D = C
    BY <1>4, <2>2
  <2>4. e \in 1 .. n
    BY <2>1 DEF n
  <2>5. C[e] = Members(l)
    BY <1>2, <2>1, <2>4
  <2>6. CASE \A x \in 1 .. n : f.heap[x].next = k.heap[x].next
    <3>1. \A x \in I : N[x] = A[x]
      BY <1>2, <1>3, <2>1, <2>6
    <3>2. N = A
      BY <1>2, <1>3, <3>1, SameTable DEF I
    <3> QED
      BY <2>1, <2>3, <2>5, <3>2 DEF CacheStep
  <2>7. CASE \A x \in 1 .. n : f.heap[x].next = Follows(k.heap[x].next, link, x, e)
    <3>1. \A x \in I : N[x] = Led(A, link, e)[x]
      <4> TAKE x \in I
      <4>1. CASE x \in 1 .. n
        BY <1>2, <1>3, <1>6, <2>1, <2>7, <4>1
      <4>2. CASE x \notin 1 .. n
        BY <1>2, <1>3, <1>6, <1>8, <2>1, <4>2
      <4> QED
        BY <4>1, <4>2
    <3>2. N = Led(A, link, e)
      BY <1>3, <1>6, <3>1, SameTable DEF I
    <3> QED
      BY <2>1, <2>3, <2>5, <3>2 DEF CacheStep
  <2> QED
    BY <2>1, <2>6, <2>7
<1>10. ASSUME Fresh(k, f, l, e) PROVE D = [C EXCEPT ![e] = Members(l)]
  <2>1. /\ 1 .. m = (1 .. n) \cup {e} /\ f.heap[e].l = l
        /\ \A x \in 1 .. n : x # e => f.heap[x].l = k.heap[x].l
    BY <1>10 DEF Fresh, n, m
  <2>2. \A x \in I : D[x] = IF x = e THEN Members(l) ELSE C[x]
    <3> TAKE x \in I
    <3>1. CASE x = e
      BY <1>3, <2>1, <3>1
    <3>2. CASE x # e /\ x \in 1 .. n
      <4>1. x \in 1 .. m /\ f.heap[x].l = k.heap[x].l
        BY <2>1, <3>2
      <4> QED
        BY <1>2, <1>3, <3>2, <4>1
    <3>3. CASE x # e /\ x \notin 1 .. n
      <4>1. x \notin 1 .. m
        BY <2>1, <3>3
      <4> QED
        BY <1>2, <1>3, <3>3, <4>1
    <3> QED
      BY <3>1, <3>2, <3>3
  <2> QED
    BY <1>4, <1>5, <2>2
<1>11. ASSUME Missed(k, f, T, U, l, e, link) PROVE good
  <2>1. /\ e \notin T /\ U = T \cup {e} /\ Fresh(k, f, l, e)
        /\ 1 .. m = (1 .. n) \cup {e}
        /\ \A x \in 1 .. m : f.heap[x].next = Follows(FreshArrows(k, e, x), link, x, e)
    BY <1>11 DEF Missed, Follows, Fresh, n, m
  <2>2. \A x \in I : N[x] = Led(Wiped(A, e), link, e)[x]
    <3> TAKE x \in I
    <3>1. CASE x \in 1 .. m
      <4>1. FreshArrows(k, e, x) = Wiped(A, e)[x]
        BY <1>2, <1>6, <2>1, <3>1 DEF FreshArrows, Blank
      <4> QED
        BY <1>3, <1>7, <2>1, <3>1, <4>1
    <3>2. CASE x \notin 1 .. m
      <4>1. x \notin 1 .. n /\ x # e
        BY <2>1, <3>2
      <4> QED
        BY <1>2, <1>3, <1>6, <1>7, <1>8, <3>2, <4>1
    <3> QED
      BY <3>1, <3>2
  <2>3. N = Led(Wiped(A, e), link, e)
    BY <1>3, <1>7, <2>2, SameTable DEF I
  <2> QED
    BY <1>10, <2>1, <2>3 DEF CacheStep
<1>12. ASSUME Renewed(k, f, U, l, e) PROVE good
  <2>1. /\ U = {e} /\ Fresh(k, f, l, e) /\ 1 .. m = (1 .. n) \cup {e}
        /\ \A x \in 1 .. m : f.heap[x].next = FreshArrows(k, e, x)
    BY <1>12 DEF Renewed, Fresh, n, m
  <2>2. \A x \in I : N[x] = Wiped(A, e)[x]
    <3> TAKE x \in I
    <3>1. CASE x \in 1 .. m
      BY <1>2, <1>3, <1>6, <2>1, <3>1 DEF FreshArrows, Blank
    <3>2. CASE x \notin 1 .. m
      BY <1>2, <1>3, <1>6, <2>1, <3>2
    <3> QED
      BY <3>1, <3>2
  <2>3. N = Wiped(A, e)
    BY <1>3, <1>6, <2>2, SameTable DEF I
  <2> QED
    BY <1>10, <2>1, <2>3 DEF CacheStep
<1>13. good
  <2> HIDE DEF good
  <2> QED
    BY <1>9, <1>11, <1>12 DEF Outcome
<1> QED
  BY <1>13 DEF C, D, A, N

-----------------------------------------------------------------------------
(* The actions of the abstract cache, in the terms of this one.             *)
SameStage == UNCHANGED <<nfa, ToMatch, verdicts>>

LEMMA ForgottenStart ==
  ASSUME Stage = "match", ToMatch # <<>>, Stage' = "scan", rest' = Head(ToMatch),
         Current' = StartSet(nfa), SameStage, d' = NULL, Live' = Live, Content' = Content,
         Arrows' = Arrows
  PROVE  Abstract!CacheBegin
  BY DEF Abstract!CacheBegin, Abstract!Begin, Abstract!Forget, SameStage

LEMMA ReckonedStart ==
  ASSUME Stage = "match", ToMatch # <<>>, Stage' = "scan", rest' = Head(ToMatch),
         Current' = StartSet(nfa), SameStage, d' \in DStates,
         CacheStep(Live, Live', Content, Content', Arrows, Arrows', Current', d', <<>>)
  PROVE  Abstract!CacheBegin
<1>1. Abstract!Begin
  BY DEF Abstract!Begin, SameStage
<1>2. \A A : Led(A, <<>>, d') = A
  BY DEF Led
<1>3. \/ Abstract!Found(Current', d') /\ Arrows' = Arrows
      \/ (Abstract!Added(Current', d') \/ Abstract!Restarted(Current', d'))
           /\ Arrows' = Abstract!Cleared(d')
  BY <1>2 DEF CacheStep, Abstract!Found, Abstract!Added, Abstract!Restarted, Abstract!Cleared,
              Abstract!NoArrows, Wiped
<1> QED
  BY <1>1, <1>3 DEF Abstract!CacheBegin

LEMMA ForgottenStep ==
  ASSUME Stage = "scan", rest # <<>>, Current' = StepSet(nfa, Current, Head(rest)),
         rest' = Tail(rest), SameStage, Stage' = Stage, d' = NULL, Live' = Live,
         Content' = Content, Arrows' = Arrows
  PROVE  Abstract!Compute
  BY DEF Abstract!Compute, Abstract!ReadChar, Abstract!Forget, SameStage

LEMMA ReckonedStep ==
  ASSUME Stage = "scan", rest # <<>>, Current' = StepSet(nfa, Current, Head(rest)),
         rest' = Tail(rest), SameStage, Stage' = Stage, d # NULL, d' \in DStates,
         CacheStep(Live, Live', Content, Content', Arrows, Arrows', Current', d',
                   <<d, Head(rest)>>)
  PROVE  Abstract!Compute
<1> DEFINE c == Head(rest)
<1>1. Abstract!ReadChar
  BY DEF Abstract!ReadChar, SameStage
<1>2. \A A : Led(A, <<d, c>>, d') = [A EXCEPT ![d][c] = d']
  BY DEF Led
<1>3. \/ Abstract!Found(Current', d') /\ (Arrows' = Arrows \/ Arrows' = [Arrows EXCEPT ![d][c] = d'])
      \/ /\ Abstract!Added(Current', d')
         /\ Arrows' = [Abstract!Cleared(d') EXCEPT ![d][c] = d']
      \/ Abstract!Restarted(Current', d') /\ Arrows' = Abstract!Cleared(d')
  BY <1>2 DEF CacheStep, Abstract!Found, Abstract!Added, Abstract!Restarted, Abstract!Cleared,
              Abstract!NoArrows, Wiped
<1>4. Abstract!Record(d')
  BY <1>3 DEF Abstract!Record
<1> QED
  BY <1>1, <1>4 DEF Abstract!Compute

LEMMA FollowedArrow ==
  ASSUME Stage = "scan", rest # <<>>, d # NULL, Arrows[d][Head(rest)] # NULL,
         d' = Arrows[d][Head(rest)], Current' = Content[d'], rest' = Tail(rest),
         SameStage, Stage' = Stage, Live' = Live, Content' = Content, Arrows' = Arrows
  PROVE  Abstract!Follow
  BY DEF Abstract!Follow, SameStage

LEMMA Answered ==
  ASSUME Stage = "scan", rest = <<>>, verdicts' = Append(verdicts, Accepting(nfa, Current)),
         ToMatch' = Tail(ToMatch), Stage' = "match", Current' = {}, nfa' = nfa, rest' = rest,
         d' = d, Live' = Live, Content' = Content, Arrows' = Arrows
  PROVE  Abstract!CacheAnswer
  BY DEF Abstract!CacheAnswer, Abstract!Answer, Abstract!cacheVars

-----------------------------------------------------------------------------
(* nfa.c keeps no DState.                                                   *)
Caching == Kept /\ (program = "nfa" => d = NULL)

LEMMA CachingAtFirst ==
  ASSUME Init
  PROVE  Caching
  BY KeptAtFirst DEF Init, Caching

LEMMA CachingStays ==
  ASSUME Caching, [Next]_vars
  PROVE  Caching'
<1>1. Kept'
  BY KeptStays DEF Caching
<1>2. program' = "nfa" => d' = NULL
  <2>1. CASE MatchStart
    BY <2>1 DEF MatchStart, Caching
  <2>2. CASE NfaStep
    BY <2>2 DEF NfaStep, Caching
  <2>3. CASE DfaFollow
    BY <2>3 DEF DfaFollow, Caching
  <2>4. CASE DfaNextState
    BY <2>4 DEF DfaNextState, Caching
  <2>5. CASE MatchReturn
    BY <2>5 DEF MatchReturn, Caching
  <2>6. CASE UNCHANGED vars
    BY <2>6 DEF vars, Caching
  <2> QED
    BY <2>1, <2>2, <2>3, <2>4, <2>5, <2>6 DEF Next
<1> QED
  BY <1>1, <1>2 DEF Caching

(* What the mapping says of a state of the invariant.                       *)
LEMMA CacheSeen ==
  /\ Content = ContentOf(cache.heap) /\ Arrows = ArrowsOf(cache.heap)
  /\ Content' = ContentOf(cache'.heap) /\ Arrows' = ArrowsOf(cache'.heap)
  BY DEF Content, Arrows, ContentOf, ArrowsOf

LEMMA CacheKept ==
  ASSUME cache' = cache
  PROVE  Live' = Live /\ Content' = Content /\ Arrows' = Arrows
  BY DEF Live, Content, Arrows

LEMMA LiveIs ==
  ASSUME NEW T, InPlace(T), CacheOf(cache)
  PROVE  Live = T /\ T \subseteq 1 .. Len(cache.heap)
  BY StoredIsLive DEF InPlace, Live

(* Both kinds of matcher: the set that stands for the current list.         *)
LEMMA CurrentIs ==
  ASSUME Typed, phase = "scan"
  PROVE  /\ CurrentList \in Seq(DOMAIN nfa.nodes) /\ StateList(CurrentList)
         /\ Current = Members(CurrentList)
<1>1. StateList(CurrentList)
  <2>1. CASE program = "nfa"
    <3>1. lists.l1 \in Lists /\ lists.l2 \in Lists /\ clist \in {"l1", "l2"}
      BY DEF Typed, Data, Progress
    <3> QED
      BY <2>1, <3>1 DEF CurrentList, Lists
  <2>2. CASE program # "nfa"
    <3>1. HeapOf(cache.heap) /\ d \in 1 .. Len(cache.heap)
      <4>1. d \in 0 .. Len(cache.heap) /\ d # NULL /\ HeapOf(cache.heap)
        BY <2>2 DEF Typed, Data, Progress, CacheOf
      <4> QED
        BY <4>1 DEF HeapOf, NULL
    <3>2. StateList(cache.heap[d].l)
      BY <3>1, HeapParts
    <3> QED
      BY <2>2, <3>2 DEF CurrentList
  <2> QED
    BY <2>1, <2>2
<1>2. CurrentList \in Seq(DOMAIN nfa.nodes)
  BY <1>1 DEF StateList
<1> QED
  BY <1>1, <1>2, ToSetIsMembers DEF Current

-----------------------------------------------------------------------------
(* Each action of the matchers is one of the abstract cache.                *)
LEMMA DStateIsCacheStep ==
  ASSUME Automaton(nfa), CacheOf(cache), NEW list, StateList(list),
         NEW link \in {<<>>} \cup ((1 .. Len(cache.heap)) \X Chars),
         NEW T, InPlace(T), program # "nfa", UNCHANGED <<nfa, program>>,
         d' = DState(list, link)[1], cache' = DState(list, link)[2],
         Fits(cache.heap), Fits(cache'.heap), phase' = "scan"
  PROVE  /\ Current' = Members(list) /\ d' \in DStates
         /\ CacheStep(Live, Live', Content, Content', Arrows, Arrows', Current', d', link)
<1> DEFINE r == DState(list, link)
           l == Qsort(list)
<1>1. PICK U : /\ Outcome(cache, r[2], T, U, l, r[1], link)
               /\ \E B, F : Stored(r[2], U, B, F)
               /\ ListHeap(r[2].heap) /\ ArrowsIn(r[2].heap, U) /\ r[1] \in U
               /\ program = "dfa1" => r[2].nstates <= MAXSTATES
  <2> HIDE DEF r, l
  <2>1. r = DState(list, link)
    BY DEF r
  <2> QED
    BY <2>1, DStateInPlace DEF l
<1>2. CacheOf(r[2]) /\ r[1] \in 1 .. Len(r[2].heap)
  BY DStateTyped
<1>3. cache' = r[2] /\ d' = r[1]
  OBVIOUS
<1> HIDE DEF r
<1>4. /\ Outcome(cache, cache', T, U, l, d', link) /\ CacheOf(cache')
      /\ \E B, F : Stored(cache', U, B, F)
      /\ ListHeap(cache'.heap) /\ d' \in 1 .. Len(cache'.heap)
  BY <1>1, <1>2, <1>3
<1>5. Live = T /\ T \subseteq 1 .. Len(cache.heap)
  BY LiveIs
<1>6. Live' = U
  <2> DEFINE k == cache'
  <2>1. CacheOf(k) /\ ListHeap(k.heap) /\ \E B, F : Stored(k, U, B, F)
    BY <1>4
  <2> HIDE DEF k
  <2>2. Cached(k.heap, k.alldstates) = U
    BY <2>1, StoredIsLive
  <2> QED
    BY <2>2 DEF k, Live
<1>7. StateList(l) /\ l \in Seq(DOMAIN nfa.nodes) /\ Members(l) = Members(list)
  <2>1. StateList(l)
    BY SortedList
  <2>2. l \in Seq(DOMAIN nfa.nodes) /\ list \in Seq(DOMAIN nfa.nodes)
    BY <2>1 DEF StateList
  <2> QED
    BY <2>1, <2>2, SortedMembers
<1> HIDE DEF l
<1>8. cache'.heap[d'].l = l
  <2> DEFINE f == cache'
             e == d'
  <2>1. Outcome(cache, f, T, U, l, e, link)
    BY <1>4
  <2> HIDE DEF f, e
  <2>2. f.heap[e].l = l
    BY <1>5, <2>1, OutcomeList
  <2> QED
    BY <2>2 DEF f, e
<1>9. Current' = Members(list)
  <2>1. CurrentList' = cache'.heap[d'].l
    BY DEF CurrentList
  <2>2. Current' = ToSet(CurrentList')
    BY DEF Current
  <2>3. ToSet(l) = Members(l)
    BY <1>7, ToSetIsMembers
  <2> QED
    BY <1>7, <1>8, <2>1, <2>2, <2>3
<1>10. CacheStep(T, U, ContentOf(cache.heap), ContentOf(cache'.heap), ArrowsOf(cache.heap),
                 ArrowsOf(cache'.heap), Members(l), d', link)
  <2> DEFINE f == cache'
             e == d'
  <2>1. /\ Outcome(cache, f, T, U, l, e, link) /\ CacheOf(f) /\ e \in 1 .. Len(f.heap)
        /\ Fits(f.heap)
    BY <1>4
  <2> HIDE DEF f, e
  <2>2. CacheStep(T, U, ContentOf(cache.heap), ContentOf(f.heap), ArrowsOf(cache.heap),
                  ArrowsOf(f.heap), Members(l), e, link)
    BY <1>5, <2>1, OutcomeIsCacheStep
  <2> QED
    BY <2>2 DEF f, e
<1>11. d' \in DStates
  BY <1>4 DEF Fits
<1> QED
  BY <1>5, <1>6, <1>7, <1>9, <1>10, <1>11, CacheSeen

(* match: the abstract cache starts an answer.                             *)
LEMMA MatchStartImplements ==
  ASSUME Caching, MatchStart,
         Fits(cache.heap), Fits(cache'.heap)
  PROVE  Abstract!CacheBegin
<1> DEFINE q == StartList
<1>1. Typed /\ phase = "match"
  BY DEF Caching, Kept, MatchStart
<1>2. Automaton(nfa) /\ Marks /\ CacheOf(cache)
  BY <1>1 DEF Typed, Data
<1>3. /\ Stage = "match" /\ ToMatch = words /\ words # <<>> /\ Stage' = "scan"
      /\ rest' = Head(words) /\ SameStage /\ phase' = "scan" /\ program' = program /\ nfa' = nfa
  BY DEF MatchStart, Stage, ToMatch, SameStage
<1>4. StateList(q.l) /\ Members(q.l) = StartSet(nfa) /\ q.l \in Seq(DOMAIN nfa.nodes)
  BY <1>2, StartListIsGood, StartListIs DEF StateList
<1>5. CASE program = "nfa"
  <2>1. d' = NULL /\ cache' = cache /\ lists' = [lists EXCEPT !.l1 = q.l] /\ clist' = "l1"
    BY <1>5 DEF MatchStart, Caching
  <2>2. lists \in [l1 : Lists, l2 : Lists]
    BY <1>1 DEF Typed, Data
  <2> HIDE DEF q
  <2>3. lists'.l1 = q.l
    BY <2>1, <2>2
  <2>4. CurrentList' = lists'[clist']
    BY <1>3, <1>5 DEF CurrentList
  <2>5. CurrentList' = q.l
    BY <2>1, <2>3, <2>4
  <2>6. Current' = ToSet(CurrentList')
    BY <1>3 DEF Current
  <2>7. Current' = StartSet(nfa)
    BY <1>4, <2>5, <2>6, ToSetIsMembers
  <2> QED
    BY <1>3, <2>1, <2>7, CacheKept, ForgottenStart
<1>6. CASE program # "nfa"
  <2> DEFINE list == q.l
             link == <<>>
  <2>1. d' = DState(list, link)[1] /\ cache' = DState(list, link)[2]
    BY <1>6 DEF MatchStart
  <2>2. PICK T : InPlace(T)
    BY DEF Caching, Kept
  <2>3. link \in {<<>>} \cup ((1 .. Len(cache.heap)) \X Chars)
    OBVIOUS
  <2> HIDE DEF q, link
  <2>4. /\ Current' = Members(list) /\ d' \in DStates
        /\ CacheStep(Live, Live', Content, Content', Arrows, Arrows', Current', d', link)
    <3> HIDE DEF list
    <3>1. StateList(list)
      BY <1>4 DEF list
    <3> QED
      BY <1>2, <1>3, <1>6, <2>1, <2>2, <2>3, <3>1, DStateIsCacheStep
  <2>5. Current' = StartSet(nfa)
    BY <1>4, <2>4
  <2> QED
    BY <1>3, <2>4, <2>5, ReckonedStart DEF link
<1> QED
  BY <1>5, <1>6

(* step of nfa.c: the abstract cache follows an arrow it does not hold.    *)
LEMMA NfaStepImplements ==
  ASSUME Caching, NfaStep
  PROVE  Abstract!Compute
<1> DEFINE from == lists[clist]
           q == StepList(from, Head(rest))
           nlist == IF clist = "l1" THEN "l2" ELSE "l1"
<1>1. Typed /\ phase = "scan" /\ program = "nfa"
  BY DEF Caching, Kept, NfaStep
<1>2. Automaton(nfa) /\ Marks
  BY <1>1 DEF Typed, Data
<1>3. /\ Stage = "scan" /\ rest # <<>> /\ Stage' = Stage /\ phase' = "scan"
      /\ rest' = Tail(rest) /\ SameStage /\ nfa' = nfa
      /\ program' = "nfa" /\ cache' = cache /\ d' = NULL
      /\ lists' = [lists EXCEPT ![nlist] = q.l] /\ clist' = nlist
  BY DEF NfaStep, Stage, ToMatch, SameStage, Caching
<1>4. CurrentList = from
  BY <1>1 DEF CurrentList
<1>5. StateList(from) /\ from \in Seq(DOMAIN nfa.nodes) /\ Current = Members(from)
  BY <1>1, <1>4, CurrentIs
<1> DEFINE c == Head(rest)
<1> HIDE DEF from, c
<1>6. Members(q.l) = StepSet(nfa, Members(from), c) /\ q.l \in Seq(DOMAIN nfa.nodes)
  <2>1. Members(StepList(from, c).l) = StepSet(nfa, Members(from), c)
    BY <1>2, <1>5, StepListIs
  <2>2. StateList(StepList(from, c).l)
    BY <1>2, <1>5, StepListIsGood
  <2> QED
    BY <2>1, <2>2 DEF StateList, c
<1> HIDE DEF q
<1>7. CurrentList' = q.l
  <2>1. CurrentList' = lists'[clist']
    BY <1>3 DEF CurrentList
  <2>2. lists \in [l1 : Lists, l2 : Lists] /\ nlist \in {"l1", "l2"}
    BY <1>1 DEF Typed, Data
  <2>3. lists'[nlist] = q.l
    BY <1>3, <2>2
  <2> QED
    BY <1>3, <2>1, <2>3
<1>8. Current' = StepSet(nfa, Current, Head(rest))
  <2>1. Current' = ToSet(CurrentList')
    BY <1>3 DEF Current
  <2>2. ToSet(q.l) = Members(q.l)
    BY <1>6, ToSetIsMembers
  <2> QED
    BY <1>5, <1>6, <1>7, <2>1, <2>2 DEF c
<1> QED
  BY <1>3, <1>8, CacheKept, ForgottenStep

(* An arrow of a DState that is not null is one the abstract cache holds.  *)
LEMMA DfaFollowImplements ==
  ASSUME Caching, DfaFollow, Fits(cache.heap)
  PROVE  Abstract!Follow
<1>1. Typed /\ phase = "scan" /\ program # "nfa"
  BY DEF Caching, Kept, DfaFollow
<1>2. CacheOf(cache) /\ HeapOf(cache.heap) /\ Automaton(nfa)
  BY <1>1 DEF Typed, Data, CacheOf
<1>3. /\ Stage = "scan" /\ rest # <<>> /\ Stage' = Stage /\ phase' = "scan"
      /\ rest' = Tail(rest) /\ SameStage /\ nfa' = nfa /\ program' = program /\ cache' = cache
      /\ cache.heap[d].next[Head(rest)] # NULL /\ d' = cache.heap[d].next[Head(rest)]
  BY DEF DfaFollow, Stage, ToMatch, SameStage
<1>4. d # NULL /\ d \in 1 .. Len(cache.heap) /\ Head(rest) \in Chars
  <2>1. d # NULL /\ d \in 0 .. Len(cache.heap) /\ rest \in Seq(Chars)
    BY <1>1 DEF Typed, Progress, Data
  <2>2. d \in 1 .. Len(cache.heap)
    BY <1>2, <2>1 DEF HeapOf, NULL
  <2> QED
    BY <1>3, <2>1, <2>2, HeadTail
<1>5. Arrows[d] = cache.heap[d].next
  BY <1>2, <1>4, SeenOf, CacheSeen
<1>6. d' \in 1 .. Len(cache.heap)
  <2>1. cache.heap[d].next \in [Chars -> 0 .. Len(cache.heap)]
    BY <1>2, <1>4, HeapParts
  <2>2. d' \in 0 .. Len(cache.heap) /\ d' # NULL
    BY <1>3, <1>4, <2>1
  <2> QED
    BY <1>2, <2>2 DEF HeapOf, NULL
<1>7. Content[d'] = Members(cache.heap[d'].l)
  BY <1>2, <1>6, SeenOf, CacheSeen
<1>8. Current' = Content[d']
  <2>1. CurrentList' = cache.heap[d'].l
    BY <1>1, <1>3 DEF CurrentList
  <2>2. Current' = ToSet(CurrentList')
    BY <1>3 DEF Current
  <2>3. cache.heap[d'].l \in Seq(DOMAIN nfa.nodes)
    BY <1>2, <1>6, HeapParts DEF Lists
  <2> QED
    BY <1>7, <2>1, <2>2, <2>3, ToSetIsMembers
<1> QED
  BY <1>3, <1>4, <1>5, <1>8, CacheKept, FollowedArrow

(* nextstate: the abstract cache computes, stores and follows an arrow.    *)
LEMMA DfaNextStateImplements ==
  ASSUME Caching, DfaNextState,
         Fits(cache.heap), Fits(cache'.heap)
  PROVE  Abstract!Compute
<1> DEFINE from == cache.heap[d].l
           c == Head(rest)
           q == StepList(from, c)
           list == q.l
           link == <<d, c>>
<1>1. Typed /\ phase = "scan" /\ program # "nfa"
  BY DEF Caching, Kept, DfaNextState
<1>2. CacheOf(cache) /\ HeapOf(cache.heap) /\ Automaton(nfa) /\ Marks
  BY <1>1 DEF Typed, Data, CacheOf
<1>3. /\ Stage = "scan" /\ rest # <<>> /\ Stage' = Stage /\ phase' = "scan"
      /\ rest' = Tail(rest) /\ SameStage /\ nfa' = nfa /\ program' = program
      /\ d' = DState(list, link)[1] /\ cache' = DState(list, link)[2]
  BY DEF DfaNextState, Stage, ToMatch, SameStage
<1>4. d # NULL /\ d \in 1 .. Len(cache.heap) /\ c \in Chars
  <2>1. d # NULL /\ d \in 0 .. Len(cache.heap) /\ rest \in Seq(Chars)
    BY <1>1 DEF Typed, Progress, Data
  <2>2. d \in 1 .. Len(cache.heap)
    BY <1>2, <2>1 DEF HeapOf, NULL
  <2> QED
    BY <1>3, <2>1, <2>2, HeadTail
<1>5. CurrentList = from
  BY <1>1 DEF CurrentList
<1>6. StateList(from) /\ from \in Seq(DOMAIN nfa.nodes) /\ Current = Members(from)
  BY <1>1, <1>5, CurrentIs
<1> HIDE DEF from, c
<1>7. Members(list) = StepSet(nfa, Members(from), c) /\ StateList(list)
  BY <1>2, <1>6, StepListIs, StepListIsGood
<1>8. link \in {<<>>} \cup ((1 .. Len(cache.heap)) \X Chars)
  BY <1>4
<1>9. PICK T : InPlace(T)
  BY DEF Caching, Kept
<1> HIDE DEF list, link, q
<1>10. /\ Current' = Members(list) /\ d' \in DStates
       /\ CacheStep(Live, Live', Content, Content', Arrows, Arrows', Current', d', link)
  BY <1>1, <1>2, <1>3, <1>7, <1>8, <1>9, DStateIsCacheStep
<1>11. Current' = StepSet(nfa, Current, Head(rest))
  BY <1>6, <1>7, <1>10 DEF c
<1> QED
  BY <1>3, <1>4, <1>10, <1>11, ReckonedStep DEF link, c

(* ismatch: the abstract cache answers.                                    *)
LEMMA MatchReturnImplements ==
  ASSUME Caching, MatchReturn
  PROVE  Abstract!CacheAnswer
<1>1. Typed /\ phase = "scan"
  BY DEF Caching, Kept, MatchReturn
<1>2. /\ Stage = "scan" /\ rest = <<>> /\ Stage' = "match" /\ Current' = {}
      /\ ToMatch = words /\ ToMatch' = Tail(words) /\ nfa' = nfa /\ rest' = rest
      /\ d' = d /\ cache' = cache /\ verdicts' = Append(verdicts, IsMatch(CurrentList))
  BY DEF MatchReturn, Stage, ToMatch, Current
<1>3. IsMatch(CurrentList) = Accepting(nfa, Current)
  <2>1. CurrentList \in Seq(DOMAIN nfa.nodes) /\ Current = Members(CurrentList)
    BY <1>1, CurrentIs
  <2>2. DOMAIN CurrentList = 1 .. Len(CurrentList)
    BY <2>1
  <2> HIDE DEF CurrentList
  <2>3. IsMatch(CurrentList) <=> MATCHSTATE \in Members(CurrentList)
    BY <2>2 DEF IsMatch, Members
  <2>4. IsMatch(CurrentList) \in BOOLEAN /\ Accepting(nfa, Current) \in BOOLEAN
    BY DEF IsMatch, Accepting
  <2> QED
    BY <2>1, <2>3, <2>4 DEF Accepting
<1> QED
  BY <1>2, <1>3, CacheKept, Answered

-----------------------------------------------------------------------------
(* With fewer than maxstates DStates in the tree there is a free one, or    *)
(* room for another.                                                        *)
LEMMA AllocBounded ==
  ASSUME NEW k, CacheOf(k), NEW l \in Lists, NEW T, NEW B, NEW F, Stored(k, T, B, F),
         Len(k.heap) <= MAXSTATES, Cardinality(T) < MAXSTATES
  PROVE  Len(AllocDState(k, l)[2].heap) <= MAXSTATES
<1> DEFINE n == Len(k.heap)
           m == Len(AllocDState(k, l)[2].heap)
<1>1. n \in Nat /\ MAXSTATES \in Nat
  BY MatchAssumption DEF CacheOf, HeapOf
<1>2. m = n \/ (k.freelist = NULL /\ m = n + 1)
  BY AllocParts
<1>3. ASSUME k.freelist = NULL PROVE n < MAXSTATES
  <2>1. F \in Seq(1 .. n) /\ Threaded(k.heap, k.freelist, F) /\ T \cup Members(F) = 1 .. n
    BY DEF Stored
  <2>2. F = <<>>
    <3>1. F # <<>> => F[1] \in 1 .. n
      BY <2>1
    <3>2. F # <<>> => F[1] = NULL
      BY <1>3, <2>1 DEF Threaded
    <3> QED
      BY <1>1, <3>1, <3>2 DEF NULL
  <2>3. Members(F) = {}
    <3>1. Len(<<>>) = 0 /\ 1 .. 0 = {}
      OBVIOUS
    <3> QED
      BY <2>2, <3>1 DEF Members
  <2>4. Cardinality(1 .. n) = n
    BY <1>1, CountTo
  <2>5. T = 1 .. n
    BY <2>1, <2>3
  <2> QED
    BY <2>4, <2>5
<1> HIDE DEF n, m
<1>4. n <= MAXSTATES
  BY DEF n
<1>5. m <= MAXSTATES
  BY <1>1, <1>2, <1>3, <1>4
<1> QED
  BY <1>5 DEF m

(* dfa1.c's dstate leaves at most maxstates DStates in the heap.           *)
LEMMA DState1Bounded ==
  ASSUME CacheOf(cache), Automaton(nfa), NEW list, StateList(list),
         NEW link \in {<<>>} \cup ((1 .. Len(cache.heap)) \X Chars),
         NEW T, NEW B, NEW F, Stored(cache, T, B, F), Len(cache.heap) <= MAXSTATES
  PROVE  Len(DState1(list, link)[2].heap) <= MAXSTATES
<1> DEFINE l == Qsort(list)
           found == Search(cache.heap, l, cache.alldstates)
           full == cache.nstates >= MAXSTATES
           base == IF full THEN FreeCache(cache) ELSE cache
           new == AllocDState(base, l)
           e == new[1]
           at == IF full THEN <<>> ELSE found.at
           k == Hang(new[2], at, e)
           f == Link(k, full, link, e)
<1>1. l \in Lists
  BY SortedList DEF Lists, StateList
<1>2. found \in Finds(Len(cache.heap)) /\ HeapOf(cache.heap) /\ ListHeap(cache.heap)
  BY SearchTyped, HeapHasLists DEF CacheOf
<1>3. CacheOf(base) /\ Len(base.heap) = Len(cache.heap)
  BY FreeCacheParts
<1>4. DState1(list, link) = IF found.d # NULL THEN <<found.d, cache>> ELSE <<e, f>>
  BY DEF DState1
<1> HIDE DEF l, found
<1>5. \E U, C, G : Stored(base, U, C, G) /\ Cardinality(U) < MAXSTATES
  <2>1. CASE full
    <3>1. Stored(base, {}, [x \in {} |-> {}], TreeList(cache.heap, cache.alldstates) \o F)
      BY <1>2, <2>1, FreeCacheStored
    <3>2. Cardinality({}) < MAXSTATES
      BY FS_EmptySet, MatchAssumption
    <3> QED
      BY <3>1, <3>2
  <2>2. CASE ~full
    <3>1. cache.nstates \in Nat /\ cache.nstates = Cardinality(T)
      BY DEF CacheOf, Stored
    <3>2. Cardinality(T) < MAXSTATES
      <4> DEFINE a == cache.nstates
      <4>1. a \in Nat /\ a = Cardinality(T) /\ ~(a >= MAXSTATES) /\ MAXSTATES \in Nat
        BY <2>2, <3>1, MatchAssumption
      <4> HIDE DEF a
      <4> QED
        BY <4>1
    <3> QED
      BY <2>2, <3>2
  <2> QED
    BY <2>1, <2>2
<1> HIDE DEF base
<1>6. Len(new[2].heap) <= MAXSTATES
  <2>1. PICK U, C, G : Stored(base, U, C, G) /\ Cardinality(U) < MAXSTATES
    BY <1>5
  <2> QED
    BY <1>1, <1>3, <2>1, AllocBounded
<1>7. CacheOf(new[2]) /\ e \in 1 .. Len(new[2].heap) /\ Len(new[2].heap) >= Len(cache.heap)
  <2>1. Len(base.heap) \in Nat
    BY <1>3 DEF CacheOf, HeapOf
  <2> QED
    BY <1>1, <1>3, <2>1, AllocParts
<1>8. /\ at \in {<<>>} \cup ((1 .. Len(new[2].heap)) \X {"left", "right"})
      /\ link \in {<<>>} \cup ((1 .. Len(new[2].heap)) \X Chars)
  <2>1. \A x \in 1 .. Len(cache.heap) : x \in 1 .. Len(new[2].heap)
    BY <1>2, <1>7 DEF CacheOf, HeapOf
  <2> QED
    BY <1>2, <2>1 DEF Finds
<1> HIDE DEF new, at
<1>9. CacheOf(k) /\ Len(k.heap) = Len(new[2].heap)
  BY <1>7, <1>8, HangParts
<1> HIDE DEF k
<1>10. Len(f.heap) = Len(k.heap)
  <2>1. full \in BOOLEAN
    OBVIOUS
  <2> HIDE DEF full, e
  <2> QED
    BY <1>7, <1>8, <1>9, <2>1, LinkParts DEF e
<1> HIDE DEF f, e
<1>11. CASE found.d # NULL
  BY <1>4, <1>11
<1>12. CASE found.d = NULL
  BY <1>4, <1>6, <1>9, <1>10, <1>12
<1> QED
  BY <1>11, <1>12

LEMMA BoundedAtFirst ==
  ASSUME Init
  PROVE  Bounded
<1>1. cache.heap = <<>>
  BY DEF Init
<1>2. Len(<<>>) = 0
  OBVIOUS
<1> QED
  BY <1>1, <1>2, MatchAssumption DEF Bounded

LEMMA BoundedStays ==
  ASSUME Kept, Bounded, [Next]_vars
  PROVE  Bounded'
<1>1. Typed
  BY DEF Kept
<1>2. PICK T, B, F : Stored(cache, T, B, F)
  BY DEF Kept, InPlace
<1>3. ASSUME cache' = cache, program' = program PROVE Bounded'
  BY <1>3 DEF Bounded
<1>4. ASSUME NEW list, StateList(list), phase # "exit",
             NEW link \in {<<>>} \cup ((1 .. Len(cache.heap)) \X Chars),
             cache' = DState(list, link)[2], program' = program
      PROVE  Bounded'
  <2>1. CacheOf(cache) /\ Automaton(nfa)
    BY <1>1, <1>4 DEF Typed, Data
  <2>2. CASE program = "dfa1"
    <3>1. cache' = DState1(list, link)[2]
      BY <1>4, <2>2 DEF DState
    <3>2. Len(DState1(list, link)[2].heap) <= MAXSTATES
      BY <1>2, <1>4, <2>1, <2>2, DState1Bounded DEF Bounded
    <3> QED
      BY <3>1, <3>2 DEF Bounded
  <2> QED
    BY <1>4, <2>2 DEF Bounded
<1>5. CASE MatchStart
  <2>1. CASE program = "nfa"
    BY <1>3, <1>5, <2>1 DEF MatchStart
  <2>2. CASE program # "nfa"
    <3> DEFINE list == StartList.l
               link == <<>>
    <3>1. phase # "exit" /\ program' = program /\ cache' = DState(list, link)[2]
      BY <1>5, <2>2 DEF MatchStart
    <3>2. StateList(list)
      BY <1>1, <3>1, StartListIsGood DEF Typed, Data
    <3>3. link \in {<<>>} \cup ((1 .. Len(cache.heap)) \X Chars)
      OBVIOUS
    <3> HIDE DEF list, link
    <3> QED
      BY <1>4, <3>1, <3>2, <3>3
  <2> QED
    BY <2>1, <2>2
<1>6. CASE NfaStep
  BY <1>3, <1>6 DEF NfaStep
<1>7. CASE DfaFollow
  BY <1>3, <1>7 DEF DfaFollow
<1>8. CASE DfaNextState
  <2> DEFINE c == Head(rest)
             from == cache.heap[d].l
             list == StepList(from, c).l
             link == <<d, c>>
  <2>1. /\ phase # "exit" /\ program' = program /\ cache' = DState(list, link)[2]
        /\ program # "nfa" /\ rest \in Seq(Chars) /\ rest # <<>>
        /\ d # NULL /\ d \in 0 .. Len(cache.heap)
        /\ CacheOf(cache) /\ Automaton(nfa) /\ Marks /\ HeapOf(cache.heap)
    BY <1>1, <1>8 DEF DfaNextState, Typed, Progress, Data, CacheOf
  <2>2. c \in Chars /\ d \in 1 .. Len(cache.heap)
    BY <2>1, HeadTail DEF NULL, HeapOf
  <2>3. StateList(from)
    BY <2>1, <2>2, HeapParts
  <2> HIDE DEF c, from
  <2>4. StateList(list)
    BY <2>1, <2>3, StepListIsGood
  <2>5. link \in {<<>>} \cup ((1 .. Len(cache.heap)) \X Chars)
    BY <2>2
  <2> HIDE DEF list, link
  <2> QED
    BY <1>4, <2>1, <2>4, <2>5
<1>9. CASE MatchReturn
  BY <1>3, <1>9 DEF MatchReturn
<1>10. CASE UNCHANGED vars
  BY <1>3, <1>10 DEF vars
<1> QED
  BY <1>5, <1>6, <1>7, <1>8, <1>9, <1>10 DEF Next

(* For every pattern and every maxstates: each DState of the heap is in the *)
(* tree once or on the free list once, a search finds every list of the     *)
(* tree, nstates counts it, dfa1 allocates at most maxstates DStates, and d *)
(* was not freed (dstate, freecache, freestates, allocdstate, nextstate).   *)
THEOREM EveryStateInOnePlace == Spec => []StatesInOnePlace
<1>1. Init => Kept /\ Bounded
  BY KeptAtFirst, BoundedAtFirst
<1>2. Kept /\ Bounded /\ [Next]_vars => (Kept /\ Bounded)'
  BY KeptStays, BoundedStays
<1>3. Kept /\ Bounded => StatesInOnePlace
  BY KeptIsStatesInOnePlace
<1> QED
  BY <1>1, <1>2, <1>3, PTL DEF Spec

-----------------------------------------------------------------------------
(* The refinement.                                                          *)
LEMMA InitImplements ==
  ASSUME Init
  PROVE  Abstract!Init
<1>1. /\ cache = [heap |-> <<>>, alldstates |-> NULL, freelist |-> NULL, nstates |-> 0]
      /\ d = NULL /\ words = Argv /\ rest = <<>> /\ verdicts = <<>> /\ phase \in {"match", "exit"}
  BY DEF Init
<1>2. cache.heap = <<>> /\ cache.alldstates = NULL /\ DOMAIN cache.heap = {} /\ Len(cache.heap) = 0
  BY <1>1
<1>3. Stage = "match" /\ Current = {} /\ ToMatch \in Seq(Seq(Chars))
  BY <1>1, MatchAssumption DEF Stage, Current, ToMatch
<1>4. Content = [e \in DStates |-> {}] /\ Arrows = [e \in DStates |-> [c \in Chars |-> NULL]]
  BY <1>2 DEF Content, Arrows
<1>5. Live = {}
  <2>1. Typed
    BY TypedAtFirst
  <2>2. HeapOf(cache.heap) /\ NULL \in 0 .. Len(cache.heap)
    BY <1>2, <2>1 DEF Typed, Data, CacheOf, NULL
  <2>3. Reached(Cached(cache.heap, NULL), 1 .. Len(cache.heap), {NULL} \ {NULL}, Downward(cache.heap))
    BY <2>2, CachedReached
  <2>4. Cached(cache.heap, NULL) \subseteq 1 .. 0
    BY <1>2, <2>3 DEF Reached
  <2> QED
    BY <1>2, <2>4 DEF Live
<1> QED
  BY <1>1, <1>3, <1>4, <1>5 DEF Abstract!Init, Abstract!MatchInit, Abstract!NoArrows

(* Every step of the programs is a step of the abstract cache or a stutter.*)
LEMMA StepImplements ==
  ASSUME Caching, [Next]_vars,
         Fits(cache.heap), Fits(cache'.heap)
  PROVE  [Abstract!Next]_(Abstract!vars)
<1>1. CASE MatchStart
  BY <1>1, MatchStartImplements DEF Abstract!Next
<1>2. CASE NfaStep
  BY <1>2, NfaStepImplements DEF Abstract!Next
<1>3. CASE DfaFollow
  BY <1>3, DfaFollowImplements DEF Abstract!Next
<1>4. CASE DfaNextState
  BY <1>4, DfaNextStateImplements DEF Abstract!Next
<1>5. CASE MatchReturn
  BY <1>5, MatchReturnImplements DEF Abstract!Next
<1>6. CASE UNCHANGED vars
  <2>1. /\ nfa' = nfa /\ ToMatch' = ToMatch /\ Stage' = Stage /\ rest' = rest /\ Current' = Current
        /\ verdicts' = verdicts /\ d' = d /\ cache' = cache
    BY <1>6 DEF vars, ToMatch, Stage, Current, CurrentList
  <2> QED
    BY <2>1, CacheKept DEF Abstract!vars, Abstract!matchVars, Abstract!cacheVars
<1> QED
  BY <1>1, <1>2, <1>3, <1>4, <1>5, <1>6 DEF Next

(* The implementation, as long as the abstract cache sees all of the heap.  *)
LEMMA MatchersImplement == Spec /\ []Fits(cache.heap) => Abstract!Spec
<1> DEFINE fits == Fits(cache.heap)
<1>1. Init => Abstract!Init
  BY InitImplements
<1>2. Init => Caching
  BY CachingAtFirst
<1>3. Caching /\ [Next]_vars => Caching'
  BY CachingStays
<1>4. Caching /\ fits /\ fits' /\ [Next]_vars => [Abstract!Next]_(Abstract!vars)
  BY StepImplements
<1> HIDE DEF fits
<1>5. Spec /\ []fits => Abstract!Spec
  BY <1>1, <1>2, <1>3, <1>4, PTL DEF Spec, Abstract!Spec
<1> QED
  BY <1>5 DEF fits

(* For every pattern, alphabet, maxstates and command line, the three       *)
(* programs implement the abstract cache over all the DStates there could   *)
(* be: each step reads an arrow that is still valid or computes the set of  *)
(* states one character on (step, nextstate, dstate, freecache, match).     *)
THEOREM MatchersImplementCache ==
  ASSUME DStates = Nat \ {NULL}
  PROVE  Spec => ImplementsCache
<1> DEFINE fits == Fits(cache.heap)
<1>1. fits
  BY DEF Fits, NULL
<1> HIDE DEF fits
<1>2. []fits
  BY <1>1, PTL
<1>3. Spec /\ []fits => ImplementsCache
  BY MatchersImplement DEF fits, ImplementsCache
<1> QED
  BY <1>2, <1>3, PTL

(* nfa.c has no DStates, dfa1.c no more than maxstates of them.             *)
Small ==
  /\ program \in Programs /\ Bounded
  /\ program = "nfa" => cache.heap = <<>>

LEMMA SmallStays ==
  ASSUME Kept, Small, [Next]_vars
  PROVE  Small'
<1>1. Bounded'
  BY BoundedStays DEF Small
<1>2. program' = program
  BY DEF Next, MatchStart, NfaStep, DfaFollow, DfaNextState, MatchReturn, vars
<1>3. program = "nfa" => cache' = cache
  BY DEF Next, MatchStart, NfaStep, DfaFollow, DfaNextState, MatchReturn, vars
<1> QED
  BY <1>1, <1>2, <1>3 DEF Small

LEMMA SmallFits ==
  ASSUME Kept, Small, 1 .. MAXSTATES \subseteq DStates, Programs \subseteq {"nfa", "dfa1"}
  PROVE  Fits(cache.heap)
<1> DEFINE n == Len(cache.heap)
<1>1. n \in Nat /\ MAXSTATES \in Nat
  BY MatchAssumption DEF Kept, Typed, Data, CacheOf, HeapOf
<1>2. n <= MAXSTATES
  <2>1. CASE program = "nfa"
    <3>1. Len(<<>>) = 0
      OBVIOUS
    <3>2. cache.heap = <<>>
      BY <2>1 DEF Small
    <3> QED
      BY <1>1, <3>1, <3>2
  <2>2. CASE program = "dfa1"
    BY <2>2 DEF Small, Bounded
  <2> QED
    BY <2>1, <2>2 DEF Small
<1>3. 1 .. n \subseteq 1 .. MAXSTATES
  <2> HIDE DEF n
  <2> QED
    BY <1>1, <1>2
<1> QED
  BY <1>3 DEF Fits

(* nfa.c and dfa1.c implement the cache over maxstates DStates: with those  *)
(* that freecache gave back dfa1.c needs no others, and no arrow into a     *)
(* DState outlives its second use (allocdstate, freecache, dstate).         *)
THEOREM BoundedMatchersImplementCache ==
  ASSUME 1 .. MAXSTATES \subseteq DStates, Programs \subseteq {"nfa", "dfa1"}
  PROVE  Spec => ImplementsCache
<1> DEFINE fits == Fits(cache.heap)
<1>1. Init => Kept /\ Small
  <2> SUFFICES ASSUME Init PROVE Kept /\ Small
    OBVIOUS
  <2> QED
    BY KeptAtFirst, BoundedAtFirst DEF Init, Small
<1>2. Kept /\ Small /\ [Next]_vars => (Kept /\ Small)'
  BY KeptStays, SmallStays
<1>3. Kept /\ Small => fits
  BY SmallFits
<1> HIDE DEF fits
<1>4. Spec => []fits
  BY <1>1, <1>2, <1>3, PTL DEF Spec
<1>5. Spec /\ []fits => ImplementsCache
  BY MatchersImplement DEF fits, ImplementsCache
<1> QED
  BY <1>4, <1>5, PTL

-----------------------------------------------------------------------------
(* What is proved of the abstract cache holds of the matchers.              *)
Cache == INSTANCE DfaCacheProofs WITH
  NoState <- NULL,
  phase <- Stage, words <- ToMatch, cur <- Current,
  live <- Live, content <- Content, next <- Arrows

(* Both modules name the same abstract cache.                              *)
LEMMA SameCache == Abstract!Spec => Cache!Spec
<1>1. Abstract!vars = Cache!vars /\ Abstract!Init = Cache!Init /\ Abstract!Next = Cache!Next
  BY DEF Abstract!vars, Cache!vars, Abstract!Init, Cache!Init, Abstract!Next, Cache!Next,
         Abstract!matchVars, Cache!matchVars, Abstract!cacheVars, Cache!cacheVars,
         Abstract!MatchInit, Cache!MatchInit, Abstract!NoArrows, Cache!NoArrows,
         Abstract!CacheBegin, Cache!CacheBegin, Abstract!Follow, Cache!Follow,
         Abstract!Compute, Cache!Compute, Abstract!CacheAnswer, Cache!CacheAnswer,
         Abstract!Begin, Cache!Begin, Abstract!ReadChar, Cache!ReadChar,
         Abstract!Answer, Cache!Answer, Abstract!Forget, Cache!Forget,
         Abstract!Record, Cache!Record, Abstract!Found, Cache!Found, Abstract!Added, Cache!Added,
         Abstract!Restarted, Cache!Restarted, Abstract!Cleared, Cache!Cleared
<1>2. Abstract!Init => Cache!Init
  BY <1>1
<1>3. [Abstract!Next]_(Abstract!vars) => [Cache!Next]_(Cache!vars)
  <2>1. UNCHANGED Abstract!vars => UNCHANGED Cache!vars
    BY DEF Abstract!vars, Cache!vars, Abstract!matchVars, Cache!matchVars,
           Abstract!cacheVars, Cache!cacheVars
  <2> QED
    BY <1>1, <2>1
<1> QED
  BY <1>2, <1>3, PTL DEF Abstract!Spec, Cache!Spec

(* The three programs give, string by string, the answers of a matcher that *)
(* follows the set of reachable states and stores nothing (NfaMatch).       *)
THEOREM MatchersAnswerAlike ==
  ASSUME DStates = Nat \ {NULL}
  PROVE  Spec => Cache!MatchSpec
<1>1. Spec => Abstract!Spec
  BY MatchersImplementCache DEF ImplementsCache
<1>2. Cache!Spec => Cache!MatchSpec
  BY Cache!CacheImplementsMatch
<1> QED
  BY <1>1, <1>2, SameCache, PTL
=============================================================================
