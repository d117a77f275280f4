-------------------------- MODULE SendBufferProofs --------------------------
(* What is proved of the write lists of a connection, for messages of any   *)
(* number and size.                                                         *)
EXTENDS SendBuffer, SequenceTheorems, WellFoundedInduction, TLAPS

-----------------------------------------------------------------------------
(* Induction, for a set of numbers.                                         *)
LEMMA NatSets ==
  ASSUME NEW S \in SUBSET Nat, 0 \in S, \A n \in S : n + 1 \in S
  PROVE  S = Nat
<1> SUFFICES ASSUME S # Nat PROVE FALSE
  OBVIOUS
<1> DEFINE T == Nat \ S
           R == {ss \in Nat \X Nat : ss[1] < ss[2]}
<1>1. T \subseteq Nat /\ T # {}
  OBVIOUS
<1>2. IsWellFoundedOn(R, Nat)
  BY NatLessThanWellFounded DEF OpToRel
<1>3. PICK x \in T : \A y \in T : ~ (<<y, x>> \in R)
  BY <1>1, <1>2, WFMin
<1>4. \A y \in T : ~(y < x)
  BY <1>1, <1>3
<1>5. x - 1 \in Nat /\ x - 1 \notin T
  BY <1>4
<1> QED
  BY <1>5

(* A recursive definition defines a function.                               *)
Recurses(f, A, a, h) ==
  f \in [Nat -> A] /\ f[0] = a /\ \A n \in Nat : f[n + 1] = h[<<n, f[n]>>]

LEMMA RecursionDefines ==
  ASSUME NEW A, NEW a \in A, NEW h \in [Nat \X A -> A]
  PROVE  \E f : Recurses(f, A, a, h)
<1> DEFINE Good(f, n) == f \in [0 .. n -> A] /\ f[0] = a
                         /\ \A i \in 0 .. n - 1 : f[i + 1] = h[<<i, f[i]>>]
<1>1. \A n \in Nat : \E f : Good(f, n)
  <2> DEFINE S == {n \in Nat : \E f : Good(f, n)}
  <2>1. 0 \in S
    <3>1. Good([i \in 0 .. 0 |-> a], 0)
      OBVIOUS
    <3> QED
      BY <3>1
  <2>2. ASSUME NEW n \in S PROVE n + 1 \in S
    <3> USE n \in Nat
    <3>1. PICK f : Good(f, n)
      OBVIOUS
    <3> DEFINE g == [i \in 0 .. n + 1 |-> IF i <= n THEN f[i] ELSE h[<<n, f[n]>>]]
    <3>2. f[n] \in A /\ h[<<n, f[n]>>] \in A
      BY <3>1
    <3>3. g \in [0 .. n + 1 -> A] /\ g[0] = a
      BY <3>1, <3>2
    <3>4. ASSUME NEW i \in 0 .. n PROVE g[i + 1] = h[<<i, g[i]>>]
      <4>1. CASE i = n
        <5>1. g[n + 1] = h[<<n, f[n]>>] /\ g[n] = f[n]
          OBVIOUS
        <5> QED
          BY <4>1, <5>1
      <4>2. CASE i # n
        <5>1. i \in 0 .. n - 1 /\ i + 1 \in 0 .. n
          BY <4>2
        <5> QED
          BY <3>1, <5>1
      <4> QED
        BY <4>1, <4>2
    <3>5. Good(g, n + 1)
      <4> HIDE DEF g
      <4>1. (n + 1) - 1 = n
        OBVIOUS
      <4> QED
        BY <3>3, <3>4, <4>1
    <3>6. \E e : Good(e, n + 1)
      BY <3>5
    <3> HIDE DEF Good
    <3> QED
      BY <3>6
  <2> HIDE DEF Good
  <2>3. S = Nat
    BY <2>1, <2>2, NatSets
  <2> QED
    BY <2>3
<1>2. ASSUME NEW m \in Nat, NEW n \in Nat, NEW f, NEW g, Good(f, m), Good(g, n), m <= n
      PROVE  f[m] = g[m]
  <2> DEFINE S == {i \in Nat : i <= m => f[i] = g[i]}
  <2>1. 0 \in S
    BY <1>2
  <2>2. ASSUME NEW i \in S PROVE i + 1 \in S
    <3> SUFFICES ASSUME i + 1 <= m PROVE f[i + 1] = g[i + 1]
      OBVIOUS
    <3>1. i \in 0 .. m - 1 /\ i \in 0 .. n - 1 /\ f[i] = g[i]
      BY <1>2
    <3>2. f[i + 1] = h[<<i, f[i]>>] /\ g[i + 1] = h[<<i, g[i]>>]
      BY <1>2, <3>1
    <3> QED
      BY <3>1, <3>2
  <2> HIDE DEF Good
  <2>3. S = Nat
    BY <2>1, <2>2, NatSets
  <2> QED
    BY <2>3
<1> DEFINE Upto(n) == CHOOSE f : Good(f, n)
           F == [n \in Nat |-> Upto(n)[n]]
<1>3. \A n \in Nat : Good(Upto(n), n)
  BY <1>1
<1>4. ASSUME NEW n \in Nat PROVE F[n] \in A /\ F[n + 1] = h[<<n, F[n]>>]
  <2>1. n + 1 \in Nat /\ n \in 0 .. n /\ n \in 0 .. (n + 1) - 1 /\ n <= n + 1
    OBVIOUS
  <2>2. Good(Upto(n), n) /\ Good(Upto(n + 1), n + 1)
    BY <1>3, <2>1
  <2>3. F[n] = Upto(n)[n] /\ F[n + 1] = Upto(n + 1)[n + 1]
    BY <2>1
  <2>4. Upto(n)[n] = Upto(n + 1)[n]
    <3> HIDE DEF Good, Upto
    <3> QED
      BY <2>1, <2>2, <1>2
  <2> HIDE DEF Upto, F
  <2>5. Upto(n)[n] \in A /\ Upto(n + 1)[n + 1] = h[<<n, Upto(n + 1)[n]>>]
    BY <2>1, <2>2
  <2> QED
    BY <2>3, <2>4, <2>5
<1>5. F[0] = a
  <2>1. Good(Upto(0), 0)
    BY <1>3
  <2> HIDE DEF Upto
  <2> QED
    BY <2>1
<1>6. F \in [Nat -> A]
  BY <1>4
<1>7. Recurses(F, A, a, h)
  <2> HIDE DEF F
  <2> QED
    BY <1>4, <1>5, <1>6 DEF Recurses
<1> HIDE DEF F
<1> QED
  BY <1>7

-----------------------------------------------------------------------------
(* Arithmetic on sizes, stated of numbers so that it can be used of sums.   *)
Plus3(a, b, c) == (a + b) + c = a + (b + c)
Leaves(x, y, z, r) == (y - (r - x)) + z = ((x + y) + z) - r
TakesLeft(x, y, r) == (x + y) - r = (x - r) + y /\ (x + y) - r \in Nat
TakesRight(x, y, r) == (x + y) - r = 0 + (y - (r - x)) /\ (x + y) - r \in Nat

LEMMA SizeArithmetic ==
  /\ \A a, b, c \in Nat : Plus3(a, b, c)
  /\ \A x, y, z, r \in Nat : Leaves(x, y, z, r)
  /\ \A x, y, r \in Nat : r < x => TakesLeft(x, y, r)
  /\ \A x, y, r \in Nat : r <= x + y => TakesRight(x, y, r)
  BY DEF Plus3, Leaves, TakesLeft, TakesRight

-----------------------------------------------------------------------------
(* The sum of a list's sz fields.                                           *)
SumStep(f, list) == f = [k \in 0 .. Len(list) |-> IF k = 0 THEN 0 ELSE f[k - 1] + list[k].sz]
Sums(list) == CHOOSE f : SumStep(f, list)

LEMMA SumIsLast ==
  ASSUME NEW list
  PROVE  SumSz(list) = Sums(list)[Len(list)]
  BY DEF SumSz, Sums, SumStep

LEMMA SumsDefined ==
  ASSUME NEW list \in Seq(Buffers)
  PROVE  /\ Sums(list) \in [0 .. Len(list) -> Nat]
         /\ Sums(list)[0] = 0
         /\ \A k \in 1 .. Len(list) : Sums(list)[k] = Sums(list)[k - 1] + list[k].sz
<1> DEFINE h == [p \in Nat \X Nat |->
                   p[2] + (IF p[1] + 1 \in 1 .. Len(list) THEN list[p[1] + 1].sz ELSE 0)]
<1>1. Len(list) \in Nat
  OBVIOUS
<1>2. ASSUME NEW k \in 1 .. Len(list) PROVE list[k].sz \in Nat
  <2>1. list[k] \in Buffers
    BY <1>1
  <2> QED
    BY <2>1 DEF Buffers
<1>3. h \in [Nat \X Nat -> Nat]
  BY <1>2
<1>4. PICK F \in [Nat -> Nat] : F[0] = 0 /\ \A n \in Nat : F[n + 1] = h[<<n, F[n]>>]
  <2>1. 0 \in Nat
    OBVIOUS
  <2> HIDE DEF h
  <2>2. \E f : Recurses(f, Nat, 0, h)
    BY <1>3, <2>1, RecursionDefines
  <2> QED
    BY <2>2 DEF Recurses
<1>5. ASSUME NEW k \in 1 .. Len(list) PROVE F[k] = F[k - 1] + list[k].sz
  <2>1. k - 1 \in Nat /\ (k - 1) + 1 = k
    BY <1>1
  <2>2. F[k] = h[<<k - 1, F[k - 1]>>] /\ F[k - 1] \in Nat
    BY <1>4, <2>1
  <2>3. h[<<k - 1, F[k - 1]>>] = F[k - 1] + list[k].sz
    <3> HIDE DEF h
    <3>1. <<k - 1, F[k - 1]>> \in Nat \X Nat
      BY <2>1, <2>2
    <3>2. <<k - 1, F[k - 1]>>[1] + 1 = k /\ <<k - 1, F[k - 1]>>[2] = F[k - 1]
      BY <2>1
    <3> QED
      BY <3>1, <3>2 DEF h
  <2> QED
    BY <2>2, <2>3
<1> DEFINE f == [k \in 0 .. Len(list) |-> F[k]]
<1>6. SumStep(f, list)
  <2>1. ASSUME NEW k \in 0 .. Len(list)
        PROVE  F[k] = IF k = 0 THEN 0 ELSE f[k - 1] + list[k].sz
    <3>1. CASE k = 0
      BY <1>4, <3>1
    <3>2. CASE k # 0
      <4>1. k \in 1 .. Len(list) /\ k - 1 \in 0 .. Len(list)
        BY <1>1, <3>2
      <4> QED
        BY <1>5, <3>2, <4>1
    <3> QED
      BY <3>1, <3>2
  <2> QED
    BY <2>1 DEF SumStep
<1>7. SumStep(Sums(list), list)
  BY <1>6 DEF Sums
<1> DEFINE s == Sums(list)
<1> HIDE DEF s
<1>8. s = [k \in 0 .. Len(list) |-> IF k = 0 THEN 0 ELSE s[k - 1] + list[k].sz]
  BY <1>7 DEF SumStep, s
<1>9. s[0] = 0
  <2>1. 0 \in 0 .. Len(list)
    BY <1>1
  <2> QED
    BY <1>8, <2>1
<1>10. ASSUME NEW k \in 1 .. Len(list) PROVE s[k] = s[k - 1] + list[k].sz
  <2>1. k \in 0 .. Len(list) /\ k # 0
    BY <1>1
  <2> QED
    BY <1>8, <2>1
<1> DEFINE S == {k \in Nat : k <= Len(list) => s[k] \in Nat}
<1>11. 0 \in S
  BY <1>9
<1>12. ASSUME NEW k \in Nat, k <= Len(list) => s[k] \in Nat, k + 1 <= Len(list)
       PROVE  s[k + 1] \in Nat
  <2>1. k + 1 \in 1 .. Len(list) /\ (k + 1) - 1 = k /\ s[k] \in Nat
    BY <1>1, <1>12
  <2>2. s[k + 1] = s[k] + list[k + 1].sz
    BY <1>10, <2>1
  <2>3. list[k + 1].sz \in Nat
    BY <1>2, <2>1
  <2>4. ASSUME NEW x \in Nat, NEW y \in Nat PROVE x + y \in Nat
    OBVIOUS
  <2> QED
    BY <2>1, <2>2, <2>3, <2>4
<1>13. S = Nat
  <2>1. ASSUME NEW k \in S PROVE k + 1 \in S
    <3>1. k \in Nat /\ (k <= Len(list) => s[k] \in Nat)
      OBVIOUS
    <3>2. k + 1 \in Nat /\ (k + 1 <= Len(list) => s[k + 1] \in Nat)
      BY <1>12, <3>1
    <3> QED
      BY <3>2
  <2> HIDE DEF S
  <2>2. S \in SUBSET Nat
    BY DEF S
  <2> QED
    BY <1>11, <2>1, <2>2, NatSets
<1>14. s \in [0 .. Len(list) -> Nat]
  <2>1. ASSUME NEW k \in 0 .. Len(list) PROVE s[k] \in Nat
    <3>1. k \in S /\ k <= Len(list)
      <4>1. k \in Nat /\ k <= Len(list)
        BY <1>1
      <4> HIDE DEF S
      <4> QED
        BY <1>13, <4>1
    <3> QED
      BY <3>1
  <2> QED
    BY <1>8, <2>1
<1> QED
  BY <1>9, <1>10, <1>14 DEF s

(* Lists that agree from some place on have the same sums from there.       *)
LEMMA SumsAgree ==
  ASSUME NEW p \in Seq(Buffers), NEW q \in Seq(Buffers), NEW m \in Nat,
         m + Len(q) <= Len(p),
         \A i \in 1 .. Len(q) : p[m + i].sz = q[i].sz
  PROVE  \A j \in 0 .. Len(q) : Sums(p)[m + j] = Sums(p)[m] + Sums(q)[j]
<1>1. Len(p) \in Nat /\ Len(q) \in Nat /\ m \in 0 .. Len(p)
  OBVIOUS
<1>2. Sums(p)[m] \in Nat
  BY <1>1, SumsDefined
<1> DEFINE S == {j \in Nat : j <= Len(q) => Sums(p)[m + j] = Sums(p)[m] + Sums(q)[j]}
<1>3. 0 \in S
  <2>1. Sums(q)[0] = 0 /\ m + 0 = m
    BY SumsDefined
  <2> QED
    BY <1>2, <2>1
<1>4. ASSUME NEW j \in Nat, j <= Len(q) => Sums(p)[m + j] = Sums(p)[m] + Sums(q)[j],
             j + 1 <= Len(q)
      PROVE  Sums(p)[m + (j + 1)] = Sums(p)[m] + Sums(q)[j + 1]
  <2>1. /\ j + 1 \in 1 .. Len(q) /\ m + (j + 1) \in 1 .. Len(p)
        /\ (j + 1) - 1 = j /\ (m + (j + 1)) - 1 = m + j /\ j \in 0 .. Len(q)
    BY <1>1, <1>4
  <2>2. /\ Sums(q)[j + 1] = Sums(q)[j] + q[j + 1].sz
        /\ Sums(p)[m + (j + 1)] = Sums(p)[m + j] + p[m + (j + 1)].sz
    BY <2>1, SumsDefined
  <2>3. p[m + (j + 1)].sz = q[j + 1].sz
    BY <2>1
  <2>4. q[j + 1].sz \in Nat /\ Sums(q)[j] \in Nat
    <3>1. q[j + 1] \in Buffers
      BY <2>1
    <3> QED
      BY <2>1, <3>1, SumsDefined DEF Buffers
  <2>5. Sums(p)[m + j] = Sums(p)[m] + Sums(q)[j]
    BY <1>1, <1>4
  <2>6. Plus3(Sums(p)[m], Sums(q)[j], q[j + 1].sz)
    BY <1>2, <2>4, SizeArithmetic
  <2> QED
    BY <2>2, <2>3, <2>5, <2>6, Zenon DEF Plus3
<1>5. S = Nat
  <2>1. \A j \in S : j + 1 \in S
    BY <1>4
  <2> HIDE DEF S
  <2>2. S \in SUBSET Nat
    BY DEF S
  <2> QED
    BY <1>3, <2>1, <2>2, NatSets
<1> QED
  <2> TAKE j \in 0 .. Len(q)
  <2>1. j \in Nat /\ j <= Len(q)
    BY <1>1
  <2>2. j \in S
    <3> HIDE DEF S
    <3> QED
      BY <1>5, <2>1
  <2> QED
    BY <2>1, <2>2

(* What the lists of the handlers add up to.                                *)
LEMMA SumIsNat ==
  ASSUME NEW list \in Seq(Buffers)
  PROVE  SumSz(list) \in Nat
<1>1. Len(list) \in 0 .. Len(list)
  OBVIOUS
<1> QED
  BY <1>1, SumIsLast, SumsDefined

LEMMA SumOfEmpty == SumSz(<<>>) = 0
<1>1. <<>> \in Seq(Buffers) /\ Len(<<>>) = 0
  OBVIOUS
<1> QED
  BY <1>1, SumIsLast, SumsDefined

LEMMA SumOfPrefix ==
  ASSUME NEW list \in Seq(Buffers), NEW k \in 0 .. Len(list)
  PROVE  SumSz(SubSeq(list, 1, k)) = Sums(list)[k]
<1> DEFINE q == SubSeq(list, 1, k)
<1>1. q \in Seq(Buffers) /\ Len(q) = k /\ \A i \in 1 .. k : q[i] = list[i]
  OBVIOUS
<1>2. 0 + Len(q) <= Len(list) /\ \A i \in 1 .. Len(q) : list[0 + i].sz = q[i].sz
  BY <1>1
<1>3. k \in 0 .. Len(q) /\ 0 + k = k
  BY <1>1
<1> HIDE DEF q
<1>4. Sums(list)[k] = Sums(list)[0] + Sums(q)[k]
  BY <1>1, <1>2, <1>3, SumsAgree
<1>5. Sums(list)[0] = 0 /\ Sums(q)[k] \in Nat
  BY <1>1, <1>3, SumsDefined
<1>6. SumSz(q) = Sums(q)[k]
  BY <1>1, SumIsLast
<1> QED
  BY <1>4, <1>5, <1>6 DEF q

LEMMA SumOfSuffix ==
  ASSUME NEW list \in Seq(Buffers), NEW k \in 0 .. Len(list)
  PROVE  SumSz(list) = Sums(list)[k] + SumSz(SubSeq(list, k + 1, Len(list)))
<1> DEFINE q == SubSeq(list, k + 1, Len(list))
<1>1. Len(list) \in Nat /\ k \in Nat
  OBVIOUS
<1>2. q \in Seq(Buffers) /\ Len(q) = Len(list) - k /\ \A i \in 1 .. Len(q) : q[i] = list[k + i]
  BY <1>1
<1>3. k + Len(q) = Len(list) /\ \A i \in 1 .. Len(q) : list[k + i].sz = q[i].sz
  BY <1>1, <1>2
<1>4. Len(q) \in 0 .. Len(q)
  BY <1>2
<1> HIDE DEF q
<1>5. Sums(list)[k + Len(q)] = Sums(list)[k] + Sums(q)[Len(q)]
  <2>1. k + Len(q) <= Len(list)
    BY <1>1, <1>3
  <2>2. \A j \in 0 .. Len(q) : Sums(list)[k + j] = Sums(list)[k] + Sums(q)[j]
    BY <1>1, <1>2, <1>3, <2>1, SumsAgree
  <2> QED
    BY <1>4, <2>2
<1>6. SumSz(list) = Sums(list)[Len(list)] /\ SumSz(q) = Sums(q)[Len(q)]
  BY SumIsLast
<1>7. SumSz(list) = Sums(list)[k] + SumSz(q)
  BY <1>3, <1>5, <1>6
<1> QED
  BY <1>7 DEF q

LEMMA SumOfAppend ==
  ASSUME NEW list \in Seq(Buffers), NEW b \in Buffers
  PROVE  SumSz(Append(list, b)) = SumSz(list) + b.sz
<1> DEFINE p == Append(list, b)
<1>1. Len(list) \in Nat /\ p \in Seq(Buffers) /\ Len(p) = Len(list) + 1
  OBVIOUS
<1>2. (\A i \in 1 .. Len(list) : p[i] = list[i]) /\ p[Len(p)] = b
  OBVIOUS
<1>3. SubSeq(p, 1, Len(list)) = list
  BY <1>1, <1>2
<1>4. Len(list) \in 0 .. Len(p) /\ Len(p) \in 1 .. Len(p) /\ Len(p) - 1 = Len(list)
  BY <1>1
<1> HIDE DEF p
<1>5. SumSz(list) = Sums(p)[Len(list)]
  BY <1>1, <1>3, <1>4, SumOfPrefix
<1>6. Sums(p)[Len(p)] = Sums(p)[Len(p) - 1] + p[Len(p)].sz
  BY <1>1, <1>4, SumsDefined
<1> QED
  BY <1>2, <1>4, <1>5, <1>6, SumIsLast DEF p

LEMMA SumOfOne ==
  ASSUME NEW b \in Buffers
  PROVE  SumSz(<<b>>) = b.sz
<1> DEFINE none == <<>>
<1>1. none \in Seq(Buffers) /\ Append(none, b) = <<b>> /\ b.sz \in Nat
  BY DEF Buffers
<1>2. SumSz(none) = 0
  BY SumOfEmpty
<1> HIDE DEF none
<1>3. SumSz(Append(none, b)) = SumSz(none) + b.sz
  BY <1>1, SumOfAppend
<1> QED
  BY <1>1, <1>2, <1>3

LEMMA SumOfTail ==
  ASSUME NEW list \in Seq(Buffers), list # <<>>
  PROVE  SumSz(list) = Head(list).sz + SumSz(Tail(list))
<1>1. Len(list) \in Nat /\ 1 \in 1 .. Len(list) /\ 1 \in 0 .. Len(list) /\ 1 - 1 = 0
  OBVIOUS
<1>2. Tail(list) = SubSeq(list, 1 + 1, Len(list)) /\ Head(list) = list[1]
  OBVIOUS
<1>3. Sums(list)[1] = Sums(list)[0] + list[1].sz /\ Sums(list)[0] = 0
  BY <1>1, SumsDefined
<1>4. list[1].sz \in Nat
  <2>1. list[1] \in Buffers
    BY <1>1
  <2> QED
    BY <2>1 DEF Buffers
<1>5. SumSz(list) = Sums(list)[1] + SumSz(Tail(list))
  BY <1>1, <1>2, SumOfSuffix
<1> QED
  BY <1>2, <1>3, <1>4, <1>5

-----------------------------------------------------------------------------
(* What a kernel with room for room bytes takes.                            *)
LEMMA WholeExists ==
  ASSUME NEW list \in Seq(Buffers), NEW room \in Nat
  PROVE  /\ Whole(list, room) \in 0 .. Len(list)
         /\ SumSz(SubSeq(list, 1, Whole(list, room))) <= room
         /\ Whole(list, room) < Len(list)
              => SumSz(SubSeq(list, 1, Whole(list, room) + 1)) > room
<1> DEFINE Fits(k) == SumSz(SubSeq(list, 1, k)) <= room
<1>1. Len(list) \in Nat
  OBVIOUS
<1>2. \A k \in 0 .. Len(list) : SumSz(SubSeq(list, 1, k)) \in Nat
  BY SumOfPrefix, SumsDefined
<1>3. Fits(0)
  <2>1. 0 \in 0 .. Len(list)
    BY <1>1
  <2>2. SumSz(SubSeq(list, 1, 0)) = 0
    BY <2>1, SumOfPrefix, SumsDefined
  <2> QED
    BY <2>2
<1>4. \E k \in 0 .. Len(list) : Fits(k) /\ (k < Len(list) => ~ Fits(k + 1))
  <2> HIDE DEF Fits
  <2> SUFFICES ASSUME \A k \in 0 .. Len(list) : Fits(k) => k < Len(list) /\ Fits(k + 1)
               PROVE  FALSE
    BY <1>1
  <2> DEFINE S == {k \in Nat : k <= Len(list) => Fits(k)}
  <2>1. 0 \in S
    BY <1>3
  <2>2. ASSUME NEW k \in Nat, k <= Len(list) => Fits(k), k + 1 <= Len(list) PROVE Fits(k + 1)
    <3>1. k \in 0 .. Len(list) /\ Fits(k)
      BY <1>1, <2>2
    <3> QED
      BY <3>1
  <2>3. \A k \in S : k + 1 \in S
    BY <2>2
  <2>4. S \in SUBSET Nat
    OBVIOUS
  <2>5. Len(list) \in S
    <3> HIDE DEF S
    <3> QED
      BY <1>1, <2>1, <2>3, <2>4, NatSets
  <2>6. Fits(Len(list)) /\ Len(list) \in 0 .. Len(list)
    BY <1>1, <2>5
  <2> QED
    BY <1>1, <2>6
<1>5. PICK k \in 0 .. Len(list) : Fits(k) /\ (k < Len(list) => ~ Fits(k + 1))
  BY <1>4
<1>6. k < Len(list) => SumSz(SubSeq(list, 1, k + 1)) > room
  <2>1. CASE k < Len(list)
    <3>1. k + 1 \in 0 .. Len(list)
      BY <1>1, <2>1
    <3>2. SumSz(SubSeq(list, 1, k + 1)) \in Nat
      BY <1>2, <3>1
    <3> QED
      BY <1>5, <2>1, <3>2
  <2> QED
    BY <2>1
<1> DEFINE Stops(n) == /\ SumSz(SubSeq(list, 1, n)) <= room
                       /\ n < Len(list) => SumSz(SubSeq(list, 1, n + 1)) > room
<1>7. Stops(k)
  BY <1>5, <1>6
<1>8. Whole(list, room) = CHOOSE n \in 0 .. Len(list) : Stops(n)
  BY DEF Whole
<1>9. Whole(list, room) \in 0 .. Len(list) /\ Stops(Whole(list, room))
  <2> HIDE DEF Stops
  <2> QED
    BY <1>7, <1>8
<1> QED
  BY <1>9

(* A part is taken of at most one buffer, and never all of it.              *)
LEMMA PartOfOne ==
  ASSUME NEW list \in Seq(Buffers), NEW room \in Nat
  PROVE  /\ Whole(list, room) \in 0 .. Len(list)
         /\ Part(list, room) = room - Sums(list)[Whole(list, room)]
         /\ Part(list, room) \in Nat
         /\ Whole(list, room) < Len(list) =>
              /\ Whole(list, room) + 1 \in 1 .. Len(list)
              /\ Part(list, room) < list[Whole(list, room) + 1].sz
         /\ Whole(list, room) = Len(list) => SumSz(list) <= room
<1> DEFINE k == Whole(list, room)
<1>1. Len(list) \in Nat /\ k \in 0 .. Len(list)
  BY WholeExists
<1>2. SumSz(SubSeq(list, 1, k)) = Sums(list)[k] /\ Sums(list)[k] \in Nat
  BY <1>1, SumOfPrefix, SumsDefined
<1>3. Sums(list)[k] <= room
  BY <1>2, WholeExists
<1>4. Part(list, room) = room - Sums(list)[k]
  BY <1>2 DEF Part
<1>5. Part(list, room) \in Nat
  BY <1>2, <1>3, <1>4
<1>6. ASSUME k < Len(list)
      PROVE  k + 1 \in 1 .. Len(list) /\ Part(list, room) < list[k + 1].sz
  <2>1. k + 1 \in 1 .. Len(list) /\ k + 1 \in 0 .. Len(list) /\ (k + 1) - 1 = k
    BY <1>1, <1>6
  <2>2. SumSz(SubSeq(list, 1, k + 1)) > room
    BY <1>6, WholeExists
  <2>3. SumSz(SubSeq(list, 1, k + 1)) = Sums(list)[k + 1]
    BY <2>1, SumOfPrefix
  <2>4. Sums(list)[k + 1] = Sums(list)[k] + list[k + 1].sz
    BY <2>1, SumsDefined
  <2>5. list[k + 1].sz \in Nat
    <3>1. list[k + 1] \in Buffers
      BY <2>1
    <3> QED
      BY <3>1 DEF Buffers
  <2> HIDE DEF k
  <2> QED
    BY <1>2, <1>4, <2>1, <2>2, <2>3, <2>4, <2>5
<1>7. k = Len(list) => SumSz(list) <= room
  BY <1>2, <1>3, SumIsLast
<1> QED
  BY <1>1, <1>4, <1>5, <1>6, <1>7

LEMMA AdvanceTyped ==
  ASSUME NEW b \in Buffers, NEW n \in Nat, n < b.sz
  PROVE  Advance(b, n) \in Buffers /\ Advance(b, n).sz = b.sz - n
<1>1. b.ptr \in Nat /\ b.sz \in Nat
  BY DEF Buffers
<1>2. b.ptr + n \in Nat /\ b.sz - n \in Nat
  BY <1>1
<1>3. Advance(b, n) = [b EXCEPT !.ptr = b.ptr + n, !.sz = b.sz - n]
  BY DEF Advance
<1> QED
  BY <1>2, <1>3 DEF Buffers

(* What is left of a list.                                                  *)
LEMMA WhatIsLeft ==
  ASSUME NEW list \in Seq(Buffers), NEW room \in Nat
  PROVE  /\ Left(list, room) \in Seq(Buffers)
         /\ room <= SumSz(list) => SumSz(Left(list, room)) = SumSz(list) - room
         /\ \A i \in 2 .. Len(Left(list, room)) : \E j \in 2 .. Len(list) : Left(list, room)[i] = list[j]
         /\ Left(list, room) # <<>> =>
              \E b \in Buffers, n \in Nat : /\ Left(list, room)[1] = Advance(b, n)
                                           /\ n < b.sz
                                           /\ \E j \in 1 .. Len(list) : b = list[j]
<1> DEFINE k == Whole(list, room)
           rest == SubSeq(list, k + 2, Len(list))
           b == list[k + 1]
           n == Part(list, room)
           left == Left(list, room)
<1>1. Len(list) \in Nat /\ k \in 0 .. Len(list) /\ n \in Nat /\ Sums(list)[k] \in Nat
  BY PartOfOne, SumsDefined
<1>2. CASE k = Len(list)
  <2>1. left = <<>>
    BY <1>2 DEF Left
  <2>2. SumSz(list) <= room
    BY <1>2, PartOfOne
  <2>3. SumSz(list) \in Nat
    BY SumIsNat
  <2>4. left \in Seq(Buffers) /\ Len(left) = 0
    BY <2>1
  <2> HIDE DEF left
  <2> QED
    BY <2>1, <2>2, <2>3, <2>4, SumOfEmpty DEF left
<1>3. CASE k < Len(list)
  <2>1. k + 1 \in 1 .. Len(list) /\ k + 1 \in 0 .. Len(list) /\ (k + 1) + 1 = k + 2 /\ (k + 1) - 1 = k
    BY <1>1, <1>3
  <2>2. b \in Buffers /\ n < b.sz
    <3>1. n < b.sz
      BY <1>3, PartOfOne
    <3> HIDE DEF k
    <3> QED
      BY <2>1, <3>1
  <2>3. Advance(b, n) \in Buffers /\ Advance(b, n).sz = b.sz - n
    <3> HIDE DEF b, n, k
    <3> QED
      BY <1>1, <2>2, AdvanceTyped
  <2>4. /\ rest \in Seq(Buffers) /\ Len(rest) = Len(list) - (k + 1)
        /\ \A i \in 1 .. Len(rest) : rest[i] = list[k + 1 + i]
    <3> HIDE DEF k
    <3>1. \A i \in k + 2 .. Len(list) : list[i] \in Buffers
      BY <1>1
    <3>2. /\ rest \in Seq(Buffers)
          /\ Len(rest) = IF k + 2 <= Len(list) THEN Len(list) - (k + 2) + 1 ELSE 0
          /\ \A i \in 1 .. Len(list) - (k + 2) + 1 : rest[i] = list[k + 2 + i - 1]
      BY <1>1, <3>1, SubSeqProperties
    <3>3. Len(rest) = Len(list) - (k + 1) /\ Len(list) - (k + 2) + 1 = Len(list) - (k + 1)
      BY <1>1, <1>3, <2>1, <3>2
    <3> HIDE DEF rest
    <3>4. \A i \in Nat : k + 2 + i - 1 = k + 1 + i
      BY <1>1
    <3>5. Len(rest) \in Nat /\ 1 .. Len(rest) \subseteq Nat
      BY <3>2
    <3> QED
      BY <3>2, <3>3, <3>4, <3>5
  <2>5. left = <<Advance(b, n)>> \o rest
    <3>1. k # Len(list)
      BY <1>1, <1>3
    <3> QED
      BY <3>1 DEF Left
  <2>6. /\ left \in Seq(Buffers) /\ left # <<>> /\ Len(left) = Len(rest) + 1
        /\ left[1] = Advance(b, n) /\ \A i \in 2 .. Len(left) : left[i] = rest[i - 1]
    <3> HIDE DEF left, rest, b, n, k
    <3> QED
      BY <2>3, <2>4, <2>5
  <2>7. Head(left) = Advance(b, n) /\ Tail(left) = rest
    <3> HIDE DEF left, rest, b, n, k
    <3> QED
      BY <2>3, <2>4, <2>5
  <2>8. SumSz(left) = (b.sz - n) + SumSz(rest)
    <3> HIDE DEF left, rest, b, n, k
    <3> QED
      BY <2>3, <2>6, <2>7, SumOfTail
  <2>9. SumSz(list) = Sums(list)[k + 1] + SumSz(rest)
    BY <2>1, SumOfSuffix
  <2>10. Sums(list)[k + 1] = Sums(list)[k] + b.sz
    BY <2>1, SumsDefined
  <2>11. n = room - Sums(list)[k]
    BY PartOfOne
  <2>12. SumSz(rest) \in Nat /\ b.sz \in Nat
    <3>1. SumSz(rest) \in Nat
      <4> HIDE DEF rest
      <4> QED
        BY <2>4, SumIsNat
    <3> QED
      BY <2>2, <3>1 DEF Buffers
  <2>13. SumSz(left) = SumSz(list) - room
    <3> HIDE DEF left, rest, b, n, k
    <3>1. SumSz(left) = (b.sz - (room - Sums(list)[k])) + SumSz(rest)
      BY <2>8, <2>11, Zenon
    <3>2. SumSz(list) = (Sums(list)[k] + b.sz) + SumSz(rest)
      BY <2>9, <2>10, Zenon
    <3>3. Leaves(Sums(list)[k], b.sz, SumSz(rest), room)
      BY <1>1, <2>12, SizeArithmetic
    <3> QED
      BY <3>1, <3>2, <3>3, Zenon DEF Leaves
  <2>14. ASSUME NEW i \in 2 .. Len(left) PROVE \E j \in 2 .. Len(list) : left[i] = list[j]
    <3>1. i - 1 \in 1 .. Len(rest) /\ k + 1 + (i - 1) \in 2 .. Len(list)
      <4>1. Len(left) = Len(list) - (k + 1) + 1 /\ Len(rest) = Len(list) - (k + 1)
        BY <2>4, <2>6
      <4> HIDE DEF left, rest, k
      <4> QED
        BY <1>1, <1>3, <4>1
    <3>2. left[i] = list[k + 1 + (i - 1)]
      BY <2>4, <2>6, <3>1
    <3> HIDE DEF left, k
    <3> QED
      BY <3>1, <3>2
  <2> HIDE DEF left, b, n, k
  <2> QED
    BY <1>1, <2>1, <2>2, <2>6, <2>13, <2>14 DEF left, b
<1> QED
  BY <1>1, <1>2, <1>3

-----------------------------------------------------------------------------
(* FlattenSeq, as the function it is defined by; joined[j] are the first j  *)
(* of the sequences one after the other.                                    *)
FlatStep(f, seqs) ==
  f = [i \in 1 .. Len(seqs) |-> IF i = 1 THEN seqs[i] ELSE f[i - 1] \o seqs[i]]
Flats(seqs) == CHOOSE f : FlatStep(f, seqs)
Joined(seqs) == [j \in 0 .. Len(seqs) |-> IF j = 0 THEN <<>> ELSE Flats(seqs)[j]]

LEMMA FlattenIsLast ==
  ASSUME NEW S, NEW seqs \in Seq(Seq(S))
  PROVE  FlattenSeq(seqs) = Joined(seqs)[Len(seqs)]
<1>1. Len(seqs) \in Nat /\ Len(seqs) \in 0 .. Len(seqs)
  OBVIOUS
<1>2. CASE Len(seqs) = 0
  <2>1. seqs = <<>>
    BY <1>2
  <2>2. FlattenSeq(seqs) = seqs
    BY <1>2 DEF FlattenSeq
  <2>3. Joined(seqs)[Len(seqs)] = <<>>
    BY <1>1, <1>2 DEF Joined
  <2> QED
    BY <2>1, <2>2, <2>3
<1>3. CASE Len(seqs) # 0
  <2>1. FlattenSeq(seqs) = Flats(seqs)[Len(seqs)]
    BY <1>3 DEF FlattenSeq, Flats, FlatStep
  <2>2. Joined(seqs)[Len(seqs)] = Flats(seqs)[Len(seqs)]
    BY <1>1, <1>3 DEF Joined
  <2> QED
    BY <2>1, <2>2
<1> QED
  BY <1>2, <1>3

LEMMA JoinedDefined ==
  ASSUME NEW S, NEW seqs \in Seq(Seq(S))
  PROVE  /\ Joined(seqs) \in [0 .. Len(seqs) -> Seq(S)]
         /\ Joined(seqs)[0] = <<>>
         /\ \A k \in 1 .. Len(seqs) : Joined(seqs)[k] = Joined(seqs)[k - 1] \o seqs[k]
<1> DEFINE A == Seq(S)
           g(k) == IF k \in 1 .. Len(seqs) THEN seqs[k] ELSE <<>>
           h == [p \in Nat \X A |-> p[2] \o g(p[1] + 1)]
           empty == <<>>
<1>1. Len(seqs) \in Nat
  OBVIOUS
<1>2. \A k \in 1 .. Len(seqs) : seqs[k] \in Seq(S)
  BY <1>1
<1>3. h \in [Nat \X A -> A] /\ empty \in A
  <2>1. \A k \in Nat : g(k) \in Seq(S)
    BY <1>2
  <2>2. \A a, b \in Seq(S) : a \o b \in Seq(S)
    OBVIOUS
  <2>3. ASSUME NEW p \in Nat \X A PROVE p[2] \o g(p[1] + 1) \in A
    <3>1. p[1] + 1 \in Nat /\ p[2] \in Seq(S)
      OBVIOUS
    <3> HIDE DEF g
    <3> QED
      BY <2>1, <2>2, <3>1
  <2> HIDE DEF g
  <2> QED
    BY <2>3
<1>4. PICK F : Recurses(F, A, empty, h)
  <2> HIDE DEF A, h, empty
  <2> QED
    BY <1>3, RecursionDefines
<1>5. F[0] = <<>> /\ \A n \in Nat : F[n] \in Seq(S)
  BY <1>4 DEF Recurses
<1>6. ASSUME NEW k \in 1 .. Len(seqs) PROVE F[k] = F[k - 1] \o seqs[k]
  <2>1. k - 1 \in Nat /\ (k - 1) + 1 = k
    BY <1>1
  <2>2. F[k] = h[<<k - 1, F[k - 1]>>]
    <3> HIDE DEF h
    <3> QED
      BY <1>4, <2>1 DEF Recurses
  <2>3. <<k - 1, F[k - 1]>> \in Nat \X A
    BY <1>5, <2>1
  <2>4. h[<<k - 1, F[k - 1]>>] = F[k - 1] \o g((k - 1) + 1)
    <3> HIDE DEF g, A
    <3>1. <<k - 1, F[k - 1]>>[1] = k - 1 /\ <<k - 1, F[k - 1]>>[2] = F[k - 1]
      OBVIOUS
    <3> QED
      BY <2>3, <3>1
  <2>5. g((k - 1) + 1) = seqs[k]
    BY <2>1
  <2> HIDE DEF g, h
  <2> QED
    BY <2>2, <2>4, <2>5
<1> DEFINE f == [k \in 1 .. Len(seqs) |-> F[k]]
<1>7. FlatStep(f, seqs)
  <2>1. ASSUME NEW k \in 1 .. Len(seqs)
        PROVE  F[k] = IF k = 1 THEN seqs[k] ELSE f[k - 1] \o seqs[k]
    <3>1. CASE k = 1
      <4>1. F[1] = F[0] \o seqs[1]
        <5>1. 1 \in 1 .. Len(seqs) /\ 1 - 1 = 0
          BY <3>1
        <5>2. F[1] = F[1 - 1] \o seqs[1]
          BY <1>6, <5>1
        <5> QED
          BY <5>1, <5>2
      <4>2. seqs[1] \in Seq(S)
        BY <1>2, <3>1
      <4> QED
        BY <1>5, <3>1, <4>1, <4>2, ConcatEmptySeq
    <3>2. CASE k # 1
      <4>1. k - 1 \in 1 .. Len(seqs)
        BY <1>1, <3>2
      <4> QED
        BY <1>6, <3>2, <4>1
    <3> QED
      BY <3>1, <3>2
  <2> QED
    BY <2>1 DEF FlatStep
<1>8. FlatStep(Flats(seqs), seqs)
  BY <1>7 DEF Flats
<1> DEFINE s == Flats(seqs)
           j == Joined(seqs)
<1> HIDE DEF s, j
<1>9. s = [i \in 1 .. Len(seqs) |-> IF i = 1 THEN seqs[i] ELSE s[i - 1] \o seqs[i]]
  BY <1>8 DEF FlatStep, s
<1>10. j = [i \in 0 .. Len(seqs) |-> IF i = 0 THEN <<>> ELSE s[i]]
  BY DEF Joined, s, j
<1>11. j[0] = <<>>
  <2>1. 0 \in 0 .. Len(seqs)
    BY <1>1
  <2> QED
    BY <1>10, <2>1
<1>12. ASSUME NEW k \in 1 .. Len(seqs) PROVE j[k] = j[k - 1] \o seqs[k]
  <2>1. k \in 0 .. Len(seqs) /\ k - 1 \in 0 .. Len(seqs) /\ k # 0
    BY <1>1
  <2>2. j[k] = s[k]
    BY <1>10, <2>1
  <2>3. CASE k = 1
    <3>1. s[k] = seqs[k] /\ k - 1 = 0 /\ seqs[k] \in Seq(S)
      BY <1>2, <1>9, <2>3
    <3> QED
      BY <1>11, <2>2, <3>1, ConcatEmptySeq
  <2>4. CASE k # 1
    <3>1. s[k] = s[k - 1] \o seqs[k]
      BY <1>9, <2>4
    <3>2. j[k - 1] = s[k - 1]
      <4>1. k - 1 # 0
        BY <2>4
      <4> QED
        BY <1>10, <2>1, <4>1
    <3> QED
      BY <2>2, <3>1, <3>2
  <2> QED
    BY <2>3, <2>4
<1> DEFINE T == {k \in Nat : k <= Len(seqs) => j[k] \in Seq(S)}
<1>13. 0 \in T
  <2>1. j[0] \in Seq(S)
    BY <1>11, EmptySeq
  <2> QED
    BY <2>1
<1>14. ASSUME NEW k \in Nat, k <= Len(seqs) => j[k] \in Seq(S), k + 1 <= Len(seqs)
       PROVE  j[k + 1] \in Seq(S)
  <2>1. k + 1 \in 1 .. Len(seqs) /\ (k + 1) - 1 = k /\ j[k] \in Seq(S)
    BY <1>1, <1>14
  <2>2. j[k + 1] = j[k] \o seqs[k + 1] /\ seqs[k + 1] \in Seq(S)
    BY <1>2, <1>12, <2>1
  <2> QED
    BY <2>1, <2>2, ConcatProperties
<1>15. \A k \in Nat : k <= Len(seqs) => j[k] \in Seq(S)
  <2>1. \A k \in T : k + 1 \in T
    BY <1>14
  <2>2. T \in SUBSET Nat
    OBVIOUS
  <2>3. T = Nat
    <3> HIDE DEF T
    <3> QED
      BY <1>13, <2>1, <2>2, NatSets
  <2> QED
    BY <2>3
<1>16. j \in [0 .. Len(seqs) -> Seq(S)]
  <2>1. \A k \in 0 .. Len(seqs) : j[k] \in Seq(S)
    BY <1>1, <1>15
  <2>2. DOMAIN j = 0 .. Len(seqs) /\ j = [k \in DOMAIN j |-> j[k]]
    BY <1>10
  <2> QED
    BY <2>1, <2>2
<1> QED
  BY <1>11, <1>12, <1>16 DEF j

Associate(a, b, c) == (a \o b) \o c = a \o (b \o c)

LEMMA Associates ==
  ASSUME NEW S, NEW a \in Seq(S), NEW b \in Seq(S), NEW c \in Seq(S)
  PROVE  Associate(a, b, c)
  BY ConcatAssociative DEF Associate

JoinedOn(p, m, q, j) == Joined(p)[m + j] = Joined(p)[m] \o Joined(q)[j]

LEMMA JoinedAgree ==
  ASSUME NEW S, NEW p \in Seq(Seq(S)), NEW q \in Seq(Seq(S)), NEW m \in Nat,
         m + Len(q) <= Len(p),
         \A i \in 1 .. Len(q) : p[m + i] = q[i]
  PROVE  \A j \in 0 .. Len(q) : JoinedOn(p, m, q, j)
<1>1. Len(p) \in Nat /\ Len(q) \in Nat /\ m \in 0 .. Len(p)
  OBVIOUS
<1>2. Joined(p)[m] \in Seq(S)
  BY <1>1, JoinedDefined
<1>6. /\ Joined(q)[0] = <<>>
      /\ \A j \in 0 .. Len(q) : Joined(q)[j] \in Seq(S)
      /\ \A j \in 1 .. Len(q) : q[j] \in Seq(S) /\ Joined(q)[j] = Joined(q)[j - 1] \o q[j]
  <2>1. \A j \in 1 .. Len(q) : q[j] \in Seq(S)
    BY ElementOfSeq
  <2>2. Joined(q) \in [0 .. Len(q) -> Seq(S)]
    BY JoinedDefined
  <2>3. \A j \in 0 .. Len(q) : Joined(q)[j] \in Seq(S)
    BY <2>2
  <2> QED
    BY <2>1, <2>3, JoinedDefined
<1> DEFINE Agree(j) == Joined(p)[m + j] = Joined(p)[m] \o Joined(q)[j]
           T == {j \in Nat : j <= Len(q) => Agree(j)}
<1>3. Agree(0)
  <2>1. Joined(p)[m] \o Joined(q)[0] = Joined(p)[m] /\ m + 0 = m
    BY <1>2, <1>6, ConcatEmptySeq
  <2> QED
    BY <2>1
<1>4. ASSUME NEW j \in Nat, Agree(j), j + 1 <= Len(q)
      PROVE  Agree(j + 1)
  <2>1. /\ j + 1 \in 1 .. Len(q) /\ m + (j + 1) \in 1 .. Len(p)
        /\ (j + 1) - 1 = j /\ (m + (j + 1)) - 1 = m + j /\ j \in 0 .. Len(q)
    BY <1>1, <1>4
  <2>2. Joined(q)[j + 1] = Joined(q)[j] \o q[j + 1]
    BY <2>1, <1>6
  <2>3. Joined(p)[m + (j + 1)] = Joined(p)[m + j] \o p[m + (j + 1)]
    BY <2>1, JoinedDefined
  <2>4. p[m + (j + 1)] = q[j + 1]
    BY <2>1
  <2>5. q[j + 1] \in Seq(S) /\ Joined(q)[j] \in Seq(S)
    BY <2>1, <1>6
  <2>6. Joined(p)[m + j] = Joined(p)[m] \o Joined(q)[j]
    BY <1>4
  <2>7. Associate(Joined(p)[m], Joined(q)[j], q[j + 1])
    BY <1>2, <2>5, Associates
  <2> QED
    BY <2>2, <2>3, <2>4, <2>6, <2>7, Zenon DEF Associate
<1>5. \A j \in Nat : j <= Len(q) => Agree(j)
  <2> HIDE DEF Agree
  <2>1. 0 \in T
    BY <1>3
  <2>2. ASSUME NEW j \in T PROVE j + 1 \in T
    <3> SUFFICES ASSUME j + 1 <= Len(q) PROVE Agree(j + 1)
      OBVIOUS
    <3>1. j <= Len(q)
      BY <1>1
    <3> QED
      BY <1>4, <3>1
  <2>3. T \in SUBSET Nat
    OBVIOUS
  <2>4. T = Nat
    <3> HIDE DEF T
    <3> QED
      BY <2>1, <2>2, <2>3, NatSets
  <2> QED
    BY <2>4
<1>7. \A j \in Nat : JoinedOn(p, m, q, j) <=> Agree(j)
  BY DEF JoinedOn
<1> HIDE DEF Agree
<1> QED
  BY <1>1, <1>5, <1>7

LEMMA FlattenTyped ==
  ASSUME NEW S, NEW seqs \in Seq(Seq(S))
  PROVE  FlattenSeq(seqs) \in Seq(S)
<1>1. Len(seqs) \in 0 .. Len(seqs)
  OBVIOUS
<1>2. Joined(seqs) \in [0 .. Len(seqs) -> Seq(S)]
  BY JoinedDefined
<1>3. Joined(seqs)[Len(seqs)] \in Seq(S)
  BY <1>1, <1>2
<1> QED
  BY <1>3, FlattenIsLast

LEMMA FlattenEmpty == FlattenSeq(<<>>) = <<>>
  BY DEF FlattenSeq

LEMMA FlattenOne ==
  ASSUME NEW S, NEW x \in Seq(S)
  PROVE  FlattenSeq(<<x>>) = x
<1> DEFINE seqs == <<x>>
<1>1. seqs \in Seq(Seq(S)) /\ Len(seqs) = 1 /\ seqs[1] = x
  OBVIOUS
<1>2. 1 \in 1 .. Len(seqs) /\ 1 - 1 = 0
  BY <1>1
<1> HIDE DEF seqs
<1>3. Joined(seqs)[1] = Joined(seqs)[1 - 1] \o seqs[1]
  BY <1>1, <1>2, JoinedDefined
<1>4. Joined(seqs)[0] = <<>>
  BY <1>1, JoinedDefined
<1>5. Joined(seqs)[1] = x
  BY <1>1, <1>2, <1>3, <1>4, ConcatEmptySeq
<1>6. FlattenSeq(seqs) = Joined(seqs)[Len(seqs)]
  BY <1>1, FlattenIsLast
<1> QED
  BY <1>1, <1>5, <1>6 DEF seqs

LEMMA FlattenConcat ==
  ASSUME NEW S, NEW p \in Seq(Seq(S)), NEW q \in Seq(Seq(S))
  PROVE  FlattenSeq(p \o q) = FlattenSeq(p) \o FlattenSeq(q)
<1> DEFINE r == p \o q
<1>1. r \in Seq(Seq(S)) /\ Len(r) = Len(p) + Len(q) /\ Len(p) \in Nat /\ Len(q) \in Nat
  BY ConcatProperties
<1>2. \A i \in 1 .. Len(p) : r[0 + i] = p[i]
  BY <1>1
<1>3. \A i \in 1 .. Len(q) : r[Len(p) + i] = q[i]
  BY <1>1
<1> HIDE DEF r
<1>4. Joined(r)[Len(p)] = Joined(p)[Len(p)]
  <2>1. 0 + Len(p) <= Len(r) /\ 0 + Len(p) = Len(p) /\ Len(p) \in 0 .. Len(p)
    BY <1>1
  <2>2. \A j \in 0 .. Len(p) : JoinedOn(r, 0, p, j)
    BY <1>1, <1>2, <2>1, JoinedAgree
  <2>3. Joined(r)[0] = <<>>
    BY <1>1, JoinedDefined
  <2>4. Joined(p) \in [0 .. Len(p) -> Seq(S)]
    BY JoinedDefined
  <2>5. Joined(p)[Len(p)] \in Seq(S)
    BY <2>1, <2>4
  <2>6. JoinedOn(r, 0, p, Len(p))
    BY <2>1, <2>2
  <2>7. Joined(r)[Len(p)] = <<>> \o Joined(p)[Len(p)]
    BY <2>1, <2>3, <2>6 DEF JoinedOn
  <2> QED
    BY <2>5, <2>7, ConcatEmptySeq
<1>5. Joined(r)[Len(r)] = Joined(r)[Len(p)] \o Joined(q)[Len(q)]
  <2>1. Len(p) + Len(q) <= Len(r) /\ Len(q) \in 0 .. Len(q)
    BY <1>1
  <2>2. \A j \in 0 .. Len(q) : JoinedOn(r, Len(p), q, j)
    BY <1>1, <1>3, <2>1, JoinedAgree
  <2>3. JoinedOn(r, Len(p), q, Len(q))
    BY <2>1, <2>2
  <2> QED
    BY <1>1, <2>3 DEF JoinedOn
<1>6. FlattenSeq(p) = Joined(p)[Len(p)] /\ FlattenSeq(q) = Joined(q)[Len(q)]
  BY FlattenIsLast
<1>7. FlattenSeq(r) = Joined(r)[Len(r)]
  BY <1>1, FlattenIsLast
<1> QED
  BY <1>4, <1>5, <1>6, <1>7 DEF r

-----------------------------------------------------------------------------
(* The bytes of buffers.                                                    *)
BytePlace == Messages \X Nat
PiecesOf(list) == [j \in 1 .. Len(list) |-> BytesFrom(list[j], list[j].sz)]
Flat(list) == FlattenSeq(PiecesOf(list))

LEMMA MessagesAreDomain == DOMAIN Size = Messages
  BY BufferAssumption DEF Messages

LEMMA BytesFromTyped ==
  ASSUME NEW b, b.msg \in Messages, b.ptr \in Nat, NEW n \in Nat
  PROVE  BytesFrom(b, n) \in Seq(BytePlace) /\ Len(BytesFrom(b, n)) = n
<1>1. \A i \in 1 .. n : <<b.msg, b.ptr + i>> \in BytePlace
  BY DEF BytePlace
<1>2. BytesFrom(b, n) \in [1 .. n -> BytePlace]
  BY <1>1 DEF BytesFrom
<1> QED
  BY <1>2

LEMMA BufferFields ==
  ASSUME NEW list \in Seq(Buffers), NEW i \in 1 .. Len(list)
  PROVE  /\ list[i] \in Buffers
         /\ list[i].msg \in Messages /\ list[i].ptr \in Nat /\ list[i].sz \in Nat
<1>1. list[i] \in Buffers
  BY ElementOfSeq
<1> QED
  BY <1>1, MessagesAreDomain DEF Buffers

LEMMA PiecesTyped ==
  ASSUME NEW list \in Seq(Buffers), NEW k \in 0 .. Len(list)
  PROVE  [j \in 1 .. k |-> BytesFrom(list[j], list[j].sz)] \in Seq(Seq(BytePlace))
<1>1. k \in Nat /\ 1 .. k \subseteq 1 .. Len(list)
  OBVIOUS
<1>2. \A j \in 1 .. k : BytesFrom(list[j], list[j].sz) \in Seq(BytePlace)
  BY <1>1, BufferFields, BytesFromTyped
<1>3. [j \in 1 .. k |-> BytesFrom(list[j], list[j].sz)] \in [1 .. k -> Seq(BytePlace)]
  BY <1>2
<1> QED
  BY <1>1, <1>3

LEMMA WrittenTyped ==
  ASSUME NEW list \in Seq(Buffers), NEW room \in Nat
  PROVE  WrittenBytes(list, room) \in Seq(BytePlace)
<1> DEFINE k == Whole(list, room)
           whole == FlattenSeq([j \in 1 .. k |-> BytesFrom(list[j], list[j].sz)])
           some == IF k = Len(list) THEN <<>> ELSE BytesFrom(list[k + 1], Part(list, room))
<1>1. k \in 0 .. Len(list) /\ Part(list, room) \in Nat
  BY PartOfOne
<1>2. whole \in Seq(BytePlace)
  <2> HIDE DEF k
  <2> QED
    BY <1>1, PiecesTyped, FlattenTyped
<1>3. some \in Seq(BytePlace)
  <2>1. CASE k = Len(list)
    BY <2>1, EmptySeq
  <2>2. CASE k # Len(list)
    <3>1. k + 1 \in 1 .. Len(list)
      BY <1>1, <2>2
    <3>2. BytesFrom(list[k + 1], Part(list, room)) \in Seq(BytePlace)
      BY <1>1, <3>1, BufferFields, BytesFromTyped
    <3> QED
      BY <2>2, <3>2
  <2> QED
    BY <2>1, <2>2
<1>4. WrittenBytes(list, room) = whole \o some
  BY DEF WrittenBytes
<1> HIDE DEF whole, some
<1> QED
  BY <1>2, <1>3, <1>4, ConcatProperties

-----------------------------------------------------------------------------
(* Every step keeps the types, the size, and the low list unbegun.          *)
LowFresh == open => \A i \in 1 .. Len(low) : low[i].ptr = 0
BufferInv == TypeOK /\ SizeIsKept /\ LowFresh

LEMMA SizesAreNat ==
  ASSUME NEW m \in Messages
  PROVE  Size[m] \in Nat /\ Size[m] # 0 /\ m \in DOMAIN Size
  BY BufferAssumption DEF Messages

LEMMA AppendedTyped ==
  ASSUME NEW list \in Seq(Buffers), NEW m \in Messages, NEW n \in Nat
  PROVE  /\ Appended(list, m, n) \in Seq(Buffers)
         /\ SumSz(Appended(list, m, n)) = SumSz(list) + Size[m]
<1> DEFINE b == [msg |-> m, ptr |-> n, sz |-> Size[m]]
<1>1. b \in Buffers /\ b.sz = Size[m]
  BY SizesAreNat DEF Buffers
<1>2. Appended(list, m, n) = Append(list, b)
  BY DEF Appended
<1> HIDE DEF b
<1> QED
  BY <1>1, <1>2, SumOfAppend

LEMMA AppendedFresh ==
  ASSUME NEW list \in Seq(Buffers), NEW m \in Messages,
         \A i \in 1 .. Len(list) : list[i].ptr = 0
  PROVE  \A i \in 1 .. Len(Appended(list, m, 0)) : Appended(list, m, 0)[i].ptr = 0
<1> DEFINE b == [msg |-> m, ptr |-> 0, sz |-> Size[m]]
           p == Append(list, b)
<1>1. b \in Buffers /\ b.ptr = 0
  BY SizesAreNat DEF Buffers
<1>2. Appended(list, m, 0) = p
  BY DEF Appended
<1>3. Len(p) = Len(list) + 1 /\ Len(list) \in Nat
  BY <1>1, AppendProperties
<1>4. \A i \in 1 .. Len(list) : p[i] = list[i]
  <2> HIDE DEF b
  <2> QED
    BY <1>1, AppendProperties
<1>5. p[Len(list) + 1] = b
  <2> HIDE DEF b
  <2> QED
    BY <1>1, AppendProperties
<1> HIDE DEF p, b
<1>6. ASSUME NEW i \in 1 .. Len(p) PROVE p[i].ptr = 0
  <2>1. i \in 1 .. Len(list) \/ i = Len(list) + 1
    BY <1>3
  <2> QED
    BY <1>1, <1>4, <1>5, <2>1
<1> QED
  BY <1>2, <1>6

LEMMA InitBufferInv == Init => BufferInv
<1> SUFFICES ASSUME Init PROVE BufferInv
  OBVIOUS
<1> USE DEF Init
<1>1. Len(Size) \in Nat
  BY BufferAssumption
<1>2. TypeOK
  <2>1. 1 \in 1 .. Len(Size) + 1
    BY <1>1
  <2> QED
    BY <2>1, BufferAssumption DEF TypeOK
<1>3. SizeIsKept
  <2>1. SumSz(high) = 0 /\ SumSz(low) = 0
    BY SumOfEmpty
  <2> QED
    BY <2>1 DEF SizeIsKept
<1>4. LowFresh
  BY DEF LowFresh
<1> QED
  BY <1>2, <1>3, <1>4 DEF BufferInv

LEMMA NextMessage ==
  ASSUME next \in 1 .. Len(Size) + 1, next \in Messages
  PROVE  next + 1 \in 1 .. Len(Size) + 1
<1>1. Len(Size) \in Nat
  BY BufferAssumption
<1> QED
  BY <1>1 DEF Messages

LEMMA AppendHighInv ==
  ASSUME BufferInv, NEW n \in Nat, next \in Messages, append_send_buffer_high(next, n)
  PROVE  /\ high' \in Seq(Buffers) /\ low' \in Seq(Buffers) /\ write_buff_size' \in Nat
         /\ write_buff_size' = SumSz(high') + SumSz(low') /\ low' = low
<1>1. high \in Seq(Buffers) /\ low \in Seq(Buffers) /\ write_buff_size = SumSz(high) + SumSz(low)
  BY DEF BufferInv, TypeOK, SizeIsKept
<1>2. SumSz(high) \in Nat /\ SumSz(low) \in Nat /\ Size[next] \in Nat
  BY <1>1, SumIsNat, SizesAreNat
<1>3. high' = Appended(high, next, n) /\ low' = low /\ write_buff_size' = write_buff_size + Size[next]
  BY DEF append_send_buffer_high
<1>4. high' \in Seq(Buffers) /\ SumSz(high') = SumSz(high) + Size[next]
  BY <1>1, <1>3, AppendedTyped
<1> QED
  BY <1>1, <1>2, <1>3, <1>4

LEMMA AppendLowInv ==
  ASSUME BufferInv, open, next \in Messages, append_send_buffer_low(next)
  PROVE  /\ high' = high /\ low' \in Seq(Buffers) /\ write_buff_size' \in Nat
         /\ write_buff_size' = SumSz(high') + SumSz(low')
         /\ \A i \in 1 .. Len(low') : low'[i].ptr = 0
<1>1. /\ high \in Seq(Buffers) /\ low \in Seq(Buffers) /\ write_buff_size = SumSz(high) + SumSz(low)
      /\ \A i \in 1 .. Len(low) : low[i].ptr = 0
  BY DEF BufferInv, TypeOK, SizeIsKept, LowFresh
<1>2. SumSz(high) \in Nat /\ SumSz(low) \in Nat /\ Size[next] \in Nat
  BY <1>1, SumIsNat, SizesAreNat
<1>3. low' = Appended(low, next, 0) /\ high' = high /\ write_buff_size' = write_buff_size + Size[next]
  BY DEF append_send_buffer_low
<1>4. low' \in Seq(Buffers) /\ SumSz(low') = SumSz(low) + Size[next]
  BY <1>1, <1>3, AppendedTyped
<1>5. \A i \in 1 .. Len(low') : low'[i].ptr = 0
  BY <1>1, <1>3, AppendedFresh
<1>6. SumSz(high') = SumSz(high)
  BY <1>3
<1>7. write_buff_size' = SumSz(high') + SumSz(low') /\ write_buff_size' \in Nat
  <2>1. write_buff_size' = SumSz(high) + (SumSz(low) + Size[next])
    BY <1>1, <1>2, <1>3
  <2>2. write_buff_size' = SumSz(high) + SumSz(low')
    BY <1>4, <2>1
  <2>3. write_buff_size' \in Nat
    BY <1>2, <2>1
  <2> QED
    BY <1>6, <2>2, <2>3
<1> QED
  BY <1>1, <1>3, <1>4, <1>5, <1>7

LEMMA RaisedKeeps ==
  ASSUME NEW lows \in Seq(Buffers), \A i \in 2 .. Len(lows) : lows[i].ptr = 0
  PROVE  /\ Raised(lows).high \in Seq(Buffers) /\ Raised(lows).low \in Seq(Buffers)
         /\ SumSz(Raised(lows).high) + SumSz(Raised(lows).low) = SumSz(lows)
         /\ \A i \in 1 .. Len(Raised(lows).low) : Raised(lows).low[i].ptr = 0
<1>1. CASE Uncomplete(lows)
  <2>1. lows # <<>>
    BY <1>1 DEF Uncomplete
  <2>2. Raised(lows).high = <<Head(lows)>> /\ Raised(lows).low = Tail(lows)
    BY <1>1 DEF Raised
  <2>3. /\ Head(lows) \in Buffers /\ Tail(lows) \in Seq(Buffers)
        /\ Len(Tail(lows)) = Len(lows) - 1 /\ Len(lows) \in Nat
        /\ \A i \in 1 .. Len(Tail(lows)) : Tail(lows)[i] = lows[i + 1]
    BY <2>1, HeadTailProperties
  <2>4. SumSz(lows) = Head(lows).sz + SumSz(Tail(lows))
    BY <2>1, SumOfTail
  <2>5. SumSz(<<Head(lows)>>) = Head(lows).sz /\ <<Head(lows)>> \in Seq(Buffers)
    BY <2>3, SumOfOne
  <2>6. ASSUME NEW i \in 1 .. Len(Tail(lows)) PROVE Tail(lows)[i].ptr = 0
    <3>1. i + 1 \in 2 .. Len(lows)
      BY <2>3
    <3> QED
      BY <2>3, <3>1
  <2> QED
    BY <2>2, <2>3, <2>4, <2>5, <2>6
<1>2. CASE ~ Uncomplete(lows)
  <2>1. Raised(lows).high = <<>> /\ Raised(lows).low = lows
    BY <1>2 DEF Raised
  <2>2. SumSz(<<>>) = 0 /\ SumSz(lows) \in Nat /\ <<>> \in Seq(Buffers)
    BY SumOfEmpty, SumIsNat, EmptySeq
  <2>3. SumSz(Raised(lows).high) + SumSz(Raised(lows).low) = SumSz(lows)
    BY <2>1, <2>2
  <2>4. ASSUME NEW i \in 1 .. Len(lows) PROVE lows[i].ptr = 0
    <3>1. Len(lows) \in Nat
      OBVIOUS
    <3>2. CASE i = 1
      <4>1. lows # <<>> /\ Head(lows) = lows[1]
        BY <3>1, <3>2
      <4> QED
        BY <1>2, <3>2, <4>1 DEF Uncomplete
    <3>3. CASE i # 1
      <4>1. i \in 2 .. Len(lows)
        BY <3>1, <3>3
      <4> QED
        BY <4>1
    <3> QED
      BY <3>2, <3>3
  <2> QED
    BY <2>1, <2>2, <2>3, <2>4
<1> QED
  BY <1>1, <1>2

LEMMA LeftTailFresh ==
  ASSUME NEW list \in Seq(Buffers), NEW room \in Nat, \A i \in 2 .. Len(list) : list[i].ptr = 0
  PROVE  \A i \in 2 .. Len(Left(list, room)) : Left(list, room)[i].ptr = 0
  BY WhatIsLeft

(* A kernel with room for a whole list leaves nothing of it.                *)
LEMMA NothingLeft ==
  ASSUME NEW list \in Seq(Buffers), NEW room \in Nat, room >= SumSz(list)
  PROVE  Left(list, room) = <<>> /\ Whole(list, room) = Len(list)
<1> DEFINE k == Whole(list, room)
<1>1. Len(list) \in Nat /\ k \in 0 .. Len(list) /\ SumSz(list) \in Nat
  BY PartOfOne, SumIsNat
<1>2. ASSUME k < Len(list) PROVE FALSE
  <2>1. k + 1 \in 0 .. Len(list)
    BY <1>1, <1>2
  <2>2. SumSz(SubSeq(list, 1, k + 1)) > room
    BY <1>2, WholeExists
  <2>3. SumSz(SubSeq(list, 1, k + 1)) = Sums(list)[k + 1] /\ Sums(list)[k + 1] \in Nat
    BY <2>1, SumOfPrefix, SumsDefined
  <2> DEFINE rest == SubSeq(list, (k + 1) + 1, Len(list))
  <2>4. SumSz(list) = Sums(list)[k + 1] + SumSz(rest)
    BY <2>1, SumOfSuffix
  <2>5. rest \in Seq(Buffers)
    BY <1>1, <2>1
  <2>6. SumSz(rest) \in Nat
    <3> HIDE DEF rest
    <3> QED
      BY <2>5, SumIsNat
  <2> HIDE DEF rest, k
  <2> QED
    BY <1>1, <2>2, <2>3, <2>4, <2>6
<1>3. k = Len(list)
  BY <1>1, <1>2
<1> QED
  BY <1>3 DEF Left

LEMMA FlushHighKeeps ==
  ASSUME BufferInv, NEW room \in Nat, FlushHigh(room), write_buff_size' = write_buff_size - room
  PROVE  /\ high' \in Seq(Buffers) /\ low' = low /\ sent' \in Seq(BytePlace)
         /\ write_buff_size' = SumSz(high') + SumSz(low') /\ write_buff_size' \in Nat
<1>1. /\ high \in Seq(Buffers) /\ low \in Seq(Buffers) /\ sent \in Seq(BytePlace)
      /\ write_buff_size = SumSz(high) + SumSz(low)
  BY DEF BufferInv, TypeOK, SizeIsKept, BytePlace
<1>2. SumSz(high) \in Nat /\ SumSz(low) \in Nat
  BY <1>1, SumIsNat
<1>3. /\ room < SumSz(high) /\ sent' = sent \o WrittenBytes(high, room)
      /\ high' = Left(high, room) /\ low' = low
  BY DEF FlushHigh
<1>4. high' \in Seq(Buffers) /\ SumSz(high') = SumSz(high) - room
  BY <1>1, <1>2, <1>3, WhatIsLeft
<1>5. sent' \in Seq(BytePlace)
  BY <1>1, <1>3, WrittenTyped, ConcatProperties
<1>6. SumSz(low') = SumSz(low)
  BY <1>3
<1>7. /\ write_buff_size' = (SumSz(high) + SumSz(low)) - room
      /\ SumSz(high') + SumSz(low') = (SumSz(high) - room) + SumSz(low)
  BY <1>1, <1>4, <1>6, Zenon
<1>8. TakesLeft(SumSz(high), SumSz(low), room)
  BY <1>2, <1>3, SizeArithmetic
<1>9. write_buff_size' = SumSz(high') + SumSz(low') /\ write_buff_size' \in Nat
  BY <1>7, <1>8, Zenon DEF TakesLeft
<1> QED
  BY <1>3, <1>4, <1>5, <1>9

LEMMA FlushLowKeeps ==
  ASSUME BufferInv, open, NEW room \in Room, FlushLow(room),
         write_buff_size' = write_buff_size - room
  PROVE  /\ high' \in Seq(Buffers) /\ low' \in Seq(Buffers) /\ sent' \in Seq(BytePlace)
         /\ write_buff_size' = SumSz(high') + SumSz(low') /\ write_buff_size' \in Nat
         /\ \A i \in 1 .. Len(low') : low'[i].ptr = 0
<1>1. /\ high \in Seq(Buffers) /\ low \in Seq(Buffers) /\ sent \in Seq(BytePlace)
      /\ write_buff_size = SumSz(high) + SumSz(low)
      /\ \A i \in 1 .. Len(low) : low[i].ptr = 0
  BY DEF BufferInv, TypeOK, SizeIsKept, LowFresh, BytePlace
<1>2. SumSz(high) \in Nat /\ SumSz(low) \in Nat
  BY <1>1, SumIsNat
<1>3. room \in Nat /\ room <= SumSz(high) + SumSz(low)
  BY <1>2 DEF Room
<1> DEFINE more == room - SumSz(high)
           lows == Left(low, more)
<1>4. /\ more \in Nat /\ more <= SumSz(low)
      /\ sent' = sent \o WrittenBytes(high, room) \o WrittenBytes(low, more)
      /\ high' = Raised(lows).high /\ low' = Raised(lows).low
  BY <1>2, <1>3 DEF FlushLow
<1>5. /\ lows \in Seq(Buffers) /\ SumSz(lows) = SumSz(low) - more
      /\ \A i \in 2 .. Len(lows) : lows[i].ptr = 0
  <2>1. Len(low) \in Nat
    BY <1>1
  <2>2. \A i \in 2 .. Len(low) : low[i].ptr = 0
    BY <1>1, <2>1
  <2>3. more \in Nat /\ more <= SumSz(low)
    BY <1>4
  <2> HIDE DEF more
  <2> QED
    BY <1>1, <2>2, <2>3, WhatIsLeft, LeftTailFresh
<1>6. /\ high' \in Seq(Buffers) /\ low' \in Seq(Buffers)
      /\ SumSz(high') + SumSz(low') = SumSz(lows)
      /\ \A i \in 1 .. Len(low') : low'[i].ptr = 0
  <2> HIDE DEF lows
  <2> QED
    BY <1>4, <1>5, RaisedKeeps
<1>7. sent' \in Seq(BytePlace)
  <2> DEFINE w1 == WrittenBytes(high, room)
             w2 == WrittenBytes(low, more)
  <2>1. w1 \in Seq(BytePlace) /\ w2 \in Seq(BytePlace) /\ sent' = sent \o w1 \o w2
    BY <1>1, <1>3, <1>4, WrittenTyped
  <2> HIDE DEF w1, w2
  <2> QED
    BY <1>1, <2>1, ConcatProperties
<1>8. write_buff_size' = SumSz(high') + SumSz(low') /\ write_buff_size' \in Nat
  <2>1. SumSz(lows) = SumSz(high) + SumSz(low) - room
    <3> HIDE DEF lows
    <3> QED
      BY <1>2, <1>3, <1>5
  <2>2. SumSz(lows) = write_buff_size' /\ SumSz(lows) \in Nat
    <3> HIDE DEF lows
    <3> QED
      BY <1>1, <1>2, <1>3, <2>1
  <2> HIDE DEF lows
  <2> QED
    BY <1>6, <2>2
<1> QED
  BY <1>6, <1>7, <1>8

LEMMA FlushAllKeeps ==
  ASSUME BufferInv, NEW room \in Nat, FlushAll(room), write_buff_size' = write_buff_size - room
  PROVE  /\ high' \in Seq(Buffers) /\ low' = low /\ sent' \in Seq(BytePlace)
         /\ write_buff_size' = SumSz(high') + SumSz(low') /\ write_buff_size' \in Nat
<1>1. /\ high \in Seq(Buffers) /\ low \in Seq(Buffers) /\ sent \in Seq(BytePlace)
      /\ write_buff_size = SumSz(high) + SumSz(low)
  BY DEF BufferInv, TypeOK, SizeIsKept, BytePlace
<1>2. /\ room = SumSz(high) /\ low = <<>> /\ low' = low /\ high' = <<>>
      /\ sent' = sent \o WrittenBytes(high, room)
  BY DEF FlushAll
<1>3. SumSz(low) = 0 /\ SumSz(low') = 0 /\ SumSz(high') = 0
  BY <1>2, SumOfEmpty
<1>4. sent' \in Seq(BytePlace)
  BY <1>1, <1>2, WrittenTyped, ConcatProperties
<1>5. write_buff_size' = 0
  BY <1>1, <1>2, <1>3
<1> QED
  BY <1>2, <1>3, <1>4, <1>5, EmptySeq

LEMMA BufferStep == BufferInv /\ [Next]_vars => BufferInv'
<1> SUFFICES ASSUME BufferInv, [Next]_vars PROVE BufferInv'
  OBVIOUS
<1>1. /\ high \in Seq(Buffers) /\ low \in Seq(Buffers) /\ write_buff_size \in Nat
      /\ sent \in Seq(BytePlace) /\ next \in 1 .. Len(Size) + 1
      /\ open \in BOOLEAN /\ interest \in BOOLEAN
      /\ write_buff_size = SumSz(high) + SumSz(low)
      /\ open => \A i \in 1 .. Len(low) : low[i].ptr = 0
  BY DEF BufferInv, TypeOK, SizeIsKept, LowFresh, BytePlace
<1>2. SUFFICES /\ high' \in Seq(Buffers) /\ low' \in Seq(Buffers) /\ write_buff_size' \in Nat
               /\ sent' \in Seq(BytePlace) /\ next' \in 1 .. Len(Size) + 1
               /\ open' \in BOOLEAN /\ interest' \in BOOLEAN
               /\ write_buff_size' = SumSz(high') + SumSz(low')
               /\ open' => \A i \in 1 .. Len(low') : low'[i].ptr = 0
  BY DEF BufferInv, TypeOK, SizeIsKept, LowFresh, BytePlace
<1>3. SumSz(high) \in Nat /\ SumSz(low) \in Nat
  BY <1>1, SumIsNat
<1>4. CASE SendDirect
  <2>1. PICK n \in 0 .. Size[next] :
          /\ sent' = sent \o BytesFrom([msg |-> next, ptr |-> 0], n)
          /\ \/ n = Size[next] /\ UNCHANGED <<high, low, write_buff_size>>
             \/ n # Size[next] /\ append_send_buffer_high(next, n)
    BY <1>4 DEF SendDirect
  <2>2. next \in Messages /\ open' = open /\ interest' = interest /\ next' = next + 1 /\ open
    BY <1>4 DEF SendDirect
  <2>3. n \in Nat
    BY <2>2, SizesAreNat
  <2>4. next' \in 1 .. Len(Size) + 1
    BY <1>1, <2>2, NextMessage
  <2>5. sent' \in Seq(BytePlace)
    <3> DEFINE b == [msg |-> next, ptr |-> 0]
    <3>1. b.msg \in Messages /\ b.ptr \in Nat
      BY <2>2
    <3> HIDE DEF b
    <3>2. BytesFrom(b, n) \in Seq(BytePlace)
      BY <2>3, <3>1, BytesFromTyped
    <3>3. sent' = sent \o BytesFrom(b, n)
      BY <2>1 DEF b
    <3> QED
      BY <1>1, <3>2, <3>3, ConcatProperties
  <2>6. CASE UNCHANGED <<high, low, write_buff_size>>
    BY <1>1, <2>2, <2>4, <2>5, <2>6
  <2>7. CASE append_send_buffer_high(next, n)
    <3>1. /\ high' \in Seq(Buffers) /\ low' \in Seq(Buffers) /\ write_buff_size' \in Nat
          /\ write_buff_size' = SumSz(high') + SumSz(low') /\ low' = low
      BY <2>2, <2>3, <2>7, AppendHighInv
    <3> QED
      BY <1>1, <2>2, <2>4, <2>5, <3>1
  <2> QED
    BY <2>1, <2>6, <2>7
<1>5. CASE SendFails
  <2>1. /\ open' = FALSE /\ next' = next + 1 /\ next \in Messages
        /\ UNCHANGED <<high, low, write_buff_size, sent, interest>>
    BY <1>5 DEF SendFails
  <2>2. next' \in 1 .. Len(Size) + 1
    BY <1>1, <2>1, NextMessage
  <2> QED
    BY <1>1, <2>1, <2>2
<1>6. CASE SendQueued
  <2>1. /\ open /\ next \in Messages /\ next' = next + 1 /\ UNCHANGED <<sent, open, interest>>
        /\ append_send_buffer_high(next, 0) \/ append_send_buffer_low(next)
    BY <1>6 DEF SendQueued
  <2>2. next' \in 1 .. Len(Size) + 1
    BY <1>1, <2>1, NextMessage
  <2>3. CASE append_send_buffer_high(next, 0)
    <3>1. /\ high' \in Seq(Buffers) /\ low' \in Seq(Buffers) /\ write_buff_size' \in Nat
          /\ write_buff_size' = SumSz(high') + SumSz(low') /\ low' = low
      BY <2>1, <2>3, AppendHighInv
    <3> QED
      BY <1>1, <2>1, <2>2, <3>1
  <2>4. CASE append_send_buffer_low(next)
    <3>1. /\ high' = high /\ low' \in Seq(Buffers) /\ write_buff_size' \in Nat
          /\ write_buff_size' = SumSz(high') + SumSz(low')
          /\ \A i \in 1 .. Len(low') : low'[i].ptr = 0
      BY <2>1, <2>4, AppendLowInv
    <3> QED
      BY <1>1, <2>1, <2>2, <3>1
  <2> QED
    BY <2>1, <2>3, <2>4
<1>7. CASE WriteEvent
  <2>1. PICK room \in Room : Flush(room) /\ UNCHANGED open
    BY <1>7 DEF WriteEvent
  <2>2. /\ open /\ open' /\ next' = next /\ write_buff_size' = write_buff_size - room
        /\ FlushHigh(room) \/ FlushLow(room) \/ FlushAll(room)
    BY <1>1, <2>1 DEF Flush
  <2>3. room \in Nat
    BY <1>3 DEF Room
  <2>4. interest' \in BOOLEAN
    BY <1>1, <2>2 DEF FlushHigh, FlushLow, FlushAll
  <2>5. CASE FlushHigh(room)
    <3>1. /\ high' \in Seq(Buffers) /\ low' = low /\ sent' \in Seq(BytePlace)
          /\ write_buff_size' = SumSz(high') + SumSz(low') /\ write_buff_size' \in Nat
      BY <2>2, <2>3, <2>5, FlushHighKeeps
    <3> QED
      BY <1>1, <2>2, <2>4, <3>1
  <2>6. CASE FlushLow(room)
    <3>1. /\ high' \in Seq(Buffers) /\ low' \in Seq(Buffers) /\ sent' \in Seq(BytePlace)
          /\ write_buff_size' = SumSz(high') + SumSz(low') /\ write_buff_size' \in Nat
          /\ \A i \in 1 .. Len(low') : low'[i].ptr = 0
      BY <2>2, <2>6, FlushLowKeeps
    <3> QED
      BY <1>1, <2>1, <2>2, <2>4, <3>1
  <2>7. CASE FlushAll(room)
    <3>1. /\ high' \in Seq(Buffers) /\ low' = low /\ sent' \in Seq(BytePlace)
          /\ write_buff_size' = SumSz(high') + SumSz(low') /\ write_buff_size' \in Nat
      BY <2>2, <2>3, <2>7, FlushAllKeeps
    <3> QED
      BY <1>1, <2>2, <2>4, <3>1
  <2> QED
    BY <2>2, <2>5, <2>6, <2>7
<1>8. CASE WriteFails
  <2>1. PICK room \in Room :
          /\ sent' = sent \o WrittenBytes(high, room)
                          \o (IF room < SumSz(high) THEN <<>>
                              ELSE WrittenBytes(low, room - SumSz(high)))
          /\ high' = Left(high, room)
          /\ low' = IF room < SumSz(high) THEN low ELSE Left(low, room - SumSz(high))
          /\ write_buff_size' = write_buff_size - room
    BY <1>8 DEF WriteFails
  <2>2. open' = FALSE /\ next' = next /\ interest' = interest
    BY <1>8 DEF WriteFails
  <2>3. room \in Nat /\ room <= SumSz(high) + SumSz(low)
    BY <1>3 DEF Room
  <2> DEFINE more == room - SumSz(high)
             w1 == WrittenBytes(high, room)
             w2 == IF room < SumSz(high) THEN <<>> ELSE WrittenBytes(low, more)
  <2>4. ~ (room < SumSz(high)) => more \in Nat
    BY <1>3, <2>3
  <2>5. sent' = sent \o w1 \o w2
    BY <2>1
  <2>6. w1 \in Seq(BytePlace) /\ w2 \in Seq(BytePlace)
    <3> HIDE DEF more
    <3> QED
      BY <1>1, <2>3, <2>4, WrittenTyped, EmptySeq
  <2>7. sent' \in Seq(BytePlace)
    <3> HIDE DEF w1, w2
    <3> QED
      BY <1>1, <2>5, <2>6, ConcatProperties
  <2>8. high' \in Seq(Buffers)
    BY <1>1, <2>1, <2>3, WhatIsLeft
  <2>9. CASE room < SumSz(high)
    <3>1. low' = low /\ SumSz(low') = SumSz(low)
      BY <2>1, <2>9
    <3>2. SumSz(high') = SumSz(high) - room
      BY <1>1, <1>3, <2>1, <2>3, <2>9, WhatIsLeft
    <3>3. write_buff_size' = SumSz(high') + SumSz(low') /\ write_buff_size' \in Nat
      BY <1>1, <1>3, <2>1, <2>3, <2>9, <3>1, <3>2
    <3> QED
      BY <1>1, <2>2, <2>7, <2>8, <3>1, <3>3
  <2>10. CASE room >= SumSz(high)
    <3>1. high' = <<>>
      BY <1>1, <2>1, <2>3, <2>10, NothingLeft
    <3>2. SumSz(high') = 0
      BY <3>1, SumOfEmpty
    <3> DEFINE rest == room - SumSz(high)
    <3>3. rest \in Nat /\ rest <= SumSz(low) /\ low' = Left(low, rest)
      BY <1>3, <2>1, <2>3, <2>10
    <3>4. low' \in Seq(Buffers) /\ SumSz(low') = SumSz(low) - rest
      <4> HIDE DEF rest
      <4> QED
        BY <1>1, <3>3, WhatIsLeft
    <3>5. /\ write_buff_size' = (SumSz(high) + SumSz(low)) - room
          /\ SumSz(high') + SumSz(low') = 0 + (SumSz(low) - (room - SumSz(high)))
      BY <1>1, <2>1, <3>2, <3>4, Zenon
    <3>6. TakesRight(SumSz(high), SumSz(low), room)
      BY <1>3, <2>3, SizeArithmetic
    <3>7. write_buff_size' = SumSz(high') + SumSz(low') /\ write_buff_size' \in Nat
      BY <3>5, <3>6, Zenon DEF TakesRight
    <3> QED
      BY <1>1, <2>2, <2>7, <2>8, <3>4, <3>7
  <2> QED
    BY <1>3, <2>3, <2>9, <2>10
<1>9. CASE UNCHANGED vars
  BY <1>1, <1>9 DEF vars
<1> QED
  BY <1>4, <1>5, <1>6, <1>7, <1>8, <1>9 DEF Next

LEMMA BufferInvariant == Spec => []BufferInv
<1>1. Init => BufferInv
  BY InitBufferInv
<1>2. BufferInv /\ [Next]_vars => BufferInv'
  BY BufferStep
<1> QED
  BY <1>1, <1>2, PTL DEF Spec

(* Buffers, sizes and sent bytes keep their types: the pointer and the size *)
(* of a write buffer never go below zero, whatever the kernel takes.        *)
THEOREM TypeCorrect == Spec => []TypeOK
<1>1. BufferInv => TypeOK
  BY DEF BufferInv
<1> QED
  BY <1>1, BufferInvariant, PTL

(* write_buff_size is always what the two lists of the socket add up to.    *)
THEOREM SizeAlwaysKept == Spec => []SizeIsKept
<1>1. BufferInv => SizeIsKept
  BY DEF BufferInv
<1> QED
  BY <1>1, BufferInvariant, PTL

(* The assertion of send_write_buffer holds while the socket is open: the   *)
(* head of the low list is never a message that is begun.                   *)
THEOREM LowNeverBegunHolds == Spec => []LowNeverBegun
<1>1. BufferInv => LowNeverBegun
  <2> SUFFICES ASSUME BufferInv, open, low # <<>> PROVE Head(low).ptr = 0
    BY DEF LowNeverBegun, Uncomplete
  <2>1. low \in Seq(Buffers) /\ \A i \in 1 .. Len(low) : low[i].ptr = 0
    BY DEF BufferInv, TypeOK, LowFresh
  <2>2. 1 \in 1 .. Len(low) /\ Head(low) = low[1]
    BY <2>1
  <2> QED
    BY <2>1, <2>2
<1> QED
  BY <1>1, BufferInvariant, PTL

-----------------------------------------------------------------------------
(* The bytes of a list, taken apart: its first buffer and the others, what  *)
(* the kernel takes and what is left.                                       *)
LEMMA ConcatAt ==
  ASSUME NEW S, NEW p \in Seq(S), NEW q \in Seq(S), NEW r, r = p \o q
  PROVE  /\ r \in Seq(S) /\ Len(r) = Len(p) + Len(q)
         /\ Len(p) \in Nat /\ Len(q) \in Nat
         /\ \A i \in 1 .. Len(p) : r[i] = p[i]
         /\ \A i \in 1 .. Len(q) : r[Len(p) + i] = q[i]
  OBVIOUS

LEMMA ConcatIs ==
  ASSUME NEW S, NEW p \in Seq(S), NEW q \in Seq(S), NEW r \in Seq(S),
         Len(r) = Len(p) + Len(q),
         \A i \in 1 .. Len(p) : r[i] = p[i],
         \A i \in 1 .. Len(q) : r[Len(p) + i] = q[i]
  PROVE  r = p \o q
<1> DEFINE s == p \o q
<1>1. /\ s \in Seq(S) /\ Len(s) = Len(p) + Len(q)
      /\ Len(p) \in Nat /\ Len(q) \in Nat
      /\ \A i \in 1 .. Len(p) : s[i] = p[i]
      /\ \A i \in 1 .. Len(q) : s[Len(p) + i] = q[i]
  BY ConcatAt
<1> HIDE DEF s
<1>2. ASSUME NEW i \in 1 .. Len(r) PROVE r[i] = s[i]
  <2>1. CASE i <= Len(p)
    <3>1. i \in 1 .. Len(p)
      BY <1>1, <2>1
    <3> QED
      BY <1>1, <3>1
  <2>2. CASE i > Len(p)
    <3>1. i - Len(p) \in 1 .. Len(q) /\ Len(p) + (i - Len(p)) = i
      BY <1>1, <2>2
    <3> QED
      BY <1>1, <3>1
  <2> QED
    BY <1>1, <2>1, <2>2
<1>3. r = s
  BY <1>1, <1>2, SeqEqual
<1> QED
  BY <1>3 DEF s

Regrouped(a, b, c, d) == (a \o b) \o (c \o d) = (a \o (b \o c)) \o d

LEMMA FourParts ==
  ASSUME NEW S, NEW a \in Seq(S), NEW b \in Seq(S), NEW c \in Seq(S), NEW d \in Seq(S)
  PROVE  Regrouped(a, b, c, d)
<1>1. a \o b \in Seq(S)
  BY ConcatProperties
<1>2. Associate(a, b, c)
  BY Associates
<1>3. Associate(a \o b, c, d)
  BY <1>1, Associates
<1> QED
  BY <1>2, <1>3, Zenon DEF Regrouped, Associate

LEMMA PiecesAre ==
  ASSUME NEW list \in Seq(Buffers)
  PROVE  /\ PiecesOf(list) \in Seq(Seq(BytePlace)) /\ Len(PiecesOf(list)) = Len(list)
         /\ \A i \in 1 .. Len(list) : PiecesOf(list)[i] = BytesFrom(list[i], list[i].sz)
<1>1. Len(list) \in 0 .. Len(list)
  OBVIOUS
<1>2. PiecesOf(list) \in Seq(Seq(BytePlace))
  BY <1>1, PiecesTyped DEF PiecesOf
<1>3. DOMAIN PiecesOf(list) = 1 .. Len(list)
  BY DEF PiecesOf
<1>4. Len(PiecesOf(list)) = Len(list)
  <2> DEFINE q == PiecesOf(list)
  <2>1. q \in Seq(Seq(BytePlace)) /\ DOMAIN q = 1 .. Len(list)
    BY <1>2, <1>3
  <2> HIDE DEF q
  <2>2. Len(q) = Len(list)
    BY <1>1, <2>1
  <2> QED
    BY <2>2 DEF q
<1> QED
  BY <1>2, <1>4 DEF PiecesOf

LEMMA PiecesConcat ==
  ASSUME NEW p \in Seq(Buffers), NEW q \in Seq(Buffers)
  PROVE  PiecesOf(p \o q) = PiecesOf(p) \o PiecesOf(q)
<1> DEFINE r == p \o q
           pp == PiecesOf(p)
           pq == PiecesOf(q)
           pr == PiecesOf(r)
<1>1. /\ r \in Seq(Buffers) /\ Len(r) = Len(p) + Len(q)
      /\ Len(p) \in Nat /\ Len(q) \in Nat
      /\ \A i \in 1 .. Len(p) : r[i] = p[i]
      /\ \A i \in 1 .. Len(q) : r[Len(p) + i] = q[i]
  BY ConcatAt
<1>2. /\ pp \in Seq(Seq(BytePlace)) /\ Len(pp) = Len(p)
      /\ \A i \in 1 .. Len(p) : pp[i] = BytesFrom(p[i], p[i].sz)
      /\ pq \in Seq(Seq(BytePlace)) /\ Len(pq) = Len(q)
      /\ \A i \in 1 .. Len(q) : pq[i] = BytesFrom(q[i], q[i].sz)
  BY PiecesAre
<1>3. /\ pr \in Seq(Seq(BytePlace)) /\ Len(pr) = Len(r)
      /\ \A i \in 1 .. Len(r) : pr[i] = BytesFrom(r[i], r[i].sz)
  <2> HIDE DEF r
  <2> QED
    BY <1>1, PiecesAre
<1> HIDE DEF pp, pq, pr, r
<1>4. ASSUME NEW i \in 1 .. Len(pp) PROVE pr[i] = pp[i]
  <2>1. i \in 1 .. Len(p) /\ i \in 1 .. Len(r)
    BY <1>1, <1>2
  <2> QED
    BY <1>1, <1>2, <1>3, <2>1
<1>5. ASSUME NEW i \in 1 .. Len(pq) PROVE pr[Len(pp) + i] = pq[i]
  <2>1. i \in 1 .. Len(q) /\ Len(p) + i \in 1 .. Len(r)
    BY <1>1, <1>2
  <2> QED
    BY <1>1, <1>2, <1>3, <2>1
<1>6. pr = pp \o pq
  <2>1. Len(pr) = Len(pp) + Len(pq)
    BY <1>1, <1>2, <1>3
  <2> QED
    BY <1>2, <1>3, <1>4, <1>5, <2>1, ConcatIs
<1> QED
  BY <1>6 DEF pp, pq, pr, r

LEMMA FlatConcat ==
  ASSUME NEW p \in Seq(Buffers), NEW q \in Seq(Buffers)
  PROVE  /\ Flat(p \o q) = Flat(p) \o Flat(q)
         /\ Flat(p) \in Seq(BytePlace) /\ Flat(q) \in Seq(BytePlace)
<1>1. PiecesOf(p) \in Seq(Seq(BytePlace)) /\ PiecesOf(q) \in Seq(Seq(BytePlace))
  BY PiecesAre
<1> QED
  BY <1>1, PiecesConcat, FlattenConcat, FlattenTyped DEF Flat

LEMMA FlatEmpty == Flat(<<>>) = <<>>
<1>1. PiecesOf(<<>>) = <<>>
  BY DEF PiecesOf
<1> QED
  BY <1>1, FlattenEmpty DEF Flat

LEMMA FlatOne ==
  ASSUME NEW b \in Buffers
  PROVE  Flat(<<b>>) = BytesFrom(b, b.sz) /\ BytesFrom(b, b.sz) \in Seq(BytePlace)
<1>1. b.msg \in Messages /\ b.ptr \in Nat /\ b.sz \in Nat
  BY MessagesAreDomain DEF Buffers
<1>2. BytesFrom(b, b.sz) \in Seq(BytePlace)
  BY <1>1, BytesFromTyped
<1>3. PiecesOf(<<b>>) = <<BytesFrom(b, b.sz)>>
  BY DEF PiecesOf
<1> QED
  BY <1>2, <1>3, FlattenOne DEF Flat

LEMMA BytesFromSplit ==
  ASSUME NEW b \in Buffers, NEW n \in Nat, n < b.sz
  PROVE  BytesFrom(b, n) \o BytesFrom(Advance(b, n), Advance(b, n).sz) = BytesFrom(b, b.sz)
<1> DEFINE a == Advance(b, n)
           x == BytesFrom(b, n)
           y == BytesFrom(a, a.sz)
           z == BytesFrom(b, b.sz)
<1>1. b.msg \in Messages /\ b.ptr \in Nat /\ b.sz \in Nat
  BY MessagesAreDomain DEF Buffers
<1>2. a.msg = b.msg /\ a.ptr = b.ptr + n /\ a.sz = b.sz - n
  BY DEF Advance, Buffers
<1>3. a.sz \in Nat /\ a.ptr \in Nat /\ a.msg \in Messages
  BY <1>1, <1>2
<1>4. /\ x \in Seq(BytePlace) /\ Len(x) = n
      /\ z \in Seq(BytePlace) /\ Len(z) = b.sz
  BY <1>1, BytesFromTyped
<1>5. y \in Seq(BytePlace) /\ Len(y) = b.sz - n
  <2> HIDE DEF a
  <2> QED
    BY <1>2, <1>3, BytesFromTyped
<1>6. /\ \A i \in 1 .. n : x[i] = <<b.msg, b.ptr + i>>
      /\ \A i \in 1 .. b.sz : z[i] = <<b.msg, b.ptr + i>>
      /\ \A i \in 1 .. b.sz - n : y[i] = <<b.msg, (b.ptr + n) + i>>
  BY <1>2 DEF BytesFrom
<1> HIDE DEF a, x, y, z
<1>7. ASSUME NEW i \in 1 .. Len(x) PROVE z[i] = x[i]
  <2>1. i \in 1 .. n /\ i \in 1 .. b.sz
    BY <1>1, <1>4
  <2> QED
    BY <1>6, <2>1
<1>8. ASSUME NEW i \in 1 .. Len(y) PROVE z[Len(x) + i] = y[i]
  <2>1. i \in 1 .. b.sz - n /\ n + i \in 1 .. b.sz /\ b.ptr + (n + i) = (b.ptr + n) + i
    BY <1>1, <1>5
  <2> QED
    BY <1>4, <1>6, <2>1
<1>9. z = x \o y
  <2>1. Len(z) = Len(x) + Len(y)
    BY <1>1, <1>4, <1>5
  <2> QED
    BY <1>4, <1>5, <1>7, <1>8, <2>1, ConcatIs
<1> QED
  BY <1>9 DEF a, x, y, z

(* What the kernel takes and what is left of a list are the list, byte for  *)
(* byte.                                                                    *)
LEMMA TakenAndLeft ==
  ASSUME NEW list \in Seq(Buffers), NEW room \in Nat
  PROVE  WrittenBytes(list, room) \o Flat(Left(list, room)) = Flat(list)
<1> DEFINE k == Whole(list, room)
           n == Part(list, room)
           pre == SubSeq(list, 1, k)
<1>1. k \in 0 .. Len(list) /\ n \in Nat /\ Len(list) \in Nat
  <2>1. Whole(list, room) \in 0 .. Len(list) /\ Part(list, room) \in Nat
    BY PartOfOne
  <2> QED
    BY <2>1
<1>2. pre \in Seq(Buffers) /\ Len(pre) = k /\ \A i \in 1 .. k : pre[i] = list[i]
  BY <1>1
<1>3. FlattenSeq([j \in 1 .. k |-> BytesFrom(list[j], list[j].sz)]) = Flat(pre)
  <2>1. [j \in 1 .. k |-> BytesFrom(list[j], list[j].sz)] = PiecesOf(pre)
    BY <1>2 DEF PiecesOf
  <2> QED
    BY <2>1 DEF Flat
<1>4. WrittenBytes(list, room)
        = Flat(pre) \o IF k = Len(list) THEN <<>> ELSE BytesFrom(list[k + 1], n)
  BY <1>3 DEF WrittenBytes
<1>5. Flat(pre) \in Seq(BytePlace)
  <2> HIDE DEF pre
  <2> QED
    BY <1>2, FlatConcat
<1>6. CASE k = Len(list)
  <2>1. Left(list, room) = <<>> /\ pre = list
    BY <1>6, SubSeqFull DEF Left
  <2>2. Flat(Left(list, room)) = <<>>
    BY <2>1, FlatEmpty
  <2>3. WrittenBytes(list, room) = Flat(pre) \o <<>>
    BY <1>4, <1>6
  <2> HIDE DEF pre
  <2> QED
    BY <1>5, <2>1, <2>2, <2>3, ConcatEmptySeq
<1>7. CASE k # Len(list)
  <2> DEFINE b == list[k + 1]
             a == Advance(b, n)
             rest == SubSeq(list, k + 2, Len(list))
  <2>1. k < Len(list) /\ k + 1 \in 1 .. Len(list)
    BY <1>1, <1>7
  <2>2. b \in Buffers /\ n < b.sz
    <3>1. n < b.sz
      BY <2>1, PartOfOne
    <3> HIDE DEF k
    <3> QED
      BY <2>1, <3>1
  <2>3. a \in Buffers
    <3> HIDE DEF b, n, k
    <3> QED
      BY <1>1, <2>2, AdvanceTyped
  <2>4. rest \in Seq(Buffers)
    <3> HIDE DEF k
    <3>1. \A i \in k + 2 .. Len(list) : list[i] \in Buffers
      BY <1>1
    <3> QED
      BY <1>1, <3>1, SubSeqProperties
  <2>5. list = (pre \o <<b>>) \o rest
    <3> HIDE DEF k
    <3> DEFINE q == pre \o <<b>>
    <3>1. q = SubSeq(list, 1, k + 1)
      BY <1>1, <2>1, SubSeqRecursiveSecond
    <3> HIDE DEF q
    <3>2. (k + 1) + 1 = k + 2 /\ 1 - 1 = 0
      BY <1>1
    <3>3. list = q \o rest
      <4>1. k + 1 \in Nat /\ k + 1 <= Len(list)
        BY <1>1, <2>1
      <4>2. /\ q \in Seq(Buffers) /\ Len(q) = k + 1
            /\ \A i \in 1 .. Len(q) : list[i] = q[i]
        BY <3>1, <4>1
      <4>3. /\ Len(rest) = Len(list) - (k + 1)
            /\ \A i \in 1 .. Len(rest) : list[(k + 1) + i] = rest[i]
        BY <1>1, <3>2, <4>1
      <4>4. Len(list) = Len(q) + Len(rest) /\ \A i \in 1 .. Len(rest) : list[Len(q) + i] = rest[i]
        <5> HIDE DEF rest
        <5> QED
          BY <1>1, <4>1, <4>2, <4>3
      <4> HIDE DEF rest
      <4> QED
        BY <2>4, <4>2, <4>4, ConcatIs
    <3> QED
      BY <3>3 DEF q
  <2>6. Left(list, room) = <<a>> \o rest
    BY <1>7 DEF Left
  <2>7. WrittenBytes(list, room) = Flat(pre) \o BytesFrom(b, n)
    BY <1>4, <1>7
  <2>8. BytesFrom(b, n) \in Seq(BytePlace)
    <3>1. b.msg \in Messages /\ b.ptr \in Nat
      BY <2>2, MessagesAreDomain DEF Buffers
    <3> HIDE DEF b, n
    <3> QED
      BY <1>1, <3>1, BytesFromTyped
  <2> DEFINE fp == Flat(pre)
             fr == Flat(rest)
             bn == BytesFrom(b, n)
             ba == BytesFrom(a, a.sz)
             bb == BytesFrom(b, b.sz)
  <2>9. /\ Flat(list) = (fp \o bb) \o fr /\ fr \in Seq(BytePlace)
        /\ Flat(Left(list, room)) = ba \o fr /\ ba \in Seq(BytePlace)
        /\ bb \in Seq(BytePlace)
    <3>1. <<b>> \in Seq(Buffers) /\ <<a>> \in Seq(Buffers)
      BY <2>2, <2>3
    <3>2. Flat(<<b>>) = bb /\ Flat(<<a>>) = ba /\ bb \in Seq(BytePlace) /\ ba \in Seq(BytePlace)
      <4> HIDE DEF a, b
      <4> QED
        BY <2>2, <2>3, FlatOne
    <3> DEFINE q == pre \o <<b>>
    <3>3. q \in Seq(Buffers)
      <4> HIDE DEF b, pre
      <4> QED
        BY <1>2, <3>1, ConcatProperties
    <3>4. Flat(q) = fp \o Flat(<<b>>)
      <4> HIDE DEF b, pre
      <4> QED
        BY <1>2, <3>1, FlatConcat
    <3>5. Flat(q \o rest) = Flat(q) \o fr /\ fr \in Seq(BytePlace)
      <4> HIDE DEF q, rest
      <4> QED
        BY <2>4, <3>3, FlatConcat
    <3>6. Flat(<<a>> \o rest) = Flat(<<a>>) \o fr
      <4> HIDE DEF a, rest
      <4> QED
        BY <2>4, <3>1, FlatConcat
    <3>7. list = q \o rest
      BY <2>5
    <3> HIDE DEF a, b, q, rest, fp, fr, pre, ba, bb
    <3> QED
      BY <2>6, <3>2, <3>4, <3>5, <3>6, <3>7
  <2>10. bn \o ba = bb
    <3> HIDE DEF b, n, k
    <3> QED
      BY <1>1, <2>2, BytesFromSplit
  <2>11. fp \in Seq(BytePlace) /\ bn \in Seq(BytePlace) /\ WrittenBytes(list, room) = fp \o bn
    BY <1>5, <2>7, <2>8
  <2> HIDE DEF fp, fr, bn, ba, bb, a, b, n, k, rest, pre
  <2>12. (fp \o bn) \o (ba \o fr) = (fp \o (bn \o ba)) \o fr
    <3>1. fp \in Seq(BytePlace) /\ bn \in Seq(BytePlace)
      BY <2>11
    <3>2. ba \in Seq(BytePlace) /\ fr \in Seq(BytePlace)
      BY <2>9
    <3>3. Regrouped(fp, bn, ba, fr)
      BY <3>1, <3>2, FourParts
    <3> QED
      BY <3>3 DEF Regrouped
  <2> QED
    BY <2>9, <2>10, <2>11, <2>12
<1> QED
  BY <1>6, <1>7

-----------------------------------------------------------------------------
(* A buffer that is not begun is a whole message, only the head of a list   *)
(* may be begun, and the low list is begun only after a failed write has    *)
(* emptied the high one.  (Of a begun buffer nothing is said: after a short *)
(* direct write it does not end where its message does.)                    *)
FreshWhole(list) ==
  \A i \in 1 .. Len(list) : list[i].ptr = 0 => list[i].sz = Size[list[i].msg]
TailFresh(list) == \A i \in 2 .. Len(list) : list[i].ptr = 0
StreamInv ==
  /\ BufferInv
  /\ FreshWhole(high) /\ FreshWhole(low)
  /\ TailFresh(high) /\ TailFresh(low)
  /\ Uncomplete(low) => high = <<>>

LEMMA AppendedShape ==
  ASSUME NEW list \in Seq(Buffers), NEW m \in Messages, FreshWhole(list), TailFresh(list)
  PROVE  /\ FreshWhole(Appended(list, m, 0)) /\ TailFresh(Appended(list, m, 0))
         /\ Uncomplete(Appended(list, m, 0)) <=> Uncomplete(list)
<1> DEFINE b == [msg |-> m, ptr |-> 0, sz |-> Size[m]]
           p == Append(list, b)
<1>1. b \in Buffers /\ b.ptr = 0 /\ b.sz = Size[b.msg]
  BY SizesAreNat DEF Buffers
<1>2. Appended(list, m, 0) = p
  BY DEF Appended
<1>3. /\ p \in Seq(Buffers) /\ Len(p) = Len(list) + 1 /\ Len(list) \in Nat
      /\ p # <<>> /\ \A i \in 1 .. Len(list) : p[i] = list[i]
      /\ p[Len(list) + 1] = b
  <2> HIDE DEF b
  <2> QED
    BY <1>1, AppendProperties
<1> HIDE DEF p, b
<1>4. ASSUME NEW i \in 1 .. Len(p)
      PROVE  /\ p[i].ptr = 0 => p[i].sz = Size[p[i].msg]
             /\ i # 1 => p[i].ptr = 0
  <2>1. CASE i = Len(list) + 1
    BY <1>1, <1>3, <2>1
  <2>2. CASE i # Len(list) + 1
    <3>1. i \in 1 .. Len(list) /\ (i # 1 => i \in 2 .. Len(list))
      BY <1>3, <2>2
    <3> QED
      BY <1>3, <3>1 DEF FreshWhole, TailFresh
  <2> QED
    BY <2>1, <2>2
<1>5. FreshWhole(p) /\ TailFresh(p)
  <2>1. \A i \in 2 .. Len(p) : i \in 1 .. Len(p) /\ i # 1
    BY <1>3
  <2> QED
    BY <1>4, <2>1 DEF FreshWhole, TailFresh
<1>6. Uncomplete(p) <=> Uncomplete(list)
  <2>1. Head(p) = p[1]
    BY <1>3
  <2>2. CASE list = <<>>
    <3>1. Head(p) = b
      BY <1>3, <2>1, <2>2
    <3> QED
      BY <1>1, <2>2, <3>1 DEF Uncomplete
  <2>3. CASE list # <<>>
    <3>1. 1 \in 1 .. Len(list) /\ Head(list) = list[1]
      BY <1>3, <2>3
    <3> QED
      BY <1>3, <2>1, <2>3, <3>1 DEF Uncomplete
  <2> QED
    BY <2>2, <2>3
<1> QED
  BY <1>2, <1>5, <1>6

LEMMA LeftShape ==
  ASSUME NEW list \in Seq(Buffers), NEW room \in Nat
  PROVE  /\ Whole(list, room) \in 0 .. Len(list) /\ Part(list, room) \in Nat
         /\ Whole(list, room) = Len(list) => Left(list, room) = <<>>
         /\ Whole(list, room) # Len(list) =>
              /\ Whole(list, room) + 1 \in 1 .. Len(list)
              /\ Left(list, room) \in Seq(Buffers)
              /\ Len(Left(list, room)) = Len(list) - Whole(list, room)
              /\ Part(list, room) < list[Whole(list, room) + 1].sz
              /\ Left(list, room)[1] = Advance(list[Whole(list, room) + 1], Part(list, room))
              /\ \A i \in 2 .. Len(Left(list, room)) :
                   Left(list, room)[i] = list[Whole(list, room) + i]
<1> DEFINE k == Whole(list, room)
           n == Part(list, room)
<1>1. k \in 0 .. Len(list) /\ n \in Nat /\ Len(list) \in Nat
  <2>1. Whole(list, room) \in 0 .. Len(list) /\ Part(list, room) \in Nat
    BY PartOfOne
  <2> QED
    BY <2>1
<1>2. CASE k = Len(list)
  BY <1>1, <1>2 DEF Left
<1>3. CASE k # Len(list)
  <2> DEFINE b == list[k + 1]
             head == <<Advance(b, n)>>
             rest == SubSeq(list, k + 2, Len(list))
             left == Left(list, room)
  <2>1. k < Len(list) /\ k + 1 \in 1 .. Len(list)
    BY <1>1, <1>3
  <2>2. n < b.sz
    BY <2>1, PartOfOne
  <2>3. b \in Buffers
    <3> HIDE DEF k
    <3> QED
      BY <2>1
  <2>4. head \in Seq(Buffers) /\ Len(head) = 1 /\ head[1] = Advance(b, n)
    <3>1. Advance(b, n) \in Buffers
      <4> HIDE DEF b, n
      <4> QED
        BY <1>1, <2>2, <2>3, AdvanceTyped
    <3> QED
      BY <3>1
  <2>5. /\ rest \in Seq(Buffers) /\ Len(rest) = Len(list) - (k + 1)
        /\ \A i \in 1 .. Len(rest) : rest[i] = list[k + 1 + i]
    <3> HIDE DEF k
    <3>1. \A i \in k + 2 .. Len(list) : list[i] \in Buffers
      BY <1>1
    <3>2. /\ rest \in Seq(Buffers)
          /\ Len(rest) = IF k + 2 <= Len(list) THEN Len(list) - (k + 2) + 1 ELSE 0
          /\ \A i \in 1 .. Len(list) - (k + 2) + 1 : rest[i] = list[k + 2 + i - 1]
      BY <1>1, <3>1, SubSeqProperties
    <3>3. Len(rest) = Len(list) - (k + 1) /\ Len(list) - (k + 2) + 1 = Len(list) - (k + 1)
      BY <1>1, <1>3, <2>1, <3>2
    <3> HIDE DEF rest
    <3>4. \A i \in Nat : k + 2 + i - 1 = k + 1 + i
      BY <1>1
    <3>5. Len(rest) \in Nat /\ 1 .. Len(rest) \subseteq Nat
      BY <3>2
    <3> QED
      BY <3>2, <3>3, <3>4, <3>5
  <2>6. left = head \o rest
    BY <1>3 DEF Left
  <2> HIDE DEF head, rest, left, b, n, k
  <2>7. /\ left \in Seq(Buffers) /\ Len(left) = 1 + Len(rest)
        /\ \A i \in 1 .. 1 : left[i] = head[i]
        /\ \A i \in 1 .. Len(rest) : left[1 + i] = rest[i]
    <3>1. /\ left \in Seq(Buffers) /\ Len(left) = Len(head) + Len(rest)
          /\ \A i \in 1 .. Len(head) : left[i] = head[i]
          /\ \A i \in 1 .. Len(rest) : left[Len(head) + i] = rest[i]
      <4>1. head \in Seq(Buffers) /\ rest \in Seq(Buffers)
        BY <2>4, <2>5
      <4> QED
        BY <2>6, <4>1, ConcatAt
    <3> QED
      BY <2>4, <3>1
  <2>8. Len(left) = Len(list) - k /\ left[1] = Advance(b, n)
    BY <1>1, <2>4, <2>5, <2>7
  <2>9. ASSUME NEW i \in 2 .. Len(left) PROVE left[i] = list[k + i]
    <3>1. i - 1 \in 1 .. Len(rest) /\ 1 + (i - 1) = i /\ k + 1 + (i - 1) = k + i
      BY <1>1, <2>5, <2>7
    <3> QED
      BY <2>5, <2>7, <3>1
  <2> QED
    BY <1>1, <1>3, <2>1, <2>2, <2>7, <2>8, <2>9 DEF left, n, k, b
<1> QED
  BY <1>1, <1>2, <1>3

LEMMA LeftFresh ==
  ASSUME NEW list \in Seq(Buffers), NEW room \in Nat, FreshWhole(list), TailFresh(list)
  PROVE  FreshWhole(Left(list, room)) /\ TailFresh(Left(list, room))
<1> DEFINE k == Whole(list, room)
           n == Part(list, room)
           left == Left(list, room)
<1>1. k \in 0 .. Len(list) /\ n \in Nat /\ Len(list) \in Nat
  BY LeftShape
<1>2. CASE k = Len(list)
  <2>1. left = <<>>
    BY <1>2, LeftShape
  <2> QED
    BY <2>1 DEF FreshWhole, TailFresh
<1>3. CASE k # Len(list)
  <2> DEFINE b == list[k + 1]
  <2>1. /\ k + 1 \in 1 .. Len(list) /\ left \in Seq(Buffers)
        /\ Len(left) = Len(list) - k /\ n < b.sz /\ left[1] = Advance(b, n)
        /\ \A i \in 2 .. Len(left) : left[i] = list[k + i]
    BY <1>3, LeftShape
  <2> HIDE DEF k, n, left
  <2>2. b \in Buffers /\ (b.ptr = 0 => b.sz = Size[b.msg])
    BY <2>1 DEF FreshWhole
  <2>3. Advance(b, n).ptr = 0 => Advance(b, n).sz = Size[Advance(b, n).msg]
    <3> HIDE DEF b
    <3>1. b.ptr \in Nat /\ b.sz \in Nat
      BY <2>2 DEF Buffers
    <3>2. /\ Advance(b, n).ptr = b.ptr + n /\ Advance(b, n).sz = b.sz - n
          /\ Advance(b, n).msg = b.msg
      BY <2>2 DEF Advance, Buffers
    <3> QED
      BY <1>1, <2>2, <3>1, <3>2
  <2>4. ASSUME NEW i \in 2 .. Len(left)
        PROVE  left[i].ptr = 0 /\ left[i].sz = Size[left[i].msg]
    <3>1. k + i \in 2 .. Len(list) /\ k + i \in 1 .. Len(list)
      BY <1>1, <2>1
    <3> QED
      BY <2>1, <3>1 DEF FreshWhole, TailFresh
  <2>5. \A i \in 1 .. Len(left) : i = 1 \/ i \in 2 .. Len(left)
    BY <2>1
  <2> QED
    BY <2>1, <2>3, <2>4, <2>5 DEF FreshWhole, TailFresh, left
<1> QED
  BY <1>2, <1>3

LEMMA RaisedShape ==
  ASSUME NEW lows \in Seq(Buffers), FreshWhole(lows), TailFresh(lows)
  PROVE  /\ FreshWhole(Raised(lows).high) /\ FreshWhole(Raised(lows).low)
         /\ TailFresh(Raised(lows).high) /\ TailFresh(Raised(lows).low)
         /\ ~ Uncomplete(Raised(lows).low)
<1>1. CASE Uncomplete(lows)
  <2> DEFINE h == <<Head(lows)>>
             t == Tail(lows)
  <2>1. lows # <<>> /\ Raised(lows).high = h /\ Raised(lows).low = t
    BY <1>1 DEF Raised, Uncomplete
  <2>2. /\ Head(lows) = lows[1] /\ t \in Seq(Buffers)
        /\ Len(t) = Len(lows) - 1 /\ Len(lows) \in Nat /\ Len(lows) # 0
        /\ \A i \in 1 .. Len(t) : t[i] = lows[i + 1]
    BY <2>1, HeadTailProperties
  <2>3. h \in Seq(Buffers) /\ Len(h) = 1 /\ h[1] = lows[1] /\ 1 \in 1 .. Len(lows)
    <3>1. 1 \in 1 .. Len(lows)
      BY <2>2
    <3>2. lows[1] \in Buffers
      BY <3>1
    <3> QED
      BY <2>2, <3>1, <3>2
  <2> HIDE DEF h, t
  <2>4. FreshWhole(h) /\ TailFresh(h)
    BY <2>3 DEF FreshWhole, TailFresh
  <2>5. ASSUME NEW i \in 1 .. Len(t)
        PROVE  t[i].ptr = 0 /\ t[i].sz = Size[t[i].msg]
    <3>1. i + 1 \in 2 .. Len(lows) /\ i + 1 \in 1 .. Len(lows)
      BY <2>2
    <3> QED
      BY <2>2, <3>1 DEF FreshWhole, TailFresh
  <2>6. FreshWhole(t) /\ TailFresh(t)
    <3>1. \A i \in 2 .. Len(t) : i \in 1 .. Len(t)
      BY <2>2
    <3> QED
      BY <2>5, <3>1 DEF FreshWhole, TailFresh
  <2>7. ~ Uncomplete(t)
    <3> SUFFICES ASSUME t # <<>> PROVE Head(t).ptr = 0
      BY DEF Uncomplete
    <3>1. Head(t) = t[1] /\ 1 \in 1 .. Len(t)
      BY <2>2
    <3> QED
      BY <2>5, <3>1
  <2> QED
    BY <2>1, <2>4, <2>6, <2>7
<1>2. CASE ~ Uncomplete(lows)
  <2>1. Raised(lows).high = <<>> /\ Raised(lows).low = lows
    BY <1>2 DEF Raised
  <2>2. FreshWhole(<<>>) /\ TailFresh(<<>>)
    BY DEF FreshWhole, TailFresh
  <2> QED
    BY <1>2, <2>1, <2>2
<1> QED
  BY <1>1, <1>2

LEMMA FreshIsNotBegun ==
  ASSUME NEW list \in Seq(Buffers), \A i \in 1 .. Len(list) : list[i].ptr = 0
  PROVE  ~ Uncomplete(list)
<1> SUFFICES ASSUME list # <<>> PROVE Head(list).ptr = 0
  BY DEF Uncomplete
<1>1. Head(list) = list[1] /\ 1 \in 1 .. Len(list)
  OBVIOUS
<1> QED
  BY <1>1

LEMMA EmptyShape == FreshWhole(<<>>) /\ TailFresh(<<>>) /\ ~ Uncomplete(<<>>)
  BY DEF FreshWhole, TailFresh, Uncomplete

(* The list that a direct write of n bytes leaves, which had none before.   *)
LEMMA OneBuffer ==
  ASSUME NEW m \in Messages, NEW n \in Nat
  PROVE  /\ Appended(<<>>, m, n) = <<[msg |-> m, ptr |-> n, sz |-> Size[m]]>>
         /\ FreshWhole(Appended(<<>>, m, n)) /\ TailFresh(Appended(<<>>, m, n))
<1> DEFINE b == [msg |-> m, ptr |-> n, sz |-> Size[m]]
           p == Appended(<<>>, m, n)
<1>1. p = <<b>>
  BY DEF Appended
<1>2. Len(p) = 1 /\ p[1] = b
  BY <1>1
<1> HIDE DEF p
<1>3. FreshWhole(p) /\ TailFresh(p)
  BY <1>2 DEF FreshWhole, TailFresh
<1> QED
  BY <1>1, <1>3 DEF p

LEMMA InitStreamInv == Init => StreamInv
<1> SUFFICES ASSUME Init PROVE StreamInv
  OBVIOUS
<1>1. high = <<>> /\ low = <<>>
  BY DEF Init
<1> QED
  BY <1>1, InitBufferInv, EmptyShape DEF StreamInv

LEMMA StreamInvStep == StreamInv /\ BufferInv' /\ [Next]_vars => StreamInv'
<1> SUFFICES ASSUME StreamInv, BufferInv', [Next]_vars PROVE StreamInv'
  OBVIOUS
<1>1. /\ high \in Seq(Buffers) /\ low \in Seq(Buffers) /\ BufferInv
      /\ FreshWhole(high) /\ FreshWhole(low) /\ TailFresh(high) /\ TailFresh(low)
      /\ Uncomplete(low) => high = <<>>
      /\ open => ~ Uncomplete(low)
  <2>1. open => ~ Uncomplete(low)
    BY FreshIsNotBegun DEF StreamInv, BufferInv, TypeOK, LowFresh
  <2> QED
    BY <2>1 DEF StreamInv, BufferInv, TypeOK
<1>2. SUFFICES /\ FreshWhole(high') /\ FreshWhole(low') /\ TailFresh(high') /\ TailFresh(low')
               /\ Uncomplete(low') => high' = <<>>
  BY DEF StreamInv, FreshWhole, TailFresh
<1>3. SumSz(high) \in Nat /\ SumSz(low) \in Nat
  BY <1>1, SumIsNat
<1>4. CASE SendDirect
  <2>1. PICK n \in 0 .. Size[next] :
             \/ n = Size[next] /\ UNCHANGED <<high, low, write_buff_size>>
             \/ n # Size[next] /\ append_send_buffer_high(next, n)
    BY <1>4 DEF SendDirect
  <2>2. next \in Messages /\ high = <<>> /\ low = <<>>
    BY <1>4 DEF SendDirect, is_send_buffer_empty
  <2>3. CASE UNCHANGED <<high, low, write_buff_size>>
    BY <1>1, <2>3
  <2>4. CASE n # Size[next] /\ append_send_buffer_high(next, n)
    <3>1. high' = Appended(<<>>, next, n) /\ low' = <<>> /\ n \in Nat
      BY <2>2, <2>4 DEF append_send_buffer_high
    <3> QED
      BY <2>2, <3>1, OneBuffer, EmptyShape
  <2> QED
    BY <2>1, <2>3, <2>4
<1>5. CASE SendFails
  <2>1. high' = high /\ low' = low
    BY <1>5 DEF SendFails
  <2> QED
    BY <1>1, <2>1
<1>6. CASE SendQueued
  <2>1. /\ open /\ next \in Messages
        /\ append_send_buffer_high(next, 0) \/ append_send_buffer_low(next)
    BY <1>6 DEF SendQueued
  <2>2. CASE append_send_buffer_high(next, 0)
    <3>1. high' = Appended(high, next, 0) /\ low' = low
      BY <2>2 DEF append_send_buffer_high
    <3> QED
      BY <1>1, <2>1, <3>1, AppendedShape
  <2>3. CASE append_send_buffer_low(next)
    <3>1. low' = Appended(low, next, 0) /\ high' = high
      BY <2>3 DEF append_send_buffer_low
    <3> QED
      BY <1>1, <2>1, <3>1, AppendedShape
  <2> QED
    BY <2>1, <2>2, <2>3
<1>7. CASE WriteEvent
  <2>1. PICK room \in Room : Flush(room) /\ UNCHANGED open
    BY <1>7 DEF WriteEvent
  <2>2. open /\ (FlushHigh(room) \/ FlushLow(room) \/ FlushAll(room))
    BY <2>1 DEF Flush
  <2>3. room \in Nat
    BY <1>3 DEF Room
  <2>4. CASE FlushHigh(room)
    <3>1. high' = Left(high, room) /\ low' = low
      BY <2>4 DEF FlushHigh
    <3> QED
      BY <1>1, <2>2, <2>3, <3>1, LeftFresh
  <2>5. CASE FlushLow(room)
    <3> DEFINE more == room - SumSz(high)
               lows == Left(low, more)
    <3>1. more \in Nat /\ high' = Raised(lows).high /\ low' = Raised(lows).low
      BY <1>3, <2>3, <2>5 DEF FlushLow
    <3>2. lows \in Seq(Buffers) /\ FreshWhole(lows) /\ TailFresh(lows)
      <4> HIDE DEF more
      <4> QED
        BY <1>1, <3>1, LeftFresh, WhatIsLeft
    <3> HIDE DEF lows
    <3> QED
      BY <3>1, <3>2, RaisedShape
  <2>6. CASE FlushAll(room)
    <3>1. high' = <<>> /\ low' = low
      BY <2>6 DEF FlushAll
    <3> QED
      BY <1>1, <3>1, EmptyShape
  <2> QED
    BY <2>2, <2>4, <2>5, <2>6
<1>8. CASE WriteFails
  <2>1. PICK room \in Room :
          /\ high' = Left(high, room)
          /\ low' = IF room < SumSz(high) THEN low ELSE Left(low, room - SumSz(high))
    BY <1>8 DEF WriteFails
  <2>2. room \in Nat /\ open
    BY <1>3, <1>8 DEF Room, WriteFails
  <2>3. FreshWhole(high') /\ TailFresh(high')
    BY <1>1, <2>1, <2>2, LeftFresh
  <2>4. CASE room < SumSz(high)
    <3>1. low' = low
      BY <2>1, <2>4
    <3> QED
      BY <1>1, <2>2, <2>3, <3>1
  <2>5. CASE room >= SumSz(high)
    <3> DEFINE rest == room - SumSz(high)
    <3>1. rest \in Nat /\ low' = Left(low, rest)
      BY <1>3, <2>1, <2>2, <2>5
    <3>2. FreshWhole(low') /\ TailFresh(low')
      <4> HIDE DEF rest
      <4> QED
        BY <1>1, <3>1, LeftFresh
    <3>3. high' = <<>>
      BY <1>1, <2>1, <2>2, <2>5, NothingLeft
    <3> QED
      BY <2>3, <3>2, <3>3
  <2> QED
    BY <1>3, <2>2, <2>4, <2>5
<1>9. CASE UNCHANGED vars
  <2>1. high' = high /\ low' = low
    BY <1>9 DEF vars
  <2> QED
    BY <1>1, <2>1
<1> QED
  BY <1>4, <1>5, <1>6, <1>7, <1>8, <1>9 DEF Next

-----------------------------------------------------------------------------
(* The lists as SendStream sees them: the messages that wait are those of   *)
(* the list from its first whole buffer on.                                 *)
Skipped(list) == IF Uncomplete(list) THEN 1 ELSE 0
RestOf(list) == IF Uncomplete(list) THEN BytesFrom(Head(list), Head(list).sz) ELSE <<>>

LEMMA WaitingIs ==
  ASSUME NEW list \in Seq(Buffers)
  PROVE  /\ Waiting(list) \in Seq(Messages) /\ Skipped(list) \in 0 .. Len(list)
         /\ Len(Waiting(list)) = Len(list) - Skipped(list)
         /\ \A i \in 1 .. Len(Waiting(list)) : Waiting(list)[i] = list[Skipped(list) + i].msg
<1> DEFINE rest == IF Uncomplete(list) THEN Tail(list) ELSE list
           d == Skipped(list)
           w == Waiting(list)
<1>1. /\ rest \in Seq(Buffers) /\ d \in 0 .. Len(list) /\ Len(rest) = Len(list) - d
      /\ Len(list) \in Nat
      /\ \A i \in 1 .. Len(rest) : rest[i] = list[d + i]
  <2>1. CASE Uncomplete(list)
    <3>1. list # <<>> /\ d = 1 /\ rest = Tail(list)
      BY <2>1 DEF Uncomplete, Skipped
    <3>2. /\ Tail(list) \in Seq(Buffers) /\ Len(Tail(list)) = Len(list) - 1
          /\ Len(list) \in Nat /\ Len(list) # 0
          /\ \A i \in 1 .. Len(Tail(list)) : Tail(list)[i] = list[i + 1]
      BY <3>1, HeadTailProperties
    <3>3. \A i \in 1 .. Len(Tail(list)) : i + 1 = 1 + i
      BY <3>2
    <3> HIDE DEF rest, d
    <3> QED
      BY <3>1, <3>2, <3>3
  <2>2. CASE ~ Uncomplete(list)
    <3>1. d = 0 /\ rest = list /\ Len(list) \in Nat
      BY <2>2 DEF Skipped
    <3>2. \A i \in 1 .. Len(list) : 0 + i = i
      BY <3>1
    <3> HIDE DEF rest, d
    <3> QED
      BY <3>1, <3>2
  <2> QED
    BY <2>1, <2>2
<1>2. w = [k \in 1 .. Len(rest) |-> rest[k].msg]
  <2>1. w = [k \in DOMAIN rest |-> rest[k].msg]
    BY DEF Waiting
  <2>2. DOMAIN rest = 1 .. Len(rest)
    <3> HIDE DEF rest
    <3> QED
      BY <1>1
  <2> HIDE DEF rest, w
  <2> QED
    BY <2>1, <2>2
<1> HIDE DEF rest, d, w
<1>3. ASSUME NEW k \in 1 .. Len(rest) PROVE rest[k].msg \in Messages
  BY <1>1, BufferFields
<1>4. Len(rest) \in Nat
  BY <1>1
<1>5. w \in Seq(Messages) /\ Len(w) = Len(rest)
  BY <1>2, <1>3, <1>4
<1>6. \A i \in 1 .. Len(w) : w[i] = list[d + i].msg
  BY <1>1, <1>2, <1>5
<1> QED
  BY <1>1, <1>5, <1>6 DEF d, w

LEMMA SuffixBy ==
  ASSUME NEW S, NEW w \in Seq(S), NEW v \in Seq(S), NEW o \in Nat, Len(v) + o = Len(w),
         \A i \in 1 .. Len(v) : v[i] = w[o + i]
  PROVE  v \in Suffixes(w)
<1>1. Len(v) \in Nat /\ Len(w) \in Nat
  OBVIOUS
<1>2. CASE Len(v) = 0
  <2>1. v = <<>>
    BY <1>2
  <2> QED
    BY <2>1 DEF Suffixes
<1>3. CASE Len(v) # 0
  <2> DEFINE l == o + 1
             u == SubSeq(w, l, Len(w))
  <2>1. l \in 1 .. Len(w)
    BY <1>1, <1>3
  <2>2. u \in Seq(S) /\ Len(u) = Len(v) /\ \A i \in 1 .. Len(v) : u[i] = w[l + i - 1]
    <3>1. \A i \in l .. Len(w) : w[i] \in S
      BY <1>1
    <3>2. Len(w) - l + 1 = Len(v) /\ l <= Len(w) /\ l \in Int /\ Len(w) \in Int
      BY <1>1, <2>1
    <3> HIDE DEF l
    <3> QED
      BY <3>1, <3>2, SubSeqProperties
  <2>3. ASSUME NEW i \in 1 .. Len(v) PROVE u[i] = v[i]
    <3>1. l + i - 1 = o + i
      BY <1>1
    <3> HIDE DEF u, l
    <3> QED
      BY <2>2, <3>1
  <2>4. u = v
    <3> HIDE DEF u
    <3> QED
      BY <2>2, <2>3, SeqEqual
  <2> HIDE DEF l
  <2> QED
    BY <2>1, <2>4 DEF Suffixes
<1> QED
  BY <1>2, <1>3

LEMMA WaitingOfEmpty == Waiting(<<>>) = <<>>
  BY DEF Waiting, Uncomplete

(* Of the messages that wait, the kernel takes the first.                   *)
LEMMA WaitingLeft ==
  ASSUME NEW list \in Seq(Buffers), NEW room \in Nat
  PROVE  Waiting(Left(list, room)) \in Suffixes(Waiting(list))
<1> DEFINE k == Whole(list, room)
           n == Part(list, room)
           left == Left(list, room)
<1>1. k \in 0 .. Len(list) /\ n \in Nat /\ Len(list) \in Nat
  BY LeftShape
<1>2. CASE k = Len(list)
  <2>1. left = <<>>
    BY <1>2, LeftShape
  <2> QED
    BY <2>1, WaitingOfEmpty DEF Suffixes
<1>3. CASE k # Len(list)
  <2> DEFINE b == list[k + 1]
             d == Skipped(list)
             e == Skipped(left)
             w == Waiting(list)
             v == Waiting(left)
             o == k + e - d
  <2>1. /\ k + 1 \in 1 .. Len(list) /\ left \in Seq(Buffers)
        /\ Len(left) = Len(list) - k /\ left[1] = Advance(b, n)
        /\ \A i \in 2 .. Len(left) : left[i] = list[k + i]
    BY <1>3, LeftShape
  <2>2. /\ w \in Seq(Messages) /\ d \in 0 .. Len(list) /\ Len(w) = Len(list) - d
        /\ \A i \in 1 .. Len(w) : w[i] = list[d + i].msg
    BY WaitingIs
  <2>3. /\ v \in Seq(Messages) /\ e \in 0 .. Len(left) /\ Len(v) = Len(left) - e
        /\ \A i \in 1 .. Len(v) : v[i] = left[e + i].msg
    <3> HIDE DEF left
    <3> QED
      BY <2>1, WaitingIs
  <2>4. d \in {0, 1} /\ e \in {0, 1}
    BY DEF Skipped
  <2>5. d = 1 /\ k = 0 => e = 1
    <3> SUFFICES ASSUME d = 1, k = 0 PROVE e = 1
      OBVIOUS
    <3>1. list # <<>> /\ Head(list).ptr # 0 /\ Head(list) = list[1]
      BY DEF Skipped, Uncomplete
    <3>2. b = list[1] /\ b \in Buffers
      <4>1. k + 1 = 1
        OBVIOUS
      <4> HIDE DEF k
      <4> QED
        BY <2>1, <4>1
    <3>3. Advance(b, n).ptr = b.ptr + n /\ b.ptr \in Nat
      <4> HIDE DEF b, n
      <4> QED
        BY <3>2 DEF Advance, Buffers
    <3>4. left # <<>> /\ Head(left) = left[1]
      <4> HIDE DEF left, k
      <4> QED
        BY <1>1, <1>3, <2>1
    <3>5. Head(left).ptr # 0
      <4> HIDE DEF left, b, n
      <4> QED
        BY <1>1, <2>1, <3>1, <3>2, <3>3, <3>4
    <3> QED
      BY <3>4, <3>5 DEF Skipped, Uncomplete
  <2> HIDE DEF k, n, left, d, e, w, v
  <2>6. o \in Nat /\ Len(v) + o = Len(w)
    BY <1>1, <2>1, <2>2, <2>3, <2>4, <2>5
  <2>7. ASSUME NEW i \in 1 .. Len(v) PROVE v[i] = w[o + i]
    <3>1. /\ e + i \in 1 .. Len(left) /\ o + i \in 1 .. Len(w) /\ d + (o + i) = k + (e + i)
      BY <1>1, <2>1, <2>2, <2>3, <2>4, <2>6
    <3>2. left[e + i].msg = list[k + (e + i)].msg
      <4>1. CASE e + i = 1
        <5>1. Advance(b, n).msg = b.msg
          <6>1. b \in Buffers
            BY <2>1
          <6> HIDE DEF b
          <6> QED
            BY <6>1 DEF Advance, Buffers
        <5> QED
          BY <2>1, <4>1, <5>1
      <4>2. CASE e + i # 1
        <5>1. e + i \in 2 .. Len(left)
          BY <3>1, <4>2
        <5> QED
          BY <2>1, <5>1
      <4> QED
        BY <4>1, <4>2
    <3>3. v[i] = left[e + i].msg
      BY <2>3
    <3>4. w[o + i] = list[d + (o + i)].msg
      BY <2>2, <3>1
    <3> QED
      BY <3>1, <3>2, <3>3, <3>4
  <2> HIDE DEF o
  <2>8. v \in Suffixes(w)
    BY <2>2, <2>3, <2>6, <2>7, SuffixBy
  <2> QED
    BY <2>8 DEF v, w, left
<1> QED
  BY <1>2, <1>3

-----------------------------------------------------------------------------
(* The bytes that SendStream has pending are the bytes of the two lists.    *)
LEMMA StreamFlatten == \A seqs : Stream!FlattenSeq(seqs) = FlattenSeq(seqs)
  BY DEF Stream!FlattenSeq, FlattenSeq

LEMMA StreamSuffixes == \A s : Stream!Suffixes(s) = Suffixes(s)
  BY DEF Stream!Suffixes, Suffixes

LEMMA BytesOfFresh ==
  ASSUME NEW list \in Seq(Buffers), FreshWhole(list), \A i \in 1 .. Len(list) : list[i].ptr = 0
  PROVE  Stream!BytesOf([k \in DOMAIN list |-> list[k].msg]) = Flat(list)
<1> DEFINE ms == [k \in DOMAIN list |-> list[k].msg]
           ps == [k \in DOMAIN ms |-> Stream!Bytes(ms[k])]
<1>1. DOMAIN list = 1 .. Len(list)
  OBVIOUS
<1>2. ASSUME NEW k \in 1 .. Len(list)
      PROVE  Stream!Bytes(list[k].msg) = BytesFrom(list[k], list[k].sz)
  <2>1. list[k].ptr = 0 /\ list[k].sz \in Nat
    BY BufferFields
  <2>2. list[k].sz = Size[list[k].msg]
    BY <2>1 DEF FreshWhole
  <2> DEFINE b == list[k]
  <2> HIDE DEF b
  <2>3. BytesFrom(b, b.sz) = [i \in 1 .. b.sz |-> <<b.msg, b.ptr + i>>]
    BY DEF BytesFrom
  <2>4. Stream!Bytes(b.msg) = [i \in 1 .. Size[b.msg] |-> <<b.msg, i>>]
    BY DEF Stream!Bytes, Stream!Byte
  <2>5. \A i \in 1 .. b.sz : b.ptr + i = i
    BY <2>1 DEF b
  <2>6. b.sz = Size[b.msg]
    BY <2>2 DEF b
  <2>7. Stream!Bytes(b.msg) = BytesFrom(b, b.sz)
    BY <2>3, <2>4, <2>5, <2>6
  <2> QED
    BY <2>7 DEF b
<1>3. ps = PiecesOf(list)
  BY <1>1, <1>2 DEF PiecesOf
<1>4. Stream!BytesOf(ms) = Stream!FlattenSeq(ps)
  BY DEF Stream!BytesOf
<1> HIDE DEF ps
<1> QED
  BY <1>3, <1>4, StreamFlatten DEF Flat

(* A list is the rest of its head, if that is begun, and whole messages.    *)
LEMMA FlatParts ==
  ASSUME NEW list \in Seq(Buffers), FreshWhole(list), TailFresh(list)
  PROVE  /\ Flat(list) = RestOf(list) \o Stream!BytesOf(Waiting(list))
         /\ RestOf(list) \in Seq(BytePlace)
         /\ Stream!BytesOf(Waiting(list)) \in Seq(BytePlace)
<1>1. CASE Uncomplete(list)
  <2> DEFINE b == Head(list)
             t == Tail(list)
             h == <<b>>
  <2>1. list # <<>>
    BY <1>1 DEF Uncomplete
  <2>2. /\ b \in Buffers /\ t \in Seq(Buffers) /\ list = h \o t
        /\ Len(t) = Len(list) - 1 /\ Len(list) \in Nat
        /\ \A i \in 1 .. Len(t) : t[i] = list[i + 1]
    BY <2>1, HeadTailProperties
  <2>3. h \in Seq(Buffers)
    BY <2>2
  <2>4. Flat(h) = BytesFrom(b, b.sz) /\ BytesFrom(b, b.sz) \in Seq(BytePlace)
    <3> HIDE DEF b
    <3> QED
      BY <2>2, FlatOne
  <2>5. Flat(h \o t) = Flat(h) \o Flat(t) /\ Flat(t) \in Seq(BytePlace)
    <3> HIDE DEF h, t
    <3> QED
      BY <2>2, <2>3, FlatConcat
  <2>6. RestOf(list) = BytesFrom(b, b.sz)
    BY <1>1 DEF RestOf
  <2>7. Waiting(list) = [k \in DOMAIN t |-> t[k].msg]
    BY <1>1 DEF Waiting
  <2>8. Stream!BytesOf([k \in DOMAIN t |-> t[k].msg]) = Flat(t)
    <3> HIDE DEF t
    <3>1. ASSUME NEW i \in 1 .. Len(t)
          PROVE  t[i].ptr = 0 /\ t[i].sz = Size[t[i].msg]
      <4>1. i + 1 \in 2 .. Len(list) /\ i + 1 \in 1 .. Len(list)
        BY <2>2
      <4> QED
        BY <2>2, <4>1 DEF FreshWhole, TailFresh
    <3>2. FreshWhole(t) /\ \A i \in 1 .. Len(t) : t[i].ptr = 0
      BY <3>1 DEF FreshWhole
    <3> QED
      BY <2>2, <3>2, BytesOfFresh
  <2>9. Flat(list) = Flat(h) \o Flat(t)
    BY <2>2, <2>5
  <2>10. Stream!BytesOf(Waiting(list)) = Flat(t)
    BY <2>7, <2>8
  <2> HIDE DEF h, t, b
  <2> QED
    BY <2>4, <2>5, <2>6, <2>9, <2>10
<1>2. CASE ~ Uncomplete(list)
  <2>1. RestOf(list) = <<>> /\ Waiting(list) = [k \in DOMAIN list |-> list[k].msg]
    BY <1>2 DEF RestOf, Waiting
  <2>2. ASSUME NEW i \in 1 .. Len(list) PROVE list[i].ptr = 0
    <3>1. CASE i = 1
      <4>1. list # <<>> /\ Head(list) = list[1]
        BY <3>1
      <4> QED
        BY <1>2, <3>1, <4>1 DEF Uncomplete
    <3>2. CASE i # 1
      <4>1. i \in 2 .. Len(list)
        BY <3>2
      <4> QED
        BY <4>1 DEF TailFresh
    <3> QED
      BY <3>1, <3>2
  <2>3. Stream!BytesOf(Waiting(list)) = Flat(list)
    BY <2>1, <2>2, BytesOfFresh
  <2>4. Flat(list) \in Seq(BytePlace)
    BY FlatConcat
  <2> QED
    BY <2>1, <2>3, <2>4, ConcatEmptySeq, EmptySeq
<1> QED
  BY <1>1, <1>2

StreamRest == IF Begun = <<>> THEN <<>> ELSE BytesFrom(Begun[1], Begun[1].sz)

LEMMA StreamRestIs ==
  StreamRest = IF Uncomplete(high) THEN RestOf(high) ELSE RestOf(low)
  BY DEF StreamRest, Begun, RestOf

PendingBytes ==
  /\ Stream!Pending = Flat(high) \o Flat(low)
  /\ Flat(high) \in Seq(BytePlace) /\ Flat(low) \in Seq(BytePlace)

LEMMA PendingIs == StreamInv => PendingBytes
<1> SUFFICES ASSUME StreamInv
             PROVE  /\ Stream!Pending = Flat(high) \o Flat(low)
                    /\ Flat(high) \in Seq(BytePlace) /\ Flat(low) \in Seq(BytePlace)
  BY DEF PendingBytes
<1> DEFINE bh == Stream!BytesOf(Waiting(high))
           bl == Stream!BytesOf(Waiting(low))
           rh == RestOf(high)
           rl == RestOf(low)
<1>1. /\ high \in Seq(Buffers) /\ low \in Seq(Buffers)
      /\ FreshWhole(high) /\ FreshWhole(low) /\ TailFresh(high) /\ TailFresh(low)
      /\ Uncomplete(low) => high = <<>>
  BY DEF StreamInv, BufferInv, TypeOK
<1>2. /\ Flat(high) = rh \o bh /\ rh \in Seq(BytePlace) /\ bh \in Seq(BytePlace)
      /\ Flat(low) = rl \o bl /\ rl \in Seq(BytePlace) /\ bl \in Seq(BytePlace)
  BY <1>1, FlatParts
<1>3. Stream!Pending = StreamRest \o bh \o bl
  BY DEF Stream!Pending, StreamRest
<1>4. /\ ~ Uncomplete(high) => rh = <<>>
      /\ ~ Uncomplete(low) => rl = <<>>
  BY DEF RestOf
<1>5. StreamRest = IF Uncomplete(high) THEN rh ELSE rl
  BY StreamRestIs
<1>6. CASE ~ Uncomplete(low)
  <2>1. StreamRest = rh
    BY <1>4, <1>5, <1>6
  <2>2. Flat(low) = bl
    BY <1>2, <1>4, <1>6, ConcatEmptySeq
  <2> HIDE DEF bh, bl, rh, rl
  <2> QED
    BY <1>2, <1>3, <2>1, <2>2
<1>7. CASE Uncomplete(low)
  <2>1. high = <<>> /\ ~ Uncomplete(high) /\ rh = <<>>
    BY <1>1, <1>4, <1>7 DEF Uncomplete
  <2>2. StreamRest = rl /\ Flat(high) = <<>>
    BY <1>5, <2>1, FlatEmpty
  <2>3. bh = <<>>
    BY <1>2, <2>1, <2>2, ConcatEmptySeq
  <2>4. rl \o bh = rl /\ Flat(high) \o Flat(low) = Flat(low)
    <3>1. Flat(low) \in Seq(BytePlace)
      BY <1>1, FlatConcat
    <3> QED
      BY <1>2, <2>2, <2>3, <3>1, ConcatEmptySeq
  <2>5. Flat(high) \in Seq(BytePlace) /\ Flat(low) \in Seq(BytePlace)
    BY <1>1, FlatConcat
  <2>6. Stream!Pending = (rl \o bh) \o bl
    BY <1>3, <2>2
  <2> HIDE DEF bh, bl, rh, rl
  <2> QED
    BY <1>2, <2>4, <2>5, <2>6
<1> QED
  BY <1>6, <1>7

LEMMA PendingIsNext == StreamInv' => PendingBytes'
  BY PendingIs, PTL

LEMMA CutAt ==
  ASSUME NEW S, NEW p \in Seq(S), NEW q \in Seq(S), NEW r, r = p \o q
  PROVE  /\ Len(p) \in 0 .. Len(r)
         /\ SubSeq(r, 1, Len(p)) = p
         /\ SubSeq(r, Len(p) + 1, Len(r)) = q
<1>1. /\ r \in Seq(S) /\ Len(r) = Len(p) + Len(q)
      /\ Len(p) \in Nat /\ Len(q) \in Nat
      /\ \A i \in 1 .. Len(p) : r[i] = p[i]
      /\ \A i \in 1 .. Len(q) : r[Len(p) + i] = q[i]
  BY ConcatAt
<1>2. SubSeq(r, 1, Len(p)) = p
  <2> DEFINE u == SubSeq(r, 1, Len(p))
  <2>1. u \in Seq(S) /\ Len(u) = Len(p) /\ \A i \in 1 .. Len(p) : u[i] = r[i]
    BY <1>1
  <2> HIDE DEF u
  <2>2. u = p
    BY <1>1, <2>1, SeqEqual
  <2> QED
    BY <2>2 DEF u
<1>3. SubSeq(r, Len(p) + 1, Len(r)) = q
  <2> DEFINE u == SubSeq(r, Len(p) + 1, Len(r))
  <2>1. u \in Seq(S) /\ Len(u) = Len(q) /\ \A i \in 1 .. Len(q) : u[i] = r[Len(p) + i]
    BY <1>1
  <2> HIDE DEF u
  <2>2. u = q
    BY <1>1, <2>1, SeqEqual
  <2> QED
    BY <2>2 DEF u
<1> QED
  BY <1>1, <1>2, <1>3

(* What is left of a begun message is a part of what was left of one that   *)
(* was begun before, or of a message that was not.                          *)
Follows(v, w) ==
  v \in Suffixes(w) \/ \E m \in DOMAIN Size : v \in Suffixes(Stream!Bytes(m))

LEMMA EmptyFollows == \A w : Follows(<<>>, w)
  BY DEF Follows, Suffixes

LEMMA FollowsEmpty ==
  ASSUME NEW v, NEW w, Follows(v, <<>>)
  PROVE  Follows(v, w)
<1>1. CASE v \in Suffixes(<<>>)
  <2>1. v = <<>>
    BY <1>1 DEF Suffixes
  <2> QED
    BY <2>1, EmptyFollows
<1>2. CASE \E m \in DOMAIN Size : v \in Suffixes(Stream!Bytes(m))
  BY <1>2 DEF Follows
<1> QED
  BY <1>1, <1>2 DEF Follows

LEMMA FollowsItself ==
  ASSUME NEW list \in Seq(Buffers)
  PROVE  Follows(RestOf(list), RestOf(list))
<1> DEFINE w == RestOf(list)
<1>1. w \in Seq(BytePlace)
  <2>1. CASE Uncomplete(list)
    <3>1. list # <<>> /\ Head(list) = list[1] /\ 1 \in 1 .. Len(list)
      BY <2>1 DEF Uncomplete
    <3> DEFINE b == Head(list)
    <3>2. b.msg \in Messages /\ b.ptr \in Nat /\ b.sz \in Nat
      BY <3>1, BufferFields
    <3>3. BytesFrom(b, b.sz) \in Seq(BytePlace)
      <4> HIDE DEF b
      <4> QED
        BY <3>2, BytesFromTyped
    <3> QED
      BY <2>1, <3>3 DEF RestOf
  <2>2. CASE ~ Uncomplete(list)
    BY <2>2, EmptySeq DEF RestOf
  <2> QED
    BY <2>1, <2>2
<1> HIDE DEF w
<1>2. 0 \in Nat /\ Len(w) + 0 = Len(w) /\ \A i \in 1 .. Len(w) : w[i] = w[0 + i]
  BY <1>1
<1>3. w \in Suffixes(w)
  BY <1>1, <1>2, SuffixBy
<1> QED
  BY <1>3 DEF Follows, w

(* Advancing a buffer by n bytes leaves the bytes from the n-th on.         *)
LEMMA AdvanceSuffix ==
  ASSUME NEW b \in Buffers, NEW n \in Nat, n < b.sz
  PROVE  BytesFrom(Advance(b, n), Advance(b, n).sz) \in Suffixes(BytesFrom(b, b.sz))
<1> DEFINE c == Advance(b, n)
           v == BytesFrom(c, c.sz)
           w == BytesFrom(b, b.sz)
<1>1. b.msg \in Messages /\ b.ptr \in Nat /\ b.sz \in Nat
  BY MessagesAreDomain DEF Buffers
<1>2. c.msg = b.msg /\ c.ptr = b.ptr + n /\ c.sz = b.sz - n
  BY DEF Advance, Buffers
<1> HIDE DEF c
<1>3. c.msg \in Messages /\ c.ptr \in Nat /\ c.sz \in Nat
  BY <1>1, <1>2
<1>4. /\ v \in Seq(BytePlace) /\ Len(v) = c.sz
      /\ \A i \in 1 .. c.sz : v[i] = <<c.msg, c.ptr + i>>
  BY <1>3, BytesFromTyped DEF BytesFrom
<1>5. /\ w \in Seq(BytePlace) /\ Len(w) = b.sz
      /\ \A i \in 1 .. b.sz : w[i] = <<b.msg, b.ptr + i>>
  BY <1>1, BytesFromTyped DEF BytesFrom
<1> HIDE DEF v, w
<1>6. ASSUME NEW i \in 1 .. Len(v) PROVE v[i] = w[n + i]
  <2>1. n + i \in 1 .. b.sz /\ i \in 1 .. c.sz /\ c.ptr + i = b.ptr + (n + i)
    BY <1>1, <1>2, <1>4
  <2>2. v[i] = <<c.msg, c.ptr + i>>
    BY <1>4, <2>1
  <2>3. w[n + i] = <<b.msg, b.ptr + (n + i)>>
    BY <1>5, <2>1
  <2> QED
    BY <1>2, <2>1, <2>2, <2>3
<1>7. Len(v) + n = Len(w)
  BY <1>1, <1>2, <1>4, <1>5
<1>8. v \in Suffixes(w)
  BY <1>4, <1>5, <1>6, <1>7, SuffixBy
<1> QED
  BY <1>8 DEF v, w, c

LEMMA RestLeft ==
  ASSUME NEW list \in Seq(Buffers), NEW room \in Nat, FreshWhole(list), TailFresh(list)
  PROVE  Follows(RestOf(Left(list, room)), RestOf(list))
<1> DEFINE k == Whole(list, room)
           n == Part(list, room)
           left == Left(list, room)
           b == list[k + 1]
           c == Advance(b, n)
<1>1. CASE ~ Uncomplete(left)
  <2>1. RestOf(left) = <<>>
    BY <1>1 DEF RestOf
  <2> QED
    BY <2>1, EmptyFollows
<1>2. CASE Uncomplete(left)
  <2>1. left # <<>>
    BY <1>2 DEF Uncomplete
  <2>2. /\ k \in 0 .. Len(list) /\ n \in Nat /\ k + 1 \in 1 .. Len(list)
        /\ left \in Seq(Buffers) /\ n < b.sz /\ left[1] = c
    BY <2>1, LeftShape
  <2>3. Head(left) = c
    <3> HIDE DEF left, c
    <3> QED
      BY <2>1, <2>2
  <2>4. RestOf(left) = BytesFrom(c, c.sz)
    BY <1>2, <2>3 DEF RestOf
  <2>5. b \in Buffers
    <3> HIDE DEF k
    <3> QED
      BY <2>2
  <2>6. BytesFrom(c, c.sz) \in Suffixes(BytesFrom(b, b.sz))
    <3> HIDE DEF b, n
    <3> QED
      BY <2>2, <2>5, AdvanceSuffix
  <2>7. CASE b.ptr # 0
    <3>1. k + 1 = 1
      <4> HIDE DEF k
      <4> QED
        BY <2>2, <2>7 DEF TailFresh
    <3>2. list # <<>> /\ Head(list) = b
      <4> HIDE DEF k
      <4> QED
        BY <2>2, <3>1
    <3>3. RestOf(list) = BytesFrom(b, b.sz)
      BY <2>7, <3>2 DEF RestOf, Uncomplete
    <3> QED
      BY <2>4, <2>6, <3>3 DEF Follows
  <2>8. CASE b.ptr = 0
    <3>1. b.sz = Size[b.msg] /\ b.sz \in Nat /\ b.msg \in DOMAIN Size
      <4>1. b.sz = Size[b.msg]
        <5> HIDE DEF k
        <5> QED
          BY <2>2, <2>8 DEF FreshWhole
      <4> HIDE DEF b
      <4> QED
        BY <2>5, <4>1 DEF Buffers
    <3>2. Stream!Bytes(b.msg) = BytesFrom(b, b.sz)
      <4> HIDE DEF b
      <4>1. BytesFrom(b, b.sz) = [i \in 1 .. b.sz |-> <<b.msg, b.ptr + i>>]
        BY DEF BytesFrom
      <4>2. Stream!Bytes(b.msg) = [i \in 1 .. Size[b.msg] |-> <<b.msg, i>>]
        BY DEF Stream!Bytes, Stream!Byte
      <4>3. \A i \in 1 .. b.sz : b.ptr + i = i
        BY <2>8, <3>1
      <4> QED
        BY <3>1, <4>1, <4>2, <4>3
    <3> QED
      BY <2>4, <2>6, <3>1, <3>2 DEF Follows
  <2> QED
    BY <2>7, <2>8
<1> QED
  BY <1>1, <1>2

(* The stream's begun message, when the low list has none.                  *)
LEMMA StreamRestHigh == ~ Uncomplete(low) => StreamRest = RestOf(high) /\ RestOf(low) = <<>>
  BY StreamRestIs DEF RestOf

LEMMA StreamRestNext ==
  StreamRest' = IF Uncomplete(high') THEN RestOf(high') ELSE RestOf(low')
  BY DEF StreamRest, Begun, RestOf

(* Bytes that go out in the order they are pending, and the queues of whole *)
(* messages that are left, make a step of SendStream.                       *)
LEMMA TransmitsBy ==
  ASSUME StreamInv, StreamInv', open, open' \in BOOLEAN, next' = next,
         NEW taken \in Seq(BytePlace), sent' = sent \o taken,
         Flat(high) \o Flat(low) = taken \o (Flat(high') \o Flat(low')),
         Waiting(high') \in Suffixes(Waiting(high)),
         Waiting(low') \in Suffixes(Waiting(low)),
         Waiting(low') # Waiting(low) => Waiting(high') = <<>>,
         Follows(StreamRest', StreamRest)
  PROVE  Stream!Transmit /\ open' \in BOOLEAN
<1> DEFINE left == Flat(high') \o Flat(low')
           pending == Flat(high) \o Flat(low)
           n == Len(taken)
<1>1. Stream!Pending = pending
  BY PendingIs DEF PendingBytes
<1>2. Stream!Pending' = left /\ Flat(high') \in Seq(BytePlace) /\ Flat(low') \in Seq(BytePlace)
  BY PendingIsNext DEF PendingBytes
<1>3. left \in Seq(BytePlace) /\ pending = taken \o left
  BY <1>2, ConcatProperties
<1> HIDE DEF left, pending
<1>4. /\ n \in 0 .. Len(pending)
      /\ SubSeq(pending, 1, n) = taken
      /\ SubSeq(pending, n + 1, Len(pending)) = left
  BY <1>3, CutAt
<1>5. \/ StreamRest' \in Suffixes(StreamRest)
      \/ \E m \in DOMAIN Size : StreamRest' \in Suffixes(Stream!Bytes(m))
  BY DEF Follows
<1>6. sent' = sent \o SubSeq(Stream!Pending, 1, n)
  BY <1>1, <1>4
<1>7. Stream!Pending' = SubSeq(Stream!Pending, n + 1, Len(Stream!Pending))
  BY <1>1, <1>2, <1>4
<1>8. n \in 0 .. Len(Stream!Pending)
  BY <1>1, <1>4
<1> HIDE DEF n
<1> QED
  BY <1>5, <1>6, <1>7, <1>8, StreamSuffixes DEF Stream!Transmit, StreamRest

LEMMA RaisedWaiting ==
  ASSUME NEW lows \in Seq(Buffers), FreshWhole(lows), TailFresh(lows)
  PROVE  /\ Waiting(Raised(lows).high) = <<>>
         /\ Waiting(Raised(lows).low) = Waiting(lows)
         /\ Flat(Raised(lows).high) \o Flat(Raised(lows).low) = Flat(lows)
         /\ RestOf(lows) = IF Uncomplete(Raised(lows).high) THEN RestOf(Raised(lows).high)
                           ELSE RestOf(Raised(lows).low)
<1>1. CASE Uncomplete(lows)
  <2> DEFINE b == Head(lows)
             h == <<b>>
             t == Tail(lows)
  <2>1. lows # <<>> /\ Raised(lows).high = h /\ Raised(lows).low = t
    BY <1>1 DEF Raised, Uncomplete
  <2>2. b \in Buffers /\ t \in Seq(Buffers) /\ lows = h \o t /\ h \in Seq(Buffers)
    BY <2>1, HeadTailProperties
  <2>3. Waiting(h) = <<>>
    <3>1. Uncomplete(h)
      BY <1>1 DEF Uncomplete
    <3>2. Tail(h) = <<>>
      OBVIOUS
    <3> HIDE DEF h
    <3> QED
      BY <3>1, <3>2 DEF Waiting
  <2>4. ~ Uncomplete(t)
    BY <2>1, RaisedShape
  <2>5. Waiting(t) = Waiting(lows)
    BY <1>1, <2>4 DEF Waiting
  <2>6. Flat(h \o t) = Flat(h) \o Flat(t)
    <3> HIDE DEF h, t
    <3> QED
      BY <2>2, FlatConcat
  <2>7. Uncomplete(h) /\ RestOf(h) = RestOf(lows)
    <3>1. h # <<>> /\ Head(h) = b
      OBVIOUS
    <3> HIDE DEF h
    <3> QED
      BY <1>1, <3>1 DEF RestOf, Uncomplete
  <2> HIDE DEF h, t
  <2> QED
    BY <2>1, <2>2, <2>3, <2>5, <2>6, <2>7
<1>2. CASE ~ Uncomplete(lows)
  <2>1. Raised(lows).high = <<>> /\ Raised(lows).low = lows
    BY <1>2 DEF Raised
  <2>2. Flat(<<>>) = <<>> /\ Flat(lows) \in Seq(BytePlace)
    BY FlatEmpty, FlatConcat
  <2>3. <<>> \o Flat(lows) = Flat(lows)
    BY <2>2, ConcatEmptySeq
  <2>4. ~ Uncomplete(<<>>)
    BY DEF Uncomplete
  <2> QED
    BY <2>1, <2>2, <2>3, <2>4, WaitingOfEmpty
<1> QED
  BY <1>1, <1>2

LEMMA SuffixOfSelf ==
  ASSUME NEW list \in Seq(Buffers)
  PROVE  Waiting(list) \in Suffixes(Waiting(list)) /\ <<>> \in Suffixes(Waiting(list))
<1> DEFINE w == Waiting(list)
<1>1. w \in Seq(Messages)
  BY WaitingIs
<1> HIDE DEF w
<1>2. w \in Suffixes(w)
  <2>1. 0 \in Nat /\ Len(w) + 0 = Len(w) /\ \A i \in 1 .. Len(w) : w[i] = w[0 + i]
    BY <1>1
  <2> QED
    BY <1>1, <2>1, SuffixBy
<1>3. <<>> \in Suffixes(w)
  BY DEF Suffixes
<1> QED
  BY <1>2, <1>3 DEF w

(* A kernel with room for nothing takes nothing of an empty list.           *)
LEMMA NothingWritten ==
  ASSUME NEW room \in Nat
  PROVE  WrittenBytes(<<>>, room) = <<>>
<1>1. <<>> \in Seq(Buffers) /\ Left(<<>>, room) = <<>>
  <2> DEFINE e == <<>>
  <2>1. e \in Seq(Buffers) /\ SumSz(e) = 0 /\ room >= 0
    BY SumOfEmpty, EmptySeq
  <2> HIDE DEF e
  <2>2. Left(e, room) = <<>>
    BY <2>1, NothingLeft
  <2> QED
    BY <2>1, <2>2 DEF e
<1> DEFINE w == WrittenBytes(<<>>, room)
<1>2. w \o Flat(<<>>) = Flat(<<>>) /\ w \in Seq(BytePlace)
  BY <1>1, TakenAndLeft, WrittenTyped
<1> HIDE DEF w
<1>3. w = <<>>
  BY <1>2, FlatEmpty, ConcatEmptySeq
<1> QED
  BY <1>3 DEF w

-----------------------------------------------------------------------------
(* Every step of the write lists is a step of SendStream, or none.          *)
LEMMA StreamInit == Init => Stream!Init
<1> SUFFICES ASSUME Init PROVE Stream!Init
  OBVIOUS
<1>1. high = <<>> /\ low = <<>> /\ sent = <<>> /\ next = 1 /\ open = TRUE
  BY DEF Init
<1>2. Begun = <<>>
  BY <1>1 DEF Begun, Uncomplete
<1>3. Waiting(high) = <<>> /\ Waiting(low) = <<>>
  BY <1>1, WaitingOfEmpty
<1> QED
  BY <1>1, <1>2, <1>3 DEF Stream!Init

LEMMA WaitingAppended ==
  ASSUME NEW list \in Seq(Buffers), NEW m \in Messages, FreshWhole(list), TailFresh(list)
  PROVE  /\ Waiting(Appended(list, m, 0)) = Append(Waiting(list), m)
         /\ RestOf(Appended(list, m, 0)) = RestOf(list)
<1> DEFINE b == [msg |-> m, ptr |-> 0, sz |-> Size[m]]
           p == Appended(list, m, 0)
           d == Skipped(list)
           w == Waiting(list)
           v == Waiting(p)
<1>1. b \in Buffers /\ b.msg = m
  BY SizesAreNat DEF Buffers
<1>2. p = Append(list, b)
  BY DEF Appended
<1>3. /\ p \in Seq(Buffers) /\ Len(p) = Len(list) + 1 /\ Len(list) \in Nat
      /\ p # <<>> /\ \A i \in 1 .. Len(list) : p[i] = list[i]
      /\ p[Len(list) + 1] = b
  <2> HIDE DEF b, p
  <2> QED
    BY <1>1, <1>2, AppendProperties
<1>4. Uncomplete(p) <=> Uncomplete(list)
  BY AppendedShape
<1>5. /\ w \in Seq(Messages) /\ d \in 0 .. Len(list) /\ Len(w) = Len(list) - d
      /\ \A i \in 1 .. Len(w) : w[i] = list[d + i].msg
  BY WaitingIs
<1>6. /\ v \in Seq(Messages) /\ Len(v) = Len(p) - d
      /\ \A i \in 1 .. Len(v) : v[i] = p[d + i].msg
  <2>1. Skipped(p) = d
    BY <1>4 DEF Skipped
  <2> HIDE DEF p
  <2> QED
    BY <1>3, <2>1, WaitingIs
<1> HIDE DEF b, p, d, w, v
<1>7. v = Append(w, m)
  <2> DEFINE u == Append(w, m)
  <2>1. /\ u \in Seq(Messages) /\ Len(u) = Len(w) + 1
        /\ \A i \in 1 .. Len(w) : u[i] = w[i]
        /\ u[Len(w) + 1] = m
    BY <1>5, AppendProperties
  <2> HIDE DEF u
  <2>2. Len(u) = Len(v)
    BY <1>3, <1>5, <1>6, <2>1
  <2>3. ASSUME NEW i \in 1 .. Len(v) PROVE v[i] = u[i]
    <3>1. CASE i = Len(w) + 1
      <4>1. d + i = Len(list) + 1
        BY <1>3, <1>5, <3>1
      <4> QED
        BY <1>1, <1>3, <1>6, <2>1, <3>1, <4>1
    <3>2. CASE i # Len(w) + 1
      <4>1. i \in 1 .. Len(w) /\ d + i \in 1 .. Len(list)
        BY <1>3, <1>5, <1>6, <3>2
      <4>2. v[i] = p[d + i].msg /\ u[i] = w[i] /\ w[i] = list[d + i].msg
        BY <1>5, <1>6, <2>1, <4>1, Zenon
      <4>3. p[d + i] = list[d + i]
        BY <1>3, <4>1, Zenon
      <4> QED
        BY <4>2, <4>3, Zenon
    <3> QED
      BY <3>1, <3>2
  <2>4. v = u
    BY <1>6, <2>1, <2>2, <2>3, SeqEqual
  <2> QED
    BY <2>4 DEF u
<1>8. RestOf(p) = RestOf(list)
  <2>1. CASE ~ Uncomplete(list)
    BY <1>4, <2>1 DEF RestOf
  <2>2. CASE Uncomplete(list)
    <3>1. list # <<>>
      BY <2>2 DEF Uncomplete
    <3>2. Head(list) = list[1] /\ Head(p) = p[1] /\ 1 \in 1 .. Len(list)
      BY <1>3, <3>1
    <3>3. Head(p) = Head(list)
      BY <1>3, <3>2
    <3> QED
      BY <1>4, <2>2, <3>3 DEF RestOf
  <2> QED
    BY <2>1, <2>2
<1> QED
  BY <1>7, <1>8 DEF p, v, w

(* A message is appended to one of the lists.                               *)
LEMMA QueuesBy ==
  ASSUME StreamInv, open, next \in Messages, next' = next + 1, UNCHANGED <<sent, open>>,
         \/ high' = Appended(high, next, 0) /\ low' = low
         \/ low' = Appended(low, next, 0) /\ high' = high
  PROVE  Stream!Queue
<1>1. /\ high \in Seq(Buffers) /\ low \in Seq(Buffers) /\ FreshWhole(high) /\ FreshWhole(low)
      /\ TailFresh(high) /\ TailFresh(low) /\ ~ Uncomplete(low)
  <2>1. ~ Uncomplete(low)
    BY FreshIsNotBegun DEF StreamInv, BufferInv, TypeOK, LowFresh
  <2> QED
    BY <2>1 DEF StreamInv, BufferInv, TypeOK
<1>2. next \in DOMAIN Size
  BY MessagesAreDomain
<1>3. StreamRest = IF Uncomplete(high) THEN RestOf(high) ELSE RestOf(low)
  BY StreamRestIs
<1>4. StreamRest' = IF Uncomplete(high') THEN RestOf(high') ELSE RestOf(low')
  BY DEF StreamRest, Begun, RestOf
<1>5. CASE high' = Appended(high, next, 0) /\ low' = low
  <2>1. /\ Waiting(high') = Append(Waiting(high), next) /\ RestOf(high') = RestOf(high)
        /\ Uncomplete(high') <=> Uncomplete(high)
    BY <1>1, <1>5, WaitingAppended, AppendedShape
  <2>2. StreamRest' = StreamRest /\ Waiting(low') = Waiting(low)
    BY <1>3, <1>4, <1>5, <2>1
  <2> QED
    BY <1>2, <2>1, <2>2 DEF Stream!Queue, StreamRest
<1>6. CASE low' = Appended(low, next, 0) /\ high' = high
  <2>1. /\ Waiting(low') = Append(Waiting(low), next) /\ RestOf(low') = RestOf(low)
    BY <1>1, <1>6, WaitingAppended, AppendedShape
  <2>2. StreamRest' = StreamRest /\ Waiting(high') = Waiting(high)
    BY <1>3, <1>4, <1>6, <2>1
  <2> QED
    BY <1>2, <2>1, <2>2 DEF Stream!Queue, StreamRest
<1> QED
  BY <1>5, <1>6

Grouped(a, b, c) == (a \o b) \o c = a \o (b \o c)

LEMMA BytesGroup ==
  ASSUME NEW a \in Seq(BytePlace), NEW b \in Seq(BytePlace), NEW c \in Seq(BytePlace)
  PROVE  Grouped(a, b, c) /\ a \o b \in Seq(BytePlace)
<1>1. (a \o b) \o c = a \o (b \o c)
  BY ConcatAssociative
<1> QED
  BY <1>1, ConcatProperties DEF Grouped

LEMMA DirectStep ==
  ASSUME StreamInv, SendDirect
  PROVE  Stream!Queue \/ Stream!SendNow
<1>1. PICK n \in 0 .. Size[next] :
        /\ sent' = sent \o BytesFrom([msg |-> next, ptr |-> 0], n)
        /\ \/ n = Size[next] /\ UNCHANGED <<high, low, write_buff_size>>
           \/ n # Size[next] /\ append_send_buffer_high(next, n)
  BY DEF SendDirect
<1>2. /\ open /\ open' = open /\ next \in Messages /\ next' = next + 1
      /\ high = <<>> /\ low = <<>>
  BY DEF SendDirect, is_send_buffer_empty
<1>3. Size[next] \in Nat /\ Size[next] # 0 /\ next \in DOMAIN Size
  BY <1>2, SizesAreNat
<1>4. sent \in Seq(BytePlace)
  BY DEF StreamInv, BufferInv, TypeOK, BytePlace
<1> DEFINE b == [msg |-> next, ptr |-> 0]
           v == BytesFrom(b, n)
<1>5. v = [i \in 1 .. n |-> <<next, 0 + i>>]
  BY DEF BytesFrom
<1>6. v \in Seq(BytePlace) /\ Len(v) = n /\ n \in Nat
  <2>1. b.msg \in Messages /\ b.ptr \in Nat /\ n \in Nat
    BY <1>2, <1>3
  <2> HIDE DEF b
  <2> QED
    BY <2>1, BytesFromTyped
<1>7. sent' = sent \o v
  BY <1>1
<1>8. v = SubSeq(Stream!Bytes(next), 1, n)
  <2> DEFINE w == Stream!Bytes(next)
             u == SubSeq(w, 1, n)
  <2>1. \A i \in 1 .. n : w[i] = <<next, i>>
    <3>1. \A i \in 1 .. n : i \in 1 .. Size[next]
      BY <1>3
    <3> QED
      BY <3>1 DEF Stream!Bytes, Stream!Byte
  <2> HIDE DEF w
  <2>2. \A i \in 1 .. n : w[i] \in BytePlace
    <3>1. \A i \in 1 .. n : i \in Nat
      BY <1>6
    <3>2. \A i \in Nat : <<next, i>> \in BytePlace
      BY <1>2 DEF BytePlace
    <3> QED
      BY <2>1, <3>1, <3>2
  <2>3. u \in Seq(BytePlace) /\ Len(u) = n /\ \A i \in 1 .. n : u[i] = w[1 + i - 1]
    BY <1>6, <2>2, SubSeqProperties
  <2> HIDE DEF u, v
  <2>4. ASSUME NEW i \in 1 .. n PROVE u[i] = v[i]
    <3>1. 1 + i - 1 = i /\ 0 + i = i
      OBVIOUS
    <3>2. v[i] = <<next, 0 + i>>
      BY <1>5
    <3> QED
      BY <2>1, <2>3, <3>1, <3>2
  <2>5. u = v
    BY <1>6, <2>3, <2>4, SeqEqual
  <2> QED
    BY <2>5 DEF u, w
<1>9. StreamRest = <<>> /\ Stream!Pending = <<>>
  <2>1. StreamRest = <<>>
    BY <1>2 DEF StreamRest, Begun, Uncomplete
  <2>2. Stream!Pending = Flat(high) \o Flat(low)
    BY PendingIs DEF PendingBytes
  <2>3. Flat(high) = <<>> /\ Flat(low) = <<>>
    BY <1>2, FlatEmpty
  <2> QED
    BY <2>1, <2>2, <2>3
<1> HIDE DEF v, b
<1>10. CASE n = 0
  <2>1. append_send_buffer_high(next, 0)
    BY <1>1, <1>3, <1>10
  <2>2. sent' = sent
    <3>1. v = <<>>
      BY <1>6, <1>10
    <3> QED
      BY <1>4, <1>7, <3>1, ConcatEmptySeq
  <2>3. high' = Appended(high, next, 0) /\ low' = low
    BY <2>1 DEF append_send_buffer_high
  <2> QED
    BY <1>2, <2>2, <2>3, QueuesBy
<1>11. CASE n = Size[next]
  <2>1. UNCHANGED <<high, low, write_buff_size>>
    BY <1>1, <1>11
  <2>2. StreamRest' = <<>>
    BY <1>2, <2>1 DEF StreamRest, Begun, Uncomplete
  <2>3. n \in 1 .. Size[next]
    BY <1>3, <1>11
  <2> QED
    BY <1>2, <1>3, <1>7, <1>8, <1>9, <1>11, <2>1, <2>2, <2>3
    DEF Stream!SendNow, StreamRest
<1>12. CASE n # 0 /\ n # Size[next]
  <2> DEFINE c == [msg |-> next, ptr |-> n, sz |-> Size[next]]
             h == <<c>>
  <2>1. append_send_buffer_high(next, n)
    BY <1>1, <1>12
  <2>2. high' = Appended(<<>>, next, n) /\ low' = <<>>
    BY <1>2, <2>1 DEF append_send_buffer_high
  <2>3. high' = h
    BY <1>2, <1>6, <2>2, OneBuffer
  <2>4. Head(h) = c /\ h # <<>> /\ Tail(h) = <<>> /\ c.ptr = n /\ c.sz = Size[next]
    OBVIOUS
  <2>5. Uncomplete(h) /\ RestOf(h) = BytesFrom(c, c.sz) /\ Waiting(h) = <<>>
    <3> HIDE DEF h, c
    <3> QED
      BY <1>12, <2>4 DEF Uncomplete, RestOf, Waiting
  <2>6. StreamRest' = BytesFrom(c, c.sz)
    BY <2>3, <2>5, StreamRestNext
  <2>7. StreamRest' = [i \in 1 .. Size[next] |-> Stream!Byte(next, n + i)]
    BY <2>6 DEF BytesFrom, Stream!Byte
  <2>8. Waiting(high') = Waiting(high) /\ Waiting(low') = Waiting(low)
    BY <1>2, <2>2, <2>3, <2>5, WaitingOfEmpty
  <2>9. n \in 1 .. Size[next]
    BY <1>3, <1>12
  <2> HIDE DEF h, c
  <2> QED
    BY <1>2, <1>3, <1>7, <1>8, <1>9, <1>12, <2>7, <2>8, <2>9
    DEF Stream!SendNow, StreamRest
<1> QED
  BY <1>10, <1>11, <1>12

(* The low list of an open connection has no begun head.                    *)
LEMMA LowNotBegun == StreamInv /\ open => ~ Uncomplete(low) /\ StreamRest = RestOf(high) /\ RestOf(low) = <<>>
<1> SUFFICES ASSUME StreamInv, open
             PROVE  ~ Uncomplete(low) /\ StreamRest = RestOf(high) /\ RestOf(low) = <<>>
  OBVIOUS
<1>1. ~ Uncomplete(low)
  BY FreshIsNotBegun DEF StreamInv, BufferInv, TypeOK, LowFresh
<1> QED
  BY <1>1, StreamRestHigh

(* The high list is written in part, or all of it; the low one is not.      *)
LEMMA FollowsHigh ==
  ASSUME StreamInv, open, low' = low,
         high' = <<>> \/ \E room \in Nat : high' = Left(high, room)
  PROVE  Follows(StreamRest', StreamRest)
<1>1. /\ RestOf(low) = <<>> /\ StreamRest = RestOf(high)
      /\ high \in Seq(Buffers) /\ FreshWhole(high) /\ TailFresh(high)
  BY LowNotBegun DEF StreamInv, BufferInv, TypeOK
<1>2. StreamRest' = RestOf(high')
  BY <1>1, StreamRestNext DEF RestOf
<1>3. CASE high' = <<>>
  <2>1. RestOf(high') = <<>>
    BY <1>3 DEF RestOf, Uncomplete
  <2> QED
    BY <1>2, <2>1, EmptyFollows
<1>4. CASE \E room \in Nat : high' = Left(high, room)
  BY <1>1, <1>2, <1>4, RestLeft
<1> QED
  BY <1>3, <1>4

(* The low list is written, and what is begun of it is raised or stays.     *)
LEMMA FollowsLow ==
  ASSUME StreamInv, open, NEW room \in Nat,
         StreamRest' = RestOf(Left(low, room))
  PROVE  Follows(StreamRest', StreamRest)
<1>1. RestOf(low) = <<>> /\ low \in Seq(Buffers) /\ FreshWhole(low) /\ TailFresh(low)
  BY LowNotBegun DEF StreamInv, BufferInv, TypeOK
<1>2. Follows(RestOf(Left(low, room)), <<>>)
  BY <1>1, RestLeft
<1> QED
  BY <1>2, FollowsEmpty

LEMMA WriteStep ==
  ASSUME StreamInv, StreamInv', WriteEvent
  PROVE  (Stream!Transmit /\ open' \in BOOLEAN) \/ UNCHANGED Stream!streamVars
<1>1. PICK room \in Room : Flush(room) /\ UNCHANGED open
  BY DEF WriteEvent
<1>2. /\ high \in Seq(Buffers) /\ low \in Seq(Buffers) /\ sent \in Seq(BytePlace)
      /\ FreshWhole(high) /\ FreshWhole(low) /\ TailFresh(high) /\ TailFresh(low)
      /\ open' \in BOOLEAN
  BY DEF StreamInv, BufferInv, TypeOK, BytePlace
<1>3. SumSz(high) \in Nat /\ SumSz(low) \in Nat
  BY <1>2, SumIsNat
<1>4. room \in Nat
  BY <1>3 DEF Room
<1>5. /\ open /\ next' = next /\ open' = open
      /\ FlushHigh(room) \/ FlushLow(room) \/ FlushAll(room)
  BY <1>1 DEF Flush
<1> DEFINE w == WrittenBytes(high, room)
           fh == Flat(high)
           fl == Flat(low)
<1>6. w \in Seq(BytePlace) /\ fh \in Seq(BytePlace) /\ fl \in Seq(BytePlace)
  BY <1>2, <1>4, WrittenTyped, FlatConcat
<1>7. w \o Flat(Left(high, room)) = fh
  BY <1>2, <1>4, TakenAndLeft
<1>8. room >= SumSz(high) => w = fh
  <2> SUFFICES ASSUME room >= SumSz(high) PROVE w = fh
    OBVIOUS
  <2>1. Left(high, room) = <<>>
    BY <1>2, <1>4, NothingLeft
  <2>2. w \o <<>> = fh
    BY <1>7, <2>1, FlatEmpty
  <2> HIDE DEF w, fh
  <2> QED
    BY <1>6, <2>2, ConcatEmptySeq
<1>9. CASE FlushHigh(room)
  <2>1. high' = Left(high, room) /\ low' = low /\ sent' = sent \o w /\ room < SumSz(high)
    BY <1>9 DEF FlushHigh
  <2> DEFINE gh == Flat(high')
             gl == Flat(low')
  <2>2. gh \in Seq(BytePlace) /\ gl = fl /\ w \o gh = fh
    <3>1. Left(high, room) \in Seq(Buffers)
      BY <1>2, <1>4, WhatIsLeft
    <3> QED
      BY <1>7, <2>1, <3>1, FlatConcat
  <2>3. Grouped(w, gh, fl)
    <3> HIDE DEF w, gh, fl
    <3> QED
      BY <1>6, <2>2, BytesGroup
  <2>4. fh \o fl = w \o (gh \o gl)
    <3> HIDE DEF w, gh, gl, fl, fh
    <3> QED
      BY <2>2, <2>3 DEF Grouped
  <2>5. Waiting(high') \in Suffixes(Waiting(high)) /\ Waiting(low') \in Suffixes(Waiting(low))
    BY <1>2, <1>4, <2>1, WaitingLeft, SuffixOfSelf
  <2>6. Follows(StreamRest', StreamRest)
    BY <1>4, <1>5, <2>1, FollowsHigh
  <2>7. Waiting(low') = Waiting(low)
    BY <2>1
  <2> HIDE DEF w
  <2> QED
    BY <1>2, <1>5, <1>6, <2>1, <2>4, <2>5, <2>6, <2>7, TransmitsBy
<1>10. CASE FlushLow(room)
  <2> DEFINE more == room - SumSz(high)
             lows == Left(low, more)
             u == WrittenBytes(low, more)
             taken == w \o u
             gh == Flat(high')
             gl == Flat(low')
  <2>1. /\ more \in Nat /\ room >= SumSz(high) /\ low # <<>>
        /\ sent' = (sent \o w) \o u
        /\ high' = Raised(lows).high /\ low' = Raised(lows).low
    BY <1>3, <1>4, <1>10 DEF FlushLow
  <2>2. /\ lows \in Seq(Buffers) /\ FreshWhole(lows) /\ TailFresh(lows)
        /\ u \in Seq(BytePlace) /\ u \o Flat(lows) = fl
        /\ Waiting(lows) \in Suffixes(Waiting(low))
    <3> HIDE DEF more
    <3> QED
      BY <1>2, <2>1, LeftFresh, WhatIsLeft, WrittenTyped, TakenAndLeft, WaitingLeft
  <2>3. /\ Waiting(high') = <<>> /\ Waiting(low') = Waiting(lows)
        /\ gh \o gl = Flat(lows) /\ Flat(lows) \in Seq(BytePlace)
    <3> HIDE DEF lows
    <3> QED
      BY <2>1, <2>2, RaisedWaiting, FlatConcat
  <2>4. taken \in Seq(BytePlace) /\ sent' = sent \o taken
    <3> HIDE DEF w, u
    <3>1. Grouped(sent, w, u) /\ w \o u \in Seq(BytePlace)
      BY <1>2, <1>6, <2>2, BytesGroup
    <3> QED
      BY <2>1, <3>1 DEF Grouped
  <2>5. fh \o fl = taken \o (gh \o gl)
    <3>1. w = fh
      BY <1>8, <2>1
    <3> DEFINE ll == Flat(lows)
    <3>2. ll \in Seq(BytePlace) /\ gh \o gl = ll /\ u \o ll = fl
      BY <2>2, <2>3
    <3> HIDE DEF w, u, ll, gh, gl, fl, fh
    <3>3. Grouped(w, u, ll)
      BY <1>6, <2>2, <3>2, BytesGroup
    <3> QED
      BY <3>1, <3>2, <3>3 DEF Grouped
  <2>6. Waiting(high') \in Suffixes(Waiting(high)) /\ Waiting(low') \in Suffixes(Waiting(low))
    BY <1>2, <2>2, <2>3, SuffixOfSelf
  <2>7. Follows(StreamRest', StreamRest)
    <3>1. StreamRest' = RestOf(lows)
      <4> HIDE DEF lows
      <4> QED
        BY <2>1, <2>2, RaisedWaiting, StreamRestNext
    <3> HIDE DEF more
    <3> QED
      BY <1>5, <2>1, <3>1, FollowsLow
  <2>8. Waiting(high') = <<>>
    BY <2>3
  <2> HIDE DEF taken
  <2> QED
    BY <1>2, <1>5, <2>4, <2>5, <2>6, <2>7, <2>8, TransmitsBy
<1>11. CASE FlushAll(room)
  <2>1. /\ room >= SumSz(high) /\ low = <<>> /\ low' = low /\ high' = <<>>
        /\ sent' = sent \o w
    BY <1>3, <1>11 DEF FlushAll
  <2>2. CASE high = <<>>
    <3>1. w = <<>>
      BY <1>4, <2>2, NothingWritten
    <3>2. sent' = sent /\ high' = high
      <4> HIDE DEF w
      <4> QED
        BY <1>2, <2>1, <2>2, <3>1, ConcatEmptySeq
    <3> QED
      BY <1>5, <2>1, <3>2 DEF Stream!streamVars, Begun
  <2>3. CASE high # <<>>
    <3>1. w = fh
      BY <1>8, <2>1
    <3>2. Flat(high') = <<>> /\ Flat(low') = <<>> /\ fl = <<>>
      BY <2>1, FlatEmpty
    <3>3. fh \o fl = w \o (Flat(high') \o Flat(low'))
      <4>1. <<>> \o <<>> = <<>>
        OBVIOUS
      <4> HIDE DEF w, fh, fl
      <4> QED
        BY <3>1, <3>2, <4>1
    <3>4. Waiting(high') \in Suffixes(Waiting(high)) /\ Waiting(low') \in Suffixes(Waiting(low))
      BY <1>2, <2>1, SuffixOfSelf, WaitingOfEmpty
    <3>5. Waiting(high') = <<>> /\ Follows(StreamRest', StreamRest)
      BY <1>5, <2>1, WaitingOfEmpty, FollowsHigh
    <3> HIDE DEF w
    <3> QED
      BY <1>2, <1>5, <1>6, <2>1, <3>3, <3>4, <3>5, TransmitsBy
  <2> QED
    BY <2>2, <2>3
<1> QED
  BY <1>5, <1>9, <1>10, <1>11

LEMMA FailedWriteStep ==
  ASSUME StreamInv, StreamInv', WriteFails
  PROVE  Stream!Transmit /\ open' \in BOOLEAN
<1>1. PICK room \in Room :
        /\ room < SumSz(high) + SumSz(low)
        /\ sent' = sent \o WrittenBytes(high, room)
                        \o (IF room < SumSz(high) THEN <<>>
                            ELSE WrittenBytes(low, room - SumSz(high)))
        /\ high' = Left(high, room)
        /\ low' = IF room < SumSz(high) THEN low ELSE Left(low, room - SumSz(high))
  BY DEF WriteFails
<1>2. /\ high \in Seq(Buffers) /\ low \in Seq(Buffers) /\ sent \in Seq(BytePlace)
      /\ open /\ open' \in BOOLEAN /\ next' = next
  BY DEF StreamInv, BufferInv, TypeOK, BytePlace, WriteFails
<1>3. SumSz(high) \in Nat /\ SumSz(low) \in Nat
  BY <1>2, SumIsNat
<1>4. room \in Nat
  BY <1>3 DEF Room
<1> DEFINE w == WrittenBytes(high, room)
           fh == Flat(high)
           fl == Flat(low)
           gh == Flat(high')
           gl == Flat(low')
<1>5. /\ w \in Seq(BytePlace) /\ fh \in Seq(BytePlace) /\ fl \in Seq(BytePlace)
      /\ gh \in Seq(BytePlace) /\ w \o gh = fh
      /\ Waiting(high') \in Suffixes(Waiting(high))
  <2>1. Left(high, room) \in Seq(Buffers)
    BY <1>2, <1>4, WhatIsLeft
  <2>2. w \in Seq(BytePlace) /\ fh \in Seq(BytePlace) /\ fl \in Seq(BytePlace)
    BY <1>2, <1>4, WrittenTyped, FlatConcat
  <2>3. gh \in Seq(BytePlace)
    BY <1>1, <2>1, FlatConcat
  <2>4. w \o gh = fh
    BY <1>1, <1>2, <1>4, TakenAndLeft
  <2>5. Waiting(high') \in Suffixes(Waiting(high))
    BY <1>1, <1>2, <1>4, WaitingLeft
  <2> QED
    BY <2>2, <2>3, <2>4, <2>5
<1>6. CASE room < SumSz(high)
  <2>1. low' = low /\ sent' = (sent \o w) \o <<>>
    BY <1>1, <1>6
  <2>2. sent' = sent \o w
    <3> HIDE DEF w
    <3>1. sent \o w \in Seq(BytePlace)
      BY <1>2, <1>5, ConcatProperties
    <3> QED
      BY <2>1, <3>1, ConcatEmptySeq
  <2>3. fh \o fl = w \o (gh \o gl)
    <3>1. gl = fl
      BY <2>1
    <3> HIDE DEF w, gh, gl, fl, fh
    <3>2. Grouped(w, gh, fl)
      BY <1>5, BytesGroup
    <3> QED
      BY <1>5, <3>1, <3>2 DEF Grouped
  <2>4. Waiting(low') \in Suffixes(Waiting(low)) /\ Waiting(low') = Waiting(low)
    BY <1>2, <2>1, SuffixOfSelf
  <2>5. Follows(StreamRest', StreamRest)
    BY <1>1, <1>2, <1>4, <2>1, FollowsHigh
  <2> HIDE DEF w
  <2> QED
    BY <1>2, <1>5, <2>2, <2>3, <2>4, <2>5, TransmitsBy
<1>7. CASE room >= SumSz(high)
  <2> DEFINE more == room - SumSz(high)
             u == WrittenBytes(low, more)
             taken == w \o u
  <2>1. more \in Nat /\ low' = Left(low, more) /\ sent' = (sent \o w) \o u
    <3>1. more \in Nat /\ ~ (room < SumSz(high))
      BY <1>3, <1>4, <1>7
    <3>2. low' = Left(low, more)
      BY <1>1, <3>1
    <3>3. (IF room < SumSz(high) THEN <<>> ELSE WrittenBytes(low, more)) = u
      BY <3>1
    <3>4. sent' = (sent \o w) \o u
      BY <1>1, <3>3
    <3> QED
      BY <3>1, <3>2, <3>4
  <2>2. high' = <<>>
    BY <1>1, <1>2, <1>4, <1>7, NothingLeft
  <2>3. gh = <<>> /\ Waiting(high') = <<>>
    BY <2>2, FlatEmpty, WaitingOfEmpty
  <2>4. w = fh
    <3> HIDE DEF w, fh, gh
    <3> QED
      BY <1>5, <2>3, ConcatEmptySeq
  <2>5. /\ u \in Seq(BytePlace) /\ u \o gl = fl /\ gl \in Seq(BytePlace)
        /\ Waiting(low') \in Suffixes(Waiting(low))
    <3> HIDE DEF more
    <3>1. Left(low, more) \in Seq(Buffers)
      BY <1>2, <2>1, WhatIsLeft
    <3>2. gl \in Seq(BytePlace)
      BY <2>1, <3>1, FlatConcat
    <3>3. u \in Seq(BytePlace) /\ u \o gl = fl
      BY <1>2, <2>1, WrittenTyped, TakenAndLeft
    <3>4. Waiting(low') \in Suffixes(Waiting(low))
      BY <1>2, <2>1, WaitingLeft
    <3> QED
      BY <3>2, <3>3, <3>4
  <2>6. taken \in Seq(BytePlace) /\ sent' = sent \o taken
    <3> HIDE DEF w, u
    <3>1. Grouped(sent, w, u) /\ w \o u \in Seq(BytePlace)
      BY <1>2, <1>5, <2>5, BytesGroup
    <3> QED
      BY <2>1, <3>1 DEF Grouped
  <2>7. fh \o fl = taken \o (gh \o gl)
    <3> HIDE DEF w, u, gh, gl, fl, fh
    <3>1. Grouped(w, u, gl)
      BY <1>5, <2>5, BytesGroup
    <3>2. gh \o gl = gl
      BY <2>3, <2>5, ConcatEmptySeq
    <3> QED
      BY <2>4, <2>5, <3>1, <3>2 DEF Grouped
  <2>8. Follows(StreamRest', StreamRest)
    <3>1. ~ Uncomplete(high')
      BY <2>2 DEF Uncomplete
    <3>2. StreamRest' = RestOf(Left(low, more))
      BY <2>1, <3>1, StreamRestNext
    <3> HIDE DEF more
    <3> QED
      BY <1>2, <2>1, <3>2, FollowsLow
  <2> HIDE DEF taken
  <2> QED
    BY <1>2, <1>5, <2>3, <2>5, <2>6, <2>7, <2>8, TransmitsBy
<1> QED
  BY <1>3, <1>4, <1>6, <1>7

LEMMA StreamStep ==
  StreamInv /\ StreamInv' /\ [Next]_vars => [Stream!StreamNext]_(Stream!streamVars)
<1> SUFFICES ASSUME StreamInv, StreamInv', [Next]_vars
             PROVE  Stream!StreamNext \/ UNCHANGED Stream!streamVars
  OBVIOUS
<1>1. CASE SendDirect
  BY <1>1, DirectStep DEF Stream!StreamNext
<1>2. CASE SendFails
  <2>1. /\ open /\ open' = FALSE /\ next' = next + 1
        /\ UNCHANGED <<high, low, sent>>
    BY <1>2 DEF SendFails
  <2>2. StreamRest' = StreamRest /\ Waiting(high') = Waiting(high) /\ Waiting(low') = Waiting(low)
    BY <2>1 DEF StreamRest, Begun
  <2> QED
    BY <2>1, <2>2 DEF Stream!StreamNext, StreamRest
<1>3. CASE SendQueued
  <2>1. /\ open /\ next \in Messages /\ next' = next + 1 /\ UNCHANGED <<sent, open>>
        /\ \/ high' = Appended(high, next, 0) /\ low' = low
           \/ low' = Appended(low, next, 0) /\ high' = high
    BY <1>3 DEF SendQueued, append_send_buffer_high, append_send_buffer_low
  <2> QED
    BY <2>1, QueuesBy DEF Stream!StreamNext
<1>4. CASE WriteEvent
  BY <1>4, WriteStep DEF Stream!StreamNext
<1>5. CASE WriteFails
  BY <1>5, FailedWriteStep DEF Stream!StreamNext
<1>6. CASE UNCHANGED vars
  <2>1. UNCHANGED <<high, low, sent, next, open>>
    BY <1>6 DEF vars
  <2>2. StreamRest' = StreamRest /\ Waiting(high') = Waiting(high) /\ Waiting(low') = Waiting(low)
    BY <2>1 DEF StreamRest, Begun
  <2> QED
    BY <2>1, <2>2 DEF Stream!streamVars, StreamRest
<1> QED
  BY <1>1, <1>2, <1>3, <1>4, <1>5, <1>6 DEF Next

(* The write lists implement SendStream, for messages of any number and     *)
(* size and a kernel that takes any part of what it is given, at the direct *)
(* write of a message as well: the peer gets every message without a gap    *)
(* and once, those of high priority first, and what is begun is finished    *)
(* before another.  Foreign bytes come in one place only and in a known     *)
(* number: behind a message whose direct write was short, as many as it     *)
(* took.                                                                    *)
THEOREM StreamImplemented == Spec => ImplementsStream
<1>1. Init => BufferInv /\ StreamInv
  BY InitBufferInv, InitStreamInv
<1>2. BufferInv /\ StreamInv /\ [Next]_vars => BufferInv' /\ StreamInv'
  BY BufferStep, StreamInvStep
<1>3. StreamInv /\ StreamInv' /\ [Next]_vars => [Stream!StreamNext]_(Stream!streamVars)
  BY StreamStep
<1>4. Init => Stream!Init
  BY StreamInit
<1> QED
  BY <1>1, <1>2, <1>3, <1>4, PTL DEF Spec, ImplementsStream, Stream!StreamSpec
=============================================================================
