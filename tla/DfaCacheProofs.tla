--------------------------- MODULE DfaCacheProofs ---------------------------
(***************************************************************************)
(* Proofs about the cache, for every automaton, alphabet, set of DStates   *)
(* and list of strings: no arrow survives the cache it belonged to, and a  *)
(* matcher that caches answers as one that stores nothing.                 *)
(***************************************************************************)
EXTENDS DfaCache, TLAPS

(***************************************************************************)
(* The shape of the state.                                                 *)
(***************************************************************************)
TypeInv ==
  /\ words \in Seq(Seq(Chars))
  /\ rest \in Seq(Chars)
  /\ phase = "scan" => words # <<>>
  /\ d \in DStates \cup {NoState}
  /\ live \in SUBSET DStates
  /\ content = [x \in DStates |-> content[x]]
  /\ next \in [DStates -> [Chars -> DStates \cup {NoState}]]

\* Current strings and words stay strings.
LEMMA TailOfString ==
  ASSUME NEW S, NEW s \in Seq(S), s # <<>>
  PROVE  Head(s) \in S /\ Tail(s) \in Seq(S)
  OBVIOUS

LEMMA TypeInit == Init => TypeInv
  BY DEF Init, MatchInit, TypeInv, NoArrows

\* The parts of the state that Begin, ReadChar, Answer and Follow share.
LEMMA MatchTypes ==
  ASSUME TypeInv, Begin \/ ReadChar \/ Answer \/ Follow
  PROVE  /\ words' \in Seq(Seq(Chars))
         /\ rest' \in Seq(Chars)
         /\ phase' = "scan" => words' # <<>>
  <1>1. CASE Begin
    BY <1>1, TailOfString DEF Begin, TypeInv
  <1>2. CASE ReadChar
    BY <1>2, TailOfString DEF ReadChar, TypeInv
  <1>3. CASE Answer
    BY <1>3, TailOfString DEF Answer, TypeInv
  <1>4. CASE Follow
    BY <1>4, TailOfString DEF Follow, TypeInv
  <1>. QED BY <1>1, <1>2, <1>3, <1>4

(***************************************************************************)
(* The two halves of CacheSound.                                           *)
(***************************************************************************)
CurrentSound == d # NoState => d \in live /\ (phase = "scan" => content[d] = cur)

ArrowsSound ==
  \A x \in live, c \in Chars :
    next[x][c] # NoState =>
      next[x][c] \in live /\ content[next[x][c]] = StepSet(nfa, content[x], c)

LEMMA SoundHalves == CacheSound <=> CurrentSound /\ ArrowsSound
  BY DEF CacheSound, CurrentSound, ArrowsSound

\* A DState is added without an arrow to it.
LEMMA AddedKeepsArrows ==
  ASSUME TypeInv, ArrowsSound, nfa' = nfa,
         NEW s, NEW e \in DStates, Added(s, e), next' = Cleared(e)
  PROVE  ArrowsSound'
  <1> SUFFICES ASSUME NEW x \in live', NEW c \in Chars, next'[x][c] # NoState
               PROVE  /\ next'[x][c] \in live'
                      /\ content'[next'[x][c]] = StepSet(nfa', content'[x], c)
    BY DEF ArrowsSound
  <1>1. x # e
    BY DEF Cleared, NoArrows, TypeInv
  <1>2. x \in live /\ next'[x][c] = next[x][c] /\ content'[x] = content[x]
    BY <1>1 DEF Added, Cleared, TypeInv
  <1>3. next[x][c] \in live /\ content[next[x][c]] = StepSet(nfa, content[x], c)
    BY <1>2 DEF ArrowsSound
  <1>4. content'[next[x][c]] = content[next[x][c]]
    BY <1>3 DEF Added, TypeInv
  <1>. QED BY <1>2, <1>3, <1>4 DEF Added

\* A cache that was thrown away has no arrows.
LEMMA RestartedHasNoArrows ==
  ASSUME TypeInv, NEW s, NEW e \in DStates, Restarted(s, e), next' = Cleared(e)
  PROVE  ArrowsSound'
  BY DEF ArrowsSound, Restarted, Cleared, NoArrows, TypeInv

\* An arrow from d to a DState that stands for the next set may be recorded.
LEMMA RecordedArrow ==
  ASSUME NEW nx \in [DStates -> [Chars -> DStates \cup {NoState}]],
         NEW e \in DStates, NEW f \in DStates, NEW c \in Chars,
         next' = [nx EXCEPT ![f][c] = e],
         e \in live', content'[e] = StepSet(nfa', content'[f], c), live' \subseteq DStates,
         \A x \in live', k \in Chars : nx[x][k] # NoState =>
           nx[x][k] \in live' /\ content'[nx[x][k]] = StepSet(nfa', content'[x], k)
  PROVE  ArrowsSound'
  <1> SUFFICES ASSUME NEW x \in live', NEW k \in Chars, next'[x][k] # NoState
               PROVE  /\ next'[x][k] \in live'
                      /\ content'[next'[x][k]] = StepSet(nfa', content'[x], k)
    BY DEF ArrowsSound
  <1>1. CASE x = f /\ k = c
    BY <1>1
  <1>2. CASE ~(x = f /\ k = c)
    <2>1. next'[x][k] = nx[x][k]
      BY <1>2
    <2>. QED BY <2>1
  <1>. QED BY <1>1, <1>2

LEMMA RecordSound ==
  ASSUME TypeInv, CurrentSound, ArrowsSound, ReadChar, NEW e \in DStates, Record(e)
  PROVE  CurrentSound' /\ ArrowsSound'
  <1> DEFINE c == Head(rest)
  <1>1. /\ d \in live /\ d \in DStates /\ c \in Chars /\ nfa' = nfa
        /\ cur' = StepSet(nfa, content[d], c)
    BY TailOfString DEF ReadChar, Record, CurrentSound, TypeInv
  <1>2. CASE Found(cur', e) /\ next' \in {next, [next EXCEPT ![d][c] = e]}
    <2>1. CurrentSound'
      BY <1>2 DEF Found, Record, CurrentSound
    <2>2. ArrowsSound'
      <3>1. CASE next' = next
        BY <1>1, <1>2, <3>1 DEF Found, ArrowsSound
      <3>2. CASE next' = [next EXCEPT ![d][c] = e]
        <4>1. /\ next \in [DStates -> [Chars -> DStates \cup {NoState}]]
              /\ e \in live' /\ live' \subseteq DStates
              /\ content'[e] = StepSet(nfa', content'[d], c)
          BY <1>1, <1>2 DEF Found, TypeInv
        <4>2. \A x \in live', k \in Chars : next[x][k] # NoState =>
                next[x][k] \in live' /\ content'[next[x][k]] = StepSet(nfa', content'[x], k)
          BY <1>1, <1>2 DEF Found, ArrowsSound
        <4>. QED BY <1>1, <3>2, <4>1, <4>2, RecordedArrow
      <3>. QED BY <1>2, <3>1, <3>2
    <2>. QED BY <2>1, <2>2
  <1>3. CASE Added(cur', e) /\ next' \in {Cleared(e), [Cleared(e) EXCEPT ![d][c] = e]}
    <2>1. content'[e] = cur' /\ content'[d] = content[d] /\ e \in live' /\ live' \subseteq DStates
      BY <1>1, <1>3 DEF Added, TypeInv
    <2>2. CurrentSound'
      BY <2>1 DEF Record, CurrentSound
    <2>3. ArrowsSound'
      <3>1. CASE next' = Cleared(e)
        BY <1>1, <1>3, <3>1, AddedKeepsArrows
      <3>2. CASE next' = [Cleared(e) EXCEPT ![d][c] = e]
        <4>1. Cleared(e) \in [DStates -> [Chars -> DStates \cup {NoState}]]
          BY DEF Cleared, NoArrows, TypeInv
        <4>2. ASSUME NEW x \in live', NEW k \in Chars, Cleared(e)[x][k] # NoState
              PROVE  /\ Cleared(e)[x][k] \in live'
                     /\ content'[Cleared(e)[x][k]] = StepSet(nfa', content'[x], k)
          <5>1. x # e
            BY <4>2 DEF Cleared, NoArrows, TypeInv
          <5>2. x \in live /\ Cleared(e)[x][k] = next[x][k] /\ content'[x] = content[x]
            BY <1>3, <5>1 DEF Added, Cleared, TypeInv
          <5>3. next[x][k] \in live /\ content[next[x][k]] = StepSet(nfa, content[x], k)
            BY <4>2, <5>2 DEF ArrowsSound
          <5>4. content'[next[x][k]] = content[next[x][k]]
            BY <1>3, <5>3 DEF Added, TypeInv
          <5>. QED BY <1>1, <1>3, <5>2, <5>3, <5>4 DEF Added
        <4>. QED BY <1>1, <2>1, <3>2, <4>1, <4>2, RecordedArrow
      <3>. QED BY <1>3, <3>1, <3>2
    <2>. QED BY <2>2, <2>3
  <1>4. CASE Restarted(cur', e) /\ next' = Cleared(e)
    <2>1. CurrentSound'
      BY <1>4 DEF Restarted, Record, CurrentSound, TypeInv
    <2>. QED BY <1>4, <2>1, RestartedHasNoArrows
  <1>. QED BY <1>2, <1>3, <1>4 DEF Record

(***************************************************************************)
(* Every step keeps the shape and the soundness of the cache.              *)
(***************************************************************************)
IInv == TypeInv /\ CurrentSound /\ ArrowsSound

LEMMA InvInit == Init => IInv
  BY TypeInit DEF Init, IInv, CurrentSound, ArrowsSound

\* What dstate leaves of the shape, before an arrow is recorded.
LEMMA DstateTypes ==
  ASSUME TypeInv, NEW s, NEW e \in DStates,
         Found(s, e) \/ Added(s, e) \/ Restarted(s, e)
  PROVE  /\ live' \in SUBSET DStates
         /\ content' = [x \in DStates |-> content'[x]]
  <1>1. CASE Found(s, e)
    BY <1>1 DEF Found, TypeInv
  <1>2. CASE Added(s, e)
    <2>1. content' = [x \in DStates |-> IF x = e THEN s ELSE content[x]]
      BY <1>2 DEF Added, TypeInv
    <2>. QED BY <1>2, <2>1 DEF Added, TypeInv
  <1>3. CASE Restarted(s, e)
    <2>1. content' = [x \in DStates |-> IF x = e THEN s ELSE content[x]]
      BY <1>3 DEF Restarted, TypeInv
    <2>. QED BY <1>3, <2>1 DEF Restarted, TypeInv
  <1>. QED BY <1>1, <1>2, <1>3

LEMMA ClearedTypes ==
  ASSUME TypeInv, NEW e \in DStates
  PROVE  Cleared(e) \in [DStates -> [Chars -> DStates \cup {NoState}]]
  BY DEF Cleared, NoArrows, TypeInv

LEMMA ArrowType ==
  ASSUME NEW D, NEW C, NEW R, NEW f \in [D -> [C -> R]], NEW x \in D, NEW k, NEW v \in R
  PROVE  [f EXCEPT ![x][k] = v] \in [D -> [C -> R]]
  <1>1. [f[x] EXCEPT ![k] = v] \in [C -> R]
    OBVIOUS
  <1>. QED BY <1>1

LEMMA CacheTypes ==
  ASSUME TypeInv, Next
  PROVE  /\ d' \in DStates \cup {NoState}
         /\ live' \in SUBSET DStates
         /\ content' = [x \in DStates |-> content'[x]]
         /\ next' \in [DStates -> [Chars -> DStates \cup {NoState}]]
  <1> DEFINE Good == /\ d' \in DStates \cup {NoState}
                     /\ live' \in SUBSET DStates
                     /\ content' = [x \in DStates |-> content'[x]]
                     /\ next' \in [DStates -> [Chars -> DStates \cup {NoState}]]
  <1> SUFFICES Good
    OBVIOUS
  <1> HIDE DEF Good
  <1>1. CASE CacheBegin
    <2>1. CASE Forget
      BY <2>1 DEF Forget, TypeInv, Good
    <2>2. ASSUME NEW e \in DStates, d' = e,
                 \/ Found(cur', e) /\ UNCHANGED next
                 \/ (Added(cur', e) \/ Restarted(cur', e)) /\ next' = Cleared(e)
          PROVE  Good
      BY <2>2, DstateTypes, ClearedTypes DEF TypeInv, Good
    <2>. QED BY <1>1, <2>1, <2>2 DEF CacheBegin
  <1>2. CASE Follow
    BY <1>2, TailOfString DEF Follow, TypeInv, Good
  <1>3. CASE Compute
    <2>1. CASE Forget
      BY <2>1 DEF Forget, TypeInv, Good
    <2>2. ASSUME NEW e \in DStates, Record(e) PROVE Good
      <3>1. d' \in DStates /\ live' \in SUBSET DStates /\ content' = [x \in DStates |-> content'[x]]
        BY <2>2, DstateTypes DEF Record
      <3>2. ASSUME NEW nx \in [DStates -> [Chars -> DStates \cup {NoState}]]
            PROVE  [nx EXCEPT ![d][Head(rest)] = e] \in [DStates -> [Chars -> DStates \cup {NoState}]]
        <4>1. d \in DStates
          BY <2>2 DEF Record, TypeInv
        <4>2. e \in DStates \cup {NoState}
          OBVIOUS
        <4>. QED BY <4>1, <4>2, ArrowType, Zenon
      <3>3. \/ next' \in {next, [next EXCEPT ![d][Head(rest)] = e]}
            \/ next' \in {Cleared(e), [Cleared(e) EXCEPT ![d][Head(rest)] = e]}
        BY <2>2 DEF Record
      <3>4. next' \in [DStates -> [Chars -> DStates \cup {NoState}]]
        <4>1. next \in [DStates -> [Chars -> DStates \cup {NoState}]]
          BY DEF TypeInv
        <4>2. [next EXCEPT ![d][Head(rest)] = e] \in [DStates -> [Chars -> DStates \cup {NoState}]]
          BY <3>2, <4>1
        <4>3. Cleared(e) \in [DStates -> [Chars -> DStates \cup {NoState}]]
          BY ClearedTypes
        <4>4. [Cleared(e) EXCEPT ![d][Head(rest)] = e] \in [DStates -> [Chars -> DStates \cup {NoState}]]
          BY <3>2, <4>3
        <4>. QED BY <3>3, <4>1, <4>2, <4>3, <4>4
      <3>. QED BY <3>1, <3>4 DEF Good
    <2>. QED BY <1>3, <2>1, <2>2 DEF Compute
  <1>4. CASE CacheAnswer
    BY <1>4 DEF CacheAnswer, cacheVars, TypeInv, Good
  <1>. QED BY <1>1, <1>2, <1>3, <1>4 DEF Next

LEMMA BeginSound ==
  ASSUME TypeInv, CurrentSound, ArrowsSound, CacheBegin
  PROVE  CurrentSound' /\ ArrowsSound'
  <1>0. nfa' = nfa
    BY DEF CacheBegin, Begin
  <1>1. CASE Forget
    BY <1>0, <1>1 DEF Forget, CurrentSound, ArrowsSound
  <1>2. ASSUME NEW e \in DStates, d' = e, Found(cur', e), UNCHANGED next
        PROVE  CurrentSound' /\ ArrowsSound'
    BY <1>0, <1>2 DEF Found, CurrentSound, ArrowsSound
  <1>3. ASSUME NEW e \in DStates, d' = e, Added(cur', e), next' = Cleared(e)
        PROVE  CurrentSound' /\ ArrowsSound'
    <2>1. CurrentSound'
      BY <1>3 DEF Added, CurrentSound, TypeInv
    <2>. QED BY <1>0, <1>3, <2>1, AddedKeepsArrows
  <1>4. ASSUME NEW e \in DStates, d' = e, Restarted(cur', e), next' = Cleared(e)
        PROVE  CurrentSound' /\ ArrowsSound'
    <2>1. CurrentSound'
      BY <1>4 DEF Restarted, CurrentSound, TypeInv
    <2>. QED BY <1>4, <2>1, RestartedHasNoArrows
  <1>. QED BY <1>1, <1>2, <1>3, <1>4 DEF CacheBegin

LEMMA InvNext == IInv /\ [Next]_vars => IInv'
  <1> SUFFICES ASSUME IInv, [Next]_vars PROVE IInv'
    OBVIOUS
  <1> USE DEF IInv
  <1>1. CASE CacheBegin
    BY <1>1, MatchTypes, CacheTypes, BeginSound DEF CacheBegin, Next, TypeInv
  <1>2. CASE Follow
    <2>1. TypeInv'
      BY <1>2, MatchTypes, CacheTypes DEF Next, TypeInv
    <2>2. d \in live /\ Head(rest) \in Chars
      BY <1>2, TailOfString DEF Follow, CurrentSound, TypeInv
    <2>3. CurrentSound'
      BY <1>2, <2>2 DEF Follow, CurrentSound, ArrowsSound
    <2>4. ArrowsSound'
      BY <1>2 DEF Follow, ArrowsSound
    <2>. QED BY <2>1, <2>3, <2>4
  <1>3. CASE Compute
    <2>1. TypeInv'
      BY <1>3, MatchTypes, CacheTypes DEF Compute, Next, TypeInv
    <2>2. CASE Forget
      BY <1>3, <2>1, <2>2 DEF Compute, ReadChar, Forget, CurrentSound, ArrowsSound
    <2>3. CASE \E e \in DStates : Record(e)
      BY <1>3, <2>1, <2>3, RecordSound DEF Compute
    <2>. QED BY <1>3, <2>2, <2>3 DEF Compute
  <1>4. CASE CacheAnswer
    <2>1. TypeInv'
      BY <1>4, MatchTypes, CacheTypes DEF CacheAnswer, Next, TypeInv
    <2>. QED BY <1>4, <2>1 DEF CacheAnswer, Answer, cacheVars, CurrentSound, ArrowsSound
  <1>5. CASE UNCHANGED vars
    BY <1>5 DEF vars, matchVars, cacheVars, TypeInv, CurrentSound, ArrowsSound
  <1>. QED BY <1>1, <1>2, <1>3, <1>4, <1>5 DEF Next

(***************************************************************************)
(* dfa0.c and dfa1.c: in every reachable state the current DState is in    *)
(* the cache and every arrow of a cached DState leads to a cached DState   *)
(* for the right set of automaton states, although the cache is thrown     *)
(* away in the middle of a string and its DStates are used again.          *)
(***************************************************************************)
THEOREM CacheIsSound == Spec => []CacheSound
  <1>1. IInv => CacheSound
    BY SoundHalves DEF IInv
  <1>. QED BY InvInit, InvNext, <1>1, PTL DEF Spec

\* A step of the cache is a step of the matcher that stores nothing.
LEMMA StepMatches == IInv /\ [Next]_vars => [MatchNext]_matchVars
  <1> SUFFICES ASSUME IInv, [Next]_vars PROVE [MatchNext]_matchVars
    OBVIOUS
  <1>1. CASE Follow
    <2>1. d \in live /\ Head(rest) \in Chars /\ content[d] = cur
      BY <1>1, TailOfString DEF Follow, IInv, CurrentSound, TypeInv
    <2>2. cur' = StepSet(nfa, cur, Head(rest))
      BY <1>1, <2>1 DEF Follow, IInv, ArrowsSound
    <2>. QED BY <1>1, <2>2 DEF Follow, ReadChar, MatchNext
  <1>2. CASE CacheBegin \/ Compute \/ CacheAnswer
    BY <1>2 DEF CacheBegin, Compute, CacheAnswer, MatchNext
  <1>3. CASE UNCHANGED vars
    BY <1>3 DEF vars
  <1>. QED BY <1>1, <1>2, <1>3 DEF Next

(***************************************************************************)
(* The cached matchers (dfa0.c, dfa1.c: match, nextstate, dstate) answer   *)
(* as the uncached one: every behaviour of the cache is one of NfaMatch.   *)
(***************************************************************************)
THEOREM CacheImplementsMatch == Spec => MatchSpec
  <1>1. Init => MatchInit
    BY DEF Init
  <1>. QED BY InvInit, InvNext, StepMatches, <1>1, PTL DEF Spec, MatchSpec
=============================================================================
