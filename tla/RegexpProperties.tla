-------------------------- MODULE RegexpProperties --------------------------
(***************************************************************************)
(* The properties of the matchers that speak of their own data; that they  *)
(* answer as the language says is in RegexpMC.                             *)
(***************************************************************************)
EXTENDS RegexpMatch

CONSTANT DStates  \* the DStates, by number, that ImplementsCache looks at

ASSUME DStatesAssumption == DStates \subseteq Nat \ {NULL}

TypeOK ==
  /\ program \in Programs /\ pattern \in Patterns
  /\ nfa.status \in {"ok", "rejected", "undefined"}
  /\ lastlist \in [DOMAIN nfa.nodes -> 0 .. listid]
  /\ \A l \in {"l1", "l2"} : \A i \in DOMAIN lists[l] : lists[l][i] \in DOMAIN nfa.nodes
  /\ clist \in {"l1", "l2"}
  /\ d \in 0 .. Len(cache.heap)
  /\ phase \in {"match", "scan", "exit"}
  /\ rest \in Seq(Chars)
  /\ Len(verdicts) + Len(words) = Len(Argv)

(***************************************************************************)
(* A list never outgrows its array: l1, l2 and the list in a DState have   *)
(* room for nstate pointers, a count that leaves the static matchstate out *)
(* although a list can hold it (main's mallocs, allocdstate, addstate).    *)
(***************************************************************************)
ListsFit ==
  LET nstate == Len(nfa.nodes) - 1
  IN  phase # "exit" =>
        /\ Len(lists.l1) <= nstate /\ Len(lists.l2) <= nstate
        /\ \A e \in DOMAIN cache.heap : Len(cache.heap[e].l) <= nstate

\* The free list from t on, as allocdstate follows it.
FollowFree(heap, w) ==
  IF w.d = NULL THEN w ELSE [d |-> heap[w.d].left, l |-> Append(w.l, w.d)]

FreeChain(heap, t) ==
  LET turn[n \in Nat] ==
        IF n = 0 THEN [d |-> t, l |-> <<>>] ELSE FollowFree(heap, turn[n - 1])
  IN  turn[Len(heap) + 1].l

(***************************************************************************)
(* Every DState is in one place: in the search tree, once, or on the free  *)
(* list, once, never in both (the two share the field left); the tree is   *)
(* ordered by listcmp, so that a search finds every list in it; nstates    *)
(* counts it, and dfa1 allocates no more than maxstates of them, because   *)
(* what it threw away it takes again first; and the current DState is      *)
(* never one that was freed (dstate, freecache, freestates, allocdstate).  *)
(***************************************************************************)
StatesInOnePlace ==
  LET heap == cache.heap
      tree == TreeList(heap, cache.alldstates)
      places == tree \o FreeChain(heap, cache.freelist)
  IN  /\ Len(places) = Len(cache.heap)
      /\ ToSet(places) = DOMAIN cache.heap
      /\ \A t \in ToSet(tree) : Search(heap, heap[t].l, cache.alldstates).d = t
      /\ cache.nstates = Len(tree)
      /\ program = "dfa1" => Len(heap) <= MAXSTATES
      /\ d # NULL => d \in ToSet(tree)

(***************************************************************************)
(* The set of automaton states that a state list stands for, by reach.     *)
(***************************************************************************)
Followed(a, s) ==
  {s} \cup IF a.nodes[s].c = "Split" THEN {a.nodes[s].out, a.nodes[s].out1} \ {NULL} ELSE {}

Closure(a, S) ==
  LET turn[n \in Nat] ==
        IF n = 0 THEN S \ {NULL} ELSE UNION {Followed(a, s) : s \in turn[n - 1]}
  IN  {s \in turn[Len(a.nodes)] : a.nodes[s].c # "Split"}

StartSet(a) == Closure(a, {a.start})
StepSet(a, S, c) == Closure(a, {a.nodes[s].out : s \in {r \in S : a.nodes[r].c = c}})
Accepting(a, S) == MATCHSTATE \in S

\* The DStates of the tree at t, by reach.
Cached(heap, t) ==
  LET turn[n \in Nat] ==
        IF n = 0 THEN {t} \ {NULL}
        ELSE UNION {{e, heap[e].left, heap[e].right} \ {NULL} : e \in turn[n - 1]}
  IN  turn[Len(heap)]

\* What the abstract cache sees of this one, those DStates of it.
Content ==
  [e \in DStates |-> IF e \in DOMAIN cache.heap THEN ToSet(cache.heap[e].l) ELSE {}]
Arrows ==
  [e \in DStates |-> IF e \in DOMAIN cache.heap THEN cache.heap[e].next
                          ELSE [c \in Chars |-> NULL]]
Live == Cached(cache.heap, cache.alldstates)

\* A main that exits before its loop has no strings to match.
ToMatch == IF phase = "exit" THEN <<>> ELSE words
Stage == IF phase = "exit" THEN "match" ELSE phase
Current == IF phase = "scan" THEN ToSet(CurrentList) ELSE {}

Abstract == INSTANCE DfaCache WITH
  NoState <- NULL,
  phase <- Stage, words <- ToMatch, cur <- Current,
  live <- Live, content <- Content, next <- Arrows

(***************************************************************************)
(* The programs implement the abstract cache, and with it the matcher that *)
(* stores nothing: each step reads an arrow that is still valid or         *)
(* computes the next set of states, and no arrow outlives freecache.       *)
(***************************************************************************)
ImplementsCache == Abstract!Spec
=============================================================================
