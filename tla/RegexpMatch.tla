----------------------------- MODULE RegexpMatch -----------------------------
(***************************************************************************)
(* The three programs of src/regexp from main's loop over the strings on:  *)
(* nfa.c follows two state lists that it swaps; dfa0.c caches the lists in *)
(* a search tree of DStates; dfa1.c bounds that cache, throws it away when *)
(* it is full and takes DStates from a free list.                          *)
(***************************************************************************)
EXTENDS RegexpCompile, FiniteSets

CONSTANTS
  Programs,  \* which of "nfa", "dfa0", "dfa1" to run
  MAXSTATES, \* dfa1's maxstates (32 in the code)
  Patterns,  \* what may be given as argv[1]
  Argv       \* the arguments after it

ASSUME MatchAssumption ==
  /\ Programs \subseteq {"nfa", "dfa0", "dfa1"}
  /\ MAXSTATES \in Nat \ {0}
  /\ Patterns \subseteq Seq(Tokens)
  /\ Argv \in Seq(Seq(Chars))

VARIABLES
  program,   \* the running program
  pattern,   \* its first argument
  nfa,       \* the compiled automaton
  qsortKeeps,\* whether this C library's qsort leaves a list as it is
  lastlist,  \* State.lastlist of every state
  listid,
  lists,     \* l1 and l2
  clist,     \* nfa.c: which of them is the current list
  cache,     \* heap of DStates, alldstates, freelist, nstates
  d,         \* dfa: the current DState
  words, phase, rest, verdicts

nodeVars == <<lastlist, listid>>
vars == <<program, pattern, nfa, qsortKeeps, nodeVars, lists, clist, cache, d,
          words, phase, rest, verdicts>>

NoDState == [l |-> <<>>, next |-> [c \in Chars |-> NULL], left |-> NULL, right |-> NULL]

(***************************************************************************)
(* State lists.  w is a list under construction: todo holds the states     *)
(* that addstate is still to be called with, the next one first, and mark  *)
(* is State.lastlist.  A Split is followed at once, its two calls come     *)
(* before those that were waiting.                                         *)
(***************************************************************************)
\* mutant: a Split state goes into the list as well
MutAddSplit(w, id) ==
  LET s == Head(w.todo)
      later == Tail(w.todo)
      out == <<nfa.nodes[s].out, nfa.nodes[s].out1>>
  IN  CASE w.todo = <<>> -> w
        [] w.todo # <<>> /\ (s = NULL \/ w.mark[s] = id) -> [w EXCEPT !.todo = later]
        [] OTHER -> [todo |-> (IF nfa.nodes[s].c = "Split" THEN out ELSE <<>>) \o later,
                     mark |-> [w.mark EXCEPT ![s] = id], l |-> Append(w.l, s)]

AddState(w, id) ==
  LET s == Head(w.todo)
      later == Tail(w.todo)
      n == nfa.nodes[s]
  IN  CASE w.todo = <<>> -> w
        [] w.todo # <<>> /\ (s = NULL \/ w.mark[s] = id) -> [w EXCEPT !.todo = later]
        [] OTHER -> [todo |-> IF n.c = "Split" THEN <<n.out, n.out1>> \o later ELSE later,
                     mark |-> [w.mark EXCEPT ![s] = id],
                     l    |-> IF n.c = "Split" THEN w.l ELSE Append(w.l, s)]

\* addstate for each of the states todo in turn, with the next generation
\* number: each call pops one, and a state is followed once.
AddStates(todo) ==
  LET turn[n \in Nat] ==
        IF n = 0 THEN [todo |-> todo, mark |-> lastlist, l |-> <<>>]
        ELSE AddState(turn[n - 1], listid + 1)
  IN  turn[Len(todo) + 2 * Len(nfa.nodes)]

StartList == AddStates(<<nfa.start>>)

\* A state that c does not leave adds nothing, as the null pointer.
StepList(from, c) ==
  AddStates([i \in DOMAIN from |-> IF nfa.nodes[from[i]].c = c THEN nfa.nodes[from[i]].out
                                   ELSE NULL])

IsMatch(l) == \E i \in DOMAIN l : l[i] = MATCHSTATE

\* mutant: the generation number is used and not kept
MutMarked(q) == lastlist' = q.mark /\ listid' = listid

\* The list was built with the next generation number.
Marked(q) == lastlist' = q.mark /\ listid' = listid + 1

(***************************************************************************)
(* ptrcmp compares the addresses of two array elements, not the pointers   *)
(* they hold: which element comes first says nothing of the states, and    *)
(* what qsort makes of it depends on the C library alone.                  *)
(***************************************************************************)
Qsort(l) == IF qsortKeeps THEN l ELSE Reverse(l)

\* listcmp(a, b) < 0: the order of the search tree.
Precedes(a, b) ==
  \/ Len(a) < Len(b)
  \/ /\ Len(a) = Len(b)
     /\ \E i \in DOMAIN a : a[i] < b[i] /\ \A j \in 1 .. (i - 1) : a[j] = b[j]

\* One turn of dstate's search for l: at is the field that holds d.
Descend(heap, l, w) ==
  CASE w.d = NULL                -> w
    [] w.d # NULL /\ Precedes(l, heap[w.d].l) ->
         [d |-> heap[w.d].left, at |-> <<w.d, "left">>]
    [] w.d # NULL /\ Precedes(heap[w.d].l, l) ->
         [d |-> heap[w.d].right, at |-> <<w.d, "right">>]
    [] OTHER                     -> w

\* The DState for list l in the tree at t, or the place where it belongs.
Search(heap, l, t) ==
  LET turn[n \in Nat] ==
        IF n = 0 THEN [d |-> t, at |-> <<>>] ELSE Descend(heap, l, turn[n - 1])
  IN  turn[Len(heap)]

(***************************************************************************)
(* The DState cache of dfa1.c: k is the heap, the root, the free list and  *)
(* the count.  freestates puts a DState on the free list after its         *)
(* subtrees, so that the list reads from its head: the DState, what is     *)
(* right of it, what is left of it.                                        *)
(***************************************************************************)
Visit(heap, w) ==
  LET t == Head(w.todo)
      later == Tail(w.todo)
  IN  CASE w.todo = <<>> -> w
        [] w.todo # <<>> /\ t = NULL -> [w EXCEPT !.todo = later]
        [] OTHER -> [todo |-> <<heap[t].right, heap[t].left>> \o later,
                     l    |-> Append(w.l, t)]

\* The DStates of the tree at t in the order of the free list.
TreeList(heap, t) ==
  LET turn[n \in Nat] ==
        IF n = 0 THEN [todo |-> <<t>>, l |-> <<>>] ELSE Visit(heap, turn[n - 1])
  IN  turn[1 + 2 * Len(heap)].l

FreeStates(k, t) ==
  LET freed == TreeList(k.heap, t)
      after(i) == IF i = Len(freed) THEN k.freelist ELSE freed[i + 1]
  IN  IF freed = <<>> THEN k
      ELSE [k EXCEPT !.freelist = freed[1],
                     !.heap = [e \in DOMAIN @ |->
                       IF \E i \in DOMAIN freed : freed[i] = e
                       THEN [@[e] EXCEPT !.left =
                               after(CHOOSE i \in DOMAIN freed : freed[i] = e)]
                       ELSE @[e]]]

FreeCache(k) == [FreeStates(k, k.alldstates) EXCEPT !.alldstates = NULL, !.nstates = 0]

\* mutant: left still threads the free list
MutAlloc(k, l) ==
  IF k.freelist # NULL
  THEN LET e == k.freelist
       IN  <<e, [k EXCEPT !.freelist = k.heap[e].left,
                          !.heap = [@ EXCEPT ![e] =
                            [NoDState EXCEPT !.l = l, !.left = k.heap[e].left]]]>>
  ELSE <<Len(k.heap) + 1, [k EXCEPT !.heap = Append(@, [NoDState EXCEPT !.l = l])]>>

\* allocdstate, with the list copied in: <<the DState, the cache>>.
AllocDState(k, l) ==
  IF k.freelist # NULL
  THEN LET e == k.freelist
       IN  <<e, [k EXCEPT !.freelist = k.heap[e].left,
                          !.heap = [@ EXCEPT ![e] = [NoDState EXCEPT !.l = l]]]>>
  ELSE <<Len(k.heap) + 1, [k EXCEPT !.heap = Append(@, [NoDState EXCEPT !.l = l])]>>

Hang(k, at, e) ==
  CASE at = <<>>                      -> [k EXCEPT !.alldstates = e, !.nstates = @ + 1]
    [] at # <<>> /\ at[2] = "left"    -> [k EXCEPT !.heap[at[1]].left = e, !.nstates = @ + 1]
    [] OTHER                          -> [k EXCEPT !.heap[at[1]].right = e, !.nstates = @ + 1]

\* mutant: nextp is followed into the freed DState
MutLink(k, full, link, e) ==
  IF link = <<>> THEN k ELSE [k EXCEPT !.heap[link[1]].next[link[2]] = e]

\* if(nextp != NULL) *nextp = d, where a full cache has set nextp to NULL.
\* link is <<>> for a null nextp, else <<d, c>>.
Link(k, full, link, e) ==
  IF full \/ link = <<>> THEN k ELSE [k EXCEPT !.heap[link[1]].next[link[2]] = e]

\* dfa1's dstate: an arrow is recorded to a new DState only.
DState1(list, link) ==
  LET l == Qsort(list)
      found == Search(cache.heap, l, cache.alldstates)
      full == cache.nstates >= MAXSTATES
      new == AllocDState(IF full THEN FreeCache(cache) ELSE cache, l)
      k == Hang(new[2], IF full THEN <<>> ELSE found.at, new[1])
  IN  IF found.d # NULL THEN <<found.d, cache>>
      ELSE <<new[1], Link(k, full, link, new[1])>>

\* dfa0's dstate: no bound and no free list; its nextstate sets the arrow
\* whether the DState is new or not.
DState0(list, link) ==
  LET l == Qsort(list)
      found == Search(cache.heap, l, cache.alldstates)
      e == Len(cache.heap) + 1
      k == Hang([cache EXCEPT !.heap = Append(@, [NoDState EXCEPT !.l = l])], found.at, e)
      r == IF found.d # NULL THEN <<found.d, cache>> ELSE <<e, k>>
  IN  <<r[1], Link(r[2], FALSE, link, r[1])>>

DState(list, link) == IF program = "dfa0" THEN DState0(list, link) ELSE DState1(list, link)

(***************************************************************************)
(* main and match                                                          *)
(***************************************************************************)
Init ==
  /\ program \in Programs
  /\ pattern \in Patterns
  /\ nfa = Compile(pattern)
  /\ qsortKeeps \in BOOLEAN
  /\ lastlist = [s \in DOMAIN nfa.nodes |-> 0]
  /\ listid = 0
  /\ lists = [l1 |-> <<>>, l2 |-> <<>>]
  /\ clist = "l1"
  /\ cache = [heap |-> <<>>, alldstates |-> NULL, freelist |-> NULL, nstates |-> 0]
  /\ d = NULL
  /\ words = Argv
  /\ phase = IF nfa.status = "ok" THEN "match" ELSE "exit"
  /\ rest = <<>>
  /\ verdicts = <<>>

\* match(start, argv[i]) or match(startdstate(start), argv[i]) is called.
MatchStart ==
  /\ phase = "match" /\ words # <<>>
  /\ phase' = "scan"
  /\ rest' = Head(words)
  /\ LET q == StartList
         r == DState(q.l, <<>>)
     IN  /\ Marked(q)
         /\ IF program = "nfa"
            THEN /\ lists' = [lists EXCEPT !.l1 = q.l]
                 /\ clist' = "l1"
                 /\ UNCHANGED <<d, cache>>
            ELSE /\ lists' = [lists EXCEPT !.l1 = Qsort(q.l)]
                 /\ d' = r[1] /\ cache' = r[2]
                 /\ UNCHANGED clist
  /\ UNCHANGED <<program, pattern, nfa, qsortKeeps, words, verdicts>>

\* One turn of nfa.c's loop: step, then swap the lists.
NfaStep ==
  /\ program = "nfa" /\ phase = "scan" /\ rest # <<>>
  /\ LET nlist == IF clist = "l1" THEN "l2" ELSE "l1"
         q == StepList(lists[clist], Head(rest))
     IN  /\ Marked(q)
         /\ lists' = [lists EXCEPT ![nlist] = q.l]
         /\ clist' = nlist
  /\ rest' = Tail(rest)
  /\ UNCHANGED <<program, pattern, nfa, qsortKeeps, cache, d, words, phase, verdicts>>

\* One turn of the DFAs' loop when d->next[c] is set.
DfaFollow ==
  /\ program # "nfa" /\ phase = "scan" /\ rest # <<>>
  /\ cache.heap[d].next[Head(rest)] # NULL
  /\ d' = cache.heap[d].next[Head(rest)]
  /\ rest' = Tail(rest)
  /\ UNCHANGED <<program, pattern, nfa, qsortKeeps, nodeVars, lists, clist, cache,
                 words, phase, verdicts>>

\* One turn of the DFAs' loop through nextstate.
DfaNextState ==
  /\ program # "nfa" /\ phase = "scan" /\ rest # <<>>
  /\ cache.heap[d].next[Head(rest)] = NULL
  /\ LET q == StepList(cache.heap[d].l, Head(rest))
         r == DState(q.l, <<d, Head(rest)>>)
     IN  /\ Marked(q)
         /\ lists' = [lists EXCEPT !.l1 = Qsort(q.l)]
         /\ d' = r[1] /\ cache' = r[2]
  /\ rest' = Tail(rest)
  /\ UNCHANGED <<program, pattern, nfa, qsortKeeps, clist, words, phase, verdicts>>

CurrentList == IF program = "nfa" THEN lists[clist] ELSE cache.heap[d].l

\* match returns ismatch and main takes the next string.
MatchReturn ==
  /\ phase = "scan" /\ rest = <<>>
  /\ verdicts' = Append(verdicts, IsMatch(CurrentList))
  /\ words' = Tail(words)
  /\ phase' = "match"
  /\ UNCHANGED <<program, pattern, nfa, qsortKeeps, nodeVars, lists, clist, cache, d, rest>>

Next == MatchStart \/ NfaStep \/ DfaFollow \/ DfaNextState \/ MatchReturn

Spec == Init /\ [][Next]_vars
=============================================================================
