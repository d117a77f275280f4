------------------------------ MODULE DfaCache ------------------------------
(***************************************************************************)
(* The cache of dfa0.c and dfa1.c without its tree and its lists: a set of *)
(* live DStates, each with the set of automaton states it stands for and   *)
(* with the arrows next[c] filled in so far.  A step is either read from   *)
(* an arrow or computed; a computed set may be found in the cache, added   *)
(* to it, or put into a cache that was thrown away first; and the arrow    *)
(* that led to it may or may not be recorded.  nfa.c is the case that      *)
(* remembers nothing (d = NoState).                                        *)
(***************************************************************************)
EXTENDS NfaMatch

CONSTANTS Chars, DStates, NoState

VARIABLES
  d,        \* the current DState, or NoState
  live,     \* the DStates in the cache
  content,  \* the automaton states each DState stands for
  next      \* the arrows: a DState or NoState for each character

cacheVars == <<d, live, content, next>>
vars == <<matchVars, cacheVars>>

NoArrows == [c \in Chars |-> NoState]

Init ==
  /\ MatchInit
  /\ words \in Seq(Seq(Chars))
  /\ d = NoState
  /\ live = {}
  /\ content = [x \in DStates |-> {}]
  /\ next = [x \in DStates |-> NoArrows]

\* dstate found a DState e for the set s.
Found(s, e) ==
  /\ e \in live /\ content[e] = s
  /\ UNCHANGED <<live, content>>

\* dstate took a free DState e for the set s.
Added(s, e) ==
  /\ e \notin live
  /\ live' = live \cup {e}
  /\ content' = [content EXCEPT ![e] = s]

\* dstate threw the cache away and then took a DState e for the set s.
Restarted(s, e) ==
  /\ live' = {e}
  /\ content' = [content EXCEPT ![e] = s]

Cleared(e) == [next EXCEPT ![e] = NoArrows]

\* The step is computed and nothing is remembered of it.
Forget == d' = NoState /\ UNCHANGED <<live, content, next>>

CacheBegin ==
  /\ Begin
  /\ \/ Forget
     \/ \E e \in DStates :
          /\ d' = e
          /\ \/ Found(cur', e) /\ UNCHANGED next
             \/ (Added(cur', e) \/ Restarted(cur', e)) /\ next' = Cleared(e)

\* The arrow for the next character is there: no step is computed.
Follow ==
  /\ phase = "scan" /\ rest # <<>>
  /\ d # NoState
  /\ next[d][Head(rest)] # NoState
  /\ d' = next[d][Head(rest)]
  /\ cur' = content[d']
  /\ rest' = Tail(rest)
  /\ UNCHANGED <<nfa, words, phase, verdicts, live, content, next>>

Record(e) ==
  /\ d # NoState
  /\ d' = e
  /\ \/ /\ Found(cur', e)
        /\ next' \in {next, [next EXCEPT ![d][Head(rest)] = e]}
     \/ /\ Added(cur', e)
        /\ next' \in {Cleared(e), [Cleared(e) EXCEPT ![d][Head(rest)] = e]}
     \/ /\ Restarted(cur', e)
        /\ next' = Cleared(e)

Compute == ReadChar /\ (Forget \/ \E e \in DStates : Record(e))

CacheAnswer == Answer /\ UNCHANGED cacheVars

Next == CacheBegin \/ Follow \/ Compute \/ CacheAnswer

Spec == Init /\ [][Next]_vars

(***************************************************************************)
(* The current DState is in the cache and stands for the current set of    *)
(* automaton states, and every arrow of a cached DState leads to a cached  *)
(* DState that stands for the set one step on: no arrow survives from a    *)
(* cache that was thrown away.                                             *)
(***************************************************************************)
CacheSound ==
  /\ d # NoState => d \in live /\ (phase = "scan" => content[d] = cur)
  /\ \A x \in live, c \in Chars :
       next[x][c] # NoState =>
         /\ next[x][c] \in live
         /\ content[next[x][c]] = StepSet(nfa, content[x], c)
=============================================================================
