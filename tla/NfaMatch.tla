------------------------------ MODULE NfaMatch ------------------------------
(***************************************************************************)
(* What a matcher of src/regexp promises, whatever it stores: for each     *)
(* string of its command line in turn, it follows the set of automaton     *)
(* states reachable after each character and prints the string when the    *)
(* last set holds the matching state.                                      *)
(***************************************************************************)
EXTENDS Sequences

CONSTANTS
  StartSet(_),      \* the states an automaton is in before any character
  StepSet(_, _, _), \* the states after one more character
  Accepting(_, _)   \* whether a set of states holds the matching state

VARIABLES
  nfa,      \* the automaton
  words,    \* the strings still to be matched, the current one first
  phase,    \* "match": between two strings; "scan": inside one
  rest,     \* what is left of the current string
  cur,      \* the current set of automaton states
  verdicts  \* the answers so far

matchVars == <<nfa, words, phase, rest, cur, verdicts>>

MatchInit ==
  /\ phase = "match"
  /\ rest = <<>>
  /\ cur = {}
  /\ verdicts = <<>>

Begin ==
  /\ phase = "match" /\ words # <<>>
  /\ phase' = "scan"
  /\ rest' = Head(words)
  /\ cur' = StartSet(nfa)
  /\ UNCHANGED <<nfa, words, verdicts>>

ReadChar ==
  /\ phase = "scan" /\ rest # <<>>
  /\ cur' = StepSet(nfa, cur, Head(rest))
  /\ rest' = Tail(rest)
  /\ UNCHANGED <<nfa, words, phase, verdicts>>

Answer ==
  /\ phase = "scan" /\ rest = <<>>
  /\ verdicts' = Append(verdicts, Accepting(nfa, cur))
  /\ words' = Tail(words)
  /\ phase' = "match"
  /\ cur' = {}
  /\ UNCHANGED <<nfa, rest>>

MatchNext == Begin \/ ReadChar \/ Answer

MatchSpec == MatchInit /\ [][MatchNext]_matchVars
=============================================================================
