------------------------------ MODULE RegexpMC ------------------------------
(***************************************************************************)
(* The three matchers on every pattern of at most PatternLen tokens and on *)
(* the longer ones below, each with every string of at most WordLen        *)
(* characters on its command line; the properties of the matchers.         *)
(***************************************************************************)
EXTENDS RegexpProperties

CONSTANTS PatternLen, WordLen

Strings(S, n) == UNION {[1 .. k -> S] : k \in 0 .. n}

\* Long enough to nest, to reach the parenthesis limit, to give one set of
\* states in two orders and to overflow a cache of MAXSTATES in mid-string.
LongPatterns ==
  {<<"(", "a", "|", "b", ")", "*", "a">>,
   <<"(", "a", "b", "|", "b", ")", "*">>,
   <<"(", "a", "|", "b", "a", ")", "+", "b">>,
   <<"(", "a", "b", "|", "b", "a", ")", "*">>,
   <<"(", "a", "*", ")", "*", "b">>,
   <<"(", "a", "?", "b", "?", ")", "+">>,
   <<"(", "(", "a", ")", "b", ")", "*">>,
   <<"(", "(", "(", "a", ")", ")", ")">>,
   <<"(", "a", "|", "b", ")", "*", "a", "(", "a", "|", "b", ")">>,
   <<"a", "(", "b", "|", "a", ")", "b", "|", "b">>,
   <<"(", "a", "|", ")", "b">>,
   <<"a", "(", "b", "|", "a", "|">>}

MCPatterns == Strings(Tokens, PatternLen) \cup LongPatterns

\* main's argv: every string over "a" and "b" of at most WordLen characters,
\* the longer ones first.
WordsOf[n \in 0 .. WordLen] ==
  IF n = 0 THEN <<<<>>>>
  ELSE [i \in 1 .. 2 * Len(WordsOf[n - 1]) |->
          Append(WordsOf[n - 1][(i + 1) \div 2], IF i % 2 = 1 THEN "a" ELSE "b")]

MCArgv == FoldLeft(LAMBDA ws, n : WordsOf[n - 1] \o ws, <<>>, [i \in 1 .. WordLen + 1 |-> i])

\* No run allocates more: all is seen.
MCDStates == 1 .. 16

Language == INSTANCE RegexpLanguage

\* Evaluated once for all states.
Parsed == [re \in Patterns |-> Language!Trees("alt", re)]

(***************************************************************************)
(* Every answer is right: a string is printed exactly when the pattern     *)
(* describes it, in all three programs, whatever the cache held, found,    *)
(* reordered or threw away on the way (match, step, addstate, dstate).     *)
(***************************************************************************)
VerdictsAreMembership ==
  verdicts # <<>> /\ phase = "match" =>
    LET w == Argv[Len(verdicts)]
    IN  Last(verdicts) = \E t \in Parsed[pattern] : Language!Describes(t, w)

(***************************************************************************)
(* re2post and post2nfa accept the regular expressions of the grammar      *)
(* within the parenthesis limit and, beside them, only two shapes that     *)
(* re2post lets through and post2nfa's stack has no operand for: the empty *)
(* pattern and one that ends in a '|' with nothing behind it.              *)
(***************************************************************************)
CompileMatchesGrammar ==
  LET wellFormed(re) == Language!Trees("alt", re) # {} /\ ~Language!Deeper(re, MAXPAREN)
  IN  verdicts = <<>> /\ phase # "scan" =>
        /\ (nfa.status = "ok") <=> (Parsed[pattern] # {} /\ ~Language!Deeper(pattern, MAXPAREN))
        /\ (nfa.status = "undefined") <=>
             \/ pattern = <<>>
             \/ Last(pattern) = "|" /\ wellFormed(Front(pattern))
=============================================================================
