--------------------------- MODULE RegexpLanguage ---------------------------
(***************************************************************************)
(* The reference the matchers are held against: which token sequences are  *)
(* regular expressions of ( | ) * + ? and which strings each describes,    *)
(* by definition and not by any automaton.                                 *)
(***************************************************************************)
EXTENDS Integers, Sequences, SequencesExt

CONSTANT Chars

After(r, k) == SubSeq(r, k + 1, Len(r))
Upto(r, k) == SubSeq(r, 1, k)

\* The syntax trees of r as a phrase of kind nt: none or one.
RECURSIVE Trees(_, _)
Trees(nt, r) ==
  CASE r = <<>> -> {}
    [] nt = "alt" ->
         Trees("cat", r) \cup
         UNION {{<<"|", x, y>> : x \in Trees("alt", Upto(r, k - 1)),
                                 y \in Trees("cat", After(r, k))} :
                k \in {j \in DOMAIN r : r[j] = "|"}}
    [] nt = "cat" ->
         Trees("rep", r) \cup
         UNION {{<<".", x, y>> : x \in Trees("cat", Upto(r, k)),
                                 y \in Trees("rep", After(r, k))} :
                k \in 1 .. (Len(r) - 1)}
    [] nt = "rep" /\ Last(r) \in {"*", "+", "?"} ->
         {<<Last(r), x>> : x \in Trees("rep", Front(r))}
    [] Len(r) = 1 -> IF r[1] \in Chars THEN {<<"char", r[1]>>} ELSE {}
    [] OTHER -> IF Head(r) = "(" /\ Last(r) = ")" THEN Trees("alt", Tail(Front(r))) ELSE {}

\* How deep the parentheses of a regular expression go.
Opened(r, k) ==
  Len(SelectSeq(Upto(r, k), LAMBDA t : t = "(")) - Len(SelectSeq(Upto(r, k), LAMBDA t : t = ")"))
Deeper(r, n) == \E k \in DOMAIN r : Opened(r, k) > n

\* Whether the string w is one that the tree t describes.
RECURSIVE Describes(_, _)
Describes(t, w) ==
  CASE t[1] = "char" -> w = <<t[2]>>
    [] t[1] = "|" -> Describes(t[2], w) \/ Describes(t[3], w)
    [] t[1] = "." -> \E k \in 0 .. Len(w) : Describes(t[2], Upto(w, k)) /\ Describes(t[3], After(w, k))
    [] t[1] = "?" -> w = <<>> \/ Describes(t[2], w)
    [] t[1] = "+" -> \/ Describes(t[2], w)
                     \/ \E k \in 1 .. (Len(w) - 1) :
                          Describes(t[2], Upto(w, k)) /\ Describes(t, After(w, k))
    [] t[1] = "*" -> w = <<>> \/ Describes(<<"+", t[2]>>, w)
=============================================================================
