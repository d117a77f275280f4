------------------------------ MODULE TodoList ------------------------------
(***************************************************************************)
(* Todo.List (list.ex): the entries by id, and the id of the next one.  An *)
(* entry is its date; its id is the key it is found under.                 *)
(***************************************************************************)
EXTENDS Integers

\* Dates, and what an updater function makes of an entry.
Dates == {"monday", "friday"}

new == [auto_id |-> 1, entries |-> <<>>]

\* As TLC's operators @@ and :>, which the prover cannot expand.
With(f, g) == [x \in DOMAIN f \cup DOMAIN g |-> IF x \in DOMAIN f THEN f[x] ELSE g[x]]
Only(p, r) == [q \in {p} |-> r]

\* mutant: the next entry gets the same id
Mut_add_entry(l, date) == [l EXCEPT !.entries = With(Only(l.auto_id, date), @)]

add_entry(l, date) ==
  [auto_id |-> l.auto_id + 1, entries |-> With(Only(l.auto_id, date), l.entries)]

\* An updater that changes the id of the entry raises a MatchError.
Raises(l, id, sameId) == id \in DOMAIN l.entries /\ ~sameId

update_entry(l, id, date) ==
  IF id \in DOMAIN l.entries THEN [l EXCEPT !.entries[id] = date] ELSE l

delete_entry(l, id) ==
  [l EXCEPT !.entries = [i \in DOMAIN l.entries \ {id} |-> l.entries[i]]]

entries(l, date) == {i \in DOMAIN l.entries : l.entries[i] = date}

IsList(l) ==
  /\ l.auto_id \in Nat
  /\ DOMAIN l.entries \subseteq 1 .. l.auto_id - 1
  /\ \A i \in DOMAIN l.entries : l.entries[i] \in Dates
=============================================================================
