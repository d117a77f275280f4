------------------------------- MODULE TodoMC -------------------------------
(***************************************************************************)
(* An instance of TodoSystem for TLC.                                      *)
(***************************************************************************)
EXTENDS TodoProperties

\* Both names have the same worker.
MCphash2 == [n \in Names |-> 0]

MCBudgets ==
  {[names |-> {"bob"}, calls |-> 2, casts |-> 2, kills |-> 1],
   [names |-> {"bob"}, calls |-> 3, casts |-> 1, kills |-> 1],
   [names |-> Names, calls |-> 2, casts |-> 1, kills |-> 1]}
=============================================================================
