----------------------------- MODULE SlotTable ------------------------------
(* What generate_id promises: slots are handed out one caller at a time.    *)
(* A slot is free, held by the caller that took it, or in use.              *)
CONSTANTS Slots, Callers

VARIABLE holder      \* slot -> "free", "used", or the caller that holds it

Init == \E used \in SUBSET Slots :
          holder = [s \in Slots |-> IF s \in used THEN "used" ELSE "free"]

(* A caller that holds no slot takes a free one.                            *)
Take(c, s) ==
  /\ holder[s] = "free"
  /\ \A r \in Slots : holder[r] # c
  /\ holder' = [holder EXCEPT ![s] = c]

(* Its socket is made in the slot.                                          *)
Use(c, s) == holder[s] = c /\ holder' = [holder EXCEPT ![s] = "used"]

Free(s) == holder[s] = "used" /\ holder' = [holder EXCEPT ![s] = "free"]

Next == \E s \in Slots : Free(s) \/ \E c \in Callers : Take(c, s) \/ Use(c, s)

Spec == Init /\ [][Next]_holder
=============================================================================
