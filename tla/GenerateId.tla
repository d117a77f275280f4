----------------------------- MODULE GenerateId -----------------------------
(* generate_id of c/network/socket_server.c, atomic operation by atomic     *)
(* operation, with the wrap-around of alloc_id, called by any number of     *)
(* threads while sockets are made and closed.                               *)
EXTENDS Integers

CONSTANTS
  MAX_SOCKET,    \* number of slots
  IdSpace,       \* ids are below it: 2^31 in the code
  Callers        \* threads that call generate_id

ASSUME IdAssumption ==
  /\ MAX_SOCKET \in Nat \ {0} /\ IdSpace \in Nat \ {0, 1}
  /\ IdSpace % MAX_SOCKET = 0
  /\ Callers \cap {"free", "used"} = {}

VARIABLES
  alloc_id,      \* ss->alloc_id as an unsigned number of twice IdSpace values
  type, id,      \* slot -> s->type, s->id
  pc, i, newId,  \* caller -> program counter, i, id
  free,          \* caller -> slots that were INVALID throughout its call
  alone          \* caller -> whether no other call overlapped its call

vars == <<alloc_id, type, id, pc, i, newId, free, alone>>

-----------------------------------------------------------------------------
Slots == 0 .. MAX_SOCKET - 1
HASH_ID(n) == n % MAX_SOCKET
Locations == {"out", "inc", "and", "check", "cas", "own", "done"}
Negative(n) == n >= IdSpace
Calling(c) == pc[c] \notin {"out", "done"}

(* socket_server_create has taken id 1 for the pipe, whose slot stays used. *)
PipeSlot == HASH_ID(1)

Init ==
  /\ alloc_id = 1
  /\ type = [s \in Slots |-> IF s = PipeSlot THEN "USED" ELSE "INVALID"]
  /\ id = [s \in Slots |-> IF s = PipeSlot THEN 1 ELSE 0]
  /\ pc = [c \in Callers |-> "out"]
  /\ i = [c \in Callers |-> 0]
  /\ newId = [c \in Callers |-> 0]
  /\ free = [c \in Callers |-> {}]
  /\ alone = [c \in Callers |-> TRUE]

-----------------------------------------------------------------------------
Goto(c, l) == pc' = [pc EXCEPT ![c] = l]
MyType(c) == type[HASH_ID(newId[c])]

Enter(c) ==
  /\ pc[c] = "out"
  /\ Goto(c, "inc")
  /\ i' = [i EXCEPT ![c] = 0]
  /\ free' = [free EXCEPT ![c] = {s \in Slots : type[s] = "INVALID"}]
  /\ alone' = [d \in Callers |->
                 IF d = c THEN \A e \in Callers : ~Calling(e)
                          ELSE alone[d] /\ ~Calling(d)]
  /\ UNCHANGED <<alloc_id, type, id, newId>>

(* ATOM_INC; the result is negative after the largest id.                   *)
Increment(c) ==
  /\ pc[c] = "inc" /\ i[c] < MAX_SOCKET
  /\ alloc_id' = (alloc_id + 1) % (2 * IdSpace)
  /\ newId' = [newId EXCEPT ![c] = alloc_id']
  /\ Goto(c, IF Negative(alloc_id') THEN "and" ELSE "check")
  /\ UNCHANGED <<type, id, i, free, alone>>

(* Mutant: a negative number is used as it is.                              *)
MutNoMask(c) ==
  /\ pc[c] = "and"
  /\ Goto(c, "check")
  /\ UNCHANGED <<alloc_id, type, id, i, newId, free, alone>>

(* ATOM_AND of alloc_id, which others may have changed since.               *)
Mask(c) ==
  /\ pc[c] = "and"
  /\ alloc_id' = alloc_id % IdSpace
  /\ newId' = [newId EXCEPT ![c] = alloc_id']
  /\ Goto(c, "check")
  /\ UNCHANGED <<type, id, i, free, alone>>

Check(c) ==
  /\ pc[c] = "check"
  /\ \/ MyType(c) = "INVALID" /\ Goto(c, "cas") /\ UNCHANGED i
     \/ MyType(c) # "INVALID" /\ Goto(c, "inc") /\ i' = [i EXCEPT ![c] = @ + 1]
  /\ UNCHANGED <<alloc_id, type, id, newId, free, alone>>

Reserve(c) ==
  /\ type' = [type EXCEPT ![HASH_ID(newId[c])] = "RESERVE"]
  /\ Goto(c, "own")
  /\ free' = [d \in Callers |-> free[d] \ {HASH_ID(newId[c])}]
  /\ UNCHANGED <<alloc_id, id, i, newId, alone>>

(* Mutant: a store where the code has a compare-and-swap.                   *)
MutStore(c) == pc[c] = "cas" /\ Reserve(c)

(* ATOM_CAS; losing it does not count as a try.                             *)
CompareAndSwap(c) ==
  /\ pc[c] = "cas"
  /\ \/ MyType(c) = "INVALID" /\ Reserve(c)
     \/ MyType(c) # "INVALID" /\ Goto(c, "inc")
          /\ UNCHANGED <<alloc_id, type, id, i, newId, free, alone>>

(* s->id = id; the caller has its id.                                       *)
WriteId(c) ==
  /\ pc[c] = "own"
  /\ id' = [id EXCEPT ![HASH_ID(newId[c])] = newId[c]]
  /\ Goto(c, "done")
  /\ UNCHANGED <<alloc_id, type, i, newId, free, alone>>

(* Mutant: one try too few.                                                 *)
MutGiveUpEarly(c) == pc[c] = "inc" /\ i[c] = MAX_SOCKET - 1

GivesUp(c) == pc[c] = "inc" /\ i[c] = MAX_SOCKET

(* return -1                                                                *)
ReturnNone(c) ==
  /\ GivesUp(c)
  /\ Goto(c, "out")
  /\ UNCHANGED <<alloc_id, type, id, i, newId, free, alone>>

(* new_socket, for the slot the caller was given (it sets the id again).    *)
MakeSocket(c) ==
  /\ pc[c] = "done"
  /\ type' = [type EXCEPT ![HASH_ID(newId[c])] = "USED"]
  /\ id' = [id EXCEPT ![HASH_ID(newId[c])] = newId[c]]
  /\ Goto(c, "out")
  /\ UNCHANGED <<alloc_id, i, newId, free, alone>>

(* force_close of a socket.                                                 *)
CloseSocket(s) ==
  /\ type[s] = "USED" /\ s # PipeSlot
  /\ type' = [type EXCEPT ![s] = "INVALID"]
  /\ UNCHANGED <<alloc_id, id, pc, i, newId, free, alone>>

-----------------------------------------------------------------------------
Caller(c) ==
  \/ Enter(c) \/ Increment(c) \/ Mask(c) \/ Check(c) \/ CompareAndSwap(c)
  \/ WriteId(c) \/ ReturnNone(c) \/ MakeSocket(c)

Next == (\E c \in Callers : Caller(c)) \/ (\E s \in Slots : CloseSocket(s))

Spec == Init /\ [][Next]_vars

-----------------------------------------------------------------------------
(* Every variable has its type: alloc_id and the number a caller took may   *)
(* be negative for a while, but no id in the table ever is.                 *)
TypeOK ==
  /\ alloc_id \in 0 .. 2 * IdSpace - 1
  /\ type \in [Slots -> {"INVALID", "RESERVE", "USED"}]
  /\ id \in [Slots -> 0 .. IdSpace - 1]
  /\ pc \in [Callers -> Locations]
  /\ i \in [Callers -> 0 .. MAX_SOCKET]
  /\ newId \in [Callers -> 0 .. 2 * IdSpace - 1]
  /\ free \in [Callers -> SUBSET Slots]
  /\ alone \in [Callers -> BOOLEAN]

Holding(c) == pc[c] \in {"own", "done"}

(* Who has a slot: a reserved one belongs to the caller that reserved it.   *)
Owner(s) ==
  CASE type[s] = "INVALID" -> "free"
    [] type[s] = "USED" -> "used"
    [] OTHER -> CHOOSE c \in Callers : Holding(c) /\ HASH_ID(newId[c]) = s

Owners == [s \in Slots |-> Owner(s)]

Table == INSTANCE SlotTable WITH holder <- Owners

(* The slots are handed out as SlotTable says: generate_id, new_socket and  *)
(* force_close, step by step, implement it.                                 *)
ImplementsSlotTable == Table!Spec

(* A caller gets the id it was given: nobody else writes over it, and it is *)
(* not negative, also when several callers pass the wrap-around together.   *)
OwnIdIntact ==
  \A c \in Callers : pc[c] = "done" =>
    /\ type[HASH_ID(newId[c])] = "RESERVE"
    /\ id[HASH_ID(newId[c])] = newId[c]
    /\ ~Negative(newId[c])

(* generate_id fails for a reason: if no other call overlaps, no slot was   *)
(* free all the time.  (MAX_SOCKET numbers in a row hit every slot.  Other  *)
(* callers can take the numbers of the free slots.)                         *)
FailsOnlyWhenFull ==
  \A c \in Callers : GivesUp(c) /\ alone[c] => free[c] = {}
=============================================================================
