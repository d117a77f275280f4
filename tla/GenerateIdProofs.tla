--------------------------- MODULE GenerateIdProofs ---------------------------
(* What is proved of generate_id for any number of slots and callers and    *)
(* any size of the id space.                                                *)
EXTENDS GenerateId, TLAPS

(* An id that has not gone through the sign test is in range.               *)
IdInv ==
  \A c \in Callers : pc[c] \in {"check", "cas", "own", "done"} => newId[c] < IdSpace

(* A caller in the loop has tries left.                                     *)
TryInv == \A c \in Callers : pc[c] \in {"and", "check", "cas"} => i[c] < MAX_SOCKET

(* Reserved slots and callers that hold one belong to each other, one to    *)
(* one.                                                                     *)
HoldInv ==
  /\ \A c \in Callers : Holding(c) => type[HASH_ID(newId[c])] = "RESERVE"
  /\ \A c, d \in Callers :
       Holding(c) /\ Holding(d) /\ HASH_ID(newId[c]) = HASH_ID(newId[d]) => c = d
  /\ \A s \in Slots : type[s] = "RESERVE" =>
       \E c \in Callers : Holding(c) /\ HASH_ID(newId[c]) = s

(* The id of a caller's slot is what it wrote there.                        *)
WrittenInv ==
  \A c \in Callers : pc[c] = "done" => id[HASH_ID(newId[c])] = newId[c]

IInv == TypeOK /\ IdInv /\ TryInv /\ HoldInv /\ WrittenInv

LEMMA HashType == \A n \in Nat : HASH_ID(n) \in Slots
  BY IdAssumption, SMT DEF HASH_ID, Slots

LEMMA Ranges ==
  /\ MAX_SOCKET \in Nat /\ MAX_SOCKET > 0
  /\ IdSpace \in Nat /\ IdSpace > 1
  /\ 2 * IdSpace \in Nat /\ 2 * IdSpace > IdSpace
  /\ PipeSlot \in Slots
  <1>1. MAX_SOCKET \in Nat /\ MAX_SOCKET > 0 /\ IdSpace \in Nat /\ IdSpace > 1
    BY IdAssumption
  <1>2. PipeSlot \in Slots
    BY HashType DEF PipeSlot
  <1>3. QED
    BY <1>1, <1>2

(* alloc_id stays in its range; masked it is an id.                         *)
LEMMA Arithmetic ==
  \A n \in 0 .. 2 * IdSpace - 1 :
    /\ (n + 1) % (2 * IdSpace) \in 0 .. 2 * IdSpace - 1
    /\ n % IdSpace \in 0 .. IdSpace - 1
  <1>1. \A n, m \in Nat : m > 0 => n % m \in 0 .. m - 1
    BY SMT
  <1>2. TAKE n \in 0 .. 2 * IdSpace - 1
  <1>3. n \in Nat /\ n + 1 \in Nat
    BY Ranges
  <1>4. (n + 1) % (2 * IdSpace) \in 0 .. 2 * IdSpace - 1
    <2>1. 2 * IdSpace > 0 /\ 2 * IdSpace \in Nat
      BY Ranges
    <2>2. QED
      BY <1>1, <1>3, <2>1
  <1>5. QED
    BY <1>1, <1>3, <1>4, Ranges

(* The slot a caller looks at.                                              *)
LEMMA MySlot ==
  ASSUME TypeOK, NEW c \in Callers
  PROVE  HASH_ID(newId[c]) \in Slots /\ newId[c] \in Nat
  BY HashType, Ranges DEF TypeOK

-----------------------------------------------------------------------------
LEMMA InitInv == Init => IInv
  <1>1. SUFFICES ASSUME Init PROVE IInv
    OBVIOUS
  <1>2. 1 \in 0 .. 2 * IdSpace - 1 /\ {0, 1} \subseteq 0 .. IdSpace - 1
    BY Ranges
  <1>3. TypeOK
    BY <1>1, <1>2, Ranges DEF Init, TypeOK, Locations
  <1>4. IdInv /\ TryInv /\ HoldInv /\ WrittenInv
    BY <1>1 DEF Init, IdInv, TryInv, HoldInv, WrittenInv, Holding
  <1>5. QED
    BY <1>3, <1>4 DEF IInv

LEMMA StepInv == IInv /\ [Next]_vars => IInv'
  <1>1. SUFFICES ASSUME IInv, [Next]_vars PROVE IInv'
    OBVIOUS
  <1> USE DEF IInv
  <1>2. CASE UNCHANGED vars
    BY <1>1, <1>2 DEF vars, TypeOK, IdInv, TryInv, HoldInv, WrittenInv, Holding
  <1>3. ASSUME NEW c \in Callers, Enter(c) PROVE IInv'
    <2>1. TypeOK'
      <3>1. free' \in [Callers -> SUBSET Slots]
        BY <1>1, <1>3 DEF Enter, TypeOK
      <3>2. alone' \in [Callers -> BOOLEAN]
        BY <1>1, <1>3 DEF Enter, TypeOK
      <3>3. i' \in [Callers -> 0 .. MAX_SOCKET] /\ pc' \in [Callers -> Locations]
        BY <1>1, <1>3, Ranges DEF Enter, Goto, TypeOK, Locations
      <3>4. QED
        BY <1>1, <1>3, <3>1, <3>2, <3>3 DEF Enter, TypeOK
    <2>2. IdInv' /\ TryInv'
      BY <1>1, <1>3 DEF Enter, Goto, TypeOK, IdInv, TryInv
    <2>3. HoldInv' /\ WrittenInv'
      BY <1>1, <1>3 DEF Enter, Goto, TypeOK, HoldInv, WrittenInv, Holding
    <2>4. QED
      BY <2>1, <2>2, <2>3
  <1>4. ASSUME NEW c \in Callers, Increment(c) PROVE IInv'
    <2>1. alloc_id' \in 0 .. 2 * IdSpace - 1
      BY <1>1, <1>4, Arithmetic DEF Increment, TypeOK
    <2>2. TypeOK'
      BY <1>1, <1>4, <2>1 DEF Increment, Goto, TypeOK, Locations
    <2>3. IdInv'
      BY <1>1, <1>4, <2>1, Ranges DEF Increment, Goto, TypeOK, IdInv, Negative
    <2>4. TryInv'
      BY <1>1, <1>4 DEF Increment, Goto, TypeOK, TryInv
    <2>5. HoldInv' /\ WrittenInv'
      BY <1>1, <1>4 DEF Increment, Goto, TypeOK, HoldInv, WrittenInv, Holding
    <2>6. QED
      BY <2>2, <2>3, <2>4, <2>5
  <1>5. ASSUME NEW c \in Callers, Mask(c) PROVE IInv'
    <2>1. alloc_id' \in 0 .. IdSpace - 1
      BY <1>1, <1>5, Arithmetic DEF Mask, TypeOK
    <2>2. alloc_id' \in 0 .. 2 * IdSpace - 1 /\ alloc_id' < IdSpace
      BY <2>1, Ranges
    <2>3. TypeOK'
      BY <1>1, <1>5, <2>2 DEF Mask, Goto, TypeOK, Locations
    <2>4. IdInv' /\ TryInv'
      BY <1>1, <1>5, <2>2 DEF Mask, Goto, TypeOK, IdInv, TryInv
    <2>5. HoldInv' /\ WrittenInv'
      BY <1>1, <1>5 DEF Mask, Goto, TypeOK, HoldInv, WrittenInv, Holding
    <2>6. QED
      BY <2>3, <2>4, <2>5
  <1>6. ASSUME NEW c \in Callers, Check(c) PROVE IInv'
    <2>1. i[c] \in 0 .. MAX_SOCKET /\ i[c] < MAX_SOCKET
      BY <1>1, <1>6 DEF Check, TypeOK, TryInv
    <2>2. i[c] + 1 \in 0 .. MAX_SOCKET
      BY <2>1, Ranges
    <2>3. TypeOK'
      BY <1>1, <1>6, <2>2 DEF Check, Goto, TypeOK, Locations
    <2>4. IdInv' /\ TryInv'
      BY <1>1, <1>6 DEF Check, Goto, TypeOK, IdInv, TryInv
    <2>5. HoldInv' /\ WrittenInv'
      BY <1>1, <1>6 DEF Check, Goto, TypeOK, HoldInv, WrittenInv, Holding
    <2>6. QED
      BY <2>3, <2>4, <2>5
  <1>7. ASSUME NEW c \in Callers, CompareAndSwap(c) PROVE IInv'
    <2>1. HASH_ID(newId[c]) \in Slots
      BY <1>1, MySlot
    <2>2. TypeOK'
      BY <1>1, <1>7, <2>1 DEF CompareAndSwap, Reserve, Goto, TypeOK, Locations
    <2>3. IdInv' /\ TryInv'
      BY <1>1, <1>7 DEF CompareAndSwap, Reserve, Goto, TypeOK, IdInv, TryInv
    <2>4. HoldInv'
      <3>1. CASE MyType(c) # "INVALID" /\ Goto(c, "inc") /\ UNCHANGED <<type, newId>>
        BY <1>1, <1>7, <3>1 DEF CompareAndSwap, Goto, TypeOK, HoldInv, Holding
      <3>2. CASE MyType(c) = "INVALID" /\ Reserve(c)
        <4>1. \A d \in Callers : Holding(d) => HASH_ID(newId[d]) # HASH_ID(newId[c])
          BY <1>1, <3>2 DEF MyType, HoldInv
        <4>2. \A d \in Callers : Holding(d)' <=> Holding(d) \/ d = c
          BY <1>1, <1>7, <3>2 DEF CompareAndSwap, Reserve, Goto, TypeOK, Holding
        <4>3. newId' = newId /\ type' = [type EXCEPT ![HASH_ID(newId[c])] = "RESERVE"]
          BY <3>2 DEF Reserve
        <4>4. QED
          BY <1>1, <2>1, <4>1, <4>2, <4>3 DEF TypeOK, HoldInv
      <3>3. QED
        BY <1>7, <3>1, <3>2 DEF CompareAndSwap
    <2>5. WrittenInv'
      BY <1>1, <1>7 DEF CompareAndSwap, Reserve, Goto, TypeOK, WrittenInv
    <2>6. QED
      BY <2>2, <2>3, <2>4, <2>5
  <1>8. ASSUME NEW c \in Callers, WriteId(c) PROVE IInv'
    <2>1. HASH_ID(newId[c]) \in Slots /\ newId[c] \in 0 .. IdSpace - 1
      BY <1>1, <1>8, MySlot, Ranges DEF WriteId, IdInv, TypeOK
    <2>2. TypeOK'
      BY <1>1, <1>8, <2>1 DEF WriteId, Goto, TypeOK, Locations
    <2>3. IdInv' /\ TryInv' /\ HoldInv'
      BY <1>1, <1>8 DEF WriteId, Goto, TypeOK, IdInv, TryInv, HoldInv, Holding
    <2>4. WrittenInv'
      BY <1>1, <1>8, <2>1 DEF WriteId, Goto, TypeOK, WrittenInv, HoldInv, Holding
    <2>5. QED
      BY <2>2, <2>3, <2>4
  <1>9. ASSUME NEW c \in Callers, ReturnNone(c) PROVE IInv'
    BY <1>1, <1>9
    DEF ReturnNone, GivesUp, Goto, TypeOK, Locations, IdInv, TryInv, HoldInv,
        WrittenInv, Holding
  <1>10. ASSUME NEW c \in Callers, MakeSocket(c) PROVE IInv'
    <2>1. HASH_ID(newId[c]) \in Slots /\ newId[c] \in 0 .. IdSpace - 1
      BY <1>1, <1>10, MySlot, Ranges DEF MakeSocket, IdInv, TypeOK
    <2>2. TypeOK'
      BY <1>1, <1>10, <2>1 DEF MakeSocket, Goto, TypeOK, Locations
    <2>3. IdInv' /\ TryInv'
      BY <1>1, <1>10 DEF MakeSocket, Goto, TypeOK, IdInv, TryInv
    <2>4. HoldInv'
      BY <1>1, <1>10, <2>1 DEF MakeSocket, Goto, TypeOK, HoldInv, Holding
    <2>5. WrittenInv'
      BY <1>1, <1>10, <2>1 DEF MakeSocket, Goto, TypeOK, WrittenInv, HoldInv, Holding
    <2>6. QED
      BY <2>2, <2>3, <2>4, <2>5
  <1>11. ASSUME NEW s \in Slots, CloseSocket(s) PROVE IInv'
    <2>1. TypeOK' /\ IdInv' /\ TryInv' /\ WrittenInv'
      BY <1>1, <1>11 DEF CloseSocket, TypeOK, IdInv, TryInv, WrittenInv
    <2>2. HoldInv'
      BY <1>1, <1>11 DEF CloseSocket, TypeOK, HoldInv, Holding
    <2>3. QED
      BY <2>1, <2>2
  <1>12. QED
    BY <1>1, <1>2, <1>3, <1>4, <1>5, <1>6, <1>7, <1>8, <1>9, <1>10, <1>11
    DEF Next, Caller

LEMMA Invariance == Spec => []IInv
  BY InitInv, StepInv, PTL DEF Spec

(* Every variable has its type, through the wrap-around.                    *)
THEOREM TypeCorrect == Spec => []TypeOK
  <1>1. IInv => TypeOK
    BY DEF IInv
  <1>2. QED
    BY <1>1, Invariance, PTL

(* A caller keeps the slot and the id that generate_id gave it, however     *)
(* many callers pass the wrap-around with it.                               *)
THEOREM OwnIdStaysIntact == Spec => []OwnIdIntact
  <1>1. IInv => OwnIdIntact
    BY Ranges DEF IInv, OwnIdIntact, IdInv, HoldInv, WrittenInv, Holding, Negative, TypeOK
  <1>2. QED
    BY <1>1, Invariance, PTL

-----------------------------------------------------------------------------
(* The refinement of SlotTable.                                             *)

(* Owner as the invariant makes it: the caller that has a slot reserved.    *)
OwnerIs(s, o) ==
  \/ type[s] = "INVALID" /\ o = "free"
  \/ type[s] = "USED" /\ o = "used"
  \/ type[s] = "RESERVE" /\ o \in Callers /\ Holding(o) /\ HASH_ID(newId[o]) = s

LEMMA OwnerChar ==
  ASSUME IInv, NEW s \in Slots
  PROVE  OwnerIs(s, Owner(s))
  <1>1. type[s] \in {"INVALID", "RESERVE", "USED"}
    BY DEF IInv, TypeOK
  <1>2. CASE type[s] = "RESERVE"
    <2>1. \E c \in Callers : Holding(c) /\ HASH_ID(newId[c]) = s
      BY <1>2 DEF IInv, HoldInv
    <2>2. Owner(s) = CHOOSE c \in Callers : Holding(c) /\ HASH_ID(newId[c]) = s
      BY <1>2 DEF Owner
    <2>3. QED
      BY <1>2, <2>1, <2>2 DEF OwnerIs
  <1>3. CASE type[s] # "RESERVE"
    BY <1>1, <1>3 DEF Owner, OwnerIs
  <1>4. QED
    BY <1>2, <1>3

(* No slot has two owners.                                                  *)
LEMMA OwnerUnique ==
  ASSUME IInv, NEW s \in Slots, NEW o, OwnerIs(s, o)
  PROVE  o = Owner(s)
  BY OwnerChar DEF OwnerIs, IInv, HoldInv

LEMMA TableOwners == IInv => \A s \in Slots : \A o : OwnerIs(s, o) <=> Owners[s] = o
  <1>1. SUFFICES ASSUME IInv, NEW s \in Slots, NEW o
                 PROVE  OwnerIs(s, o) <=> Owner(s) = o
    BY DEF Owners
  <1>2. QED
    BY <1>1, OwnerChar, OwnerUnique

LEMMA TableInit == Init => Table!Init
  <1>1. SUFFICES ASSUME Init PROVE Table!Init
    OBVIOUS
  <1>2. \A s \in Slots : Owner(s) = IF s \in {PipeSlot} THEN "used" ELSE "free"
    BY <1>1 DEF Init, Owner
  <1>3. Owners = [s \in Slots |-> IF s \in {PipeSlot} THEN "used" ELSE "free"]
    BY <1>2 DEF Owners
  <1>4. {PipeSlot} \in SUBSET Slots
    BY Ranges
  <1>5. QED
    BY <1>3, <1>4 DEF Table!Init


LEMMA TableOwnersNext ==
  (IInv => \A s \in Slots : \A o : OwnerIs(s, o) <=> Owners[s] = o)'
  BY TableOwners, PTL

(* A step that leaves OwnerIs alone is a stutter of the table.              *)
LEMMA TableStutter ==
  ASSUME IInv, IInv',
         \A s \in Slots : \A o : OwnerIs(s, o) => OwnerIs(s, o)'
  PROVE  Owners' = Owners
  <1>1. \A s \in Slots : OwnerIs(s, Owners[s])
    BY TableOwners
  <1>2. \A s \in Slots : Owners'[s] = Owners[s]
    BY <1>1, TableOwnersNext
  <1>3. QED
    BY <1>2 DEF Owners

(* A step that changes one slot's owner is that change of the table.        *)
LEMMA TableChange ==
  ASSUME IInv, IInv', NEW r \in Slots, NEW n, OwnerIs(r, n)',
         \A s \in Slots \ {r} : \A o : OwnerIs(s, o) => OwnerIs(s, o)'
  PROVE  Owners' = [Owners EXCEPT ![r] = n]
  <1>1. \A s \in Slots : OwnerIs(s, Owners[s])
    BY TableOwners
  <1>2. \A s \in Slots : Owners'[s] = IF s = r THEN n ELSE Owners[s]
    BY <1>1, TableOwnersNext
  <1>3. QED
    BY <1>2 DEF Owners

LEMMA TableStep == IInv /\ IInv' /\ [Next]_vars => [Table!Next]_Owners
  <1>1. SUFFICES ASSUME IInv, IInv', [Next]_vars
                 PROVE  Table!Next \/ Owners' = Owners
    OBVIOUS
  <1>2. CASE UNCHANGED vars
    BY <1>1, <1>2, TableStutter DEF vars, OwnerIs, Holding
  <1>3. ASSUME NEW c \in Callers,
               Enter(c) \/ Increment(c) \/ Mask(c) \/ Check(c) \/ WriteId(c)
                 \/ ReturnNone(c)
        PROVE  Owners' = Owners
    <2>1. \A s \in Slots : \A o : OwnerIs(s, o) => OwnerIs(s, o)'
      BY <1>1, <1>3
      DEF Enter, Increment, Mask, Check, WriteId, ReturnNone, GivesUp, Goto,
          OwnerIs, Holding, IInv, TypeOK
    <2>2. QED
      BY <1>1, <2>1, TableStutter
  <1>4. ASSUME NEW c \in Callers, CompareAndSwap(c)
        PROVE  Table!Next \/ Owners' = Owners
    <2>1. PICK r \in Slots : r = HASH_ID(newId[c])
      BY <1>1, MySlot DEF IInv
    <2>2. CASE type[r] # "INVALID" /\ Goto(c, "inc") /\ UNCHANGED <<type, newId>>
      <3>1. \A s \in Slots : \A o : OwnerIs(s, o) => OwnerIs(s, o)'
        BY <1>1, <1>4, <2>2 DEF CompareAndSwap, Goto, OwnerIs, Holding, IInv, TypeOK
      <3>2. QED
        BY <1>1, <3>1, TableStutter
    <2>3. CASE type[r] = "INVALID" /\ Reserve(c)
      <3>1. /\ newId' = newId /\ type' = [type EXCEPT ![r] = "RESERVE"]
            /\ pc[c] = "cas" /\ pc' = [pc EXCEPT ![c] = "own"]
        BY <1>4, <2>1, <2>3 DEF CompareAndSwap, Reserve, Goto
      <3>2. OwnerIs(r, c)'
        BY <1>1, <2>1, <3>1 DEF OwnerIs, Holding, IInv, TypeOK
      <3>3. \A s \in Slots \ {r} : \A o : OwnerIs(s, o) => OwnerIs(s, o)'
        BY <1>1, <2>1, <3>1 DEF OwnerIs, Holding, IInv, TypeOK
      <3>4. Owners' = [Owners EXCEPT ![r] = c]
        BY <1>1, <2>1, <3>2, <3>3, TableChange
      <3>5. Owners[r] = "free"
        BY <1>1, <2>1, <2>3, TableOwners DEF OwnerIs
      <3>6. \A s \in Slots : Owners[s] # c
        BY <1>1, <3>1, TableOwners, IdAssumption DEF OwnerIs, Holding
      <3>7. QED
        BY <2>1, <3>4, <3>5, <3>6 DEF Table!Next, Table!Take
    <2>4. QED
      BY <1>4, <2>1, <2>2, <2>3 DEF CompareAndSwap, MyType
  <1>5. ASSUME NEW c \in Callers, MakeSocket(c) PROVE Table!Next
    <2>1. PICK r \in Slots : r = HASH_ID(newId[c])
      BY <1>1, MySlot DEF IInv
    <2>2. /\ newId' = newId /\ type' = [type EXCEPT ![r] = "USED"]
          /\ pc[c] = "done" /\ pc' = [pc EXCEPT ![c] = "out"]
      BY <1>5, <2>1 DEF MakeSocket, Goto
    <2>3. type[r] = "RESERVE"
      BY <1>1, <2>1, <2>2 DEF IInv, HoldInv, Holding
    <2>4. OwnerIs(r, c)
      BY <2>1, <2>2, <2>3 DEF OwnerIs, Holding
    <2>5. Owners[r] = c
      BY <1>1, <2>1, <2>4, TableOwners
    <2>6. OwnerIs(r, "used")'
      BY <1>1, <2>1, <2>2 DEF OwnerIs, IInv, TypeOK
    <2>7. \A s \in Slots \ {r} : \A o : OwnerIs(s, o) => OwnerIs(s, o)'
      BY <1>1, <2>1, <2>2 DEF OwnerIs, Holding, IInv, TypeOK
    <2>8. Owners' = [Owners EXCEPT ![r] = "used"]
      BY <1>1, <2>1, <2>6, <2>7, TableChange
    <2>9. QED
      BY <2>1, <2>5, <2>8 DEF Table!Next, Table!Use
  <1>6. ASSUME NEW r \in Slots, CloseSocket(r) PROVE Table!Next
    <2>1. Owners[r] = "used"
      BY <1>1, <1>6, TableOwners DEF CloseSocket, OwnerIs
    <2>2. OwnerIs(r, "free")'
      BY <1>1, <1>6 DEF CloseSocket, OwnerIs, IInv, TypeOK
    <2>3. \A s \in Slots \ {r} : \A o : OwnerIs(s, o) => OwnerIs(s, o)'
      BY <1>1, <1>6 DEF CloseSocket, OwnerIs, Holding, IInv, TypeOK
    <2>4. Owners' = [Owners EXCEPT ![r] = "free"]
      BY <1>1, <2>2, <2>3, TableChange
    <2>5. QED
      BY <2>1, <2>4 DEF Table!Next, Table!Free
  <1>7. QED
    BY <1>1, <1>2, <1>3, <1>4, <1>5, <1>6 DEF Next, Caller

(* generate_id with new_socket and force_close implements SlotTable: a slot *)
(* goes from free to one caller, from it into use and from there back.      *)
THEOREM SlotTableImplemented == Spec => ImplementsSlotTable
  BY TableInit, TableStep, Invariance, PTL
  DEF Spec, ImplementsSlotTable, Table!Spec

-----------------------------------------------------------------------------
(* generate_id gives up only for lack of slots.  First, arithmetic: numbers *)
(* that follow one another hash to slots that follow one another, also over *)
(* the wrap-around, because IdSpace is a multiple of MAX_SOCKET.            *)

LEMMA DivMod ==
  ASSUME NEW n \in Int, NEW m \in Nat \ {0}
  PROVE  /\ n = m * (n \div m) + (n % m)
         /\ n % m \in 0 .. m - 1
         /\ n \div m \in Int
  <1>1. n \div m \in Int
    BY SMT
  <1>2. n % m \in 0 .. m - 1
    BY SMT
  <1>3. n = m * (n \div m) + (n % m)
    BY SMT
  <1>4. QED
    BY <1>1, <1>2, <1>3

LEMMA Multiples ==
  ASSUME NEW m \in Nat \ {0}, NEW q \in Int
  PROVE  (q >= 1 => m * q >= m) /\ (q <= -1 => m * q <= -m)
  <1>1. q >= 1 => m * q >= m
    BY SMT
  <1>2. q <= -1 => m * q <= -m
    BY SMT
  <1>3. QED
    BY <1>1, <1>2

LEMMA ModUnique ==
  ASSUME NEW m \in Nat \ {0}, NEW q \in Int, NEW r \in 0 .. m - 1
  PROVE  (m * q + r) % m = r
  <1> DEFINE n == m * q + r
             p == n \div m
             t == n % m
  <1>1. n \in Int
    OBVIOUS
  <1>2. n = m * p + t /\ t \in 0 .. m - 1 /\ p \in Int
    BY <1>1, DivMod
  <1>3. m * (p - q) = r - t
    BY <1>2
  <1>4. p = q
    <2>1. CASE p - q >= 1
      BY <1>2, <1>3, <2>1, Multiples
    <2>2. CASE p - q <= -1
      BY <1>2, <1>3, <2>2, Multiples
    <2>3. QED
      BY <1>2, <2>1, <2>2
  <1>5. QED
    BY <1>2, <1>4

LEMMA Multiple ==
  ASSUME NEW m \in Nat \ {0}, NEW a \in Nat, a % m = 0
  PROVE  \E k \in Int : a = m * k
  <1>1. a \in Int
    OBVIOUS
  <1>2. a = m * (a \div m) + (a % m) /\ a \div m \in Int
    BY <1>1, DivMod
  <1>3. a = m * (a \div m)
    BY <1>2
  <1>4. QED
    BY <1>2, <1>3

LEMMA ModMod ==
  ASSUME NEW n \in Nat, NEW m \in Nat \ {0}, NEW a \in Nat \ {0}, a % m = 0
  PROVE  (n % a) % m = n % m
  <1>1. PICK q \in Int, r \in 0 .. a - 1 : n = a * q + r /\ r = n % a
    <2>1. n \in Int
      OBVIOUS
    <2>2. QED
      BY <2>1, DivMod
  <1>2. PICK k \in Int : a = m * k
    BY Multiple
  <1>3. PICK p \in Int, t \in 0 .. m - 1 : r = m * p + t /\ t = r % m
    <2>1. r \in Int
      BY <1>1
    <2>2. QED
      BY <2>1, DivMod
  <1>4. k * q + p \in Int /\ n = m * (k * q + p) + t
    <2>1. a * q = m * (k * q)
      BY <1>2
    <2>2. k * q \in Int /\ k * q + p \in Int
      OBVIOUS
    <2>3. m * (k * q + p) = m * (k * q) + m * p
      BY <2>2
    <2>4. n = m * (k * q) + (m * p + t)
      BY <1>1, <1>3, <2>1
    <2>5. PICK x \in Int, y \in Int : x = m * (k * q) /\ y = m * p
      BY <2>2
    <2>6. n = x + (y + t) /\ m * (k * q + p) = x + y
      BY <2>3, <2>4, <2>5
    <2>7. n = m * (k * q + p) + t
      BY <2>6
    <2>8. QED
      BY <2>2, <2>7
  <1>5. n % m = t
    BY <1>4, ModUnique
  <1>6. QED
    BY <1>1, <1>3, <1>5

Following(s) == IF s = MAX_SOCKET - 1 THEN 0 ELSE s + 1

LEMMA HashFollowing == \A n \in Nat : HASH_ID(n + 1) = Following(HASH_ID(n))
  <1>1. TAKE n \in Nat
  <1>2. PICK q \in Int, t \in 0 .. MAX_SOCKET - 1 :
          n = MAX_SOCKET * q + t /\ t = HASH_ID(n)
    <2>1. n \in Int
      OBVIOUS
    <2>2. QED
      BY <2>1, DivMod, IdAssumption DEF HASH_ID
  <1>3. CASE t = MAX_SOCKET - 1
    <2>1. n + 1 = MAX_SOCKET * (q + 1) + 0 /\ q + 1 \in Int
      <3>1. MAX_SOCKET * (q + 1) = MAX_SOCKET * q + MAX_SOCKET
        BY Ranges
      <3>2. PICK x \in Int : x = MAX_SOCKET * q
        BY Ranges
      <3>3. n = x + t
        BY <1>2, <3>2
      <3>4. n + 1 = x + MAX_SOCKET
        BY <1>3, <3>3, Ranges
      <3>5. n + 1 = MAX_SOCKET * (q + 1)
        BY <3>1, <3>2, <3>4
      <3>6. QED
        BY <3>5
    <2>2. 0 \in 0 .. MAX_SOCKET - 1
      BY Ranges
    <2>3. (MAX_SOCKET * (q + 1) + 0) % MAX_SOCKET = 0
      BY <2>1, <2>2, ModUnique, IdAssumption
    <2>4. QED
      BY <1>2, <1>3, <2>1, <2>3 DEF HASH_ID, Following
  <1>4. CASE t # MAX_SOCKET - 1
    <2>1. n + 1 = MAX_SOCKET * q + (t + 1) /\ t + 1 \in 0 .. MAX_SOCKET - 1
      BY <1>2, <1>4, Ranges
    <2>2. (MAX_SOCKET * q + (t + 1)) % MAX_SOCKET = t + 1
      BY <2>1, ModUnique, IdAssumption
    <2>3. QED
      BY <1>2, <1>4, <2>1, <2>2 DEF HASH_ID, Following
  <1>5. QED
    BY <1>3, <1>4

(* What Increment and Mask do to the slot that is hit.                      *)
LEMMA HashSteps ==
  \A n \in Nat : /\ HASH_ID((n + 1) % (2 * IdSpace)) = Following(HASH_ID(n))
                 /\ HASH_ID(n % IdSpace) = HASH_ID(n)
  <1>1. TAKE n \in Nat
  <1>2. (2 * IdSpace) % MAX_SOCKET = 0
    <2>1. PICK k \in Int : IdSpace = MAX_SOCKET * k
      BY Multiple, IdAssumption, Ranges
    <2>2. 2 * IdSpace = MAX_SOCKET * (2 * k) + 0 /\ 2 * k \in Int
      BY <2>1, Ranges
    <2>3. 0 \in 0 .. MAX_SOCKET - 1
      BY Ranges
    <2>4. QED
      BY <2>2, <2>3, ModUnique, IdAssumption
  <1>3. HASH_ID((n + 1) % (2 * IdSpace)) = HASH_ID(n + 1)
    <2>1. 2 * IdSpace \in Nat \ {0} /\ n + 1 \in Nat
      BY Ranges
    <2>2. QED
      BY <1>2, <2>1, ModMod, IdAssumption DEF HASH_ID
  <1>4. HASH_ID(n % IdSpace) = HASH_ID(n)
    BY ModMod, IdAssumption DEF HASH_ID
  <1>5. QED
    BY <1>3, <1>4, HashFollowing

(* How many numbers ago slot s was hit, when h was hit last.                *)
Behind(h, s) == IF h >= s THEN h - s ELSE h - s + MAX_SOCKET

LEMMA BehindFacts ==
  \A h, s \in Slots :
    /\ Behind(h, s) \in 0 .. MAX_SOCKET - 1
    /\ Following(h) \in Slots
    /\ s = Following(h) \/ Behind(Following(h), s) = Behind(h, s) + 1
  BY Ranges DEF Slots, Behind, Following

-----------------------------------------------------------------------------
AloneInv ==
  \A c, d \in Callers : alone[c] /\ Calling(c) /\ Calling(d) => c = d

FreeInv == \A c \in Callers : \A s \in free[c] : type[s] = "INVALID"

(* The last i numbers, or i + 1 while the last one is being tried, did not  *)
(* hit a slot that was free all the time, save the one that is being tried. *)
Visited(c) ==
  /\ pc[c] = "inc" =>
       \A s \in free[c] : Behind(HASH_ID(alloc_id), s) >= i[c]
  /\ pc[c] \in {"and", "check", "cas"} =>
       \A s \in free[c] : \/ s = HASH_ID(alloc_id)
                          \/ Behind(HASH_ID(alloc_id), s) >= i[c] + 1
  /\ pc[c] \in {"check", "cas"} => HASH_ID(newId[c]) = HASH_ID(alloc_id)

VisitInv == \A c \in Callers : alone[c] => Visited(c)

FullInv == AloneInv /\ FreeInv /\ VisitInv

LEMMA FullInit == Init => FullInv
  BY DEF Init, FullInv, AloneInv, FreeInv, VisitInv, Visited, Calling

LEMMA AloneStep == IInv /\ AloneInv /\ [Next]_vars => AloneInv'
  <1>1. SUFFICES ASSUME IInv, AloneInv, [Next]_vars PROVE AloneInv'
    OBVIOUS
  <1> USE <1>1 DEF IInv
  <1>2. CASE UNCHANGED vars
    BY <1>2 DEF vars, AloneInv, Calling
  <1>3. ASSUME NEW c \in Callers, Enter(c) PROVE AloneInv'
    <2>1. \A d \in Callers : Calling(d)' <=> Calling(d) \/ d = c
      BY <1>3 DEF Enter, Goto, TypeOK, Calling
    <2>2. \A d \in Callers :
            alone'[d] = IF d = c THEN \A e \in Callers : ~Calling(e)
                                 ELSE alone[d] /\ ~Calling(d)
      BY <1>3 DEF Enter
    <2>3. ~Calling(c)
      BY <1>3 DEF Enter, Calling
    <2>4. QED
      BY <2>1, <2>2, <2>3 DEF AloneInv
  <1>4. ASSUME NEW c \in Callers,
               Increment(c) \/ Mask(c) \/ Check(c) \/ CompareAndSwap(c)
                 \/ WriteId(c) \/ ReturnNone(c) \/ MakeSocket(c)
        PROVE  AloneInv'
    <2>1. alone' = alone /\ \A d \in Callers : Calling(d)' => Calling(d)
      BY <1>4
      DEF Increment, Mask, Check, CompareAndSwap, Reserve, WriteId, ReturnNone,
          GivesUp, MakeSocket, Goto, TypeOK, Calling
    <2>2. QED
      BY <2>1 DEF AloneInv
  <1>5. ASSUME NEW s \in Slots, CloseSocket(s) PROVE AloneInv'
    BY <1>5 DEF CloseSocket, AloneInv, Calling
  <1>6. QED
    BY <1>2, <1>3, <1>4, <1>5 DEF Next, Caller

LEMMA FreeStep == IInv /\ FreeInv /\ [Next]_vars => FreeInv'
  <1>1. SUFFICES ASSUME IInv, FreeInv, [Next]_vars PROVE FreeInv'
    OBVIOUS
  <1> USE <1>1 DEF IInv
  <1>2. CASE UNCHANGED <<type, free>>
    BY <1>2 DEF FreeInv
  <1>3. ASSUME NEW c \in Callers, Enter(c) PROVE FreeInv'
    BY <1>3 DEF Enter, TypeOK, FreeInv
  <1>4. ASSUME NEW c \in Callers, CompareAndSwap(c) PROVE FreeInv'
    BY <1>4, MySlot DEF CompareAndSwap, Reserve, TypeOK, FreeInv
  <1>5. ASSUME NEW c \in Callers, MakeSocket(c) PROVE FreeInv'
    <2>1. type[HASH_ID(newId[c])] = "RESERVE"
      BY <1>5 DEF MakeSocket, HoldInv, Holding
    <2>2. QED
      BY <1>5, <2>1, MySlot DEF MakeSocket, TypeOK, FreeInv
  <1>6. ASSUME NEW s \in Slots, CloseSocket(s) PROVE FreeInv'
    BY <1>6 DEF CloseSocket, TypeOK, FreeInv
  <1>7. QED
    BY <1>2, <1>3, <1>4, <1>5, <1>6
    DEF Next, Caller, vars, Increment, Mask, Check, WriteId, ReturnNone


(* A caller that is alone in the loop is not disturbed by another.          *)
LEMMA Undisturbed ==
  ASSUME IInv, AloneInv, NEW c \in Callers, Caller(c), NEW d \in Callers, d # c,
         alone'[d], pc[d] \in {"inc", "and", "check", "cas"}
  PROVE  /\ alone[d] /\ alloc_id' = alloc_id /\ free'[d] = free[d]
         /\ pc'[d] = pc[d] /\ i'[d] = i[d] /\ newId'[d] = newId[d]
  <1>1. Calling(d)
    BY DEF Calling
  <1>2. ~Enter(c)
    BY <1>1 DEF Enter
  <1>3. alone[d]
    BY <1>2
    DEF Caller, Increment, Mask, Check, CompareAndSwap, Reserve, WriteId,
        ReturnNone, MakeSocket
  <1>4. ~Calling(c)
    BY <1>1, <1>3 DEF AloneInv
  <1>5. MakeSocket(c)
    BY <1>2, <1>4
    DEF Caller, Increment, Mask, Check, CompareAndSwap, WriteId, ReturnNone,
        GivesUp, Calling
  <1>6. QED
    BY <1>3, <1>5 DEF MakeSocket, Goto, IInv, TypeOK

LEMMA VisitStep ==
  IInv /\ AloneInv /\ FreeInv /\ VisitInv /\ [Next]_vars => VisitInv'
  <1>1. SUFFICES ASSUME IInv, AloneInv, FreeInv, VisitInv, [Next]_vars,
                        NEW d \in Callers, alone'[d]
                 PROVE  Visited(d)'
    BY DEF VisitInv
  <1> USE <1>1 DEF IInv
  <1> DEFINE h == HASH_ID(alloc_id)
  <1>2. h \in Slots /\ alloc_id \in Nat /\ i[d] \in Nat /\ free[d] \subseteq Slots
    BY HashType, Ranges DEF TypeOK
  <1>3. CASE UNCHANGED vars
    BY <1>3 DEF vars, VisitInv, Visited
  <1>4. ASSUME NEW s \in Slots, CloseSocket(s) PROVE Visited(d)'
    BY <1>4 DEF CloseSocket, VisitInv, Visited
  <1>5. ASSUME NEW c \in Callers, Caller(c), c # d PROVE Visited(d)'
    <2>1. CASE pc[d] \in {"inc", "and", "check", "cas"}
      BY <1>5, <2>1, Undisturbed DEF VisitInv, Visited
    <2>2. CASE pc[d] \notin {"inc", "and", "check", "cas"}
      <3>1. pc'[d] = pc[d]
        BY <1>5
        DEF Caller, Enter, Increment, Mask, Check, CompareAndSwap, Reserve,
            WriteId, ReturnNone, MakeSocket, Goto, TypeOK
      <3>2. QED
        BY <2>2, <3>1 DEF Visited
    <2>3. QED
      BY <2>1, <2>2
  <1>6. CASE Enter(d)
    <2>1. /\ pc'[d] = "inc" /\ i'[d] = 0 /\ alloc_id' = alloc_id
          /\ free'[d] \subseteq Slots
      BY <1>6 DEF Enter, Goto, TypeOK
    <2>2. \A s \in Slots : Behind(h, s) >= 0
      BY <1>2, BehindFacts
    <2>3. QED
      BY <2>1, <2>2 DEF Visited
  <1>7. CASE Increment(d)
    <2>1. /\ alone[d] /\ pc[d] = "inc" /\ free'[d] = free[d] /\ i'[d] = i[d]
          /\ pc'[d] \in {"and", "check"} /\ newId'[d] = alloc_id'
          /\ alloc_id' = (alloc_id + 1) % (2 * IdSpace)
      BY <1>7 DEF Increment, Goto, TypeOK
    <2>2. HASH_ID(alloc_id') = Following(h)
      BY <1>2, <2>1, HashSteps
    <2>3. \A s \in free[d] : Behind(h, s) >= i[d]
      BY <2>1 DEF VisitInv, Visited
    <2>4. \A s \in free[d] : \/ s = Following(h)
                             \/ Behind(Following(h), s) >= i[d] + 1
      BY <1>2, <2>3, BehindFacts, Ranges
    <2>5. QED
      BY <2>1, <2>2, <2>4 DEF Visited
  <1>8. CASE Mask(d)
    <2>1. /\ alone[d] /\ pc[d] = "and" /\ free'[d] = free[d] /\ i'[d] = i[d]
          /\ pc'[d] = "check" /\ newId'[d] = alloc_id'
          /\ alloc_id' = alloc_id % IdSpace
      BY <1>8 DEF Mask, Goto, TypeOK
    <2>2. HASH_ID(alloc_id') = h
      BY <1>2, <2>1, HashSteps
    <2>3. QED
      BY <2>1, <2>2 DEF VisitInv, Visited
  <1>9. CASE Check(d)
    <2>1. /\ alone[d] /\ pc[d] = "check" /\ free'[d] = free[d]
          /\ alloc_id' = alloc_id /\ newId' = newId
      BY <1>9 DEF Check
    <2>2. HASH_ID(newId[d]) = h
      BY <2>1 DEF VisitInv, Visited
    <2>3. CASE MyType(d) = "INVALID" /\ Goto(d, "cas") /\ UNCHANGED i
      <3>1. pc'[d] = "cas" /\ i' = i
        BY <2>3 DEF Goto, TypeOK
      <3>2. QED
        BY <2>1, <3>1 DEF VisitInv, Visited
    <2>4. CASE MyType(d) # "INVALID" /\ Goto(d, "inc") /\ i' = [i EXCEPT ![d] = @ + 1]
      <3>1. pc'[d] = "inc" /\ i'[d] = i[d] + 1
        BY <2>4 DEF Goto, TypeOK
      <3>2. h \notin free[d]
        BY <2>2, <2>4 DEF MyType, FreeInv
      <3>3. \A s \in free[d] : Behind(h, s) >= i[d] + 1
        BY <2>1, <3>2 DEF VisitInv, Visited
      <3>4. QED
        BY <2>1, <3>1, <3>3 DEF Visited
    <2>5. QED
      BY <1>9, <2>3, <2>4 DEF Check
  <1>10. CASE CompareAndSwap(d)
    <2>1. CASE Reserve(d)
      <3>1. pc'[d] = "own"
        BY <2>1 DEF Reserve, Goto, TypeOK
      <3>2. QED
        BY <3>1 DEF Visited
    <2>2. CASE MyType(d) # "INVALID" /\ Goto(d, "inc")
                 /\ UNCHANGED <<alloc_id, type, id, i, newId, free, alone>>
      <3>1. pc[d] = "cas" /\ pc'[d] = "inc"
        BY <1>10, <2>2 DEF CompareAndSwap, Goto, TypeOK
      <3>2. h \notin free[d]
        BY <2>2, <3>1 DEF MyType, FreeInv, VisitInv, Visited
      <3>3. \A s \in free[d] : Behind(h, s) >= i[d] + 1
        BY <2>2, <3>1, <3>2 DEF VisitInv, Visited
      <3>4. \A s \in free[d] : Behind(h, s) >= i[d]
        BY <1>2, <3>3, BehindFacts
      <3>5. QED
        BY <2>2, <3>1, <3>4 DEF Visited
    <2>3. QED
      BY <1>10, <2>1, <2>2 DEF CompareAndSwap
  <1>11. CASE WriteId(d) \/ ReturnNone(d) \/ MakeSocket(d)
    <2>1. pc'[d] \in {"done", "out"}
      BY <1>11 DEF WriteId, ReturnNone, MakeSocket, Goto, TypeOK
    <2>2. QED
      BY <2>1 DEF Visited
  <1>12. QED
    BY <1>3, <1>4, <1>5, <1>6, <1>7, <1>8, <1>9, <1>10, <1>11 DEF Next, Caller

LEMMA FullInvariance == Spec => [](IInv /\ FullInv)
  <1>1. Init => FullInv
    BY FullInit
  <1>2. IInv /\ FullInv /\ [Next]_vars => FullInv'
    BY AloneStep, FreeStep, VisitStep DEF FullInv
  <1>3. QED
    BY <1>1, <1>2, Invariance, PTL DEF Spec

(* generate_id fails only when there is no slot: if no call overlaps it, no *)
(* slot was free throughout, for any table size and across the wrap-around. *)
THEOREM GivesUpOnlyWhenFull == Spec => []FailsOnlyWhenFull
  <1>1. IInv /\ FullInv => FailsOnlyWhenFull
    <2>1. SUFFICES ASSUME IInv, FullInv, NEW c \in Callers, GivesUp(c), alone[c],
                          NEW s \in free[c]
                   PROVE  FALSE
      BY DEF FailsOnlyWhenFull
    <2>2. Behind(HASH_ID(alloc_id), s) >= MAX_SOCKET
      BY <2>1 DEF FullInv, VisitInv, Visited, GivesUp
    <2>3. HASH_ID(alloc_id) \in Slots /\ s \in Slots
      BY <2>1, HashType, Ranges DEF IInv, TypeOK
    <2>4. QED
      BY <2>2, <2>3, BehindFacts, Ranges
  <1>2. QED
    BY <1>1, FullInvariance, PTL
=============================================================================
