-------------------------- MODULE SocketServerProofs --------------------------
(* What is proved of the socket server for any number of slots, threads and *)
(* pipe entries.                                                            *)
EXTENDS SocketServerInduction, TLAPS

(* HASH_ID maps every id, -1 included, to a slot.                           *)
LEMMA HashType == \A i \in Ids : HASH_ID(i) \in Slots
  BY ServerAssumption, SMT DEF HASH_ID, Slots, Ids, NoId

LEMMA PipeSlotType == PipeSlot \in Slots
  BY HashType DEF PipeSlot, Ids

(* The disjuncts of the next-state relation, one action of the code each.   *)
LEMMA NextCases ==
  ASSUME Next
  PROVE  /\ aborted = "no"
         /\ \/ \E p \in Procs : GenProbe(p) \/ GenCas(p) \/ GenFail(p)
                                 \/ GenOwn(p) \/ WritePipe(p)
            \/ \E t \in Threads : CallListen(t) \/ CallStart(t)
                                   \/ CallClose(t) \/ CallSend(t)
            \/ EngineWait
            \/ \E e \in events :
                 \/ ExecStart(e) \/ ExecListen(e) \/ ExecClose(e) \/ ExecSend(e)
                 \/ AcceptNothing(e) \/ AcceptConnection(e)
                 \/ ReadData(e) \/ ReadEof(e) \/ ReadGone(e)
                 \/ SkipInvalid(e) \/ AssertConnected(e)
  BY DEF Next, NetStep, AppStep, Generate, Command, SocketEvent, Call, Procs

-----------------------------------------------------------------------------
(* Types.                                                                   *)

TypeInv == TypeOK /\ BusyHasCommand

LEMMA TypeInit == Init => TypeInv
  <1>1. SUFFICES ASSUME Init PROVE TypeInv
    OBVIOUS
  <1>2. TypeOK
    BY <1>1, ServerAssumption, PipeSlotType, SMT
    DEF Init, TypeOK, Types, Ids, NoId, Locations, NoCmd, Assertions
  <1>3. BusyHasCommand
    BY <1>1 DEF Init, BusyHasCommand, Procs
  <1>4. QED
    BY <1>2, <1>3 DEF TypeInv

LEMMA ForceCloseType ==
  ASSUME TypeOK, NEW s \in Slots, force_close(s)
  PROVE  /\ type' \in [Slots -> Types] /\ reg' \subseteq Slots
         /\ openFds' \in Int /\ aborted' \in Assertions
  <1>1. type' \in [Slots -> Types]
    BY DEF TypeOK, force_close, Types
  <1>2. reg' \subseteq Slots
    BY DEF TypeOK, force_close
  <1>3. openFds' \in Int
    BY DEF TypeOK, force_close
  <1>4. aborted' \in Assertions
    BY DEF TypeOK, force_close, Assertions
  <1>5. QED
    BY <1>1, <1>2, <1>3, <1>4

LEMMA TypeStep == TypeInv /\ [Next]_vars => TypeInv'
  <1>1. SUFFICES ASSUME TypeInv, [Next]_vars PROVE TypeInv'
    OBVIOUS
  <1> USE DEF TypeInv
  <1>2. CASE UNCHANGED vars
    BY <1>1, <1>2 DEF vars, TypeOK, BusyHasCommand
  <1>3. ASSUME NEW p \in Procs, GenProbe(p) PROVE TypeInv'
    <2>1. cmd[p] \in Commands /\ alloc_id + 1 \in Ids
      BY <1>1, <1>3 DEF GenProbe, TypeOK, BusyHasCommand, Ids
    <2>2. [cmd[p] EXCEPT !.id = alloc_id + 1] \in Commands
      BY <2>1 DEF Commands
    <2>3. cmd' = [cmd EXCEPT ![p] = [cmd[p] EXCEPT !.id = alloc_id + 1]]
      BY <1>3 DEF GenProbe
    <2>4. [cmd[p] EXCEPT !.id = alloc_id + 1].op = cmd[p].op
      BY <2>1 DEF Commands
    <2>5. BusyHasCommand'
      BY <1>1, <1>3, <2>2, <2>3, <2>4 DEF GenProbe, TypeOK, BusyHasCommand, Procs
    <2>6. alloc_id' \in Nat /\ tries' \in [Procs -> 0 .. MAX_SOCKET]
      <3>1. tries[p] \in 0 .. MAX_SOCKET /\ tries[p] < MAX_SOCKET
        BY <1>1, <1>3 DEF GenProbe, TypeOK
      <3>2. tries[p] + 1 \in 0 .. MAX_SOCKET
        BY <3>1, ServerAssumption
      <3>3. tries' = tries \/ tries' = [tries EXCEPT ![p] = tries[p] + 1]
        BY <1>3 DEF GenProbe
      <3>4. tries' \in [Procs -> 0 .. MAX_SOCKET]
        BY <1>1, <3>2, <3>3 DEF TypeOK
      <3>5. alloc_id' \in Nat
        BY <1>1, <1>3 DEF GenProbe, TypeOK
      <3>6. QED
        BY <3>4, <3>5
    <2>7. TypeOK'
      BY <1>1, <1>3, <2>2, <2>3, <2>6 DEF GenProbe, TypeOK, Locations, sockets
    <2>8. QED
      BY <2>5, <2>7
  <1>4. ASSUME NEW p \in Procs, GenCas(p) PROVE TypeInv'
    BY <1>1, <1>4, ServerAssumption, SMTT(30)
    DEF GenCas, TypeOK, BusyHasCommand, Types, Locations, Procs
  <1>5. ASSUME NEW p \in Procs, GenFail(p) PROVE TypeInv'
    BY <1>1, <1>5, ServerAssumption, SMTT(30)
    DEF GenFail, Return, TypeOK, BusyHasCommand, Commands, NoCmd, Locations, Procs
  <1>6. ASSUME NEW p \in Procs, GenOwn(p) PROVE TypeInv'
    <2>1. cmd[p] \in Commands
      BY <1>1, <1>6 DEF GenOwn, BusyHasCommand
    <2>2. PICK c \in Commands : c = cmd[p]
      BY <2>1
    <2>3. c = [op |-> c.op, id |-> c.id] /\ c.id \in Ids
      BY DEF Commands
    <2>4. cmd' = cmd
      BY <1>1, <1>6, <2>2, <2>3 DEF GenOwn, Post, TypeOK
    <2>5. BusyHasCommand'
      BY <1>1, <1>6, <2>1, <2>4 DEF GenOwn, Post, TypeOK, BusyHasCommand, Procs
    <2>6. /\ type' \in [Slots -> Types] /\ id' \in [Slots -> Ids]
          /\ known' \subseteq Ids /\ aborted' \in Assertions
      BY <1>1, <1>6, <2>2, <2>3, HashType
      DEF GenOwn, new_socket, TypeOK, Types, Assertions
    <2>7. pc' \in [Procs -> Locations] /\ tries' \in [Procs -> 0 .. MAX_SOCKET]
      BY <1>1, <1>6, ServerAssumption DEF GenOwn, Post, TypeOK, Locations
    <2>8. TypeOK'
      BY <1>1, <1>6, <2>4, <2>6, <2>7 DEF GenOwn, TypeOK
    <2>9. QED
      BY <2>5, <2>8
  <1>7. ASSUME NEW p \in Procs, WritePipe(p) PROVE TypeInv'
    BY <1>1, <1>7, ServerAssumption, SMTT(30)
    DEF WritePipe, Return, TypeOK, BusyHasCommand, Commands, NoCmd, Locations, Procs, sockets
  <1>8. ASSUME NEW t \in Threads, CallListen(t) \/ CallStart(t) \/ CallClose(t) \/ CallSend(t)
        PROVE TypeInv'
    <2>1. t \in Procs /\ t # Net
      BY ServerAssumption DEF Procs
    <2>2. PICK c \in Commands, l \in {"probe", "write"} :
            /\ l = "probe" => c.op = "L"
            /\ pc' = [pc EXCEPT ![t] = l]
            /\ tries' = [tries EXCEPT ![t] = 0]
            /\ cmd' = [cmd EXCEPT ![t] = c]
      <3>1. CASE CallListen(t)
        BY <3>1 DEF CallListen, Begin, Commands, Ids
      <3>2. CASE CallStart(t)
        BY <1>1, <3>2 DEF CallStart, Post, Commands, Ids, TypeOK
      <3>3. CASE CallClose(t)
        BY <1>1, <3>3 DEF CallClose, Post, Commands, TypeOK
      <3>4. CASE CallSend(t)
        BY <1>1, <3>4 DEF CallSend, Post, Commands, TypeOK
      <3>5. QED
        BY <1>8, <3>1, <3>2, <3>3, <3>4
    <2>3. openFds' \in Int
      BY <1>1, <1>8 DEF CallListen, CallStart, CallClose, CallSend, TypeOK, sockets
    <2>4. UNCHANGED <<type, id, queued, reg, alloc_id, pipe, events, known, aborted>>
      BY <1>8 DEF CallListen, CallStart, CallClose, CallSend, sockets
    <2>5. BusyHasCommand'
      BY <1>1, <2>1, <2>2 DEF TypeOK, BusyHasCommand, Procs
    <2>6. TypeOK'
      BY <1>1, <2>1, <2>2, <2>3, <2>4, ServerAssumption DEF TypeOK, Locations
    <2>7. QED
      BY <2>5, <2>6
  <1>9. CASE EngineWait
    BY <1>1, <1>9, ServerAssumption, PipeSlotType, SMTT(30)
    DEF EngineWait, TypeOK, BusyHasCommand, Procs, sockets, control
  <1>10. ASSUME NEW e \in events,
                ExecStart(e) \/ ExecListen(e) \/ ExecClose(e) \/ ExecSend(e)
         PROVE TypeInv'
    <2>1. /\ UNCHANGED <<alloc_id, pc, tries, cmd, known>>
          /\ events' \subseteq events
          /\ pipe # <<>> /\ pipe' = Tail(pipe)
      BY <1>10 DEF ExecStart, ExecListen, ExecClose, ExecSend, Read, NextEvent, control
    <2>2. pipe' \in Seq(Commands) /\ Len(pipe') <= PipeCap
      BY <1>1, <2>1, ServerAssumption DEF TypeOK
    <2>3. Head(pipe) \in Commands
      BY <1>1, <2>1 DEF TypeOK
    <2>4. PICK c \in Commands : c = Head(pipe)
      BY <2>3
    <2>5. c.id \in Ids /\ HASH_ID(c.id) \in Slots
      BY HashType DEF Commands
    <2>6. /\ type' \in [Slots -> Types] /\ id' \in [Slots -> Ids]
          /\ queued' \in [Slots -> SUBSET Ids] /\ reg' \subseteq Slots
          /\ openFds' \in Int /\ aborted' \in Assertions
      <3>1. CASE ExecStart(e)
        BY <1>1, <3>1 DEF ExecStart, start_socket, engine_add, TypeOK, Types
      <3>2. CASE ExecListen(e)
        BY <1>1, <3>2, <2>4, <2>5
        DEF ExecListen, listen_socket, new_socket, TypeOK, Types, Assertions
      <3>3. CASE ExecClose(e)
        BY <1>1, <3>3, ForceCloseType DEF ExecClose, close_socket, TypeOK
      <3>4. CASE ExecSend(e)
        <4>1. CASE \E s \in Slots : force_close(s) /\ UNCHANGED <<queued, id>>
          BY <1>1, <4>1, ForceCloseType DEF TypeOK
        <4>2. CASE /\ UNCHANGED <<type, reg, openFds, aborted, id>>
                   /\ queued' \in [Slots -> SUBSET Ids]
          BY <1>1, <4>2 DEF TypeOK
        <4>3. Head(pipe).id \in Ids /\ queued \in [Slots -> SUBSET Ids]
          BY <1>1, <2>4, <2>5 DEF TypeOK
        <4>4. \A s \in Slots : queued[s] \cup {Head(pipe).id} \in SUBSET Ids
          BY <4>3
        <4>5. QED
          BY <1>1, <3>4, <4>1, <4>2, <4>3, <4>4 DEF ExecSend, send_socket
      <3>5. QED
        BY <1>10, <3>1, <3>2, <3>3, <3>4
    <2>7. QED
      BY <1>1, <2>1, <2>2, <2>6 DEF TypeOK, BusyHasCommand
  <1>11. ASSUME NEW e \in events,
                AcceptNothing(e) \/ AcceptConnection(e) \/ ReadData(e) \/ ReadEof(e)
                  \/ ReadGone(e) \/ SkipInvalid(e) \/ AssertConnected(e)
         PROVE TypeInv'
    <2>1. e.slot \in Slots /\ id[e.slot] \in Ids /\ Net \in Procs
      BY <1>1 DEF TypeOK, Procs
    <2>2. CASE AcceptNothing(e) \/ ReadData(e) \/ SkipInvalid(e)
      BY <1>1, <2>2 DEF AcceptNothing, ReadData, SkipInvalid, NextEvent, sockets, control,
                        TypeOK, BusyHasCommand
    <2>3. CASE AssertConnected(e)
      BY <1>1, <2>3 DEF AssertConnected, NextEvent, sockets, control, TypeOK,
                        BusyHasCommand, Assertions
    <2>4. CASE ReadGone(e)
      <3>1. /\ type' \in [Slots -> Types] /\ reg' \subseteq Slots /\ openFds' \in Int
            /\ aborted' \in Assertions
        BY <1>1, <2>1, <2>4, ForceCloseType DEF ReadGone
      <3>2. QED
        BY <1>1, <2>4, <3>1 DEF ReadGone, NextEvent, control, TypeOK, BusyHasCommand
    <2>5. CASE AcceptConnection(e) \/ ReadEof(e)
      <3>1. PICK c \in Commands, l \in {"probe", "write"} :
              /\ c.op # "L"
              /\ pc' = [pc EXCEPT ![Net] = l]
              /\ tries' = [tries EXCEPT ![Net] = 0]
              /\ cmd' = [cmd EXCEPT ![Net] = c]
        BY <2>1, <2>5 DEF AcceptConnection, ReadEof, Begin, Post, Commands, Ids
      <3>2. openFds' \in Int /\ events' \subseteq events
        BY <1>1, <2>5 DEF AcceptConnection, ReadEof, NextEvent, TypeOK, sockets
      <3>3. UNCHANGED <<type, id, queued, reg, alloc_id, pipe, known, aborted>>
        BY <2>5 DEF AcceptConnection, ReadEof, sockets
      <3>4. BusyHasCommand'
        BY <1>1, <2>1, <3>1, ServerAssumption DEF TypeOK, BusyHasCommand, Procs
      <3>5. TypeOK'
        BY <1>1, <2>1, <3>1, <3>2, <3>3, ServerAssumption DEF TypeOK, Locations
      <3>6. QED
        BY <3>4, <3>5
    <2>6. QED
      BY <1>11, <2>2, <2>3, <2>4, <2>5
  <1>12. QED
    BY <1>1, <1>2, <1>3, <1>4, <1>5, <1>6, <1>7, <1>8, <1>9, <1>10, <1>11, NextCases

(* Every variable keeps its type in every behaviour, with any number of     *)
(* slots and threads; in particular the pipe never holds more commands than *)
(* it can.                                                                  *)
THEOREM TypeCorrect == Spec => []TypeOK
  <1>1. Init => TypeInv
    BY TypeInit
  <1>2. TypeInv /\ [Next]_vars => TypeInv'
    BY TypeStep
  <1>3. TypeInv => TypeOK
    BY DEF TypeInv
  <1>4. QED
    BY <1>1, <1>2, <1>3, PTL DEF Spec

-----------------------------------------------------------------------------
(* Registration with epoll.                                                 *)

LEMMA RegisteredInit == Init => RegisteredMatchesType
  BY PipeSlotType DEF Init, RegisteredMatchesType

LEMMA RegisteredStep ==
  TypeInv /\ RegisteredMatchesType /\ [Next]_vars => RegisteredMatchesType'
  <1>1. SUFFICES ASSUME TypeInv, RegisteredMatchesType, [Next]_vars
                 PROVE  RegisteredMatchesType'
    OBVIOUS
  <1>2. type \in [Slots -> Types] /\ reg \subseteq Slots
    BY <1>1 DEF TypeInv, TypeOK
  <1>3. CASE UNCHANGED <<type, reg>>
    BY <1>1, <1>3 DEF RegisteredMatchesType
  <1>4. ASSUME NEW s \in Slots, force_close(s)
        PROVE  RegisteredMatchesType'
    BY <1>1, <1>2, <1>4 DEF force_close, RegisteredMatchesType
  <1>5. ASSUME NEW s \in Slots, NEW i \in Ids, NEW t \in {"PLISTEN", "PACCEPT"},
               new_socket(s, i, t), reg' = reg
        PROVE  RegisteredMatchesType'
    BY <1>1, <1>2, <1>5 DEF new_socket, RegisteredMatchesType
  <1>6. ASSUME NEW s \in Slots, NEW t \in {"LISTEN", "CONNECTED"}, engine_add(s, t)
        PROVE  RegisteredMatchesType'
    BY <1>1, <1>2, <1>6 DEF engine_add, RegisteredMatchesType
  <1>7. ASSUME NEW p \in Procs, GenCas(p)
        PROVE  RegisteredMatchesType'
    BY <1>1, <1>2, <1>7 DEF GenCas, RegisteredMatchesType
  <1>8. ASSUME NEW p \in Procs, GenOwn(p)
        PROVE  RegisteredMatchesType'
    <2>1. cmd[p].id \in Ids /\ HASH_ID(cmd[p].id) \in Slots
      BY <1>1, <1>8, HashType DEF TypeInv, BusyHasCommand, GenOwn, Commands
    <2>2. QED
      BY <1>3, <1>5, <1>8, <2>1 DEF GenOwn
  <1>9. ASSUME NEW e \in events,
               ExecStart(e) \/ ExecListen(e) \/ ExecClose(e) \/ ExecSend(e)
        PROVE  RegisteredMatchesType'
    <2>1. Head(pipe) \in Commands
      BY <1>1, <1>9
      DEF TypeInv, TypeOK, ExecStart, ExecListen, ExecClose, ExecSend, Read
    <2>2. Head(pipe).id \in Ids /\ HASH_ID(Head(pipe).id) \in Slots
      BY <2>1, HashType DEF Commands
    <2>3. QED
      BY <1>3, <1>4, <1>5, <1>6, <1>9, <2>2
      DEF ExecStart, ExecListen, ExecClose, ExecSend, start_socket, listen_socket,
          close_socket, send_socket
  <1>10. ASSUME NEW e \in events, ReadGone(e)
         PROVE  RegisteredMatchesType'
    BY <1>1, <1>4, <1>10 DEF ReadGone, TypeInv, TypeOK
  <1>11. ASSUME NEW p \in Procs, GenProbe(p) \/ GenFail(p) \/ WritePipe(p)
         PROVE  RegisteredMatchesType'
    BY <1>3, <1>11 DEF GenProbe, GenFail, WritePipe, sockets
  <1>12. ASSUME NEW t \in Threads,
                CallListen(t) \/ CallStart(t) \/ CallClose(t) \/ CallSend(t)
         PROVE  RegisteredMatchesType'
    BY <1>3, <1>12 DEF CallListen, CallStart, CallClose, CallSend, sockets
  <1>13. CASE EngineWait
    BY <1>3, <1>13 DEF EngineWait, sockets
  <1>14. ASSUME NEW e \in events,
                AcceptNothing(e) \/ AcceptConnection(e) \/ ReadData(e) \/ ReadEof(e)
                  \/ SkipInvalid(e) \/ AssertConnected(e)
         PROVE  RegisteredMatchesType'
    BY <1>3, <1>14 DEF AcceptNothing, AcceptConnection, ReadData, ReadEof, SkipInvalid,
                       AssertConnected, sockets
  <1>15. CASE UNCHANGED vars
    BY <1>3, <1>15 DEF vars
  <1>16. QED
    BY <1>1, <1>7, <1>8, <1>9, <1>10, <1>11, <1>12, <1>13, <1>14, <1>15, NextCases

(* In every behaviour the descriptors that epoll watches are those of the   *)
(* listening and connected sockets and the pipe: whatever threads interleave*)
(* and whether or not engine_add fails, no closed socket stays registered   *)
(* and no open one is lost to the poll loop.                                *)
THEOREM RegistrationCorrect == Spec => []RegisteredMatchesType
  <1>1. Init => TypeInv /\ RegisteredMatchesType
    BY TypeInit, RegisteredInit
  <1>2. TypeInv /\ RegisteredMatchesType /\ [Next]_vars
          => (TypeInv /\ RegisteredMatchesType)'
    BY TypeStep, RegisteredStep
  <1>3. QED
    BY <1>1, <1>2, PTL DEF Spec

-----------------------------------------------------------------------------
(* Reserved slots and their holders.                                        *)

OwnerInv == ReservingInv /\ ListenInv

(* A step that makes no new holder, and leaves the reserved slots alone.    *)
SameHolders ==
  \A p \in Procs : Reserving(p)' =>
    /\ Reserving(p)
    /\ cmd'[p] = cmd[p]
    /\ pc'[p] = pc[p]

SameReserved ==
  \A s \in Slots : type[s] = "RESERVE" => type'[s] = "RESERVE" /\ id'[s] = id[s]

Popped ==
  \A k \in DOMAIN pipe' :
    k \in Nat /\ k + 1 \in DOMAIN pipe /\ pipe'[k] = pipe[k + 1]

LEMMA OwnerInit == Init => OwnerInv
  BY DEF Init, OwnerInv, ReservingInv, ListenInv, ListenReserved, ListenAt, Reserving

LEMMA HolderSlot ==
  ASSUME TypeInv
  PROVE  /\ \A p \in Procs : pc[p] # "idle" =>
              cmd[p].id \in Ids /\ HASH_ID(cmd[p].id) \in Slots
         /\ \A k \in DOMAIN pipe :
              /\ k \in Nat /\ pipe[k] \in Commands
              /\ pipe[k].id \in Ids /\ HASH_ID(pipe[k].id) \in Slots
  <1>1. ASSUME NEW c \in Commands PROVE c.id \in Ids /\ HASH_ID(c.id) \in Slots
    BY HashType DEF Commands
  <1>2. ASSUME NEW k \in DOMAIN pipe PROVE k \in Nat /\ pipe[k] \in Commands
    BY DEF TypeInv, TypeOK
  <1>3. QED
    BY <1>1, <1>2 DEF TypeInv, BusyHasCommand

LEMMA PoppedTail ==
  ASSUME TypeInv, pipe # <<>>, pipe' = Tail(pipe)
  PROVE  Popped
  BY DEF Popped, TypeInv, TypeOK

LEMMA OwnerFrame ==
  ASSUME TypeInv, OwnerInv, SameHolders, SameReserved, pipe' = pipe \/ Popped
  PROVE  OwnerInv'
  <1>1. ReservingInv'
    <2>1. ASSUME NEW p \in Procs, Reserving(p)'
          PROVE  /\ type'[HASH_ID(cmd'[p].id)] = "RESERVE"
                 /\ pc'[p] = "write" /\ cmd'[p].op = "L"
                      => id'[HASH_ID(cmd'[p].id)] = cmd'[p].id
      BY <2>1, HolderSlot DEF OwnerInv, ReservingInv, SameHolders, SameReserved, Reserving
    <2>2. QED
      BY <2>1 DEF OwnerInv, ReservingInv, SameHolders, Reserving
  <1>2. ASSUME NEW k \in DOMAIN pipe', ListenAt(k)'
        PROVE  \E j \in DOMAIN pipe : /\ ListenAt(j) /\ pipe[j] = pipe'[k]
                                      /\ j = IF pipe' = pipe THEN k ELSE k + 1
    BY <1>2 DEF ListenAt, Popped
  <1>3. ListenReserved'
    BY <1>2, HolderSlot DEF OwnerInv, ListenInv, ListenReserved, SameReserved
  <1>4. ASSUME NEW p \in Procs, NEW k \in DOMAIN pipe', Reserving(p)', ListenAt(k)'
        PROVE  HASH_ID(cmd'[p].id) # HASH_ID(pipe'[k].id)
    BY <1>2, <1>4 DEF OwnerInv, ListenInv, SameHolders
  <1>5. ASSUME NEW j \in DOMAIN pipe', NEW k \in DOMAIN pipe', ListenAt(j)', ListenAt(k)',
               HASH_ID(pipe'[j].id) = HASH_ID(pipe'[k].id)
        PROVE  j = k
    <2>1. CASE pipe' = pipe
      BY <1>5, <2>1 DEF OwnerInv, ListenInv, ListenAt
    <2>2. CASE Popped
      <3>1. j \in Nat /\ k \in Nat
        BY <2>2 DEF Popped
      <3>2. j + 1 = k + 1
        BY <1>5, <2>2 DEF OwnerInv, ListenInv, ListenAt, Popped
      <3>3. QED
        BY <3>1, <3>2
    <2>3. QED
      BY <2>1, <2>2
  <1>6. QED
    BY <1>1, <1>3, <1>4, <1>5 DEF OwnerInv, ListenInv

(* The compare-and-swap succeeds on a slot nobody holds.                    *)
LEMMA OwnerCas ==
  ASSUME TypeInv, OwnerInv, NEW p \in Procs, GenCas(p)
  PROVE  OwnerInv'
  <1> DEFINE s == HASH_ID(cmd[p].id)
  <1>1. CASE type[s] # "INVALID"
    BY <1>1, OwnerFrame DEF GenCas, SameHolders, SameReserved, Reserving, TypeInv, TypeOK
  <1>2. CASE type[s] = "INVALID"
    <2>1. s \in Slots
      BY HolderSlot DEF GenCas
    <2>2. /\ type' = [type EXCEPT ![s] = "RESERVE"] /\ type[s] # "RESERVE"
          /\ pc' = [pc EXCEPT ![p] = "own"]
          /\ UNCHANGED <<id, pipe, cmd>>
      BY <1>2 DEF GenCas
    <2>3. \A q \in Procs : Reserving(q)' <=> q = p \/ Reserving(q)
      BY <2>2 DEF Reserving, TypeInv, TypeOK
    <2>4. \A q \in Procs : Reserving(q) => HASH_ID(cmd[q].id) # s
      BY <2>2 DEF OwnerInv, ReservingInv
    <2>5. \A k \in DOMAIN pipe : ListenAt(k) => HASH_ID(pipe[k].id) # s
      BY <2>2 DEF OwnerInv, ListenInv, ListenReserved
    <2>6. \A r \in Slots : type[r] = "RESERVE" => type'[r] = "RESERVE"
      BY <2>1, <2>2 DEF TypeInv, TypeOK
    <2>7. type'[s] = "RESERVE"
      BY <2>1, <2>2 DEF TypeInv, TypeOK
    <2>8. ReservingInv'
      <3>1. \A q \in Procs : Reserving(q)' => type'[HASH_ID(cmd'[q].id)] = "RESERVE"
        BY <2>2, <2>3, <2>6, <2>7, HolderSlot DEF OwnerInv, ReservingInv, Reserving
      <3>2. \A q \in Procs : pc'[q] = "write" /\ cmd'[q].op = "L"
                               => id'[HASH_ID(cmd'[q].id)] = cmd'[q].id
        BY <2>2 DEF OwnerInv, ReservingInv, TypeInv, TypeOK
      <3>3. \A q, r \in Procs : Reserving(q)' /\ Reserving(r)'
              /\ HASH_ID(cmd'[q].id) = HASH_ID(cmd'[r].id) => q = r
        BY <2>2, <2>3, <2>4 DEF OwnerInv, ReservingInv
      <3>4. QED
        BY <3>1, <3>2, <3>3 DEF ReservingInv
    <2>9. ListenInv'
      <3>1. ListenReserved'
        BY <2>2, <2>6, HolderSlot DEF OwnerInv, ListenInv, ListenReserved, ListenAt
      <3>2. QED
        BY <2>2, <2>3, <2>5, <3>1 DEF OwnerInv, ListenInv, ListenAt
    <2>10. QED
      BY <2>8, <2>9 DEF OwnerInv
  <1>3. QED
    BY <1>1, <1>2

(* The winner writes the id, and stays the holder or makes the socket.      *)
LEMMA OwnerOwn ==
  ASSUME TypeInv, OwnerInv, NEW p \in Procs, GenOwn(p)
  PROVE  OwnerInv'
  <1> DEFINE s == HASH_ID(cmd[p].id)
  <1>1. /\ Reserving(p) /\ s \in Slots /\ type[s] = "RESERVE" /\ cmd[p] \in Commands
    BY HolderSlot DEF GenOwn, Reserving, OwnerInv, ReservingInv, TypeInv, BusyHasCommand
  <1>2. cmd' = cmd
    <2>1. cmd' = [cmd EXCEPT ![p] = [op |-> cmd[p].op, id |-> cmd[p].id]]
      BY DEF GenOwn, Post
    <2>2. cmd[p] = [op |-> cmd[p].op, id |-> cmd[p].id]
      BY <1>1 DEF Commands
    <2>3. QED
      BY <2>1, <2>2 DEF TypeInv, TypeOK
  <1>3. pipe' = pipe /\ pc' = [pc EXCEPT ![p] = "write"] /\ pc[p] = "own"
    BY DEF GenOwn, Post
  <1>4. /\ id' = [id EXCEPT ![s] = cmd[p].id]
        /\ \A r \in Slots : r # s => type'[r] = type[r]
    BY <1>1 DEF GenOwn, new_socket, TypeInv, TypeOK
  <1>5. \A q \in Procs : q # p => (Reserving(q)' <=> Reserving(q))
    BY <1>2, <1>3 DEF Reserving, TypeInv, TypeOK
  <1>6. \A q \in Procs : q # p /\ Reserving(q) => HASH_ID(cmd[q].id) # s
    BY <1>1 DEF OwnerInv, ReservingInv
  <1>7. \A k \in DOMAIN pipe : ListenAt(k) => HASH_ID(pipe[k].id) # s
    BY <1>1 DEF OwnerInv, ListenInv
  <1>8. Reserving(p)' => type'[s] = "RESERVE" /\ id'[s] = cmd[p].id
    <2>1. CASE p = Net
      BY <1>2, <1>3, <2>1 DEF GenOwn, Reserving, TypeInv, TypeOK, BusyHasCommand
    <2>2. CASE p # Net
      BY <1>1, <1>4, <2>2 DEF GenOwn, TypeInv, TypeOK
    <2>3. QED
      BY <2>1, <2>2
  <1>9. ReservingInv'
    <2>1. ASSUME NEW q \in Procs, Reserving(q)'
          PROVE  /\ type'[HASH_ID(cmd'[q].id)] = "RESERVE"
                 /\ pc'[q] = "write" /\ cmd'[q].op = "L"
                      => id'[HASH_ID(cmd'[q].id)] = cmd'[q].id
      <3>1. CASE q = p
        BY <1>2, <1>8, <2>1, <3>1
      <3>2. CASE q # p
        <4>1. Reserving(q) /\ HASH_ID(cmd[q].id) # s /\ HASH_ID(cmd[q].id) \in Slots
          BY <1>5, <1>6, <2>1, <3>2, HolderSlot DEF Reserving
        <4>2. pc'[q] = pc[q]
          BY <1>3, <3>2 DEF TypeInv, TypeOK
        <4>3. QED
          BY <1>2, <1>4, <4>1, <4>2 DEF OwnerInv, ReservingInv, TypeInv, TypeOK
      <3>3. QED
        BY <3>1, <3>2
    <2>2. \A q, r \in Procs : Reserving(q)' /\ Reserving(r)'
              /\ HASH_ID(cmd'[q].id) = HASH_ID(cmd'[r].id) => q = r
      BY <1>1, <1>2, <1>5 DEF OwnerInv, ReservingInv
    <2>3. QED
      BY <2>1, <2>2 DEF ReservingInv, Reserving
  <1>10. ListenInv'
    <2>1. ListenReserved'
      BY <1>3, <1>4, <1>7, HolderSlot
      DEF OwnerInv, ListenInv, ListenReserved, ListenAt, TypeInv, TypeOK
    <2>2. QED
      BY <1>1, <1>2, <1>3, <1>5, <2>1 DEF OwnerInv, ListenInv, ListenAt
  <1>11. QED
    BY <1>9, <1>10 DEF OwnerInv

(* A listen command takes its slot with it into the pipe.                   *)
LEMMA OwnerWrite ==
  ASSUME TypeInv, OwnerInv, NEW p \in Procs, WritePipe(p)
  PROVE  OwnerInv'
  <1> DEFINE n == Len(pipe) + 1
  <1>1. /\ pc[p] = "write" /\ pc' = [pc EXCEPT ![p] = "idle"]
        /\ pipe' = Append(pipe, cmd[p]) /\ UNCHANGED <<type, id>>
        /\ cmd[p] \in Commands
    BY DEF WritePipe, Return, sockets, TypeInv, BusyHasCommand
  <1>2. \A q \in Procs : q # p => pc'[q] = pc[q] /\ cmd'[q] = cmd[q]
    BY <1>1 DEF WritePipe, Return, TypeInv, TypeOK
  <1>3. ~ Reserving(p)'
    BY <1>1 DEF Reserving, TypeInv, TypeOK
  <1>4. \A q \in Procs : Reserving(q)' => q # p /\ Reserving(q)
    BY <1>2, <1>3 DEF Reserving
  <1>5. \A k \in DOMAIN pipe' : \/ k \in DOMAIN pipe /\ pipe'[k] = pipe[k] /\ k # n
                                \/ k = n /\ pipe'[k] = cmd[p]
    BY <1>1 DEF TypeInv, TypeOK
  <1>6. \A k \in DOMAIN pipe' : ListenAt(k)' =>
             \/ k \in DOMAIN pipe /\ ListenAt(k) /\ pipe'[k] = pipe[k] /\ k # n
             \/ k = n /\ pipe'[k] = cmd[p] /\ Reserving(p) /\ cmd[p].op = "L"
    BY <1>1, <1>5 DEF ListenAt, Reserving
  <1>7. ReservingInv'
    <2>1. ASSUME NEW q \in Procs, Reserving(q)'
          PROVE  /\ type'[HASH_ID(cmd'[q].id)] = "RESERVE"
                 /\ pc'[q] = "write" /\ cmd'[q].op = "L"
                      => id'[HASH_ID(cmd'[q].id)] = cmd'[q].id
      BY <1>1, <1>2, <1>4, <2>1 DEF OwnerInv, ReservingInv
    <2>2. QED
      BY <1>2, <1>4, <2>1 DEF OwnerInv, ReservingInv, Reserving
  <1>8. ListenReserved'
    BY <1>1, <1>6 DEF OwnerInv, ListenInv, ListenReserved, ReservingInv
  <1>9. ASSUME NEW q \in Procs, NEW k \in DOMAIN pipe', Reserving(q)', ListenAt(k)'
        PROVE  HASH_ID(cmd'[q].id) # HASH_ID(pipe'[k].id)
    <2>1. Reserving(q) /\ q # p /\ cmd'[q] = cmd[q]
      BY <1>2, <1>4, <1>9
    <2>2. CASE k \in DOMAIN pipe /\ ListenAt(k) /\ pipe'[k] = pipe[k]
      BY <2>1, <2>2 DEF OwnerInv, ListenInv
    <2>3. CASE pipe'[k] = cmd[p] /\ Reserving(p)
      BY <2>1, <2>3 DEF OwnerInv, ReservingInv
    <2>4. QED
      BY <1>6, <1>9, <2>2, <2>3
  <1>10. ASSUME NEW j \in DOMAIN pipe', NEW k \in DOMAIN pipe', ListenAt(j)', ListenAt(k)',
                HASH_ID(pipe'[j].id) = HASH_ID(pipe'[k].id)
         PROVE  j = k
    BY <1>6, <1>10 DEF OwnerInv, ListenInv
  <1>11. QED
    BY <1>7, <1>8, <1>9, <1>10 DEF OwnerInv, ListenInv

(* listen_socket makes the socket of the slot its command holds.            *)
LEMMA OwnerListen ==
  ASSUME TypeInv, OwnerInv, NEW e \in events, ExecListen(e)
  PROVE  OwnerInv'
  <1> DEFINE s == HASH_ID(pipe[1].id)
  <1>1. /\ pipe # <<>> /\ pipe' = Tail(pipe) /\ 1 \in DOMAIN pipe /\ ListenAt(1)
        /\ UNCHANGED <<pc, cmd>>
    BY DEF ExecListen, Read, control, ListenAt, TypeInv, TypeOK
  <1>2. s \in Slots /\ type[s] = "RESERVE"
    BY <1>1, HolderSlot DEF OwnerInv, ListenInv, ListenReserved
  <1>3. \A r \in Slots : r # s => type'[r] = type[r] /\ id'[r] = id[r]
    <2>1. new_socket(s, pipe[1].id, "PLISTEN")
      BY <1>1 DEF ExecListen, listen_socket, TypeInv, TypeOK
    <2>2. QED
      BY <1>2, <2>1 DEF new_socket, TypeInv, TypeOK
  <1>4. \A p \in Procs : Reserving(p) => HASH_ID(cmd[p].id) # s
    BY <1>1 DEF OwnerInv, ListenInv
  <1>5. \A k \in DOMAIN pipe : ListenAt(k) /\ k # 1 => HASH_ID(pipe[k].id) # s
    BY <1>1 DEF OwnerInv, ListenInv
  <1>6. \A k \in DOMAIN pipe' : /\ k \in Nat /\ k + 1 \in DOMAIN pipe /\ k + 1 # 1
                                /\ pipe'[k] = pipe[k + 1]
                                /\ ListenAt(k)' => ListenAt(k + 1)
    BY <1>1, PoppedTail DEF Popped, ListenAt, TypeInv, TypeOK
  <1>7. ReservingInv'
    <2>1. ASSUME NEW p \in Procs, Reserving(p)
          PROVE  /\ type'[HASH_ID(cmd[p].id)] = "RESERVE"
                 /\ pc[p] = "write" /\ cmd[p].op = "L"
                      => id'[HASH_ID(cmd[p].id)] = cmd[p].id
      BY <1>3, <1>4, <2>1, HolderSlot DEF OwnerInv, ReservingInv, Reserving
    <2>2. QED
      BY <1>1, <2>1 DEF OwnerInv, ReservingInv, Reserving
  <1>8. ListenReserved'
    BY <1>3, <1>5, <1>6, HolderSlot DEF OwnerInv, ListenInv, ListenReserved
  <1>9. ASSUME NEW p \in Procs, NEW k \in DOMAIN pipe', Reserving(p)', ListenAt(k)'
        PROVE  HASH_ID(cmd'[p].id) # HASH_ID(pipe'[k].id)
    BY <1>1, <1>6, <1>9 DEF OwnerInv, ListenInv, Reserving
  <1>10. ASSUME NEW j \in DOMAIN pipe', NEW k \in DOMAIN pipe', ListenAt(j)', ListenAt(k)',
                HASH_ID(pipe'[j].id) = HASH_ID(pipe'[k].id)
         PROVE  j = k
    <2>1. j + 1 = k + 1
      BY <1>6, <1>10 DEF OwnerInv, ListenInv
    <2>2. QED
      BY <1>6, <2>1
  <1>11. QED
    BY <1>7, <1>8, <1>9, <1>10 DEF OwnerInv, ListenInv

LEMMA OwnerStep == TypeInv /\ OwnerInv /\ [Next]_vars => OwnerInv'
  <1>1. SUFFICES ASSUME TypeInv, OwnerInv, [Next]_vars PROVE OwnerInv'
    OBVIOUS
  <1>2. CASE UNCHANGED <<type, id, pipe, pc, cmd>>
    BY <1>1, <1>2, OwnerFrame DEF SameHolders, SameReserved, Reserving
  <1>3. ASSUME NEW p \in Procs, GenProbe(p) \/ GenFail(p)
        PROVE  OwnerInv'
    <2>1. SameHolders
      BY <1>1, <1>3 DEF GenProbe, GenFail, Return, SameHolders, Reserving, TypeInv, TypeOK
    <2>2. QED
      BY <1>1, <1>3, <2>1, OwnerFrame DEF GenProbe, GenFail, SameReserved, sockets
  <1>4. ASSUME NEW t \in Threads,
               CallListen(t) \/ CallStart(t) \/ CallClose(t) \/ CallSend(t)
        PROVE  OwnerInv'
    <2>1. SameHolders
      BY <1>1, <1>4 DEF CallListen, CallStart, CallClose, CallSend, Begin, Post,
                        SameHolders, Reserving, TypeInv, TypeOK, Procs
    <2>2. QED
      BY <1>1, <1>4, <2>1, OwnerFrame
      DEF CallListen, CallStart, CallClose, CallSend, SameReserved, sockets
  <1>5. ASSUME NEW e \in events, AcceptConnection(e) \/ ReadEof(e)
        PROVE  OwnerInv'
    <2>1. SameHolders
      BY <1>1, <1>5 DEF AcceptConnection, ReadEof, Begin, Post, SameHolders, Reserving,
                        TypeInv, TypeOK, Procs
    <2>2. QED
      BY <1>1, <1>5, <2>1, OwnerFrame DEF AcceptConnection, ReadEof, SameReserved, sockets
  <1>6. ASSUME NEW s \in Slots, force_close(s) PROVE SameReserved \/ id' # id
    BY <1>1, <1>6 DEF force_close, SameReserved, TypeInv, TypeOK
  <1>7. ASSUME NEW e \in events, ReadGone(e) PROVE OwnerInv'
    <2>1. SameReserved /\ SameHolders
      BY <1>1, <1>6, <1>7
      DEF ReadGone, control, SameHolders, Reserving, TypeInv, TypeOK
    <2>2. QED
      BY <1>1, <1>7, <2>1, OwnerFrame DEF ReadGone
  <1>8. ASSUME NEW e \in events, ExecStart(e) \/ ExecClose(e) \/ ExecSend(e)
        PROVE  OwnerInv'
    <2>1. SameReserved
      <3>1. CASE ExecStart(e)
        BY <1>1, <3>1
        DEF ExecStart, start_socket, engine_add, SameReserved, TypeInv, TypeOK
      <3>2. CASE ExecClose(e)
        BY <1>6, <3>2 DEF ExecClose, close_socket, SameReserved
      <3>3. CASE ExecSend(e)
        BY <1>6, <3>3 DEF ExecSend, send_socket, SameReserved
      <3>4. QED
        BY <1>8, <3>1, <3>2, <3>3
    <2>2. SameHolders
      BY <1>8 DEF ExecStart, ExecClose, ExecSend, control, SameHolders, Reserving
    <2>3. Popped
      BY <1>1, <1>8, PoppedTail DEF ExecStart, ExecClose, ExecSend, Read
    <2>4. QED
      BY <1>1, <2>1, <2>2, <2>3, OwnerFrame
  <1>9. CASE EngineWait
    BY <1>2, <1>9 DEF EngineWait, sockets, control
  <1>10. ASSUME NEW e \in events,
                AcceptNothing(e) \/ ReadData(e) \/ SkipInvalid(e) \/ AssertConnected(e)
         PROVE  OwnerInv'
    BY <1>2, <1>10 DEF AcceptNothing, ReadData, SkipInvalid, AssertConnected, sockets, control
  <1>11. CASE UNCHANGED vars
    BY <1>2, <1>11 DEF vars
  <1>12. QED
    BY <1>1, <1>3, <1>4, <1>5, <1>7, <1>8, <1>9, <1>10, <1>11, NextCases,
       OwnerCas, OwnerOwn, OwnerWrite, OwnerListen

(* Whatever happens between the call of socket_server_listen and the poll   *)
(* that takes its command, listen_socket finds the slot reserved for it.    *)
THEOREM ListenAlwaysReserved == Spec => []ListenReserved
  <1>1. Init => TypeInv /\ OwnerInv
    BY TypeInit, OwnerInit
  <1>2. TypeInv /\ OwnerInv /\ [Next]_vars => (TypeInv /\ OwnerInv)'
    BY TypeStep, OwnerStep
  <1>3. OwnerInv => ListenReserved
    BY DEF OwnerInv, ListenInv
  <1>4. QED
    BY <1>1, <1>2, <1>3, PTL DEF Spec

(* The other direction: every reserved slot has a holder.                   *)
Held(s) ==
  \/ \E p \in Procs : Reserving(p) /\ HASH_ID(cmd[p].id) = s
  \/ \E k \in DOMAIN pipe : ListenAt(k) /\ HASH_ID(pipe[k].id) = s

HeldInv == \A s \in Slots : type[s] = "RESERVE" => Held(s)

KeepsHolder(p) == Reserving(p) => Reserving(p)' /\ cmd'[p] = cmd[p]

KeepsListens ==
  \A k \in DOMAIN pipe : ListenAt(k) => \E j \in DOMAIN pipe' : pipe'[j] = pipe[k]

NoNewReserved == \A s \in Slots : type'[s] = "RESERVE" => type[s] = "RESERVE"

LEMMA HeldInit == Init => HeldInv
  BY DEF Init, HeldInv

LEMMA HeldFrame ==
  ASSUME HeldInv, NoNewReserved, \A p \in Procs : KeepsHolder(p), KeepsListens
  PROVE  HeldInv'
  <1>1. ASSUME NEW s \in Slots, type'[s] = "RESERVE" PROVE Held(s)'
    <2>1. Held(s)
      BY <1>1 DEF HeldInv, NoNewReserved
    <2>2. ASSUME NEW p \in Procs, Reserving(p), HASH_ID(cmd[p].id) = s
          PROVE  Reserving(p)' /\ HASH_ID(cmd'[p].id) = s
      BY <2>2 DEF KeepsHolder
    <2>3. ASSUME NEW k \in DOMAIN pipe, ListenAt(k), HASH_ID(pipe[k].id) = s
          PROVE  \E j \in DOMAIN pipe' : ListenAt(j)' /\ HASH_ID(pipe'[j].id) = s
      BY <2>3 DEF KeepsListens, ListenAt
    <2>4. QED
      BY <2>1, <2>2, <2>3 DEF Held
  <1>2. QED
    BY <1>1 DEF HeldInv

(* The head of the pipe goes; it is no listen command.                      *)
LEMMA PoppedListens ==
  ASSUME TypeInv, pipe # <<>>, pipe' = Tail(pipe), Head(pipe).op # "L"
  PROVE  KeepsListens
  <1>1. ASSUME NEW k \in DOMAIN pipe, ListenAt(k)
        PROVE  k - 1 \in DOMAIN pipe' /\ pipe'[k - 1] = pipe[k]
    <2>1. pipe \in Seq(Commands)
      BY DEF TypeInv, TypeOK
    <2>2. k \in 1 .. Len(pipe) /\ k # 1
      BY <1>1, <2>1 DEF ListenAt
    <2>3. QED
      BY <2>1, <2>2
  <1>2. QED
    BY <1>1 DEF KeepsListens

LEMMA HeldCas ==
  ASSUME TypeInv, HeldInv, NEW p \in Procs, GenCas(p)
  PROVE  HeldInv'
  <1> DEFINE s == HASH_ID(cmd[p].id)
  <1>1. KeepsListens
    BY DEF GenCas, KeepsListens
  <1>2. \A q \in Procs : KeepsHolder(q)
    BY DEF GenCas, KeepsHolder, Reserving, TypeInv, TypeOK
  <1>3. CASE type[s] # "INVALID"
    BY <1>1, <1>2, <1>3, HeldFrame DEF GenCas, NoNewReserved
  <1>4. CASE type[s] = "INVALID"
    <2>1. Reserving(p)' /\ cmd' = cmd
      BY <1>4 DEF GenCas, Reserving, TypeInv, TypeOK
    <2>2. ASSUME NEW r \in Slots, r = s PROVE Held(r)'
      BY <2>1, <2>2 DEF Held
    <2>3. ASSUME NEW r \in Slots, r # s, type'[r] = "RESERVE" PROVE Held(r)'
      <3>1. Held(r)
        BY <1>4, <2>3 DEF GenCas, HeldInv, TypeInv, TypeOK
      <3>2. CASE \E q \in Procs : Reserving(q) /\ HASH_ID(cmd[q].id) = r
        BY <1>2, <3>2 DEF Held, KeepsHolder
      <3>3. ASSUME NEW k \in DOMAIN pipe, ListenAt(k), HASH_ID(pipe[k].id) = r
            PROVE  Held(r)'
        <4>1. pipe' = pipe
          BY DEF GenCas
        <4>2. k \in DOMAIN pipe' /\ ListenAt(k)' /\ HASH_ID(pipe'[k].id) = r
          BY <3>3, <4>1 DEF ListenAt
        <4>3. QED
          BY <4>2 DEF Held
      <3>4. QED
        BY <3>1, <3>2, <3>3 DEF Held
    <2>4. QED
      BY <2>2, <2>3 DEF HeldInv
  <1>5. QED
    BY <1>3, <1>4

(* A listening thread keeps the slot; the network thread's is PACCEPT now.  *)
LEMMA HeldOwn ==
  ASSUME TypeInv, OwnerInv, HeldInv, NEW p \in Procs, GenOwn(p)
  PROVE  HeldInv'
  <1> DEFINE s == HASH_ID(cmd[p].id)
  <1>1. /\ Reserving(p) /\ s \in Slots /\ type[s] = "RESERVE" /\ cmd[p] \in Commands
    BY HolderSlot DEF GenOwn, Reserving, OwnerInv, ReservingInv, TypeInv, BusyHasCommand
  <1>2. cmd' = cmd
    <2>1. cmd' = [cmd EXCEPT ![p] = [op |-> cmd[p].op, id |-> cmd[p].id]]
      BY DEF GenOwn, Post
    <2>2. cmd[p] = [op |-> cmd[p].op, id |-> cmd[p].id]
      BY <1>1 DEF Commands
    <2>3. QED
      BY <2>1, <2>2 DEF TypeInv, TypeOK
  <1>3. pipe' = pipe /\ pc' = [pc EXCEPT ![p] = "write"] /\ pc[p] = "own"
    BY DEF GenOwn, Post
  <1>4. KeepsListens
    BY <1>3 DEF KeepsListens
  <1>5. \A q \in Procs : q # p => KeepsHolder(q)
    BY <1>2, <1>3 DEF KeepsHolder, Reserving, TypeInv, TypeOK
  <1>6. CASE p # Net
    <2>1. KeepsHolder(p)
      BY <1>2, <1>3, <1>6 DEF KeepsHolder, Reserving, TypeInv, TypeOK, BusyHasCommand, Procs
    <2>2. NoNewReserved
      BY <1>6 DEF GenOwn, NoNewReserved
    <2>3. QED
      BY <1>4, <1>5, <2>1, <2>2, HeldFrame
  <1>7. CASE p = Net
    <2>1. type' = [type EXCEPT ![s] = "PACCEPT"]
      BY <1>1, <1>7 DEF GenOwn, new_socket
    <2>2. ASSUME NEW r \in Slots, type'[r] = "RESERVE" PROVE Held(r)'
      <3>1. r # s /\ Held(r)
        BY <1>1, <2>1, <2>2 DEF HeldInv, TypeInv, TypeOK
      <3>2. CASE \E q \in Procs : Reserving(q) /\ HASH_ID(cmd[q].id) = r
        BY <1>5, <3>1, <3>2 DEF Held, KeepsHolder
      <3>3. CASE \E k \in DOMAIN pipe : ListenAt(k) /\ HASH_ID(pipe[k].id) = r
        BY <1>3, <3>3 DEF Held, ListenAt
      <3>4. QED
        BY <3>1, <3>2, <3>3 DEF Held
    <2>3. QED
      BY <2>2 DEF HeldInv
  <1>8. QED
    BY <1>6, <1>7

(* The holder hands its slot to the command it writes.                      *)
LEMMA HeldWrite ==
  ASSUME TypeInv, HeldInv, NEW p \in Procs, WritePipe(p)
  PROVE  HeldInv'
  <1> DEFINE n == Len(pipe) + 1
  <1>1. /\ pc[p] = "write" /\ pipe' = Append(pipe, cmd[p]) /\ type' = type
    BY DEF WritePipe, sockets
  <1>2. \A q \in Procs : q # p => pc'[q] = pc[q] /\ cmd'[q] = cmd[q]
    BY DEF WritePipe, Return, TypeInv, TypeOK
  <1>3. n \in DOMAIN pipe' /\ pipe'[n] = cmd[p]
    BY <1>1 DEF TypeInv, TypeOK
  <1>4. \A k \in DOMAIN pipe : k \in DOMAIN pipe' /\ pipe'[k] = pipe[k]
    BY <1>1 DEF TypeInv, TypeOK
  <1>5. ASSUME NEW s \in Slots, type'[s] = "RESERVE" PROVE Held(s)'
    <2>1. Held(s)
      BY <1>1, <1>5 DEF HeldInv
    <2>2. ASSUME NEW q \in Procs, Reserving(q), HASH_ID(cmd[q].id) = s PROVE Held(s)'
      <3>1. CASE q = p
        BY <1>1, <1>3, <2>2, <3>1 DEF Held, ListenAt, Reserving
      <3>2. CASE q # p
        BY <1>2, <2>2, <3>2 DEF Held, Reserving
      <3>3. QED
        BY <3>1, <3>2
    <2>3. ASSUME NEW k \in DOMAIN pipe, ListenAt(k), HASH_ID(pipe[k].id) = s
          PROVE  Held(s)'
      BY <1>4, <2>3 DEF Held, ListenAt
    <2>4. QED
      BY <2>1, <2>2, <2>3 DEF Held
  <1>6. QED
    BY <1>5 DEF HeldInv

LEMMA HeldListen ==
  ASSUME TypeInv, OwnerInv, HeldInv, NEW e \in events, ExecListen(e)
  PROVE  HeldInv'
  <1> DEFINE s == HASH_ID(pipe[1].id)
  <1>1. /\ pipe # <<>> /\ pipe' = Tail(pipe) /\ 1 \in DOMAIN pipe /\ ListenAt(1)
        /\ UNCHANGED <<pc, cmd>>
    BY DEF ExecListen, Read, control, ListenAt, TypeInv, TypeOK
  <1>2. s \in Slots /\ type[s] = "RESERVE"
    BY <1>1, HolderSlot DEF OwnerInv, ListenInv, ListenReserved
  <1>3. type' = [type EXCEPT ![s] = "PLISTEN"]
    <2>1. new_socket(s, pipe[1].id, "PLISTEN")
      BY <1>1 DEF ExecListen, listen_socket, TypeInv, TypeOK
    <2>2. QED
      BY <1>2, <2>1 DEF new_socket
  <1>4. ASSUME NEW r \in Slots, type'[r] = "RESERVE" PROVE Held(r)'
    <2>1. r # s /\ Held(r)
      BY <1>2, <1>3, <1>4 DEF HeldInv, TypeInv, TypeOK
    <2>2. CASE \E p \in Procs : Reserving(p) /\ HASH_ID(cmd[p].id) = r
      BY <1>1, <2>2 DEF Held, Reserving
    <2>3. ASSUME NEW k \in DOMAIN pipe, ListenAt(k), HASH_ID(pipe[k].id) = r
          PROVE  k - 1 \in DOMAIN pipe' /\ pipe'[k - 1] = pipe[k]
      <3>1. pipe \in Seq(Commands) /\ pipe' = Tail(pipe)
        BY <1>1 DEF TypeInv, TypeOK
      <3>2. k \in 1 .. Len(pipe) /\ k # 1
        BY <1>1, <2>1, <2>3, <3>1
      <3>3. QED
        BY <3>1, <3>2
    <2>4. CASE \E k \in DOMAIN pipe : ListenAt(k) /\ HASH_ID(pipe[k].id) = r
      BY <2>3, <2>4 DEF Held, ListenAt
    <2>5. QED
      BY <2>1, <2>2, <2>4 DEF Held
  <1>5. QED
    BY <1>4 DEF HeldInv

LEMMA HeldStep == TypeInv /\ OwnerInv /\ HeldInv /\ [Next]_vars => HeldInv'
  <1>1. SUFFICES ASSUME TypeInv, OwnerInv, HeldInv, [Next]_vars PROVE HeldInv'
    OBVIOUS
  <1>2. ASSUME UNCHANGED <<type, pipe, pc, cmd>> PROVE HeldInv'
    BY <1>1, <1>2, HeldFrame DEF NoNewReserved, KeepsHolder, KeepsListens, Reserving
  <1>3. ASSUME NEW p \in Procs, GenProbe(p) \/ GenFail(p) PROVE HeldInv'
    <2>1. \A q \in Procs : KeepsHolder(q)
      BY <1>1, <1>3 DEF GenProbe, GenFail, Return, KeepsHolder, Reserving, TypeInv, TypeOK
    <2>2. QED
      BY <1>1, <1>3, <2>1, HeldFrame
      DEF GenProbe, GenFail, NoNewReserved, KeepsListens, sockets
  <1>4. ASSUME NEW t \in Threads,
               CallListen(t) \/ CallStart(t) \/ CallClose(t) \/ CallSend(t)
        PROVE  HeldInv'
    <2>1. \A q \in Procs : KeepsHolder(q)
      BY <1>1, <1>4 DEF CallListen, CallStart, CallClose, CallSend, Begin, Post,
                        KeepsHolder, Reserving, TypeInv, TypeOK, Procs
    <2>2. QED
      BY <1>1, <1>4, <2>1, HeldFrame
      DEF CallListen, CallStart, CallClose, CallSend, NoNewReserved, KeepsListens, sockets
  <1>5. ASSUME NEW e \in events, AcceptConnection(e) \/ ReadEof(e) PROVE HeldInv'
    <2>1. \A q \in Procs : KeepsHolder(q)
      BY <1>1, <1>5 DEF AcceptConnection, ReadEof, NextEvent, Polling, Begin, Post,
                        KeepsHolder, Reserving, TypeInv, TypeOK, Procs
    <2>2. QED
      BY <1>1, <1>5, <2>1, HeldFrame
      DEF AcceptConnection, ReadEof, NoNewReserved, KeepsListens, sockets
  <1>6. ASSUME NEW s \in Slots, force_close(s) PROVE NoNewReserved
    BY <1>1, <1>6 DEF force_close, NoNewReserved, TypeInv, TypeOK
  <1>7. ASSUME NEW e \in events, ReadGone(e) PROVE HeldInv'
    <2>1. NoNewReserved
      BY <1>1, <1>6, <1>7 DEF ReadGone, TypeInv, TypeOK
    <2>2. QED
      BY <1>1, <1>7, <2>1, HeldFrame
      DEF ReadGone, control, KeepsHolder, KeepsListens, Reserving
  <1>8. ASSUME NEW e \in events, ExecStart(e) \/ ExecClose(e) \/ ExecSend(e)
        PROVE  HeldInv'
    <2>1. NoNewReserved
      <3>1. CASE ExecStart(e)
        BY <1>1, <3>1
        DEF ExecStart, start_socket, engine_add, NoNewReserved, TypeInv, TypeOK
      <3>2. CASE ExecClose(e)
        BY <1>6, <3>2 DEF ExecClose, close_socket, NoNewReserved
      <3>3. CASE ExecSend(e)
        BY <1>6, <3>3 DEF ExecSend, send_socket, NoNewReserved
      <3>4. QED
        BY <1>8, <3>1, <3>2, <3>3
    <2>2. \A p \in Procs : KeepsHolder(p)
      BY <1>8 DEF ExecStart, ExecClose, ExecSend, control, KeepsHolder, Reserving
    <2>3. KeepsListens
      BY <1>1, <1>8, PoppedListens DEF ExecStart, ExecClose, ExecSend, Read
    <2>4. QED
      BY <1>1, <2>1, <2>2, <2>3, HeldFrame
  <1>9. CASE EngineWait
    BY <1>2, <1>9 DEF EngineWait, sockets, control
  <1>10. ASSUME NEW e \in events,
                AcceptNothing(e) \/ ReadData(e) \/ SkipInvalid(e) \/ AssertConnected(e)
         PROVE  HeldInv'
    BY <1>2, <1>10 DEF AcceptNothing, ReadData, SkipInvalid, AssertConnected, sockets, control
  <1>11. CASE UNCHANGED vars
    BY <1>2, <1>11 DEF vars
  <1>12. QED
    BY <1>1, <1>3, <1>4, <1>5, <1>7, <1>8, <1>9, <1>10, <1>11, NextCases,
       HeldCas, HeldOwn, HeldWrite, HeldListen

(* No two holders, as OwnerInv says, and one for each reserved slot.        *)
LEMMA HoldersUnique ==
  ASSUME TypeInv, OwnerInv, NEW s \in Slots, NEW h \in Holders(s), NEW g \in Holders(s)
  PROVE  h = g /\ type[s] = "RESERVE"
  <1>1. ASSUME NEW x \in Holders(s)
        PROVE  \/ \E p \in Procs : /\ x = <<"thread", p>> /\ Reserving(p)
                                   /\ HASH_ID(cmd[p].id) = s
               \/ \E k \in DOMAIN pipe : /\ x = <<"pipe", k>> /\ ListenAt(k)
                                         /\ HASH_ID(pipe[k].id) = s
    BY DEF Holders
  <1>2. type[s] = "RESERVE"
    BY <1>1 DEF OwnerInv, ReservingInv, ListenInv, ListenReserved
  <1>3. h = g
    BY <1>1 DEF OwnerInv, ReservingInv, ListenInv
  <1>4. QED
    BY <1>2, <1>3

(* A slot that is RESERVE belongs to exactly one thread or listen command,  *)
(* and no other slot belongs to any: no two sockets are made in one slot,   *)
(* and no slot is lost for ever.                                            *)
THEOREM OwnershipCorrect == Spec => []OneHolder
  <1>1. Init => TypeInv /\ OwnerInv /\ HeldInv
    BY TypeInit, OwnerInit, HeldInit
  <1>2. TypeInv /\ OwnerInv /\ HeldInv /\ [Next]_vars => (TypeInv /\ OwnerInv /\ HeldInv)'
    BY TypeStep, OwnerStep, HeldStep
  <1>3. ASSUME TypeInv, OwnerInv, HeldInv PROVE OneHolder
    <2>1. ASSUME NEW s \in Slots, type[s] = "RESERVE"
          PROVE  \E h \in Holders(s) : Holders(s) = {h}
      <3>1. Held(s)
        BY <1>3, <2>1 DEF HeldInv
      <3>2. PICK h : h \in Holders(s)
        BY <3>1 DEF Held, Holders
      <3>3. \A g \in Holders(s) : g = h
        BY <1>3, <3>2, HoldersUnique
      <3>4. QED
        BY <3>2, <3>3
    <2>2. ASSUME NEW s \in Slots, type[s] # "RESERVE" PROVE Holders(s) = {}
      BY <1>3, <2>2, HoldersUnique
    <2>3. QED
      BY <2>1, <2>2 DEF OneHolder
  <1>4. QED
    BY <1>1, <1>2, <1>3, PTL DEF Spec

-----------------------------------------------------------------------------
(* The slot of the pipe.                                                    *)

SafeInv == TypeInv /\ OwnerInv /\ PipeInv

Live(s) == type[s] \notin {"INVALID", "RESERVE"}

(* A step that hands nobody the pipe's id, and changes no live slot's id.   *)
SafeNames ==
  /\ alloc_id' >= alloc_id
  /\ \A p \in Procs : cmd'[p].id # 1
  /\ \A k \in DOMAIN pipe' : pipe'[k].id # 1
  /\ 1 \notin known'

SafeSlots ==
  /\ \A s \in Slots : type'[s] = "PIPE" <=> s = PipeSlot
  /\ id'[PipeSlot] = 1
  /\ \A s \in Slots : Live(s)' => HASH_ID(id'[s]) = s

LEMMA PipeInit == Init => PipeInv
  BY PipeSlotType DEF Init, PipeInv, NoCmd, NoId, PipeSlot

LEMMA PipeFrame ==
  ASSUME TypeInv, TypeInv', PipeInv, SafeNames, SafeSlots
  PROVE  PipeInv'
  <1>1. alloc_id \in Nat /\ alloc_id' \in Nat /\ alloc_id' >= 1
    BY DEF TypeInv, TypeOK, PipeInv, SafeNames
  <1>2. QED
    BY <1>1 DEF PipeInv, SafeNames, SafeSlots, Live

(* The slots, step by step.                                                 *)
LEMMA SafeForceClose ==
  ASSUME SafeInv, NEW s \in Slots, s # PipeSlot, force_close(s), id' = id
  PROVE  SafeSlots
  BY DEF SafeInv, TypeInv, TypeOK, PipeInv, SafeSlots, Live, force_close

LEMMA SafeNewSocket ==
  ASSUME SafeInv, NEW i \in Ids, NEW t \in {"PLISTEN", "PACCEPT"},
         new_socket(HASH_ID(i), i, t)
  PROVE  SafeSlots
  BY HashType, PipeSlotType
  DEF SafeInv, TypeInv, TypeOK, PipeInv, SafeSlots, Live, new_socket

LEMMA SafeUnchanged ==
  ASSUME SafeInv, UNCHANGED <<type, id>>
  PROVE  SafeSlots
  BY DEF SafeInv, PipeInv, SafeSlots, Live

LEMMA SafeSlotsStep == SafeInv /\ Next => SafeSlots
  <1>1. SUFFICES ASSUME SafeInv, Next PROVE SafeSlots
    OBVIOUS
  <1>2. TypeInv /\ OwnerInv /\ PipeInv
    BY <1>1 DEF SafeInv
  <1>3. ASSUME NEW p \in Procs, GenCas(p) PROVE SafeSlots
    <2>1. HASH_ID(cmd[p].id) \in Slots
      BY <1>2, <1>3, HolderSlot DEF GenCas
    <2>2. QED
      BY <1>2, <1>3, <2>1 DEF GenCas, PipeInv, TypeInv, TypeOK, SafeSlots, Live
  <1>4. ASSUME NEW p \in Procs, GenOwn(p) PROVE SafeSlots
    <2>1. cmd[p].id \in Ids /\ HASH_ID(cmd[p].id) \in Slots
      BY <1>2, <1>4, HolderSlot DEF GenOwn
    <2>2. type[HASH_ID(cmd[p].id)] = "RESERVE"
      BY <1>2, <1>4 DEF GenOwn, OwnerInv, ReservingInv, Reserving
    <2>3. CASE p = Net
      BY <1>1, <1>4, <2>1, <2>3, SafeNewSocket DEF GenOwn
    <2>4. CASE p # Net
      BY <1>2, <1>4, <2>1, <2>2, <2>4, PipeSlotType
      DEF GenOwn, PipeInv, TypeInv, TypeOK, SafeSlots, Live
    <2>5. QED
      BY <2>3, <2>4
  <1>5. ASSUME NEW e \in events, ReadGone(e) PROVE SafeSlots
    <2>1. e.slot \in Slots /\ e.slot # PipeSlot
      BY <1>2, <1>5 DEF ReadGone, NextEvent, TypeInv, TypeOK, PipeInv
    <2>2. QED
      BY <1>1, <1>5, <2>1, SafeForceClose DEF ReadGone
  <1>6. ASSUME NEW e \in events,
               ExecStart(e) \/ ExecListen(e) \/ ExecClose(e) \/ ExecSend(e)
        PROVE  SafeSlots
    <2>1. pipe # <<>> /\ 1 \in DOMAIN pipe /\ Head(pipe) = pipe[1]
      BY <1>2, <1>6 DEF ExecStart, ExecListen, ExecClose, ExecSend, Read, TypeInv, TypeOK
    <2>2. Head(pipe).id \in Ids /\ Head(pipe).id # 1
      BY <1>2, <2>1, HolderSlot DEF PipeInv
    <2>3. \A s \in Slots : Found(Head(pipe), s) => s # PipeSlot
      BY <1>2, <2>2 DEF Found, PipeInv
    <2>4. CASE ExecStart(e)
      BY <1>1, <1>2, <2>4, SafeUnchanged
      DEF ExecStart, start_socket, engine_add, PipeInv, TypeInv, TypeOK, SafeSlots, Live
    <2>5. CASE ExecListen(e)
      BY <1>1, <2>2, <2>5, SafeNewSocket DEF ExecListen, listen_socket
    <2>6. CASE ExecClose(e)
      BY <1>1, <2>3, <2>6, SafeForceClose, SafeUnchanged DEF ExecClose, close_socket
    <2>7. CASE ExecSend(e)
      BY <1>1, <2>3, <2>7, SafeForceClose, SafeUnchanged DEF ExecSend, send_socket
    <2>8. QED
      BY <1>6, <2>4, <2>5, <2>6, <2>7
  <1>7. ASSUME NEW p \in Procs, GenProbe(p) \/ GenFail(p) \/ WritePipe(p)
        PROVE  SafeSlots
    BY <1>1, <1>7, SafeUnchanged DEF GenProbe, GenFail, WritePipe, sockets
  <1>8. ASSUME NEW t \in Threads,
               CallListen(t) \/ CallStart(t) \/ CallClose(t) \/ CallSend(t)
        PROVE  SafeSlots
    BY <1>1, <1>8, SafeUnchanged DEF CallListen, CallStart, CallClose, CallSend, sockets
  <1>9. CASE EngineWait
    BY <1>1, <1>9, SafeUnchanged DEF EngineWait, sockets
  <1>10. ASSUME NEW e \in events,
                AcceptNothing(e) \/ AcceptConnection(e) \/ ReadData(e) \/ ReadEof(e)
                  \/ SkipInvalid(e) \/ AssertConnected(e)
         PROVE  SafeSlots
    BY <1>1, <1>10, SafeUnchanged
    DEF AcceptNothing, AcceptConnection, ReadData, ReadEof, SkipInvalid, AssertConnected,
        sockets
  <1>11. QED
    BY <1>1, <1>3, <1>4, <1>5, <1>6, <1>7, <1>8, <1>9, <1>10, NextCases

LEMMA SafeNamesStep == SafeInv /\ Next => SafeNames
  <1>1. SUFFICES ASSUME SafeInv, Next PROVE SafeNames
    OBVIOUS
  <1>2. TypeInv /\ PipeInv
    BY <1>1 DEF SafeInv
  <1>3. CASE UNCHANGED <<alloc_id, cmd, pipe, known>>
    BY <1>2, <1>3 DEF TypeInv, TypeOK, PipeInv, SafeNames
  <1>4. ASSUME NEW p \in Procs, GenProbe(p) PROVE SafeNames
    BY <1>2, <1>4 DEF GenProbe, TypeInv, TypeOK, BusyHasCommand, Commands, PipeInv, SafeNames
  <1>5. ASSUME NEW p \in Procs, GenCas(p) PROVE SafeNames
    BY <1>3, <1>5 DEF GenCas
  <1>6. ASSUME NEW p \in Procs, GenFail(p) PROVE SafeNames
    BY <1>2, <1>6 DEF GenFail, Return, NoCmd, NoId, TypeInv, TypeOK, PipeInv, SafeNames
  <1>7. ASSUME NEW p \in Procs, GenOwn(p) PROVE SafeNames
    BY <1>2, <1>7 DEF GenOwn, Post, TypeInv, TypeOK, PipeInv, SafeNames
  <1>8. ASSUME NEW p \in Procs, WritePipe(p) PROVE SafeNames
    <2>1. \A k \in DOMAIN pipe' : pipe'[k].id # 1
      BY <1>2, <1>8 DEF WritePipe, TypeInv, TypeOK, BusyHasCommand, PipeInv
    <2>2. QED
      BY <1>2, <1>8, <2>1
      DEF WritePipe, Return, NoCmd, NoId, TypeInv, TypeOK, PipeInv, SafeNames
  <1>9. ASSUME NEW t \in Threads,
               CallListen(t) \/ CallStart(t) \/ CallClose(t) \/ CallSend(t)
        PROVE  SafeNames
    <2>1. PICK c \in Commands : c.id # 1 /\ cmd' = [cmd EXCEPT ![t] = c]
      <3>1. CASE CallListen(t)
        <4>1. cmd' = [cmd EXCEPT ![t] = [op |-> "L", id |-> NoId]]
          BY <3>1 DEF CallListen, Begin
        <4>2. NoId \in Ids /\ NoId # 1
          BY DEF Ids, NoId
        <4>3. QED
          BY <4>1, <4>2 DEF Commands
      <3>2. CASE CallStart(t)
        <4>1. PICK i \in known \cup {NoId} : Post(t, "S", i)
          BY <3>2 DEF CallStart
        <4>2. known \subseteq Ids /\ 1 \notin known
          BY <1>2 DEF TypeInv, TypeOK, PipeInv
        <4>3. NoId \in Ids /\ NoId # 1
          BY DEF Ids, NoId
        <4>4. i \in Ids /\ i # 1
          BY <4>2, <4>3
        <4>5. QED
          BY <4>1, <4>4 DEF Post, Commands
      <3>3. CASE CallClose(t)
        BY <1>2, <3>3 DEF CallClose, Post, Commands, TypeInv, TypeOK, PipeInv
      <3>4. CASE CallSend(t)
        BY <1>2, <3>4 DEF CallSend, Post, Commands, TypeInv, TypeOK, PipeInv
      <3>5. QED
        BY <1>9, <3>1, <3>2, <3>3, <3>4
    <2>2. UNCHANGED <<alloc_id, pipe, known>>
      BY <1>9 DEF CallListen, CallStart, CallClose, CallSend
    <2>3. QED
      BY <1>2, <2>1, <2>2 DEF TypeInv, TypeOK, PipeInv, SafeNames
  <1>10. CASE EngineWait
    BY <1>3, <1>10 DEF EngineWait, control
  <1>11. ASSUME NEW e \in events,
                ExecStart(e) \/ ExecListen(e) \/ ExecClose(e) \/ ExecSend(e)
         PROVE  SafeNames
    <2>1. pipe # <<>> /\ pipe' = Tail(pipe) /\ UNCHANGED <<alloc_id, cmd, known>>
      BY <1>11 DEF ExecStart, ExecListen, ExecClose, ExecSend, Read, control
    <2>2. Popped
      BY <1>2, <2>1, PoppedTail
    <2>3. QED
      BY <1>2, <2>1, <2>2 DEF Popped, TypeInv, TypeOK, PipeInv, SafeNames
  <1>12. ASSUME NEW e \in events,
                AcceptNothing(e) \/ ReadData(e) \/ ReadGone(e) \/ SkipInvalid(e)
                  \/ AssertConnected(e)
         PROVE  SafeNames
    BY <1>3, <1>12 DEF AcceptNothing, ReadData, ReadGone, SkipInvalid, AssertConnected,
                       control
  <1>13. ASSUME NEW e \in events, AcceptConnection(e) PROVE SafeNames
    BY <1>2, <1>13 DEF AcceptConnection, Begin, NoId, TypeInv, TypeOK, PipeInv, SafeNames
  <1>14. ASSUME NEW e \in events, ReadEof(e) PROVE SafeNames
    <2>1. e.slot \in Slots /\ type[e.slot] = "CONNECTED"
      BY <1>2, <1>14 DEF ReadEof, NextEvent, TypeInv, TypeOK
    <2>2. id[e.slot] # 1
      BY <1>2, <2>1 DEF PipeInv, PipeSlot
    <2>3. QED
      BY <1>2, <1>14, <2>2 DEF ReadEof, Post, sockets, TypeInv, TypeOK, PipeInv, SafeNames
  <1>15. QED
    BY <1>1, <1>4, <1>5, <1>6, <1>7, <1>8, <1>9, <1>10, <1>11, <1>12, <1>13, <1>14,
       NextCases

LEMMA SafeStep == SafeInv /\ [Next]_vars => SafeInv'
  <1>1. CASE UNCHANGED vars
    <2>1. SafeInv => SafeInv'
      BY <1>1, TypeStep, OwnerStep, Zenon DEF vars, SafeInv, PipeInv
    <2>2. QED
      BY <2>1
  <1>2. CASE SafeInv /\ Next
    BY <1>2, TypeStep, OwnerStep, SafeNamesStep, SafeSlotsStep, PipeFrame DEF SafeInv
  <1>3. QED
    BY <1>1, <1>2

-----------------------------------------------------------------------------
(* Events of sockets that are gone.                                         *)

Gone == {"INVALID", "RESERVE", "PACCEPT"}

LEMMA EventInit == Init => EventInv
  BY DEF Init, EventInv

(* A step that takes no new events, and disturbs the slots of those that    *)
(* are left only when their sockets are gone already.                       *)
LEMMA EventFrame ==
  ASSUME TypeInv, EventInv, events' \subseteq events,
         \A e \in events' : e.slot # PipeSlot =>
           \/ type'[e.slot] = type[e.slot] /\ id'[e.slot] = id[e.slot]
           \/ type[e.slot] \in Gone /\ type'[e.slot] \in Gone
  PROVE  EventInv'
  <1>1. PipeEvent' => PipeEvent
    BY DEF PipeEvent
  <1>2. ASSUME NEW e \in events', e.slot # PipeSlot
        PROVE  \/ type'[e.slot] \in {"LISTEN", "CONNECTED"} /\ id'[e.slot] = e.id
               \/ type'[e.slot] \in Gone /\ ~PipeEvent'
    BY <1>1, <1>2 DEF EventInv, Gone
  <1>3. \A e, f \in events' : e.slot = f.slot => e = f
    BY DEF EventInv
  <1>4. QED
    BY <1>2, <1>3 DEF EventInv, Gone

(* What the batch's one command does to a socket that is in use.            *)
LEMMA CommandEffect ==
  ASSUME SafeInv, NEW e \in events, Command(e),
         NEW s \in Slots, type[s] \in {"LISTEN", "CONNECTED"}
  PROVE  \/ type'[s] = type[s] /\ id'[s] = id[s]
         \/ type'[s] = "INVALID"
  <1>1. type \in [Slots -> Types] /\ id \in [Slots -> Ids]
    BY DEF SafeInv, TypeInv, TypeOK
  <1>2. CASE ExecStart(e)
    BY <1>1, <1>2 DEF ExecStart, start_socket, engine_add
  <1>3. CASE ExecListen(e)
    BY <1>1, <1>3 DEF ExecListen, listen_socket, new_socket
  <1>4. CASE ExecClose(e)
    BY <1>1, <1>4 DEF ExecClose, close_socket, force_close
  <1>5. CASE ExecSend(e)
    BY <1>1, <1>5 DEF ExecSend, send_socket, force_close
  <1>6. QED
    BY <1>2, <1>3, <1>4, <1>5 DEF Command

LEMMA EventStep ==
  SafeInv /\ RegisteredMatchesType /\ EventInv /\ [Next]_vars => EventInv'
  <1>1. SUFFICES ASSUME SafeInv, RegisteredMatchesType, EventInv, [Next]_vars
                 PROVE  EventInv'
    OBVIOUS
  <1>2. TypeInv /\ OwnerInv /\ PipeInv
    BY <1>1 DEF SafeInv
  <1>3. \A e \in events : e.slot \in Slots
    BY <1>2 DEF TypeInv, TypeOK
  <1>4. CASE UNCHANGED <<type, id>> /\ events' \subseteq events
    BY <1>1, <1>2, <1>4, EventFrame
  <1>5. ASSUME NEW p \in Procs, GenCas(p) PROVE EventInv'
    <2>1. HASH_ID(cmd[p].id) \in Slots
      BY <1>2, <1>5, HolderSlot DEF GenCas
    <2>2. \A s \in Slots : \/ type'[s] = type[s] /\ id'[s] = id[s]
                           \/ type[s] \in Gone /\ type'[s] \in Gone
      BY <1>2, <1>5, <2>1 DEF GenCas, TypeInv, TypeOK, Gone
    <2>3. events' = events
      BY <1>5 DEF GenCas
    <2>4. QED
      BY <1>1, <1>2, <1>3, <2>2, <2>3, EventFrame
  <1>6. ASSUME NEW p \in Procs, GenOwn(p) PROVE EventInv'
    <2>1. HASH_ID(cmd[p].id) \in Slots /\ type[HASH_ID(cmd[p].id)] = "RESERVE"
      BY <1>2, <1>6, HolderSlot DEF GenOwn, OwnerInv, ReservingInv, Reserving
    <2>2. \A s \in Slots : \/ type'[s] = type[s] /\ id'[s] = id[s]
                           \/ type[s] \in Gone /\ type'[s] \in Gone
      BY <1>2, <1>6, <2>1 DEF GenOwn, new_socket, TypeInv, TypeOK, Gone
    <2>3. events' = events
      BY <1>6 DEF GenOwn
    <2>4. QED
      BY <1>1, <1>2, <1>3, <2>2, <2>3, EventFrame
  <1>7. CASE EngineWait
    <2>1. PICK batch \in SUBSET reg :
            events' = {[slot |-> s, id |-> id[s]] : s \in batch}
      BY <1>7 DEF EngineWait
    <2>2. \A e \in events' : e.slot # PipeSlot => e.slot \in reg /\ e.id = id[e.slot]
      BY <2>1
    <2>3. \A e, f \in events' : e.slot = f.slot => e = f
      BY <2>1
    <2>4. \A e \in events' : e.slot # PipeSlot =>
            type[e.slot] \in {"LISTEN", "CONNECTED"} /\ e.id = id[e.slot]
      BY <1>1, <1>2, <2>2 DEF RegisteredMatchesType, PipeInv
    <2>5. UNCHANGED <<type, id>>
      BY <1>7 DEF EngineWait, sockets
    <2>6. QED
      BY <2>3, <2>4, <2>5 DEF EventInv
  <1>8. ASSUME NEW e \in events, Command(e) PROVE EventInv'
    <2>1. type[e.slot] = "PIPE" /\ events' = events \ {e}
      BY <1>8 DEF Command, ExecStart, ExecListen, ExecClose, ExecSend, Read, NextEvent
    <2>2. e.slot = PipeSlot /\ PipeEvent
      BY <1>2, <1>3, <2>1 DEF PipeInv, PipeEvent
    <2>3. \A f \in events' : f \in events /\ f.slot # PipeSlot
      BY <1>1, <2>1, <2>2 DEF EventInv
    <2>4. ~PipeEvent'
      BY <2>3 DEF PipeEvent
    <2>5. \A f \in events' : type[f.slot] \in {"LISTEN", "CONNECTED"} /\ id[f.slot] = f.id
      BY <1>1, <2>2, <2>3 DEF EventInv
    <2>6. \A f \in events' :
            \/ type'[f.slot] \in {"LISTEN", "CONNECTED"} /\ id'[f.slot] = f.id
            \/ type'[f.slot] = "INVALID"
      BY <1>1, <1>3, <1>8, <2>3, <2>5, CommandEffect
    <2>7. QED
      BY <1>1, <2>3, <2>4, <2>6 DEF EventInv
  <1>9. ASSUME NEW e \in events, ReadGone(e) PROVE EventInv'
    <2>1. events' = events \ {e} /\ id' = id /\ force_close(e.slot)
      BY <1>9 DEF ReadGone, NextEvent
    <2>2. \A f \in events' : f.slot # e.slot
      BY <1>1, <2>1 DEF EventInv
    <2>3. \A f \in events' : type'[f.slot] = type[f.slot] /\ id'[f.slot] = id[f.slot]
      BY <1>2, <1>3, <2>1, <2>2 DEF force_close, TypeInv, TypeOK
    <2>4. QED
      BY <1>1, <1>2, <2>1, <2>3, EventFrame
  <1>10. ASSUME NEW p \in Procs, GenProbe(p) \/ GenFail(p) \/ WritePipe(p)
         PROVE  EventInv'
    BY <1>4, <1>10 DEF GenProbe, GenFail, WritePipe, sockets
  <1>11. ASSUME NEW t \in Threads,
                CallListen(t) \/ CallStart(t) \/ CallClose(t) \/ CallSend(t)
         PROVE  EventInv'
    BY <1>4, <1>11 DEF CallListen, CallStart, CallClose, CallSend, sockets
  <1>12. ASSUME NEW e \in events,
                AcceptNothing(e) \/ AcceptConnection(e) \/ ReadData(e) \/ ReadEof(e)
                  \/ SkipInvalid(e) \/ AssertConnected(e)
         PROVE  EventInv'
    BY <1>4, <1>12
    DEF AcceptNothing, AcceptConnection, ReadData, ReadEof, SkipInvalid, AssertConnected,
        NextEvent, sockets
  <1>13. CASE UNCHANGED vars
    BY <1>4, <1>13 DEF vars
  <1>14. QED
    BY <1>1, <1>5, <1>6, <1>7, <1>8, <1>9, <1>10, <1>11, <1>12, <1>13, NextCases
    DEF Command

-----------------------------------------------------------------------------
LEMMA IInvIsSafe ==
  IInv <=> SafeInv /\ RegisteredMatchesType /\ EventInv
  BY DEF IInv, SafeInv, TypeInv, OwnerInv

LEMMA Induction ==
  /\ Init => IInv
  /\ IInv /\ [Next]_vars => IInv'
  <1>1. Init => IInv
    BY TypeInit, OwnerInit, PipeInit, EventInit, RegisteredInit, IInvIsSafe DEF SafeInv
  <1>2. IInv /\ [Next]_vars => (SafeInv /\ RegisteredMatchesType /\ EventInv)'
    BY IInvIsSafe, SafeStep, EventStep, RegisteredStep DEF SafeInv
  <1>3. IInv /\ [Next]_vars => IInv'
    BY <1>2 DEF IInv, SafeInv, TypeInv, OwnerInv
  <1>4. QED
    BY <1>1, <1>3

LEMMA Invariance == Spec => []IInv
  BY Induction, PTL DEF Spec

(* In every behaviour, an event on which socket_server_poll accepts or reads*)
(* belongs to the socket that now has the slot: the id it was collected for *)
(* is still there, although sockets are closed and slots taken again while  *)
(* a batch is worked off.                                                   *)
THEOREM StaleEventsAreSafe == Spec => []StaleEventSafe
  <1>1. IInv => StaleEventSafe
    <2>1. SUFFICES ASSUME IInv, NEW e \in events, type[e.slot] \in {"LISTEN", "CONNECTED"}
                   PROVE  id[e.slot] = e.id
      BY DEF StaleEventSafe
    <2>2. e.slot \in Slots
      BY <2>1 DEF IInv, TypeOK
    <2>3. e.slot # PipeSlot
      BY <2>1, <2>2 DEF IInv, PipeInv
    <2>4. QED
      BY <2>1, <2>3 DEF IInv, EventInv
  <1>2. QED
    BY <1>1, Invariance, PTL

-----------------------------------------------------------------------------
(* What a step may do to a slot.                                            *)

LEMMA LegalClose ==
  ASSUME IInv, NEW s \in Slots, s # PipeSlot, type[s] # "INVALID", force_close(s), id' = id
  PROVE  LifeCycleStep
  <1>1. type[s] \in Types /\ type[s] # "PIPE" /\ type \in [Slots -> Types]
    BY DEF IInv, TypeOK, PipeInv
  <1>2. CASE type[s] = "RESERVE"
    BY <1>2 DEF force_close, LifeCycleStep
  <1>3. CASE type[s] # "RESERVE"
    <2>1. <<type[s], "INVALID">> \in LegalSteps
      BY <1>1, <1>3 DEF LegalSteps, Types
    <2>2. type' = [type EXCEPT ![s] = "INVALID"]
      BY <1>3 DEF force_close
    <2>3. QED
      BY <1>1, <2>1, <2>2 DEF LifeCycleStep
  <1>4. QED
    BY <1>2, <1>3

LEMMA LegalNew ==
  ASSUME IInv, NEW s \in Slots, NEW i \in Ids, NEW t \in {"PLISTEN", "PACCEPT"},
         new_socket(s, i, t)
  PROVE  LifeCycleStep
  <1>1. <<"RESERVE", t>> \in LegalSteps
    BY DEF LegalSteps
  <1>2. type \in [Slots -> Types] /\ id \in [Slots -> Ids]
    BY DEF IInv, TypeOK
  <1>3. QED
    BY <1>1, <1>2 DEF new_socket, LifeCycleStep

LEMMA LegalStart ==
  ASSUME IInv, NEW c, start_socket(c)
  PROVE  LifeCycleStep
  <1>1. type \in [Slots -> Types] /\ id' = id
    BY DEF IInv, TypeOK, start_socket
  <1>2. <<"PLISTEN", "LISTEN">> \in LegalSteps /\ <<"PACCEPT", "CONNECTED">> \in LegalSteps
    BY DEF LegalSteps
  <1>3. CASE type' = type
    BY <1>1, <1>3 DEF LifeCycleStep
  <1>4. CASE \E s \in Slots : type[s] = "PLISTEN" /\ type' = [type EXCEPT ![s] = "LISTEN"]
    BY <1>1, <1>2, <1>4 DEF LifeCycleStep
  <1>5. CASE \E s \in Slots : type[s] = "PACCEPT" /\ type' = [type EXCEPT ![s] = "CONNECTED"]
    BY <1>1, <1>2, <1>5 DEF LifeCycleStep
  <1>6. QED
    BY <1>3, <1>4, <1>5 DEF start_socket, engine_add

(* The slot and the id of the command at the head of the pipe.              *)
LEMMA HeadCommand ==
  ASSUME IInv, pipe # <<>>
  PROVE  /\ Head(pipe) \in Commands /\ Head(pipe).id \in Ids
         /\ HASH_ID(Head(pipe).id) \in Slots
         /\ \A s \in Slots : Found(Head(pipe), s) =>
              s # PipeSlot /\ type[s] # "INVALID" /\ id[s] = Head(pipe).id
         /\ Head(pipe).op = "L" => id[HASH_ID(Head(pipe).id)] = Head(pipe).id
  <1>1. TypeInv
    BY DEF IInv, TypeInv
  <1>2. 1 \in DOMAIN pipe /\ Head(pipe) = pipe[1]
    BY DEF IInv, TypeOK
  <1>3. QED
    BY <1>1, <1>2, HolderSlot
    DEF IInv, PipeInv, Found, ListenInv, ListenReserved, ListenAt

LEMMA LegalNext == IInv /\ [Next]_vars => [LifeCycleStep]_vars
  <1>1. SUFFICES ASSUME IInv, Next PROVE LifeCycleStep
    BY DEF vars
  <1>2. /\ TypeInv /\ OwnerInv /\ PipeInv
        /\ type \in [Slots -> Types] /\ id \in [Slots -> Ids]
    BY <1>1 DEF IInv, TypeInv, OwnerInv, TypeOK
  <1>3. CASE UNCHANGED <<type, id>>
    BY <1>3 DEF LifeCycleStep
  <1>4. ASSUME NEW p \in Procs, GenCas(p) PROVE LifeCycleStep
    <2>1. <<"INVALID", "RESERVE">> \in LegalSteps
      BY DEF LegalSteps
    <2>2. QED
      BY <1>2, <1>4, <2>1 DEF GenCas, LifeCycleStep
  <1>5. ASSUME NEW p \in Procs, GenOwn(p) PROVE LifeCycleStep
    <2>1. /\ cmd[p].id \in Ids /\ HASH_ID(cmd[p].id) \in Slots
          /\ type[HASH_ID(cmd[p].id)] = "RESERVE"
      BY <1>2, <1>5, HolderSlot DEF GenOwn, OwnerInv, ReservingInv, Reserving
    <2>2. CASE p = Net
      BY <1>1, <1>5, <2>1, <2>2, LegalNew DEF GenOwn
    <2>3. CASE p # Net
      BY <1>2, <1>5, <2>1, <2>3 DEF GenOwn, LifeCycleStep
    <2>4. QED
      BY <2>2, <2>3
  <1>6. ASSUME NEW e \in events, ReadGone(e) PROVE LifeCycleStep
    <2>1. e.slot \in Slots /\ type[e.slot] = "CONNECTED" /\ e.slot # PipeSlot
      BY <1>2, <1>6 DEF ReadGone, NextEvent, TypeInv, TypeOK, PipeInv
    <2>2. QED
      BY <1>1, <1>6, <2>1, LegalClose DEF ReadGone
  <1>7. ASSUME NEW e \in events, Command(e) PROVE LifeCycleStep
    <2>1. pipe # <<>>
      BY <1>7 DEF Command, ExecStart, ExecListen, ExecClose, ExecSend, Read
    <2>2. CASE ExecStart(e)
      BY <1>1, <2>2, LegalStart DEF ExecStart
    <2>3. CASE ExecListen(e)
      BY <1>1, <2>1, <2>3, HeadCommand, LegalNew DEF ExecListen, listen_socket
    <2>4. CASE ExecClose(e)
      BY <1>1, <1>3, <2>1, <2>4, HeadCommand, LegalClose DEF ExecClose, close_socket
    <2>5. CASE ExecSend(e)
      BY <1>1, <1>3, <2>1, <2>5, HeadCommand, LegalClose DEF ExecSend, send_socket
    <2>6. QED
      BY <1>7, <2>2, <2>3, <2>4, <2>5 DEF Command
  <1>8. ASSUME NEW p \in Procs, GenProbe(p) \/ GenFail(p) \/ WritePipe(p)
        PROVE  LifeCycleStep
    BY <1>3, <1>8 DEF GenProbe, GenFail, WritePipe, sockets
  <1>9. ASSUME NEW t \in Threads,
               CallListen(t) \/ CallStart(t) \/ CallClose(t) \/ CallSend(t)
        PROVE  LifeCycleStep
    BY <1>3, <1>9 DEF CallListen, CallStart, CallClose, CallSend, sockets
  <1>10. CASE EngineWait
    BY <1>3, <1>10 DEF EngineWait, sockets
  <1>11. ASSUME NEW e \in events,
                AcceptNothing(e) \/ AcceptConnection(e) \/ ReadData(e) \/ ReadEof(e)
                  \/ SkipInvalid(e) \/ AssertConnected(e)
         PROVE  LifeCycleStep
    BY <1>3, <1>11
    DEF AcceptNothing, AcceptConnection, ReadData, ReadEof, SkipInvalid, AssertConnected,
        sockets
  <1>12. QED
    BY <1>1, <1>4, <1>5, <1>6, <1>7, <1>8, <1>9, <1>10, <1>11, NextCases DEF Command

(* No interleaving of threads, commands and events takes a slot through its *)
(* types in another order than INVALID, RESERVE, waiting, in use, INVALID,  *)
(* touches the pipe's slot, or changes the id of a socket during its life.  *)
THEOREM LifeCycleObeyed == Spec => LifeCycle
  <1>1. QED
    BY LegalNext, Invariance, PTL DEF Spec, LifeCycle

-----------------------------------------------------------------------------
(* Whose messages wait in the write lists.                                  *)

LEMMA DataInit == Init => DataStaysWithItsSocket
  BY DEF Init, DataStaysWithItsSocket

(* The next socket of a slot comes with empty lists, or the program stops.  *)
LEMMA DataNew ==
  ASSUME IInv, DataStaysWithItsSocket, aborted = "no", NEW s \in Slots, NEW i, NEW t,
         new_socket(s, i, t), queued' = queued
  PROVE  DataStaysWithItsSocket'
  <1>1. type \in [Slots -> Types] /\ id \in [Slots -> Ids]
    BY DEF IInv, TypeOK
  <1>2. CASE type[s] # "RESERVE"
    BY <1>2 DEF new_socket, DataStaysWithItsSocket
  <1>3. CASE type[s] = "RESERVE" /\ queued[s] # {}
    BY <1>3 DEF new_socket, DataStaysWithItsSocket
  <1>4. CASE type[s] = "RESERVE" /\ queued[s] = {}
    <2>1. \A r \in Slots : r # s => type'[r] = type[r] /\ id'[r] = id[r]
      BY <1>1, <1>4 DEF new_socket
    <2>2. SUFFICES ASSUME NEW r \in Slots, type'[r] \notin {"INVALID", "RESERVE"}
                   PROVE  queued[r] \subseteq {id'[r]}
      BY DEF DataStaysWithItsSocket
    <2>3. QED
      BY <1>4, <2>1, <2>2 DEF DataStaysWithItsSocket
  <1>5. QED
    BY <1>2, <1>3, <1>4

(* A socket that is closed leaves its lists to a slot that is INVALID.      *)
LEMMA DataClose ==
  ASSUME IInv, DataStaysWithItsSocket, aborted = "no", NEW s \in Slots, force_close(s),
         UNCHANGED <<id, queued>>
  PROVE  DataStaysWithItsSocket'
  <1>1. type \in [Slots -> Types]
    BY DEF IInv, TypeOK
  <1>2. CASE type[s] = "RESERVE"
    BY <1>2 DEF force_close, DataStaysWithItsSocket
  <1>3. CASE type[s] # "RESERVE"
    BY <1>1, <1>3 DEF force_close, DataStaysWithItsSocket
  <1>4. QED
    BY <1>2, <1>3

(* The types of an open socket differ in nothing that matters here.         *)
LEMMA DataStart ==
  ASSUME IInv, DataStaysWithItsSocket, aborted = "no", NEW c, start_socket(c)
  PROVE  DataStaysWithItsSocket'
  <1>1. type \in [Slots -> Types] /\ UNCHANGED <<id, queued>>
    BY DEF IInv, TypeOK, start_socket
  <1>2. CASE type' = type
    BY <1>1, <1>2 DEF DataStaysWithItsSocket
  <1>3. CASE \E s \in Slots : \E t \in Types :
               type[s] \in {"PLISTEN", "PACCEPT"} /\ type' = [type EXCEPT ![s] = t]
    BY <1>1, <1>3 DEF DataStaysWithItsSocket
  <1>4. QED
    BY <1>2, <1>3 DEF start_socket, engine_add, Types

(* What is queued is queued for the id that the slot has, be the socket     *)
(* open or its slot only reserved.                                          *)
LEMMA DataSend ==
  ASSUME IInv, DataStaysWithItsSocket, aborted = "no", NEW c, send_socket(c)
  PROVE  DataStaysWithItsSocket'
  <1>1. type \in [Slots -> Types] /\ queued \in [Slots -> SUBSET Ids] /\ id' = id
    BY DEF IInv, TypeOK, send_socket
  <1>2. CASE UNCHANGED <<type, queued>>
    BY <1>1, <1>2 DEF DataStaysWithItsSocket
  <1>3. ASSUME NEW s \in Slots, force_close(s), UNCHANGED queued
        PROVE  DataStaysWithItsSocket'
    BY <1>1, <1>3, DataClose
  <1>4. ASSUME NEW s \in Slots, Found(c, s), type' = type,
               \E q \in {{c.id}, queued[s] \cup {c.id}} : queued' = [queued EXCEPT ![s] = q]
        PROVE  DataStaysWithItsSocket'
    <2>1. id[s] = c.id /\ queued'[s] \subseteq queued[s] \cup {c.id}
      BY <1>1, <1>4 DEF Found
    <2>2. \A r \in Slots : r # s => queued'[r] = queued[r]
      BY <1>1, <1>4
    <2>3. QED
      BY <1>1, <1>4, <2>1, <2>2 DEF DataStaysWithItsSocket
  <1>5. QED
    BY <1>2, <1>3, <1>4 DEF send_socket

LEMMA DataStep ==
  IInv /\ DataStaysWithItsSocket /\ [Next]_vars => DataStaysWithItsSocket'
  <1>1. SUFFICES ASSUME IInv, DataStaysWithItsSocket, [Next]_vars
                 PROVE  DataStaysWithItsSocket'
    OBVIOUS
  <1>2. CASE UNCHANGED vars
    BY <1>1, <1>2 DEF vars, DataStaysWithItsSocket
  <1>3. CASE Next
    <2>1. /\ aborted = "no" /\ OwnerInv
          /\ type \in [Slots -> Types] /\ id \in [Slots -> Ids]
      BY <1>1, <1>3, NextCases DEF IInv, TypeInv, OwnerInv, TypeOK
    <2>2. CASE UNCHANGED <<type, id, queued>>
      BY <1>1, <2>1, <2>2 DEF DataStaysWithItsSocket
    <2>3. ASSUME NEW p \in Procs, GenCas(p) PROVE DataStaysWithItsSocket'
      BY <1>1, <2>1, <2>3 DEF GenCas, DataStaysWithItsSocket
    <2>4. ASSUME NEW p \in Procs, GenOwn(p) PROVE DataStaysWithItsSocket'
      <3>1. HASH_ID(cmd[p].id) \in Slots /\ type[HASH_ID(cmd[p].id)] = "RESERVE"
        BY <1>1, <2>1, <2>4, HolderSlot
        DEF IInv, TypeInv, GenOwn, OwnerInv, ReservingInv, Reserving
      <3>2. CASE p = Net
        BY <1>1, <2>1, <2>4, <3>1, <3>2, DataNew DEF GenOwn
      <3>3. CASE p # Net
        BY <1>1, <2>1, <2>4, <3>1, <3>3 DEF GenOwn, DataStaysWithItsSocket
      <3>4. QED
        BY <3>2, <3>3
    <2>5. ASSUME NEW e \in events, ReadGone(e) PROVE DataStaysWithItsSocket'
      BY <1>1, <2>1, <2>5, DataClose DEF ReadGone, IInv, TypeOK
    <2>6. ASSUME NEW e \in events, Command(e) PROVE DataStaysWithItsSocket'
      <3>1. CASE ExecStart(e)
        BY <1>1, <2>1, <3>1, DataStart DEF ExecStart
      <3>2. CASE ExecListen(e)
        <4>1. HASH_ID(Head(pipe).id) \in Slots
          BY <1>1, <3>2, HeadCommand DEF ExecListen, Read
        <4>2. QED
          BY <1>1, <2>1, <3>2, <4>1, DataNew DEF ExecListen, listen_socket
      <3>3. CASE ExecClose(e)
        BY <1>1, <2>1, <2>2, <3>3, DataClose DEF ExecClose, close_socket
      <3>4. CASE ExecSend(e)
        BY <1>1, <2>1, <3>4, DataSend DEF ExecSend
      <3>5. QED
        BY <2>6, <3>1, <3>2, <3>3, <3>4 DEF Command
    <2>7. ASSUME NEW p \in Procs, GenProbe(p) \/ GenFail(p) \/ WritePipe(p)
          PROVE  DataStaysWithItsSocket'
      BY <2>2, <2>7 DEF GenProbe, GenFail, WritePipe, sockets
    <2>8. ASSUME NEW t \in Threads,
                 CallListen(t) \/ CallStart(t) \/ CallClose(t) \/ CallSend(t)
          PROVE  DataStaysWithItsSocket'
      BY <2>2, <2>8 DEF CallListen, CallStart, CallClose, CallSend, sockets
    <2>9. CASE EngineWait
      BY <2>2, <2>9 DEF EngineWait, sockets
    <2>10. ASSUME NEW e \in events,
                  AcceptNothing(e) \/ AcceptConnection(e) \/ ReadData(e) \/ ReadEof(e)
                    \/ SkipInvalid(e) \/ AssertConnected(e)
           PROVE  DataStaysWithItsSocket'
      BY <2>2, <2>10
      DEF AcceptNothing, AcceptConnection, ReadData, ReadEof, SkipInvalid, AssertConnected,
          sockets
    <2>11. QED
      BY <1>3, <2>3, <2>4, <2>5, <2>6, <2>7, <2>8, <2>9, <2>10, NextCases DEF Command
  <1>4. QED
    BY <1>1, <1>2, <1>3

(* Whatever is closed, reserved and opened again while sends wait in the    *)
(* pipe, no open socket ever has a message in its write lists that was sent *)
(* to another id.  A send carried out on a slot between its reservation and *)
(* the writing of its id does queue for the socket before; the theorem says *)
(* that new_socket then never lets the next socket have it.                 *)
THEOREM DataNeverCrossesOver == Spec => []DataStaysWithItsSocket
  <1>1. Init => DataStaysWithItsSocket
    BY DataInit
  <1>2. IInv /\ DataStaysWithItsSocket /\ [Next]_vars => DataStaysWithItsSocket'
    BY DataStep
  <1>3. QED
    BY <1>1, <1>2, Invariance, PTL DEF Spec

-----------------------------------------------------------------------------
(* Ids that are drawn.                                                      *)

DrawsNothing == \A p \in Procs : Drawn(p)' => Drawn(p) /\ cmd'[p].id = cmd[p].id

LEMMA FreshInit == Init => FreshInv
  BY DEF Init, FreshInv, Drawn, Reserving, NoCmd, NoId

LEMMA FreshFrame ==
  ASSUME TypeInv, FreshInv, DrawsNothing, UNCHANGED <<alloc_id, known, id>>,
         \A p \in Procs : cmd'[p].id <= alloc_id
  PROVE  FreshInv'
  <1>1. \A p \in Procs : Drawn(p)' => cmd'[p].id \notin known
    BY DEF FreshInv, DrawsNothing
  <1>2. \A p, q \in Procs : Drawn(p)' /\ Drawn(q)' /\ cmd'[p].id = cmd'[q].id => p = q
    BY DEF FreshInv, DrawsNothing
  <1>3. QED
    BY <1>1, <1>2 DEF FreshInv

(* A new number is above all that are in use.                               *)
LEMMA FreshProbe ==
  ASSUME TypeInv, FreshInv, NEW p \in Procs, GenProbe(p)
  PROVE  FreshInv'
  <1>1. /\ alloc_id' = alloc_id + 1 /\ alloc_id \in Nat
        /\ cmd'[p].id = alloc_id + 1
        /\ \A q \in Procs : q # p => cmd'[q] = cmd[q] /\ pc'[q] = pc[q]
        /\ UNCHANGED <<known, id>>
    BY DEF GenProbe, sockets, TypeInv, TypeOK, BusyHasCommand, Commands
  <1>2. known \subseteq Int /\ \A s \in Slots : id[s] \in Int
    BY DEF TypeInv, TypeOK, Ids, NoId
  <1>3. \A q \in Procs : cmd[q].id \in Int
    BY DEF TypeInv, TypeOK, Commands, NoCmd, Ids, NoId
  <1>4. ASSUME NEW i \in known PROVE i <= alloc_id' /\ i # alloc_id + 1
    <2>1. i \in Int /\ i <= alloc_id
      BY <1>2 DEF FreshInv
    <2>2. QED
      BY <1>1, <2>1
  <1>5. \A q \in Procs : cmd'[q].id <= alloc_id' /\ (q # p => cmd'[q].id # cmd'[p].id)
    BY <1>1, <1>3 DEF FreshInv
  <1>6. \A s \in Slots : id'[s] <= alloc_id'
    BY <1>1, <1>2 DEF FreshInv
  <1>7. \A q \in Procs : q # p => (Drawn(q)' <=> Drawn(q))
    BY <1>1 DEF Drawn, Reserving
  <1>8. \A q \in Procs : Drawn(q)' => cmd'[q].id \notin known'
    BY <1>1, <1>4, <1>7 DEF FreshInv
  <1>9. \A q, r \in Procs : Drawn(q)' /\ Drawn(r)' /\ cmd'[q].id = cmd'[r].id => q = r
    BY <1>1, <1>5, <1>7 DEF FreshInv
  <1>10. QED
    BY <1>1, <1>4, <1>5, <1>6, <1>8, <1>9 DEF FreshInv

(* An id becomes known when its drawer is through with it.                  *)
LEMMA FreshKnown ==
  ASSUME TypeInv, FreshInv, NEW p \in Procs, Drawn(p), alloc_id' = alloc_id,
         known' = known \cup {cmd[p].id}, ~ Drawn(p)',
         \A s \in Slots : id'[s] \in {id[s], cmd[p].id},
         DrawsNothing, \A q \in Procs : cmd'[q].id <= alloc_id
  PROVE  FreshInv'
  <1>1. \A i \in known' : i <= alloc_id
    BY DEF FreshInv
  <1>2. \A s \in Slots : id'[s] <= alloc_id
    BY DEF FreshInv
  <1>3. \A q \in Procs : Drawn(q)' => q # p /\ Drawn(q) /\ cmd'[q].id = cmd[q].id
    BY DEF DrawsNothing
  <1>4. \A q \in Procs : Drawn(q)' => cmd'[q].id \notin known'
    BY <1>3 DEF FreshInv
  <1>5. \A q, r \in Procs : Drawn(q)' /\ Drawn(r)' /\ cmd'[q].id = cmd'[r].id => q = r
    BY <1>3 DEF FreshInv
  <1>6. QED
    BY <1>1, <1>2, <1>4, <1>5 DEF FreshInv

LEMMA FreshOwn ==
  ASSUME TypeInv, OwnerInv, FreshInv, NEW p \in Procs, GenOwn(p)
  PROVE  FreshInv'
  <1> DEFINE s == HASH_ID(cmd[p].id)
  <1>1. /\ Reserving(p) /\ s \in Slots /\ type[s] = "RESERVE" /\ cmd[p] \in Commands
    BY HolderSlot DEF GenOwn, Reserving, OwnerInv, ReservingInv, TypeInv, BusyHasCommand
  <1>2. /\ pc' = [pc EXCEPT ![p] = "write"] /\ pc[p] = "own" /\ alloc_id' = alloc_id
        /\ id' = [id EXCEPT ![s] = cmd[p].id]
    BY <1>1 DEF GenOwn, Post, new_socket
  <1>3. cmd' = [cmd EXCEPT ![p] = [op |-> cmd[p].op, id |-> cmd[p].id]]
    BY DEF GenOwn, Post
  <1>4. \A q \in Procs : cmd'[q].id = cmd[q].id /\ cmd'[q].op = cmd[q].op
    BY <1>3 DEF TypeInv, TypeOK
  <1>5. \A q \in Procs : cmd'[q].id <= alloc_id
    BY <1>4 DEF FreshInv
  <1>6. DrawsNothing
    BY <1>1, <1>2, <1>4 DEF DrawsNothing, Drawn, Reserving, TypeInv, TypeOK
  <1>7. \A r \in Slots : id'[r] \in {id[r], cmd[p].id}
    BY <1>1, <1>2 DEF TypeInv, TypeOK
  <1>8. CASE p = Net
    <2>1. ~ Drawn(p)'
      BY <1>2, <1>4, <1>8 DEF Drawn, Reserving, TypeInv, TypeOK, BusyHasCommand
    <2>2. known' = known \cup {cmd[p].id}
      BY <1>8 DEF GenOwn
    <2>3. QED
      BY <1>1, <1>2, <1>5, <1>6, <1>7, <2>1, <2>2, FreshKnown DEF Drawn
  <1>9. CASE p # Net
    <2>1. known' = known
      BY <1>9 DEF GenOwn
    <2>2. \A r \in Slots : id'[r] <= alloc_id
      BY <1>7 DEF FreshInv
    <2>3. \A q \in Procs : Drawn(q)' => cmd'[q].id \notin known
      BY <1>6 DEF FreshInv, DrawsNothing
    <2>4. \A q, r \in Procs : Drawn(q)' /\ Drawn(r)' /\ cmd'[q].id = cmd'[r].id => q = r
      BY <1>6 DEF FreshInv, DrawsNothing
    <2>5. QED
      BY <1>2, <1>5, <2>1, <2>2, <2>3, <2>4 DEF FreshInv
  <1>10. QED
    BY <1>8, <1>9

LEMMA FreshWrite ==
  ASSUME TypeInv, FreshInv, NEW p \in Procs, WritePipe(p)
  PROVE  FreshInv'
  <1>1. /\ cmd' = [cmd EXCEPT ![p] = NoCmd] /\ pc' = [pc EXCEPT ![p] = "idle"]
        /\ pc[p] = "write" /\ UNCHANGED <<alloc_id, id>>
    BY DEF WritePipe, Return, sockets
  <1>2. NoCmd.id <= alloc_id
    BY DEF NoCmd, NoId, TypeInv, TypeOK
  <1>3. \A q \in Procs : cmd'[q].id <= alloc_id
    BY <1>1, <1>2 DEF FreshInv, TypeInv, TypeOK
  <1>4. ~ Drawn(p)' /\ DrawsNothing
    BY <1>1 DEF DrawsNothing, Drawn, Reserving, TypeInv, TypeOK
  <1>5. CASE cmd[p].op = "L"
    <2>1. known' = known \cup {cmd[p].id} /\ Drawn(p)
      BY <1>1, <1>5 DEF WritePipe, Drawn, Reserving
    <2>2. QED
      BY <1>1, <1>3, <1>4, <2>1, FreshKnown
  <1>6. CASE cmd[p].op # "L"
    BY <1>1, <1>3, <1>4, <1>6, FreshFrame DEF WritePipe
  <1>7. QED
    BY <1>5, <1>6

LEMMA FreshStep == TypeInv /\ OwnerInv /\ FreshInv /\ [Next]_vars => FreshInv'
  <1>1. SUFFICES ASSUME TypeInv, OwnerInv, FreshInv, [Next]_vars PROVE FreshInv'
    OBVIOUS
  <1>2. ASSUME UNCHANGED <<alloc_id, known, id, pc, cmd>> PROVE FreshInv'
    BY <1>2, <1>1, FreshFrame DEF FreshInv, DrawsNothing, Drawn, Reserving
  <1>3. ASSUME NEW p \in Procs, NEW c, c.id <= alloc_id, cmd' = [cmd EXCEPT ![p] = c],
               DrawsNothing, UNCHANGED <<alloc_id, known, id>>
        PROVE  FreshInv'
    <2>1. \A q \in Procs : cmd'[q].id <= alloc_id
      BY <1>1, <1>3 DEF FreshInv, TypeInv, TypeOK
    <2>2. QED
      BY <1>1, <1>3, <2>1, FreshFrame
  <1>4. \A i \in known \cup {NoId} : i <= alloc_id
    BY <1>1 DEF FreshInv, TypeInv, TypeOK, NoId
  <1>5. ASSUME NEW p \in Procs, GenCas(p) PROVE FreshInv'
    <2>1. DrawsNothing
      BY <1>1, <1>5 DEF GenCas, DrawsNothing, Drawn, Reserving, TypeInv, TypeOK
    <2>2. UNCHANGED <<alloc_id, known, id, cmd>>
      BY <1>5 DEF GenCas
    <2>3. \A q \in Procs : cmd'[q].id <= alloc_id
      BY <1>1, <2>2 DEF FreshInv
    <2>4. QED
      BY <1>1, <2>1, <2>2, <2>3, FreshFrame
  <1>6. ASSUME NEW p \in Procs, GenFail(p) PROVE FreshInv'
    <2>1. DrawsNothing
      BY <1>1, <1>6 DEF GenFail, Return, DrawsNothing, Drawn, Reserving, TypeInv, TypeOK
    <2>2. NoCmd.id <= alloc_id
      BY <1>4 DEF NoCmd
    <2>3. QED
      BY <1>3, <1>6, <2>1, <2>2 DEF GenFail, Return
  <1>7. ASSUME NEW t \in Threads,
               CallListen(t) \/ CallStart(t) \/ CallClose(t) \/ CallSend(t)
        PROVE  FreshInv'
    <2>1. DrawsNothing
      BY <1>1, <1>7 DEF CallListen, CallStart, CallClose, CallSend, Begin, Post,
                        DrawsNothing, Drawn, Reserving, TypeInv, TypeOK, Procs
    <2>2. \E op \in {"L", "S", "K", "D"} : \E i \in known \cup {NoId} :
            cmd' = [cmd EXCEPT ![t] = [op |-> op, id |-> i]]
      BY <1>7 DEF CallListen, CallStart, CallClose, CallSend, Begin, Post
    <2>3. UNCHANGED <<alloc_id, known, id>> /\ t \in Procs
      BY <1>7 DEF CallListen, CallStart, CallClose, CallSend, sockets, Procs
    <2>4. QED
      BY <1>3, <1>4, <2>1, <2>2, <2>3
  <1>8. ASSUME NEW e \in events, AcceptConnection(e) PROVE FreshInv'
    <2>1. DrawsNothing
      BY <1>1, <1>8 DEF AcceptConnection, Begin, DrawsNothing, Drawn, Reserving,
                        TypeInv, TypeOK, Procs
    <2>2. cmd' = [cmd EXCEPT ![Net] = [op |-> "S", id |-> NoId]]
      BY <1>8 DEF AcceptConnection, Begin
    <2>3. QED
      BY <1>3, <1>4, <1>8, <2>1, <2>2 DEF AcceptConnection, Procs
  <1>9. ASSUME NEW e \in events, ReadEof(e) PROVE FreshInv'
    <2>1. DrawsNothing
      BY <1>1, <1>9 DEF ReadEof, Post, DrawsNothing, Drawn, Reserving,
                        TypeInv, TypeOK, Procs
    <2>2. cmd' = [cmd EXCEPT ![Net] = [op |-> "K", id |-> id[e.slot]]]
      BY <1>9 DEF ReadEof, Post
    <2>3. id[e.slot] <= alloc_id
      BY <1>1 DEF FreshInv, TypeInv, TypeOK
    <2>4. QED
      BY <1>3, <1>9, <2>1, <2>2, <2>3 DEF ReadEof, sockets, Procs
  <1>10. ASSUME NEW e \in events, ExecListen(e) PROVE FreshInv'
    <2>1. /\ UNCHANGED <<pc, cmd, alloc_id, known>>
          /\ 1 \in DOMAIN pipe /\ ListenAt(1) /\ Head(pipe) = pipe[1]
      BY <1>1, <1>10 DEF ExecListen, Read, control, ListenAt, TypeInv, TypeOK
    <2>2. id[HASH_ID(pipe[1].id)] = pipe[1].id
      BY <1>1, <2>1 DEF OwnerInv, ListenInv, ListenReserved
    <2>3. id' = id
      BY <1>1, <1>10, <2>1, <2>2
      DEF ExecListen, listen_socket, new_socket, TypeInv, TypeOK
    <2>4. QED
      BY <1>2, <2>1, <2>3
  <1>11. ASSUME NEW e \in events, ExecStart(e) \/ ExecClose(e) \/ ExecSend(e)
         PROVE  FreshInv'
    BY <1>2, <1>11 DEF ExecStart, ExecClose, ExecSend, start_socket, close_socket,
                       send_socket, control
  <1>12. CASE EngineWait
    BY <1>2, <1>12 DEF EngineWait, sockets, control
  <1>13. ASSUME NEW e \in events,
                AcceptNothing(e) \/ ReadData(e) \/ ReadGone(e) \/ SkipInvalid(e)
                  \/ AssertConnected(e)
         PROVE  FreshInv'
    BY <1>2, <1>13 DEF AcceptNothing, ReadData, ReadGone, SkipInvalid, AssertConnected,
                       sockets, control
  <1>14. CASE UNCHANGED vars
    BY <1>2, <1>14 DEF vars
  <1>15. QED
    BY <1>1, <1>5, <1>6, <1>7, <1>8, <1>9, <1>10, <1>11, <1>12, <1>13, <1>14, NextCases,
       FreshProbe, FreshOwn, FreshWrite

(* Only listen_socket and the network thread's generate_id bring a socket   *)
(* to life, each with its own id.                                           *)
LEMMA ComesAlive ==
  ASSUME IInv, Next, NEW s \in Slots, type[s] = "RESERVE", type'[s] # "RESERVE"
  PROVE  \/ GenOwn(Net) /\ id'[s] = cmd[Net].id
         \/ Coming(id'[s])
  <1>1. TypeInv /\ OwnerInv /\ TypeOK
    BY DEF IInv, TypeInv, OwnerInv
  <1>2. ASSUME type' = type PROVE FALSE
    BY <1>2
  <1>3. ASSUME NEW r \in Slots, force_close(r) PROVE FALSE
    BY <1>1, <1>3 DEF force_close, TypeOK
  <1>4. ASSUME NEW p \in Procs, GenOwn(p) PROVE GenOwn(Net) /\ id'[s] = cmd[Net].id
    <2>1. p = Net
      BY <1>2, <1>4 DEF GenOwn
    <2>2. new_socket(HASH_ID(cmd[Net].id), cmd[Net].id, "PACCEPT")
      BY <1>4, <2>1 DEF GenOwn
    <2>3. QED
      BY <1>1, <1>4, <2>1, <2>2 DEF new_socket, TypeOK
  <1>5. ASSUME NEW e \in events, ExecListen(e) PROVE Coming(id'[s])
    <2>1. 1 \in DOMAIN pipe /\ ListenAt(1) /\ Head(pipe) = pipe[1]
      BY <1>1, <1>5 DEF ExecListen, Read, ListenAt, TypeOK
    <2>2. new_socket(HASH_ID(pipe[1].id), pipe[1].id, "PLISTEN")
      BY <1>5, <2>1 DEF ExecListen, listen_socket
    <2>3. id'[s] = pipe[1].id
      BY <1>1, <2>2 DEF new_socket, TypeOK
    <2>4. QED
      BY <2>1, <2>3 DEF Coming
  <1>6. ASSUME NEW p \in Procs, GenCas(p) PROVE FALSE
    BY <1>1, <1>6 DEF GenCas, TypeOK
  <1>7. ASSUME NEW e \in events, ExecStart(e) PROVE FALSE
    BY <1>1, <1>7 DEF ExecStart, start_socket, engine_add, TypeOK
  <1>8. ASSUME NEW e \in events, ExecClose(e) PROVE FALSE
    BY <1>2, <1>3, <1>8 DEF ExecClose, close_socket
  <1>9. ASSUME NEW e \in events, ExecSend(e) PROVE FALSE
    BY <1>2, <1>3, <1>9 DEF ExecSend, send_socket
  <1>10. ASSUME NEW e \in events, ReadGone(e) PROVE FALSE
    BY <1>1, <1>3, <1>10 DEF ReadGone, TypeOK
  <1>11. QED
    BY <1>2, <1>4, <1>5, <1>6, <1>7, <1>8, <1>9, <1>10, NextCases
    DEF GenProbe, GenFail, WritePipe, CallListen, CallStart, CallClose, CallSend,
        EngineWait, AcceptNothing, AcceptConnection, ReadData, ReadEof, SkipInvalid,
        AssertConnected, sockets

LEMMA DeadNext == IInv /\ FreshInv /\ [Next]_vars => [DeadIdsStayDeadStep]_vars
  <1>1. SUFFICES ASSUME IInv, FreshInv, Next, NEW i \in known, Alive(i)'
                 PROVE  Alive(i) \/ Coming(i)
    BY DEF DeadIdsStayDeadStep, vars
  <1>2. PICK s \in Slots : id'[s] = i /\ type'[s] \notin {"INVALID", "RESERVE"}
    BY <1>1 DEF Alive
  <1>3. LifeCycleStep \/ UNCHANGED vars
    BY <1>1, LegalNext
  <1>4. type[s] # "INVALID"
    BY <1>2, <1>3 DEF LifeCycleStep, LegalSteps, vars
  <1>5. CASE type[s] = "RESERVE"
    <2>1. ~ (GenOwn(Net) /\ id'[s] = cmd[Net].id)
      BY <1>1, <1>2 DEF FreshInv, Drawn, Reserving, GenOwn, Procs
    <2>2. QED
      BY <1>1, <1>2, <1>5, <2>1, ComesAlive
  <1>6. CASE type[s] # "RESERVE"
    <2>1. id[s] = i
      BY <1>2, <1>3, <1>6 DEF LifeCycleStep, vars
    <2>2. QED
      BY <1>4, <1>6, <2>1 DEF Alive
  <1>7. QED
    BY <1>5, <1>6

(* An id that a caller was given never names a second socket, however often *)
(* its slot is taken again and whoever still holds the id: generate_id      *)
(* gives each number once, before the wrap of alloc_id.                     *)
THEOREM DeadIdsNeverReturn == Spec => DeadIdsStayDead
  <1>1. Init => IInv /\ FreshInv
    BY Induction, FreshInit
  <1>2. IInv /\ FreshInv /\ [Next]_vars => (IInv /\ FreshInv)'
    BY Induction, FreshStep DEF IInv, TypeInv, OwnerInv
  <1>3. QED
    BY <1>1, <1>2, DeadNext, PTL DEF Spec, DeadIdsStayDead

-----------------------------------------------------------------------------
(* The slots as those who take them see them.                               *)
HoldsSlot(p, s) == Reserving(p) /\ HASH_ID(cmd[p].id) = s

(* A slot belongs to the thread that reserved it until the thread's command *)
(* is in the pipe or its socket is made; what is not INVALID is in use.     *)
Owner(s) ==
  IF type[s] = "INVALID" THEN "free"
  ELSE IF \E p \in Procs : HoldsSlot(p, s) THEN CHOOSE p \in Procs : HoldsSlot(p, s)
  ELSE "used"

Owners == [s \in Slots |-> Owner(s)]

Table == INSTANCE SlotTable WITH Callers <- Procs, holder <- Owners

(* Owner as the invariant makes it.                                         *)
OwnerIs(s, o) ==
  \/ type[s] = "INVALID" /\ o = "free"
  \/ o \in Procs /\ HoldsSlot(o, s)
  \/ type[s] # "INVALID" /\ o = "used" /\ \A p \in Procs : ~ HoldsSlot(p, s)

LEMMA HeldIsReserved ==
  ASSUME IInv, NEW p \in Procs, NEW s \in Slots, HoldsSlot(p, s)
  PROVE  type[s] = "RESERVE" /\ \A q \in Procs : HoldsSlot(q, s) => q = p
  BY DEF IInv, ReservingInv, HoldsSlot

LEMMA OwnerIsOwner ==
  ASSUME IInv, NEW s \in Slots
  PROVE  \A o : OwnerIs(s, o) <=> Owner(s) = o
  <1>1. CASE type[s] = "INVALID"
    <2>1. \A p \in Procs : ~ HoldsSlot(p, s)
      BY <1>1, HeldIsReserved
    <2>2. QED
      BY <1>1, <2>1 DEF OwnerIs, Owner
  <1>2. ASSUME NEW p \in Procs, HoldsSlot(p, s), type[s] # "INVALID"
        PROVE  \A o : OwnerIs(s, o) <=> Owner(s) = o
    <2>1. \A q \in Procs : HoldsSlot(q, s) => q = p
      BY <1>2, HeldIsReserved
    <2>2. Owner(s) = CHOOSE q \in Procs : HoldsSlot(q, s)
      BY <1>2 DEF Owner
    <2>3. (CHOOSE q \in Procs : HoldsSlot(q, s)) = p
      BY <1>2, <2>1
    <2>4. QED
      BY <1>2, <2>1, <2>2, <2>3 DEF OwnerIs
  <1>3. CASE type[s] # "INVALID" /\ \A p \in Procs : ~ HoldsSlot(p, s)
    BY <1>3 DEF OwnerIs, Owner
  <1>4. QED
    BY <1>1, <1>2, <1>3

LEMMA TableOwners == IInv => \A s \in Slots : \A o : OwnerIs(s, o) <=> Owners[s] = o
  BY OwnerIsOwner DEF Owners

LEMMA TableOwnersNext ==
  (IInv => \A s \in Slots : \A o : OwnerIs(s, o) <=> Owners[s] = o)'
  BY TableOwners, PTL

(* A slot that nobody takes, makes or gives up keeps its owner.             *)
Untouched(s) ==
  /\ type'[s] = "INVALID" <=> type[s] = "INVALID"
  /\ \A p \in Procs : HoldsSlot(p, s)' <=> HoldsSlot(p, s)

LEMMA TableStutter ==
  ASSUME IInv, IInv', \A s \in Slots : Untouched(s)
  PROVE  Owners' = Owners
  <1>1. \A s \in Slots : OwnerIs(s, Owners[s])
    BY TableOwners
  <1>2. \A s \in Slots : \A o : OwnerIs(s, o) => OwnerIs(s, o)'
    BY DEF OwnerIs, Untouched
  <1>3. \A s \in Slots : Owners'[s] = Owners[s]
    BY <1>1, <1>2, TableOwnersNext
  <1>4. QED
    BY <1>3 DEF Owners

(* A step that touches one slot changes the owner of that one.              *)
LEMMA TableChange ==
  ASSUME IInv, IInv', NEW r \in Slots, NEW n, OwnerIs(r, n)',
         \A s \in Slots \ {r} : Untouched(s)
  PROVE  Owners' = [Owners EXCEPT ![r] = n]
  <1>1. \A s \in Slots : OwnerIs(s, Owners[s])
    BY TableOwners
  <1>2. \A s \in Slots \ {r} : \A o : OwnerIs(s, o) => OwnerIs(s, o)'
    BY DEF OwnerIs, Untouched
  <1>3. \A s \in Slots : Owners'[s] = IF s = r THEN n ELSE Owners[s]
    BY <1>1, <1>2, TableOwnersNext
  <1>4. QED
    BY <1>3 DEF Owners

LEMMA TableInit == Init => Table!Init
  <1>1. SUFFICES ASSUME Init PROVE Table!Init
    OBVIOUS
  <1>2. \A s \in Slots, p \in Procs : ~ HoldsSlot(p, s)
    BY <1>1 DEF Init, HoldsSlot, Reserving
  <1>3. \A s \in Slots : Owner(s) = IF s \in {PipeSlot} THEN "used" ELSE "free"
    BY <1>1, <1>2 DEF Init, Owner
  <1>4. Owners = [s \in Slots |-> IF s \in {PipeSlot} THEN "used" ELSE "free"]
    BY <1>3 DEF Owners
  <1>5. {PipeSlot} \in SUBSET Slots
    BY PipeSlotType
  <1>6. QED
    BY <1>4, <1>5 DEF Table!Init

(* The compare-and-swap takes a free slot for a thread that holds none.     *)
LEMMA TableCas ==
  ASSUME IInv, IInv', NEW p \in Procs, GenCas(p)
  PROVE  Table!Next \/ Owners' = Owners
  <1>1. PICK r \in Slots : r = HASH_ID(cmd[p].id)
    BY HashType DEF IInv, BusyHasCommand, Commands, GenCas
  <1>2. pc[p] = "cas" /\ cmd' = cmd
    BY DEF GenCas
  <1>3. CASE type' = type
    <2>1. pc' = [pc EXCEPT ![p] = "probe"] \/ pc' = [pc EXCEPT ![p] = "own"]
      BY DEF GenCas
    <2>2. CASE pc' = [pc EXCEPT ![p] = "probe"]
      <3>1. \A s \in Slots : Untouched(s)
        BY <1>2, <1>3, <2>2 DEF Untouched, HoldsSlot, Reserving, IInv, TypeOK
      <3>2. QED
        BY <3>1, TableStutter
    <2>3. CASE pc' # [pc EXCEPT ![p] = "probe"]
      BY <1>1, <1>3, <2>3 DEF GenCas, IInv, TypeOK
    <2>4. QED
      BY <2>2, <2>3
  <1>4. CASE type' # type
    <2>1. /\ type[r] = "INVALID" /\ type' = [type EXCEPT ![r] = "RESERVE"]
          /\ pc' = [pc EXCEPT ![p] = "own"]
      BY <1>1, <1>4 DEF GenCas
    <2>2. OwnerIs(r, p)'
      BY <1>1, <1>2, <2>1 DEF OwnerIs, HoldsSlot, Reserving, IInv, TypeOK
    <2>3. \A s \in Slots \ {r} : Untouched(s)
      BY <1>1, <1>2, <2>1 DEF Untouched, HoldsSlot, Reserving, IInv, TypeOK
    <2>4. Owners' = [Owners EXCEPT ![r] = p]
      BY <2>2, <2>3, TableChange
    <2>5. Owners[r] = "free"
      BY <2>1, TableOwners DEF OwnerIs
    <2>6. \A s \in Slots : ~ OwnerIs(s, p)
      BY <1>2, NamesAssumption DEF OwnerIs, HoldsSlot, Reserving, Procs
    <2>7. \A s \in Slots : Owners[s] # p
      BY <2>6, TableOwners
    <2>8. QED
      BY <2>4, <2>5, <2>7 DEF Table!Next, Table!Take
  <1>5. QED
    BY <1>3, <1>4

(* A thread that owns its slot keeps it when it will post a listen command; *)
(* the network thread makes the socket.                                     *)
LEMMA TableOwn ==
  ASSUME IInv, IInv', NEW p \in Procs, GenOwn(p)
  PROVE  Table!Next \/ Owners' = Owners
  <1>1. PICK r \in Slots : r = HASH_ID(cmd[p].id)
    BY HashType DEF IInv, BusyHasCommand, Commands, GenOwn
  <1>2. PICK c \in Commands : c = cmd[p]
    BY DEF IInv, BusyHasCommand, GenOwn
  <1>3. cmd' = cmd /\ pc' = [pc EXCEPT ![p] = "write"] /\ pc[p] = "own"
    <2>1. c = [op |-> c.op, id |-> c.id]
      BY DEF Commands
    <2>2. QED
      BY <1>2, <2>1 DEF GenOwn, Post, IInv, TypeOK
  <1>4. HoldsSlot(p, r) /\ type[r] = "RESERVE"
    BY <1>1, <1>3, HeldIsReserved DEF HoldsSlot, Reserving
  <1>5. CASE p # Net
    <2>1. cmd[p].op = "L" /\ type' = type
      BY <1>3, <1>5 DEF GenOwn, IInv, BusyHasCommand, Procs
    <2>2. \A s \in Slots : Untouched(s)
      BY <1>3, <2>1 DEF Untouched, HoldsSlot, Reserving, IInv, TypeOK
    <2>3. QED
      BY <2>2, TableStutter
  <1>6. CASE p = Net
    <2>1. cmd[p].op # "L" /\ type' = [type EXCEPT ![r] = "PACCEPT"]
      BY <1>1, <1>3, <1>4, <1>6 DEF GenOwn, new_socket, IInv, BusyHasCommand
    <2>2. \A s \in Slots : ~ HoldsSlot(p, s)'
      BY <1>3, <2>1 DEF HoldsSlot, Reserving, IInv, TypeOK
    <2>3. \A q \in Procs \ {p}, s \in Slots : HoldsSlot(q, s)' <=> HoldsSlot(q, s)
      BY <1>3 DEF HoldsSlot, Reserving, IInv, TypeOK
    <2>4. OwnerIs(r, "used")'
      BY <1>4, <2>1, <2>2, <2>3, HeldIsReserved DEF OwnerIs, IInv, TypeOK
    <2>5. \A s \in Slots \ {r} : Untouched(s)
      BY <1>1, <2>1, <2>2, <2>3 DEF Untouched, HoldsSlot, IInv, TypeOK
    <2>6. Owners' = [Owners EXCEPT ![r] = "used"]
      BY <2>4, <2>5, TableChange
    <2>7. Owners[r] = p
      BY <1>4, TableOwners DEF OwnerIs
    <2>8. QED
      BY <2>6, <2>7 DEF Table!Next, Table!Use
  <1>7. QED
    BY <1>5, <1>6

(* Writing the listen command gives the slot to the network thread.         *)
LEMMA TableWrite ==
  ASSUME IInv, IInv', NEW p \in Procs, WritePipe(p)
  PROVE  Table!Next \/ Owners' = Owners
  <1>1. /\ pc[p] = "write" /\ pc' = [pc EXCEPT ![p] = "idle"]
        /\ cmd' = [cmd EXCEPT ![p] = NoCmd] /\ type' = type
    BY DEF WritePipe, Return, sockets
  <1>2. \A s \in Slots : ~ HoldsSlot(p, s)'
    BY <1>1 DEF HoldsSlot, Reserving, IInv, TypeOK
  <1>3. \A q \in Procs \ {p}, s \in Slots : HoldsSlot(q, s)' <=> HoldsSlot(q, s)
    BY <1>1 DEF HoldsSlot, Reserving, IInv, TypeOK
  <1>4. CASE cmd[p].op # "L"
    <2>1. \A s \in Slots : ~ HoldsSlot(p, s)
      BY <1>1, <1>4 DEF HoldsSlot, Reserving
    <2>2. \A s \in Slots : Untouched(s)
      BY <1>1, <1>2, <1>3, <2>1 DEF Untouched
    <2>3. QED
      BY <2>2, TableStutter
  <1>5. CASE cmd[p].op = "L"
    <2>1. PICK r \in Slots : r = HASH_ID(cmd[p].id)
      BY <1>1, HashType DEF IInv, BusyHasCommand, Commands
    <2>2. HoldsSlot(p, r) /\ type[r] = "RESERVE"
      BY <1>1, <1>5, <2>1, HeldIsReserved DEF HoldsSlot, Reserving
    <2>3. OwnerIs(r, "used")'
      BY <1>1, <1>2, <1>3, <2>2, HeldIsReserved DEF OwnerIs
    <2>4. \A s \in Slots \ {r} : Untouched(s)
      BY <1>1, <1>2, <1>3, <2>1 DEF Untouched, HoldsSlot
    <2>5. Owners' = [Owners EXCEPT ![r] = "used"]
      BY <2>3, <2>4, TableChange
    <2>6. Owners[r] = p
      BY <2>2, TableOwners DEF OwnerIs
    <2>7. QED
      BY <2>5, <2>6 DEF Table!Next, Table!Use
  <1>6. QED
    BY <1>4, <1>5

(* Nobody becomes or ceases to be a holder; the types may change within use.*)
LEMMA TableQuiet ==
  ASSUME IInv, IInv', \A p \in Procs : Reserving(p)' <=> Reserving(p),
         \A p \in Procs : Reserving(p) => cmd'[p] = cmd[p],
         \A s \in Slots : type'[s] = "INVALID" <=> type[s] = "INVALID"
  PROVE  Owners' = Owners
  <1>1. \A s \in Slots : Untouched(s)
    BY DEF Untouched, HoldsSlot
  <1>2. QED
    BY <1>1, TableStutter

LEMMA TableClose ==
  ASSUME IInv, IInv', UNCHANGED control, NEW r \in Slots, type[r] # "INVALID",
         force_close(r)
  PROVE  Table!Next \/ Owners' = Owners
  <1>1. \A p \in Procs, s \in Slots : HoldsSlot(p, s)' <=> HoldsSlot(p, s)
    BY DEF HoldsSlot, Reserving, control
  <1>2. CASE type[r] = "RESERVE"
    BY <1>1, <1>2, TableStutter DEF force_close, Untouched
  <1>3. CASE type[r] # "RESERVE"
    <2>1. type' = [type EXCEPT ![r] = "INVALID"]
      BY <1>3 DEF force_close
    <2>2. OwnerIs(r, "free")'
      BY <2>1 DEF OwnerIs, IInv, TypeOK
    <2>3. \A s \in Slots \ {r} : Untouched(s)
      BY <1>1, <2>1 DEF Untouched, IInv, TypeOK
    <2>4. Owners' = [Owners EXCEPT ![r] = "free"]
      BY <2>2, <2>3, TableChange
    <2>5. Owners[r] = "used"
      BY <1>3, TableOwners, HeldIsReserved DEF OwnerIs
    <2>6. QED
      BY <2>4, <2>5 DEF Table!Next, Table!Free
  <1>4. QED
    BY <1>2, <1>3

LEMMA TableCommand ==
  ASSUME IInv, IInv', NEW e \in events, Command(e)
  PROVE  Table!Next \/ Owners' = Owners
  <1>1. pipe # <<>> /\ UNCHANGED control
    BY DEF Command, ExecStart, ExecListen, ExecClose, ExecSend, Read
  <1>2. /\ HASH_ID(Head(pipe).id) \in Slots
        /\ \A s \in Slots : Found(Head(pipe), s) => type[s] # "INVALID"
    BY <1>1, HeadCommand
  <1>3. /\ \A p \in Procs : Reserving(p)' <=> Reserving(p)
        /\ \A p \in Procs : Reserving(p) => cmd'[p] = cmd[p]
    BY <1>1 DEF Reserving, control
  <1>4. CASE \A s \in Slots : type'[s] = "INVALID" <=> type[s] = "INVALID"
    BY <1>3, <1>4, TableQuiet
  <1>5. CASE ExecStart(e)
    BY <1>2, <1>4, <1>5 DEF ExecStart, start_socket, engine_add, IInv, TypeOK
  <1>6. CASE ExecListen(e)
    BY <1>2, <1>4, <1>6 DEF ExecListen, listen_socket, new_socket, IInv, TypeOK
  <1>7. CASE ExecClose(e)
    BY <1>1, <1>2, <1>4, <1>7, TableClose DEF ExecClose, close_socket
  <1>8. CASE ExecSend(e)
    BY <1>1, <1>2, <1>4, <1>8, TableClose DEF ExecSend, send_socket
  <1>9. QED
    BY <1>5, <1>6, <1>7, <1>8 DEF Command

LEMMA TableStep == IInv /\ IInv' /\ [Next]_vars => [Table!Next]_Owners
  <1>1. SUFFICES ASSUME IInv, IInv', [Next]_vars
                 PROVE  Table!Next \/ Owners' = Owners
    OBVIOUS
  <1>2. CASE UNCHANGED vars
    BY <1>1, <1>2, TableQuiet DEF vars, Reserving
  <1>3. ASSUME NEW p \in Procs, GenProbe(p) PROVE Owners' = Owners
    BY <1>1, <1>3, TableQuiet DEF GenProbe, sockets, Reserving, IInv, TypeOK
  <1>4. ASSUME NEW p \in Procs, GenFail(p) PROVE Owners' = Owners
    BY <1>1, <1>4, TableQuiet DEF GenFail, Return, Reserving, IInv, TypeOK
  <1>5. ASSUME NEW t \in Threads, CallListen(t) PROVE Owners' = Owners
    BY <1>1, <1>5, TableQuiet DEF CallListen, Begin, Reserving, IInv, TypeOK
  <1>6. ASSUME NEW t \in Threads, CallStart(t) \/ CallClose(t) \/ CallSend(t)
        PROVE  Owners' = Owners
    <2>1. PICK op \in {"S", "K", "D"}, i \in known \cup {NoId} : Post(t, op, i)
      BY <1>6 DEF CallStart, CallClose, CallSend
    <2>2. pc[t] = "idle" /\ type' = type
      BY <1>6 DEF CallStart, CallClose, CallSend, sockets
    <2>3. QED
      BY <1>1, <2>1, <2>2, TableQuiet DEF Post, Reserving, IInv, TypeOK
  <1>7. CASE EngineWait
    BY <1>1, <1>7, TableQuiet DEF EngineWait, sockets, control, Reserving
  <1>8. ASSUME NEW e \in events, Command(e) PROVE Table!Next \/ Owners' = Owners
    BY <1>1, <1>8, TableCommand
  <1>9. ASSUME NEW e \in events, AcceptConnection(e) \/ ReadEof(e)
        PROVE  Owners' = Owners
    <2>1. /\ type' = type /\ pipe' = pipe /\ pc[Net] = "idle"
          /\ \A q \in Procs : q # Net => pc'[q] = pc[q] /\ cmd'[q] = cmd[q]
          /\ ~Reserving(Net)'
      <3>1. pc \in [Procs -> Locations] /\ cmd \in [Procs -> Commands \cup {NoCmd}]
            /\ Net \in Procs
        BY <1>1 DEF IInv, TypeOK, Procs
      <3>2. QED
        BY <1>9, <3>1
        DEF AcceptConnection, ReadEof, NextEvent, Polling, Begin, Post, sockets, Reserving
    <2>2. QED
      BY <1>1, <2>1, TableQuiet DEF Reserving
  <1>10. ASSUME NEW e \in events, AcceptNothing(e) \/ ReadData(e) \/ SkipInvalid(e)
                                   \/ AssertConnected(e)
         PROVE  Owners' = Owners
    BY <1>1, <1>10, TableQuiet
    DEF AcceptNothing, ReadData, SkipInvalid, AssertConnected, sockets, control, Reserving
  <1>11. ASSUME NEW e \in events, ReadGone(e) PROVE Table!Next \/ Owners' = Owners
    <2>1. e.slot \in Slots /\ type[e.slot] = "CONNECTED"
      BY <1>1, <1>11 DEF ReadGone, NextEvent, IInv, TypeOK
    <2>2. QED
      BY <1>1, <1>11, <2>1, TableClose DEF ReadGone
  <1>12. ASSUME NEW p \in Procs, GenCas(p) \/ GenOwn(p) \/ WritePipe(p)
         PROVE  Table!Next \/ Owners' = Owners
    BY <1>1, <1>12, TableCas, TableOwn, TableWrite
  <1>13. QED
    BY <1>1, <1>2, <1>3, <1>4, <1>5, <1>6, <1>7, <1>8, <1>9, <1>10, <1>11, <1>12,
       NextCases DEF Command

(* The server as a whole hands its slots out as SlotTable says, with the    *)
(* commands that threads post and the network thread executes in between:   *)
(* a slot is taken only when nobody uses it, by a thread that holds no other*)
(* one, is made a socket's or passed on only by the thread that took it,    *)
(* and is free again only when the socket in it is closed.                  *)
THEOREM SlotsHandedOut == Spec => Table!Spec
  <1>1. QED
    BY TableInit, TableStep, Invariance, PTL DEF Spec, Table!Spec

(* new_socket never finds its slot not reserved, the first of its two       *)
(* assertions: not in the thread that accepts, nor when a listen command is *)
(* executed that waited in the pipe.                                        *)
THEOREM NewSocketNeverAborts == Spec => [](aborted # "new_socket")
  <1>1. Init => aborted # "new_socket"
    BY DEF Init
  <1>2. IInv /\ aborted # "new_socket" /\ [Next]_vars => (aborted # "new_socket")'
    <2>1. SUFFICES ASSUME IInv, aborted # "new_socket", [Next]_vars
                   PROVE  aborted' # "new_socket"
      OBVIOUS
    <2>2. CASE aborted' = aborted
      BY <2>1, <2>2
    <2>3. ASSUME NEW p \in Procs, GenOwn(p) PROVE aborted' # "new_socket"
      BY <2>1, <2>3 DEF GenOwn, new_socket, IInv, ReservingInv, Reserving
    <2>4. ASSUME NEW e \in events, ExecListen(e) PROVE aborted' # "new_socket"
      <3>1. 1 \in DOMAIN pipe /\ Head(pipe) = pipe[1] /\ ListenAt(1)
        BY <2>1, <2>4 DEF ExecListen, Read, IInv, TypeOK, ListenAt
      <3>2. type[HASH_ID(Head(pipe).id)] = "RESERVE"
        BY <2>1, <3>1 DEF IInv, ListenInv, ListenReserved
      <3>3. QED
        BY <2>1, <2>4, <3>2 DEF ExecListen, listen_socket, new_socket
    <2>5. ASSUME NEW e \in events, ExecClose(e) \/ ExecSend(e) \/ ReadGone(e)
          PROVE  aborted' # "new_socket"
      BY <2>1, <2>5
      DEF ExecClose, ExecSend, ReadGone, close_socket, send_socket, force_close
    <2>6. ASSUME NEW e \in events, AssertConnected(e) PROVE aborted' # "new_socket"
      BY <2>6 DEF AssertConnected
    <2>7. QED
      BY <2>1, <2>2, <2>3, <2>4, <2>5, <2>6, NextCases
      DEF vars, GenProbe, GenCas, GenFail, WritePipe, CallListen, CallStart, CallClose,
          CallSend, EngineWait, ExecStart, start_socket, AcceptNothing,
          AcceptConnection, ReadData, ReadEof, SkipInvalid
  <1>3. QED
    BY <1>1, <1>2, Invariance, PTL DEF Spec
=============================================================================
