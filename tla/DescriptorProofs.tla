--------------------------- MODULE DescriptorProofs ---------------------------
(* What is proved of the socket server's descriptors and of the connections *)
(* it accepts, for any number of slots, threads and pipe entries.           *)
EXTENDS SocketServerProofs, FunctionTheorems, FiniteSetTheorems

(***************************************************************************)
(* The owners of descriptors, as FdAccounting counts them.                  *)
(***************************************************************************)
HasFd(s) == type[s] \in {"PLISTEN", "LISTEN", "PACCEPT", "CONNECTED"}
HoldsFd(p) == pc[p] \in {"probe", "cas"} \/ Reserving(p)

SockFds == {s \in Slots : HasFd(s)}
ThreadFds == {p \in Procs : HoldsFd(p)}
PipeFds == {k \in DOMAIN pipe : ListenAt(k)}

One(b) == IF b THEN 1 ELSE 0

LEMMA FdAccountingRestated ==
  /\ FdAccounting <=>
       openFds = Cardinality(SockFds) + Cardinality(ThreadFds) + Cardinality(PipeFds)
  /\ FdAccounting' <=>
       openFds' = Cardinality(SockFds') + Cardinality(ThreadFds') + Cardinality(PipeFds')
  BY DEF FdAccounting, SockFds, ThreadFds, PipeFds, HasFd, HoldsFd

LEMMA OneDiffers ==
  ASSUME NEW A, NEW B, NEW x, IsFiniteSet(A), A \ {x} = B \ {x}
  PROVE  /\ IsFiniteSet(B)
         /\ Cardinality(A) \in Int /\ Cardinality(B) \in Int
         /\ Cardinality(B) = Cardinality(A) + One(x \in B) - One(x \in A)
<1> DEFINE C == A \ {x}
<1>1. IsFiniteSet(C) /\ Cardinality(C) = Cardinality(A) - One(x \in A)
  <2>1. IsFiniteSet(C) /\ Cardinality(C) = IF x \in A THEN Cardinality(A) - 1 ELSE Cardinality(A)
    BY FS_RemoveElement
  <2>2. Cardinality(A) \in Nat
    BY FS_CardinalityType
  <2> HIDE DEF C
  <2> QED
    BY <2>1, <2>2 DEF One
<1>2. IsFiniteSet(C \cup {x}) /\ Cardinality(C \cup {x}) = Cardinality(C) + 1
  <2>1. x \notin C
    OBVIOUS
  <2> HIDE DEF C
  <2> QED
    BY <1>1, <2>1, FS_AddElement
<1>3. B = C \/ (x \in B /\ B = C \cup {x})
  OBVIOUS
<1>4. x \notin C
  OBVIOUS
<1> HIDE DEF C
<1>5. Cardinality(A) \in Nat /\ Cardinality(C) \in Nat
  BY <1>1, FS_CardinalityType
<1>6. CASE B = C
  BY <1>1, <1>4, <1>5, <1>6 DEF One
<1>7. CASE x \in B /\ B = C \cup {x}
  BY <1>1, <1>2, <1>5, <1>7 DEF One
<1> QED
  BY <1>3, <1>6, <1>7

LEMMA OwnersFinite ==
  ASSUME TypeInv
  PROVE  IsFiniteSet(SockFds) /\ IsFiniteSet(ThreadFds) /\ IsFiniteSet(PipeFds)
<1>1. \A a, b \in Int : IsFiniteSet(a .. b)
  BY FS_Interval
<1>2. IsFiniteSet(Slots)
  BY <1>1, ServerAssumption DEF Slots
<1>3. IsFiniteSet(Procs)
  BY ThreadsAssumption, FS_AddElement DEF Procs
<1>4. IsFiniteSet(DOMAIN pipe)
  <2>1. DOMAIN pipe = 1 .. Len(pipe) /\ Len(pipe) \in Int
    BY DEF TypeInv, TypeOK
  <2> QED
    BY <1>1, <2>1
<1>5. SockFds \in SUBSET Slots /\ ThreadFds \in SUBSET Procs /\ PipeFds \in SUBSET DOMAIN pipe
  BY DEF SockFds, ThreadFds, PipeFds
<1> QED
  BY <1>2, <1>3, <1>4, <1>5, FS_Subset

(***************************************************************************)
(* How the counts change.                                                   *)
(***************************************************************************)
LEMMA SockCount ==
  ASSUME TypeInv, NEW s \in Slots, \A r \in Slots : r # s => type'[r] = type[r]
  PROVE  /\ Cardinality(SockFds) \in Int /\ Cardinality(SockFds') \in Int
         /\ Cardinality(SockFds') = Cardinality(SockFds) + One(HasFd(s)') - One(HasFd(s))
<1>1. SockFds' \ {s} = SockFds \ {s}
  BY DEF SockFds, HasFd
<1>2. (s \in SockFds) = HasFd(s) /\ (s \in SockFds') = HasFd(s)'
  BY DEF SockFds, HasFd
<1>3. /\ Cardinality(SockFds) \in Int /\ Cardinality(SockFds') \in Int
      /\ Cardinality(SockFds') = Cardinality(SockFds) + One(s \in SockFds') - One(s \in SockFds)
  BY <1>1, OwnersFinite, OneDiffers
<1> QED
  BY <1>2, <1>3

LEMMA ThreadCount ==
  ASSUME TypeInv, NEW p \in Procs,
         \A q \in Procs : q # p => (HoldsFd(q)' <=> HoldsFd(q))
  PROVE  /\ Cardinality(ThreadFds) \in Int /\ Cardinality(ThreadFds') \in Int
         /\ Cardinality(ThreadFds') = Cardinality(ThreadFds) + One(HoldsFd(p)') - One(HoldsFd(p))
<1>1. ThreadFds' \ {p} = ThreadFds \ {p}
  BY DEF ThreadFds
<1>2. (p \in ThreadFds) = HoldsFd(p) /\ (p \in ThreadFds') = HoldsFd(p)'
  BY DEF ThreadFds, HoldsFd, Reserving
<1>3. /\ Cardinality(ThreadFds) \in Int /\ Cardinality(ThreadFds') \in Int
      /\ Cardinality(ThreadFds')
           = Cardinality(ThreadFds) + One(p \in ThreadFds') - One(p \in ThreadFds)
  BY <1>1, OwnersFinite, OneDiffers
<1> QED
  BY <1>2, <1>3

LEMMA PushCount ==
  ASSUME TypeInv, NEW c, pipe' = Append(pipe, c)
  PROVE  /\ Cardinality(PipeFds) \in Int /\ Cardinality(PipeFds') \in Int
         /\ Cardinality(PipeFds') = Cardinality(PipeFds) + One(c.op = "L")
<1> DEFINE n == Len(pipe) + 1
<1>1. /\ DOMAIN pipe' = DOMAIN pipe \cup {n} /\ n \notin DOMAIN pipe /\ pipe'[n] = c
      /\ \A k \in DOMAIN pipe : pipe'[k] = pipe[k]
  BY DEF TypeInv, TypeOK
<1> HIDE DEF n
<1>2. PipeFds' \ {n} = PipeFds \ {n}
  BY <1>1 DEF PipeFds, ListenAt
<1>3. n \notin PipeFds /\ (n \in PipeFds') = (c.op = "L")
  BY <1>1 DEF PipeFds, ListenAt
<1>4. /\ Cardinality(PipeFds) \in Int /\ Cardinality(PipeFds') \in Int
      /\ Cardinality(PipeFds') = Cardinality(PipeFds) + One(n \in PipeFds') - One(n \in PipeFds)
  BY <1>2, OwnersFinite, OneDiffers
<1> QED
  BY <1>3, <1>4 DEF One

LEMMA PopCount ==
  ASSUME TypeInv, pipe # <<>>, pipe' = Tail(pipe)
  PROVE  /\ Cardinality(PipeFds) \in Int /\ Cardinality(PipeFds') \in Int
         /\ Cardinality(PipeFds') = Cardinality(PipeFds) - One(Head(pipe).op = "L")
<1> DEFINE rest == PipeFds \ {1}
           f == [k \in PipeFds' |-> k + 1]
<1>1. /\ 1 \in DOMAIN pipe /\ Head(pipe) = pipe[1]
      /\ DOMAIN pipe = 1 .. Len(pipe) /\ Len(pipe) \in Nat
      /\ DOMAIN pipe' = 1 .. Len(pipe) - 1
      /\ \A k \in DOMAIN pipe' : pipe'[k] = pipe[k + 1]
  BY DEF TypeInv, TypeOK
<1>2. f \in [PipeFds' -> rest]
  BY <1>1 DEF PipeFds, ListenAt
<1>3. \A j, k \in PipeFds' : f[j] = f[k] => j = k
  BY <1>1 DEF PipeFds
<1>4. \A m \in rest : \E k \in PipeFds' : f[k] = m
  <2> SUFFICES ASSUME NEW m \in rest PROVE m - 1 \in PipeFds' /\ (m - 1) + 1 = m
    OBVIOUS
  <2>1. m \in 2 .. Len(pipe) /\ pipe[m].op = "L"
    BY <1>1 DEF PipeFds, ListenAt
  <2>2. m - 1 \in DOMAIN pipe' /\ pipe'[m - 1] = pipe[m] /\ (m - 1) + 1 = m
    BY <1>1, <2>1
  <2> QED
    BY <2>1, <2>2 DEF PipeFds, ListenAt
<1> HIDE DEF f
<1>5. f \in Bijection(PipeFds', rest)
  BY <1>2, <1>3, <1>4, Fun_IsBij
<1>6. /\ IsFiniteSet(rest) /\ Cardinality(PipeFds) \in Int /\ Cardinality(rest) \in Int
      /\ Cardinality(rest) = Cardinality(PipeFds) - One(1 \in PipeFds)
  <2>1. rest \ {1} = PipeFds \ {1} /\ 1 \notin rest
    OBVIOUS
  <2> HIDE DEF rest
  <2>2. /\ IsFiniteSet(rest) /\ Cardinality(PipeFds) \in Int /\ Cardinality(rest) \in Int
        /\ Cardinality(rest) = Cardinality(PipeFds) + One(1 \in rest) - One(1 \in PipeFds)
    BY <2>1, OwnersFinite, OneDiffers
  <2> QED
    BY <2>1, <2>2 DEF One
<1>7. ExistsBijection(rest, PipeFds')
  BY <1>5, Fun_ExistsBij, Fun_ExistsBijSymmetric
<1>8. Cardinality(PipeFds') = Cardinality(rest)
  BY <1>6, <1>7, FS_Bijection
<1>9. (1 \in PipeFds) = (Head(pipe).op = "L")
  BY <1>1 DEF PipeFds, ListenAt
<1> QED
  BY <1>6, <1>8, <1>9
(***************************************************************************)
(* Every step keeps the balance.                                            *)
(***************************************************************************)
SameSocks == \A s \in Slots : type'[s] = type[s] \/ (HasFd(s)' <=> HasFd(s))
SameThreads == \A p \in Procs : HoldsFd(p)' <=> HoldsFd(p)

LEMMA SameCounts ==
  ASSUME TypeInv
  PROVE  /\ SameSocks => SockFds' = SockFds
         /\ SameThreads => ThreadFds' = ThreadFds
         /\ pipe' = pipe => PipeFds' = PipeFds
         /\ Cardinality(SockFds) \in Nat /\ Cardinality(ThreadFds) \in Nat
         /\ Cardinality(PipeFds) \in Nat
<1>1. SameSocks => SockFds' = SockFds
  BY DEF SameSocks, SockFds, HasFd
<1>2. SameThreads => ThreadFds' = ThreadFds
  BY DEF SameThreads, ThreadFds
<1>3. pipe' = pipe => PipeFds' = PipeFds
  BY DEF PipeFds, ListenAt
<1> QED
  BY <1>1, <1>2, <1>3, OwnersFinite, FS_CardinalityType

FdInv == IInv /\ FdAccounting

\* A thread takes a descriptor, or gives it back.
LEMMA FdThread ==
  ASSUME FdInv, NEW p \in Procs, SameSocks, pipe' = pipe,
         \A q \in Procs : q # p => pc'[q] = pc[q] /\ cmd'[q] = cmd[q],
         openFds' = openFds + One(HoldsFd(p)') - One(HoldsFd(p))
  PROVE  FdAccounting'
<1>1. TypeInv /\ openFds \in Int
  BY DEF FdInv, IInv, TypeInv, TypeOK
<1>2. \A q \in Procs : q # p => (HoldsFd(q)' <=> HoldsFd(q))
  BY DEF HoldsFd, Reserving
<1>3. /\ Cardinality(ThreadFds) \in Int /\ Cardinality(ThreadFds') \in Int
      /\ Cardinality(ThreadFds') = Cardinality(ThreadFds) + One(HoldsFd(p)') - One(HoldsFd(p))
  BY <1>1, <1>2, ThreadCount
<1>4. /\ Cardinality(SockFds') = Cardinality(SockFds) /\ Cardinality(PipeFds') = Cardinality(PipeFds)
      /\ Cardinality(SockFds) \in Int /\ Cardinality(PipeFds) \in Int
  BY <1>1, SameCounts
<1>5. openFds = Cardinality(SockFds) + Cardinality(ThreadFds) + Cardinality(PipeFds)
  BY FdAccountingRestated DEF FdInv
<1>6. One(HoldsFd(p)) \in Int /\ One(HoldsFd(p)') \in Int
  BY DEF One
<1>7. openFds' = Cardinality(SockFds') + Cardinality(ThreadFds') + Cardinality(PipeFds')
  BY <1>1, <1>3, <1>4, <1>5, <1>6
<1> QED
  BY <1>7, FdAccountingRestated

\* Nothing that is counted changes.
LEMMA FdSame ==
  ASSUME FdInv, SameSocks, SameThreads, pipe' = pipe, openFds' = openFds
  PROVE  FdAccounting'
<1>1. TypeInv
  BY DEF FdInv, IInv, TypeInv
<1>2. openFds = Cardinality(SockFds) + Cardinality(ThreadFds) + Cardinality(PipeFds)
  BY FdAccountingRestated DEF FdInv
<1>3. openFds' = Cardinality(SockFds') + Cardinality(ThreadFds') + Cardinality(PipeFds')
  BY <1>1, <1>2, SameCounts
<1> QED
  BY <1>3, FdAccountingRestated

\* force_close closes the descriptor of its slot.
LEMMA FdClose ==
  ASSUME FdInv, NEW s \in Slots, s # PipeSlot, type[s] # "INVALID", force_close(s)
  PROVE  /\ Cardinality(SockFds) \in Int /\ Cardinality(SockFds') \in Int
         /\ openFds' - openFds = Cardinality(SockFds') - Cardinality(SockFds)
<1>1. /\ TypeInv /\ openFds \in Int /\ type \in [Slots -> Types]
      /\ type[s] # "PIPE"
  BY DEF FdInv, IInv, TypeInv, TypeOK, PipeInv
<1>2. \A r \in Slots : r # s => type'[r] = type[r]
  BY <1>1 DEF force_close
<1>3. /\ Cardinality(SockFds) \in Int /\ Cardinality(SockFds') \in Int
      /\ Cardinality(SockFds') = Cardinality(SockFds) + One(HasFd(s)') - One(HasFd(s))
  BY <1>1, <1>2, SockCount
<1>4. CASE type[s] = "RESERVE"
  <2>1. type' = type /\ openFds' = openFds
    BY <1>4 DEF force_close
  <2>2. One(HasFd(s)') = One(HasFd(s)) /\ One(HasFd(s)) \in Int
    BY <2>1 DEF One, HasFd
  <2> QED
    BY <1>1, <1>3, <2>1, <2>2
<1>5. CASE type[s] # "RESERVE"
  <2>1. openFds' = openFds - 1 /\ type'[s] = "INVALID"
    BY <1>1, <1>5 DEF force_close
  <2>2. One(HasFd(s)') = 0 /\ One(HasFd(s)) = 1
    BY <1>1, <1>5, <2>1 DEF One, HasFd, Types
  <2> QED
    BY <1>1, <1>3, <2>1, <2>2
<1> QED
  BY <1>4, <1>5

LEMMA FdOwn ==
  ASSUME FdInv, NEW p \in Procs, GenOwn(p)
  PROVE  FdAccounting'
<1>0. HASH_ID(cmd[p].id) \in Slots
  BY HolderSlot DEF FdInv, IInv, TypeInv, GenOwn
<1> PICK s \in Slots : s = HASH_ID(cmd[p].id)
  BY <1>0
<1>1. /\ TypeInv /\ openFds \in Int /\ openFds' = openFds /\ pipe' = pipe
      /\ pc[p] = "own" /\ Reserving(p) /\ type[s] = "RESERVE"
      /\ type \in [Slots -> Types]
  BY HolderSlot DEF FdInv, IInv, TypeInv, TypeOK, GenOwn, Reserving, ReservingInv
<1>2. /\ pc'[p] = "write" /\ cmd'[p].op = cmd[p].op
      /\ \A q \in Procs : q # p => pc'[q] = pc[q] /\ cmd'[q] = cmd[q]
  BY <1>1 DEF GenOwn, Post, TypeInv, TypeOK
<1>3. CASE p # Net
  <2>1. p \in Threads /\ cmd[p].op = "L" /\ type' = type
    BY <1>1, <1>3 DEF GenOwn, TypeInv, BusyHasCommand, Procs
  <2>2. HoldsFd(p) /\ HoldsFd(p)'
    BY <1>1, <1>2, <2>1 DEF HoldsFd, Reserving
  <2>3. SameThreads /\ SameSocks
    BY <1>2, <2>1, <2>2 DEF SameThreads, SameSocks, HoldsFd, Reserving
  <2> QED
    BY <1>1, <2>3, FdSame
<1>4. CASE p = Net
  <2>1. type' = [type EXCEPT ![s] = "PACCEPT"] /\ cmd[p].op # "L"
    BY <1>1, <1>4 DEF GenOwn, new_socket, TypeInv, BusyHasCommand
  <2>2. HoldsFd(p) /\ ~HoldsFd(p)'
    BY <1>1, <1>2, <2>1 DEF HoldsFd, Reserving
  <2>3. HasFd(s)' /\ ~HasFd(s) /\ \A r \in Slots : r # s => type'[r] = type[r]
    BY <1>1, <2>1 DEF HasFd
  <2>4. \A q \in Procs : q # p => (HoldsFd(q)' <=> HoldsFd(q))
    BY <1>2 DEF HoldsFd, Reserving
  <2>5. /\ Cardinality(SockFds) \in Int /\ Cardinality(SockFds') \in Int
        /\ Cardinality(SockFds') = Cardinality(SockFds) + One(HasFd(s)') - One(HasFd(s))
    BY <1>1, <2>3, SockCount
  <2>6. /\ Cardinality(ThreadFds) \in Int /\ Cardinality(ThreadFds') \in Int
        /\ Cardinality(ThreadFds')
             = Cardinality(ThreadFds) + One(HoldsFd(p)') - One(HoldsFd(p))
    BY <1>1, <2>4, ThreadCount
  <2>7. /\ Cardinality(SockFds') = Cardinality(SockFds) + 1
        /\ Cardinality(ThreadFds') = Cardinality(ThreadFds) - 1
    BY <2>2, <2>3, <2>5, <2>6 DEF One
  <2>8. Cardinality(PipeFds') = Cardinality(PipeFds) /\ Cardinality(PipeFds) \in Int
    BY <1>1, SameCounts
  <2>9. openFds = Cardinality(SockFds) + Cardinality(ThreadFds) + Cardinality(PipeFds)
    BY FdAccountingRestated DEF FdInv
  <2>10. openFds' = Cardinality(SockFds') + Cardinality(ThreadFds') + Cardinality(PipeFds')
    BY <1>1, <2>5, <2>6, <2>7, <2>8, <2>9
  <2> QED
    BY <2>10, FdAccountingRestated
<1> QED
  BY <1>3, <1>4

LEMMA FdWrite ==
  ASSUME FdInv, NEW p \in Procs, WritePipe(p)
  PROVE  FdAccounting'
<1>1. /\ TypeInv /\ openFds \in Int /\ openFds' = openFds /\ type' = type
      /\ pc[p] = "write" /\ pipe' = Append(pipe, cmd[p])
  BY DEF FdInv, IInv, TypeInv, TypeOK, WritePipe, sockets
<1>2. /\ pc'[p] = "idle"
      /\ \A q \in Procs : q # p => pc'[q] = pc[q] /\ cmd'[q] = cmd[q]
  BY <1>1 DEF WritePipe, Return, TypeInv, TypeOK
<1>3. \A q \in Procs : q # p => (HoldsFd(q)' <=> HoldsFd(q))
  BY <1>2 DEF HoldsFd, Reserving
<1>4. (HoldsFd(p) <=> cmd[p].op = "L") /\ ~HoldsFd(p)'
  BY <1>1, <1>2 DEF HoldsFd, Reserving
<1>5. /\ Cardinality(ThreadFds) \in Int /\ Cardinality(ThreadFds') \in Int
      /\ Cardinality(ThreadFds') = Cardinality(ThreadFds) - One(cmd[p].op = "L")
  <2>1. /\ Cardinality(ThreadFds) \in Int /\ Cardinality(ThreadFds') \in Int
        /\ Cardinality(ThreadFds')
             = Cardinality(ThreadFds) + One(HoldsFd(p)') - One(HoldsFd(p))
    BY <1>1, <1>3, ThreadCount
  <2> QED
    BY <1>4, <2>1 DEF One
<1>6. /\ Cardinality(PipeFds) \in Int /\ Cardinality(PipeFds') \in Int
      /\ Cardinality(PipeFds') = Cardinality(PipeFds) + One(cmd[p].op = "L")
  BY <1>1, PushCount
<1>7. Cardinality(SockFds') = Cardinality(SockFds) /\ Cardinality(SockFds) \in Int
  BY <1>1, SameCounts DEF SameSocks
<1>8. openFds = Cardinality(SockFds) + Cardinality(ThreadFds) + Cardinality(PipeFds)
  BY FdAccountingRestated DEF FdInv
<1>9. One(cmd[p].op = "L") \in Int
  BY DEF One
<1>10. openFds' = Cardinality(SockFds') + Cardinality(ThreadFds') + Cardinality(PipeFds')
  BY <1>1, <1>5, <1>6, <1>7, <1>8, <1>9
<1> QED
  BY <1>10, FdAccountingRestated

\* The commands: a listen command takes its descriptor from the pipe to the table.
LEMMA FdCommand ==
  ASSUME FdInv, [Next]_vars, NEW e \in events,
         ExecStart(e) \/ ExecListen(e) \/ ExecClose(e) \/ ExecSend(e)
  PROVE  FdAccounting'
<1> DEFINE c == Head(pipe)
           i == HASH_ID(c.id)
<1>1. /\ TypeInv /\ openFds \in Int /\ type \in [Slots -> Types]
      /\ pipe # <<>> /\ pipe' = Tail(pipe) /\ pc' = pc /\ cmd' = cmd
  BY DEF FdInv, IInv, TypeInv, TypeOK, ExecStart, ExecListen, ExecClose, ExecSend, Read, control
<1>2. Cardinality(ThreadFds') = Cardinality(ThreadFds) /\ Cardinality(ThreadFds) \in Int
  BY <1>1, SameCounts DEF SameThreads, HoldsFd, Reserving
<1>3. /\ Cardinality(PipeFds) \in Int /\ Cardinality(PipeFds') \in Int
      /\ Cardinality(PipeFds') = Cardinality(PipeFds) - One(c.op = "L")
  BY <1>1, PopCount
<1> DEFINE Balance ==
             /\ Cardinality(SockFds) \in Int /\ Cardinality(SockFds') \in Int
             /\ openFds' \in Int
             /\ openFds' - openFds
                  = Cardinality(SockFds') - Cardinality(SockFds) - One(c.op = "L")
<1>4. Balance
  <2>1. i \in Slots /\ \A s \in Slots : Found(c, s) => s # PipeSlot /\ type[s] # "INVALID"
    BY <1>1, HeadCommand DEF FdInv
  <2>2. openFds' \in Int
    BY <1>1, TypeStep DEF TypeInv, TypeOK
  <2>3. /\ SameSocks => SockFds' = SockFds
        /\ Cardinality(SockFds) \in Int
    BY <1>1, SameCounts
  <2>4. ASSUME SameSocks, openFds' = openFds, c.op # "L" PROVE Balance
    BY <1>1, <2>3, <2>4 DEF One
  <2>5. ASSUME NEW s \in Slots, Found(c, s), force_close(s), c.op # "L" PROVE Balance
    <3>1. /\ Cardinality(SockFds) \in Int /\ Cardinality(SockFds') \in Int
          /\ openFds' - openFds = Cardinality(SockFds') - Cardinality(SockFds)
      BY <2>1, <2>5, FdClose
    <3> HIDE DEF c
    <3> QED
      BY <2>2, <2>5, <3>1 DEF One
  <2>6. CASE ExecStart(e)
    <3>1. c.op # "L" /\ openFds' = openFds
      BY <2>6 DEF ExecStart, Read, start_socket
    <3>2. SameSocks
      BY <1>1, <2>6 DEF ExecStart, start_socket, engine_add, SameSocks, HasFd
    <3> QED
      BY <2>4, <3>1, <3>2
  <2>7. CASE ExecListen(e)
    <3>1. c.op = "L" /\ openFds' = openFds /\ new_socket(i, c.id, "PLISTEN")
      BY <2>7 DEF ExecListen, Read, listen_socket
    <3>2. 1 \in DOMAIN pipe /\ c = pipe[1]
      BY <1>1 DEF TypeInv, TypeOK
    <3>3. type[i] = "RESERVE"
      BY <3>1, <3>2 DEF FdInv, IInv, ListenInv, ListenReserved, ListenAt
    <3>4. PICK s \in Slots : s = i
      BY <2>1
    <3>5. type' = [type EXCEPT ![s] = "PLISTEN"] /\ type[s] = "RESERVE"
      BY <3>1, <3>3, <3>4 DEF new_socket
    <3>6. HasFd(s)' /\ ~HasFd(s) /\ \A r \in Slots : r # s => type'[r] = type[r]
      BY <1>1, <3>5 DEF HasFd
    <3>7. /\ Cardinality(SockFds) \in Int /\ Cardinality(SockFds') \in Int
          /\ Cardinality(SockFds') = Cardinality(SockFds) + One(HasFd(s)') - One(HasFd(s))
      BY <1>1, <3>6, SockCount
    <3>8. One(HasFd(s)') = 1 /\ One(HasFd(s)) = 0 /\ One(c.op = "L") = 1
      BY <3>1, <3>6 DEF One
    <3>9. openFds \in Int
      BY <1>1
    <3> QED
      BY <3>1, <3>7, <3>8, <3>9
  <2>8. CASE ExecClose(e)
    <3>1. c.op # "L"
      BY <2>8 DEF ExecClose, Read
    <3>2. \/ type' = type /\ openFds' = openFds
          \/ \E s \in Slots : Found(c, s) /\ force_close(s)
      BY <2>8 DEF ExecClose, close_socket
    <3> QED
      BY <2>4, <2>5, <3>1, <3>2 DEF SameSocks
  <2>9. CASE ExecSend(e)
    <3>1. c.op # "L"
      BY <2>9 DEF ExecSend, Read
    <3>2. \/ type' = type /\ openFds' = openFds
          \/ \E s \in Slots : Found(c, s) /\ force_close(s)
      BY <2>9 DEF ExecSend, send_socket
    <3> QED
      BY <2>4, <2>5, <3>1, <3>2 DEF SameSocks
  <2> QED
    BY <2>6, <2>7, <2>8, <2>9
<1>5. openFds = Cardinality(SockFds) + Cardinality(ThreadFds) + Cardinality(PipeFds)
  BY FdAccountingRestated DEF FdInv
<1>6. One(c.op = "L") \in Int
  BY DEF One
<1> HIDE DEF c, i
<1>7. openFds' = Cardinality(SockFds') + Cardinality(ThreadFds') + Cardinality(PipeFds')
  <2>1. openFds \in Int
    BY <1>1
  <2> QED
    BY <1>2, <1>3, <1>4, <1>5, <1>6, <2>1
<1> QED
  BY <1>7, FdAccountingRestated
LEMMA FdStep == FdInv /\ [Next]_vars => FdAccounting'
<1> SUFFICES ASSUME FdInv, [Next]_vars PROVE FdAccounting'
  OBVIOUS
<1>1. /\ TypeInv /\ pc \in [Procs -> Locations] /\ DOMAIN cmd = Procs
      /\ type \in [Slots -> Types] /\ openFds \in Int
      /\ Net \in Procs /\ Threads \subseteq Procs
  BY DEF FdInv, IInv, TypeInv, TypeOK, Procs
<1>2. ASSUME UNCHANGED <<type, pc, cmd, pipe, openFds>> PROVE FdAccounting'
  BY <1>2, FdSame DEF SameSocks, SameThreads, HoldsFd, Reserving
<1>3. ASSUME NEW p \in Procs, GenProbe(p) PROVE FdAccounting'
  <2>1. type' = type /\ pipe' = pipe /\ openFds' = openFds
    BY <1>3 DEF GenProbe, sockets
  <2>2. SameThreads
    BY <1>1, <1>3 DEF GenProbe, SameThreads, HoldsFd, Reserving
  <2> QED
    BY <2>1, <2>2, FdSame DEF SameSocks
<1>4. ASSUME NEW p \in Procs, GenCas(p) PROVE FdAccounting'
  <2>1. pipe' = pipe /\ openFds' = openFds /\ cmd' = cmd
    BY <1>4 DEF GenCas
  <2>2. SameThreads
    BY <1>1, <1>4, <2>1 DEF GenCas, SameThreads, HoldsFd, Reserving
  <2>3. SameSocks
    BY <1>1, <1>4 DEF GenCas, SameSocks, HasFd
  <2> QED
    BY <2>1, <2>2, <2>3, FdSame
<1>5. ASSUME NEW p \in Procs, GenFail(p) PROVE FdAccounting'
  <2>1. /\ pc[p] = "probe" /\ pc'[p] = "idle" /\ openFds' = openFds - 1
        /\ type' = type /\ pipe' = pipe
        /\ \A q \in Procs : q # p => pc'[q] = pc[q] /\ cmd'[q] = cmd[q]
    BY <1>1, <1>5 DEF GenFail, Return
  <2>2. One(HoldsFd(p)) = 1 /\ One(HoldsFd(p)') = 0
    BY <2>1 DEF One, HoldsFd, Reserving
  <2>3. openFds' = openFds + One(HoldsFd(p)') - One(HoldsFd(p))
    BY <1>1, <2>1, <2>2
  <2> QED
    BY <2>1, <2>3, FdThread DEF SameSocks
\* A thread or the network thread begins to look for a slot, with a descriptor.
<1>6. ASSUME NEW p \in Procs, NEW op, pc[p] = "idle", Begin(p, op),
             openFds' = openFds + 1, type' = type, pipe' = pipe
      PROVE  FdAccounting'
  <2>1. /\ pc'[p] = "probe"
        /\ \A q \in Procs : q # p => pc'[q] = pc[q] /\ cmd'[q] = cmd[q]
    BY <1>1, <1>6 DEF Begin
  <2>2. One(HoldsFd(p)) = 0 /\ One(HoldsFd(p)') = 1
    BY <1>6, <2>1 DEF One, HoldsFd, Reserving
  <2>3. openFds' = openFds + One(HoldsFd(p)') - One(HoldsFd(p))
    BY <1>1, <1>6, <2>2
  <2> QED
    BY <1>6, <2>1, <2>3, FdThread DEF SameSocks
\* It posts a command that is no listen command.
<1>7. ASSUME NEW p \in Procs, NEW op, NEW i, op # "L", pc[p] = "idle", Post(p, op, i),
             openFds' = openFds, type' = type, pipe' = pipe
      PROVE  FdAccounting'
  <2>1. /\ pc'[p] = "write" /\ cmd'[p].op = op
        /\ \A q \in Procs : q # p => pc'[q] = pc[q] /\ cmd'[q] = cmd[q]
    BY <1>1, <1>7 DEF Post
  <2>2. SameThreads
    BY <1>7, <2>1 DEF SameThreads, HoldsFd, Reserving
  <2> QED
    BY <1>7, <2>2, FdSame DEF SameSocks
<1>8. ASSUME NEW t \in Threads, CallListen(t) \/ CallStart(t) \/ CallClose(t) \/ CallSend(t)
      PROVE  FdAccounting'
  <2>1. CASE CallListen(t)
    BY <1>1, <1>6, <2>1 DEF CallListen
  <2>2. CASE CallStart(t)
    BY <1>1, <1>7, <2>2 DEF CallStart, sockets
  <2>3. CASE CallClose(t)
    BY <1>1, <1>7, <2>3 DEF CallClose, sockets
  <2>4. CASE CallSend(t)
    BY <1>1, <1>7, <2>4 DEF CallSend, sockets
  <2> QED
    BY <1>8, <2>1, <2>2, <2>3, <2>4
<1>9. ASSUME NEW e \in events, AcceptConnection(e) PROVE FdAccounting'
  BY <1>1, <1>6, <1>9 DEF AcceptConnection, NextEvent, Polling
<1>10. ASSUME NEW e \in events, ReadEof(e) PROVE FdAccounting'
  BY <1>1, <1>7, <1>10 DEF ReadEof, NextEvent, Polling, sockets
<1>11. ASSUME NEW e \in events, ReadGone(e) PROVE FdAccounting'
  <2>1. PICK s \in Slots : s = e.slot
    BY DEF FdInv, IInv, TypeOK
  <2>2. /\ force_close(s) /\ type[s] = "CONNECTED" /\ pipe' = pipe
        /\ pc' = pc /\ cmd' = cmd
    BY <1>11, <2>1 DEF ReadGone, NextEvent, control
  <2>3. s # PipeSlot
    BY <2>2 DEF FdInv, IInv, PipeInv
  <2>4. /\ Cardinality(SockFds) \in Int /\ Cardinality(SockFds') \in Int
        /\ openFds' - openFds = Cardinality(SockFds') - Cardinality(SockFds)
    BY <2>2, <2>3, FdClose
  <2>5. openFds' \in Int
    BY <1>1, TypeStep DEF TypeInv, TypeOK
  <2>6. /\ ThreadFds' = ThreadFds /\ PipeFds' = PipeFds
        /\ Cardinality(ThreadFds) \in Int /\ Cardinality(PipeFds) \in Int
    BY <1>1, <2>2, SameCounts DEF SameThreads, HoldsFd, Reserving
  <2>7. openFds = Cardinality(SockFds) + Cardinality(ThreadFds) + Cardinality(PipeFds)
    BY FdAccountingRestated DEF FdInv
  <2>8. openFds' = Cardinality(SockFds') + Cardinality(ThreadFds') + Cardinality(PipeFds')
    BY <1>1, <2>4, <2>5, <2>6, <2>7
  <2> QED
    BY <2>8, FdAccountingRestated
<1>12. CASE EngineWait
  BY <1>2, <1>12 DEF EngineWait, sockets, control
<1>13. ASSUME NEW e \in events,
              AcceptNothing(e) \/ ReadData(e) \/ SkipInvalid(e) \/ AssertConnected(e)
       PROVE  FdAccounting'
  BY <1>2, <1>13 DEF AcceptNothing, ReadData, SkipInvalid, AssertConnected, sockets, control
<1>14. CASE UNCHANGED vars
  BY <1>2, <1>14 DEF vars
<1> QED
  BY <1>3, <1>4, <1>5, <1>8, <1>9, <1>10, <1>11, <1>12, <1>13, <1>14, NextCases,
     FdOwn, FdWrite, FdCommand

\* For any number of slots, threads and pipe entries: every open descriptor has
\* exactly one owner, whatever fails and whoever closes it; socket_server.c
\* leaks none and closes none twice.
THEOREM DescriptorsAccounted == Spec => []FdAccounting
<1>1. Init => FdInv
  <2> SUFFICES ASSUME Init PROVE FdInv
    OBVIOUS
  <2>1. IInv
    BY Induction
  <2>2. SockFds = {} /\ ThreadFds = {} /\ PipeFds = {} /\ openFds = 0
    BY DEF Init, SockFds, ThreadFds, PipeFds, HasFd, HoldsFd, Reserving
  <2>3. FdAccounting
    BY <2>2, FS_EmptySet, FdAccountingRestated
  <2> QED
    BY <2>1, <2>3 DEF FdInv
<1>2. FdInv /\ [Next]_vars => FdInv'
  BY FdStep, Induction DEF FdInv
<1>3. FdInv => FdAccounting
  BY DEF FdInv
<1> QED
  BY <1>1, <1>2, <1>3, PTL DEF Spec
(***************************************************************************)
(* Accepted connections and their start commands.                           *)
(***************************************************************************)
Start(s) == [op |-> "S", id |-> id[s]]
HasStart(s) ==
  \/ pc[Net] = "write" /\ cmd[Net] = Start(s)
  \/ \E k \in DOMAIN pipe : pipe[k] = Start(s)

\* The network thread looks for slots for accepted connections only.
AcceptsToStart == pc[Net] \in {"probe", "cas", "own"} => cmd[Net].op = "S"

StartInv == IInv /\ AcceptsToStart /\ AcceptedHasStart

LEMMA AcceptsToStartStep ==
  ASSUME TypeInv, AcceptsToStart, [Next]_vars
  PROVE  AcceptsToStart'
<1>1. /\ pc \in [Procs -> Locations] /\ DOMAIN cmd = Procs
      /\ Net \in Procs /\ Net \notin Threads
  BY ServerAssumption DEF TypeInv, TypeOK, Procs
<1>2. ASSUME NEW p \in Procs,
             GenProbe(p) \/ GenCas(p) \/ GenFail(p) \/ GenOwn(p) \/ WritePipe(p)
      PROVE  AcceptsToStart'
  <2>1. CASE GenProbe(p)
    <3>1. cmd'[Net].op = cmd[Net].op
      BY <1>1, <2>1 DEF GenProbe, TypeInv, TypeOK, Commands, NoCmd
    <3>2. pc'[Net] \in {"probe", "cas", "own"} => pc[Net] \in {"probe", "cas", "own"}
      BY <1>1, <2>1 DEF GenProbe
    <3> QED
      BY <3>1, <3>2 DEF AcceptsToStart
  <2>2. CASE GenCas(p)
    BY <1>1, <2>2 DEF AcceptsToStart, GenCas
  <2>3. CASE GenFail(p) \/ WritePipe(p)
    BY <1>1, <2>3 DEF AcceptsToStart, GenFail, WritePipe, Return
  <2>4. CASE GenOwn(p)
    BY <1>1, <2>4 DEF AcceptsToStart, GenOwn, Post
  <2> QED
    BY <1>2, <2>1, <2>2, <2>3, <2>4
<1>3. ASSUME NEW t \in Threads, CallListen(t) \/ CallStart(t) \/ CallClose(t) \/ CallSend(t)
      PROVE  AcceptsToStart'
  BY <1>1, <1>3 DEF AcceptsToStart, CallListen, CallStart, CallClose, CallSend, Begin, Post
<1>4. ASSUME NEW e \in events, AcceptConnection(e) \/ ReadEof(e) PROVE AcceptsToStart'
  BY <1>1, <1>4 DEF AcceptsToStart, AcceptConnection, ReadEof, Begin, Post
<1>5. ASSUME UNCHANGED <<pc, cmd>> PROVE AcceptsToStart'
  BY <1>5 DEF AcceptsToStart
<1> QED
  BY <1>2, <1>3, <1>4, <1>5, NextCases
  DEF EngineWait, ExecStart, ExecListen, ExecClose, ExecSend, AcceptNothing, ReadData,
      ReadGone, SkipInvalid, AssertConnected, control, vars

\* The network thread has its start command to post until it is in the pipe.
LEMMA PostedStart ==
  ASSUME IInv, Next, NEW c, pc[Net] = "write", cmd[Net] = c
  PROVE  \/ pc'[Net] = "write" /\ cmd'[Net] = c
         \/ \E k \in DOMAIN pipe' : pipe'[k] = c
<1>1. /\ pc \in [Procs -> Locations] /\ DOMAIN cmd = Procs
      /\ Net \in Procs /\ Net \notin Threads /\ pipe \in Seq(Commands)
  BY ServerAssumption DEF IInv, TypeOK, Procs
<1>2. CASE WritePipe(Net)
  <2>1. pipe' = Append(pipe, c)
    BY <1>2 DEF WritePipe
  <2>2. Len(pipe) + 1 \in DOMAIN pipe' /\ pipe'[Len(pipe) + 1] = c
    BY <1>1, <2>1
  <2> QED
    BY <2>2
<1>3. ASSUME NEW p \in Procs, p # Net,
             GenProbe(p) \/ GenCas(p) \/ GenFail(p) \/ GenOwn(p) \/ WritePipe(p)
      PROVE  pc'[Net] = pc[Net] /\ cmd'[Net] = cmd[Net]
  BY <1>1, <1>3 DEF GenProbe, GenCas, GenFail, GenOwn, WritePipe, Return, Post
<1>4. ASSUME NEW t \in Threads, CallListen(t) \/ CallStart(t) \/ CallClose(t) \/ CallSend(t)
      PROVE  pc'[Net] = pc[Net] /\ cmd'[Net] = cmd[Net]
  BY <1>1, <1>4 DEF CallListen, CallStart, CallClose, CallSend, Begin, Post
<1>5. ~(GenProbe(Net) \/ GenCas(Net) \/ GenFail(Net) \/ GenOwn(Net))
  BY DEF GenProbe, GenCas, GenFail, GenOwn
<1>6. ~Polling
  BY DEF Polling
<1>7. \/ \E p \in Procs : GenProbe(p) \/ GenCas(p) \/ GenFail(p) \/ GenOwn(p) \/ WritePipe(p)
      \/ \E t \in Threads : CallListen(t) \/ CallStart(t) \/ CallClose(t) \/ CallSend(t)
  BY <1>6, NextCases
  DEF EngineWait, ExecStart, ExecListen, ExecClose, ExecSend, AcceptNothing, AcceptConnection,
      ReadData, ReadEof, ReadGone, SkipInvalid, AssertConnected, Read, NextEvent
<1> QED
  BY <1>2, <1>3, <1>4, <1>5, <1>7

\* A start command leaves the pipe only when it is executed, which opens the
\* connection.
LEMMA QueuedStart ==
  ASSUME IInv, Next, ~EngineMayFail, NEW s \in Slots, type[s] = "PACCEPT",
         NEW k \in DOMAIN pipe, pipe[k] = Start(s)
  PROVE  \/ \E j \in DOMAIN pipe' : pipe'[j] = Start(s)
         \/ type'[s] = "CONNECTED"
<1>1. /\ pipe \in Seq(Commands) /\ type \in [Slots -> Types]
      /\ HASH_ID(id[s]) = s
  BY DEF IInv, TypeOK, PipeInv
<1>2. ASSUME pipe' = pipe \/ \E c : pipe' = Append(pipe, c)
      PROVE  \E j \in DOMAIN pipe' : pipe'[j] = Start(s)
  BY <1>1, <1>2
<1>3. ASSUME NEW e \in events,
             ExecStart(e) \/ ExecListen(e) \/ ExecClose(e) \/ ExecSend(e)
      PROVE  \/ \E j \in DOMAIN pipe' : pipe'[j] = Start(s)
             \/ type'[s] = "CONNECTED"
  <2>1. /\ pipe # <<>> /\ pipe' = Tail(pipe)
        /\ Head(pipe).op = "S" => ExecStart(e)
    BY <1>3 DEF ExecStart, ExecListen, ExecClose, ExecSend, Read
  <2>2. CASE k = 1
    <3>1. Head(pipe) = Start(s)
      BY <1>1, <2>1, <2>2
    <3>2. start_socket(Start(s))
      BY <2>1, <3>1 DEF ExecStart, Start
    <3>3. ~Stale(Start(s)) /\ \A r \in Slots : Found(Start(s), r) => r = s
      BY <1>1 DEF Stale, Found, Start
    <3>4. engine_add(s, "CONNECTED")
      BY <3>2, <3>3 DEF start_socket
    <3> QED
      BY <1>1, <3>4 DEF engine_add
  <2>3. CASE k # 1
    <3>1. k - 1 \in DOMAIN pipe' /\ pipe'[k - 1] = pipe[k]
      BY <1>1, <2>1, <2>3
    <3> QED
      BY <3>1
  <2> QED
    BY <2>2, <2>3
<1> QED
  BY <1>2, <1>3, NextCases
  DEF GenProbe, GenCas, GenFail, GenOwn, WritePipe, CallListen, CallStart, CallClose, CallSend,
      EngineWait, AcceptNothing, AcceptConnection, ReadData, ReadEof, ReadGone, SkipInvalid,
      AssertConnected

\* A connection is accepted with its start command to post.
LEMMA NewStart ==
  ASSUME IInv, AcceptsToStart, Next, NEW s \in Slots, type[s] # "PACCEPT", type'[s] = "PACCEPT"
  PROVE  HasStart(s)'
<1>1. /\ TypeInv /\ OwnerInv /\ type \in [Slots -> Types] /\ id \in [Slots -> Ids]
      /\ pc \in [Procs -> Locations] /\ DOMAIN cmd = Procs /\ Net \in Procs
  BY DEF IInv, TypeInv, OwnerInv, TypeOK, Procs
<1>2. ASSUME type' = type PROVE FALSE
  BY <1>2
<1>3. ASSUME NEW r \in Slots, force_close(r) PROVE FALSE
  BY <1>1, <1>3 DEF force_close
<1>4. ASSUME NEW p \in Procs, GenOwn(p) PROVE HasStart(s)'
  <2>1. /\ p = Net /\ pc[Net] = "own"
        /\ new_socket(HASH_ID(cmd[Net].id), cmd[Net].id, "PACCEPT")
        /\ Post(Net, cmd[Net].op, cmd[Net].id)
    BY <1>2, <1>4 DEF GenOwn
  <2>2. s = HASH_ID(cmd[Net].id) /\ id'[s] = cmd[Net].id
    BY <1>1, <2>1 DEF new_socket
  <2>3. cmd[Net].op = "S"
    BY <2>1 DEF AcceptsToStart
  <2>4. pc'[Net] = "write" /\ cmd'[Net] = [op |-> "S", id |-> cmd[Net].id]
    BY <1>1, <2>1, <2>3 DEF Post
  <2> QED
    BY <2>2, <2>4 DEF HasStart, Start
<1>5. ASSUME NEW p \in Procs, GenCas(p) PROVE FALSE
  BY <1>1, <1>5 DEF GenCas
<1>6. ASSUME NEW e \in events, ExecStart(e) PROVE FALSE
  BY <1>1, <1>6 DEF ExecStart, start_socket, engine_add
<1>7. ASSUME NEW e \in events, ExecListen(e) PROVE FALSE
  BY <1>1, <1>7 DEF ExecListen, listen_socket, new_socket
<1>8. ASSUME NEW e \in events, ExecClose(e) PROVE FALSE
  BY <1>2, <1>3, <1>8 DEF ExecClose, close_socket
<1>9. ASSUME NEW e \in events, ExecSend(e) PROVE FALSE
  BY <1>2, <1>3, <1>9 DEF ExecSend, send_socket
<1>10. ASSUME NEW e \in events, ReadGone(e) PROVE FALSE
  BY <1>1, <1>3, <1>10 DEF ReadGone, IInv, TypeOK
<1> QED
  BY <1>2, <1>4, <1>5, <1>6, <1>7, <1>8, <1>9, <1>10, NextCases
  DEF GenProbe, GenFail, WritePipe, CallListen, CallStart, CallClose, CallSend,
      EngineWait, AcceptNothing, AcceptConnection, ReadData, ReadEof, SkipInvalid,
      AssertConnected, sockets

LEMMA StartStep == StartInv /\ [Next]_vars => AcceptedHasStart'
<1>1. CASE UNCHANGED vars
  BY <1>1 DEF StartInv, AcceptedHasStart, vars
<1>2. ASSUME StartInv, Next, NEW s \in Slots, type'[s] = "PACCEPT", ~EngineMayFail
      PROVE  HasStart(s)'
  <2>1. IInv /\ AcceptsToStart
    BY <1>2 DEF StartInv
  <2>2. CASE type[s] # "PACCEPT"
    BY <1>2, <2>1, <2>2, NewStart
  <2>3. CASE type[s] = "PACCEPT"
    <3>1. id'[s] = id[s]
      BY <1>2, <2>1, <2>3, LegalNext DEF LifeCycleStep, vars
    <3>2. HasStart(s)
      BY <1>2, <2>3 DEF StartInv, AcceptedHasStart, HasStart, Start
    <3>3. CASE pc[Net] = "write" /\ cmd[Net] = Start(s)
      BY <1>2, <2>1, <3>1, <3>3, PostedStart DEF HasStart, Start
    <3>4. CASE \E k \in DOMAIN pipe : pipe[k] = Start(s)
      BY <1>2, <2>1, <2>3, <3>1, <3>4, QueuedStart DEF HasStart, Start
    <3> QED
      BY <3>2, <3>3, <3>4 DEF HasStart
  <2> QED
    BY <2>2, <2>3
<1>3. ASSUME StartInv, Next PROVE AcceptedHasStart'
  BY <1>2, <1>3 DEF AcceptedHasStart, HasStart, Start
<1> QED
  BY <1>1, <1>3

\* For any number of slots, threads and pipe entries, as long as engine_add does
\* not fail: no accepted connection is forgotten; its start command is in
\* thread_network's hands or in the pipe until it is carried out.
THEOREM AcceptedIsStarted == Spec => []AcceptedHasStart
<1>1. Init => StartInv
  <2>1. Init => AcceptsToStart /\ AcceptedHasStart
    BY DEF Init, AcceptsToStart, AcceptedHasStart, Procs
  <2> QED
    BY <2>1, Induction DEF StartInv
<1>2. StartInv /\ [Next]_vars => StartInv'
  BY StartStep, AcceptsToStartStep, Induction DEF StartInv, IInv, TypeInv
<1>3. StartInv => AcceptedHasStart
  BY DEF StartInv
<1> QED
  BY <1>1, <1>2, <1>3, PTL DEF Spec
=============================================================================
