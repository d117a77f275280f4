------------------------ MODULE SocketServerInduction ------------------------
(* The inductive invariant behind the theorems of SocketServerProofs.       *)
EXTENDS SocketServerProperties

(* A thread that is in a call has a command in preparation: a listening     *)
(* thread an L, the network thread anything but an L.                       *)
BusyHasCommand ==
  /\ \A p \in Procs : pc[p] # "idle" => cmd[p] \in Commands
  /\ pc[Net] # "idle" => cmd[Net].op # "L"
  /\ \A t \in Threads : pc[t] \in {"probe", "cas", "own"} => cmd[t].op = "L"

(* What a holder of a reserved slot knows of it, and that no two holders    *)
(* have the same slot.                                                      *)
ReservingInv ==
  /\ \A p \in Procs : Reserving(p) => type[HASH_ID(cmd[p].id)] = "RESERVE"
  /\ \A p \in Procs : pc[p] = "write" /\ cmd[p].op = "L"
                        => id[HASH_ID(cmd[p].id)] = cmd[p].id
  /\ \A p, q \in Procs : Reserving(p) /\ Reserving(q)
                           /\ HASH_ID(cmd[p].id) = HASH_ID(cmd[q].id) => p = q

ListenInv ==
  /\ ListenReserved
  /\ \A p \in Procs, k \in DOMAIN pipe :
       Reserving(p) /\ ListenAt(k) => HASH_ID(cmd[p].id) # HASH_ID(pipe[k].id)
  /\ \A j, k \in DOMAIN pipe :
       ListenAt(j) /\ ListenAt(k) /\ HASH_ID(pipe[j].id) = HASH_ID(pipe[k].id)
         => j = k

(* The pipe's slot is for ever the pipe's: nobody can name its id.          *)
PipeInv ==
  /\ \A s \in Slots : type[s] = "PIPE" <=> s = PipeSlot
  /\ id[PipeSlot] = 1
  /\ alloc_id >= 1
  /\ \A p \in Procs : cmd[p].id # 1
  /\ \A k \in DOMAIN pipe : pipe[k].id # 1
  /\ 1 \notin known
  /\ \A s \in Slots : type[s] \notin {"INVALID", "RESERVE"} => HASH_ID(id[s]) = s

(* What can have become of the socket of an event that is still to come: it *)
(* is as it was, or the batch's one command has closed it and its slot was  *)
(* at most accepted into since.                                             *)
EventInv ==
  /\ \A e, f \in events : e.slot = f.slot => e = f
  /\ \A e \in events : e.slot # PipeSlot =>
       \/ type[e.slot] \in {"LISTEN", "CONNECTED"} /\ id[e.slot] = e.id
       \/ type[e.slot] \in {"INVALID", "RESERVE", "PACCEPT"} /\ ~PipeEvent

IInv ==
  /\ TypeOK
  /\ BusyHasCommand
  /\ ReservingInv
  /\ ListenInv
  /\ PipeInv
  /\ EventInv
  /\ RegisteredMatchesType

(* Of ids, beside IInv: none is above alloc_id, and one that generate_id    *)
(* has drawn is in nobody else's hands.                                     *)
Drawn(p) == pc[p] = "cas" \/ Reserving(p)

FreshInv ==
  /\ \A i \in known : i <= alloc_id
  /\ \A p \in Procs : cmd[p].id <= alloc_id
  /\ \A s \in Slots : id[s] <= alloc_id
  /\ \A p \in Procs : Drawn(p) => cmd[p].id \notin known
  /\ \A p, q \in Procs : Drawn(p) /\ Drawn(q) /\ cmd[p].id = cmd[q].id => p = q
=============================================================================
