----------------------- MODULE SocketServerProperties -----------------------
(* What the socket server's clients and its network thread rely on.         *)
EXTENDS SocketServer

(* Every variable has its type; the pipe never holds more than it can.      *)
TypeOK ==
  /\ type \in [Slots -> Types]
  /\ id \in [Slots -> Ids]
  /\ queued \in [Slots -> SUBSET Ids]
  /\ reg \subseteq Slots
  /\ openFds \in Int
  /\ alloc_id \in Nat
  /\ pipe \in Seq(Commands) /\ Len(pipe) <= PipeCap
  /\ events \subseteq [slot : Slots, id : Ids]
  /\ pc \in [Procs -> Locations]
  /\ tries \in [Procs -> 0 .. MAX_SOCKET]
  /\ cmd \in [Procs -> Commands \cup {NoCmd}]
  /\ known \subseteq Ids
  /\ aborted \in Assertions

-----------------------------------------------------------------------------
(* A thread reserves a slot from its compare-and-swap until its listen      *)
(* command is in the pipe, or until the network thread has made the socket. *)
Reserving(p) == pc[p] = "own" \/ (pc[p] = "write" /\ cmd[p].op = "L")

ListenAt(k) == k \in DOMAIN pipe /\ pipe[k].op = "L"

Holders(s) ==
  {<<"thread", p>> : p \in {q \in Procs : Reserving(q) /\ HASH_ID(cmd[q].id) = s}}
  \cup
  {<<"pipe", k>> : k \in {j \in DOMAIN pipe : ListenAt(j) /\ HASH_ID(pipe[j].id) = s}}

(* generate_id hands a slot to one caller: a RESERVE slot has exactly one   *)
(* holder, a thread or a listen command on its way, and no other slot has   *)
(* any.  Two holders would be two sockets in one slot, none a slot lost for *)
(* ever.                                                                    *)
OneHolder ==
  \A s \in Slots :
    IF type[s] = "RESERVE" THEN \E h \in Holders(s) : Holders(s) = {h}
                           ELSE Holders(s) = {}

(* The assertion of new_socket: when listen_socket takes its command, the   *)
(* slot is still the reserved one the caller was given, whatever was closed *)
(* or accepted while the command waited in the pipe.                        *)
ListenReserved ==
  \A k \in DOMAIN pipe : ListenAt(k) =>
    /\ type[HASH_ID(pipe[k].id)] = "RESERVE"
    /\ id[HASH_ID(pipe[k].id)] = pipe[k].id

-----------------------------------------------------------------------------
(* epoll knows the descriptors of listening and connected sockets and of    *)
(* the pipe, and no other: force_close and start_socket keep the table and  *)
(* the kernel's list together, also when engine_add fails.                  *)
RegisteredMatchesType ==
  reg = {s \in Slots : type[s] \in {"LISTEN", "CONNECTED", "PIPE"}}

(* An event that socket_server_poll acts on is for the socket it was        *)
(* collected for: the slot may have been closed and taken again since       *)
(* epoll_wait, but then it cannot also have been started, because a batch   *)
(* holds one command.  Otherwise a new connection would be read, or its     *)
(* slot accepted on, for an event of an old one.                            *)
StaleEventSafe ==
  \A e \in events :
    type[e.slot] \in {"LISTEN", "CONNECTED"} => id[e.slot] = e.id

(* Every open descriptor has exactly one owner: a socket of the table, a    *)
(* thread that looks for a slot for it, or a listen command on its way.     *)
(* Nothing leaks a descriptor or closes one twice.                          *)
FdAccounting ==
  openFds =
    Cardinality({s \in Slots : type[s] \in {"PLISTEN", "LISTEN", "PACCEPT",
                                            "CONNECTED"}})
    + Cardinality({p \in Procs : pc[p] \in {"probe", "cas"} \/ Reserving(p)})
    + Cardinality({k \in DOMAIN pipe : ListenAt(k)})

-----------------------------------------------------------------------------
LegalSteps ==
  {<<"INVALID", "RESERVE">>, <<"RESERVE", "PLISTEN">>, <<"RESERVE", "PACCEPT">>,
   <<"PLISTEN", "LISTEN">>, <<"PACCEPT", "CONNECTED">>}
  \cup {<<t, "INVALID">> : t \in {"PLISTEN", "LISTEN", "PACCEPT", "CONNECTED"}}

LifeCycleStep ==
  \A s \in Slots :
    /\ type'[s] # type[s] => <<type[s], type'[s]>> \in LegalSteps
    /\ id'[s] # id[s] => type[s] = "RESERVE"

(* A slot goes through its types in one order, whoever acts on it; the      *)
(* pipe's slot never changes; and the id of a socket stays for its life.    *)
LifeCycle == [][LifeCycleStep]_vars

Alive(i) == \E s \in Slots : id[s] = i /\ type[s] \notin {"INVALID", "RESERVE"}
Coming(i) == \E k \in DOMAIN pipe : ListenAt(k) /\ pipe[k].id = i

DeadIdsStayDeadStep ==
  \A i \in known : ~Alive(i) /\ ~Coming(i) => ~Alive(i)'

(* An id given to a caller never names a second socket: once its socket is  *)
(* closed it stays dead, through every reuse of the slot.  (Up to the wrap  *)
(* of alloc_id.)                                                            *)
DeadIdsStayDead == [][DeadIdsStayDeadStep]_vars

(* What was sent to one socket never waits in the write lists of another.   *)
(* It could get there in two ways: force_close leaves the lists of a slot   *)
(* as they are, and a send for the socket before is carried out on a slot   *)
(* that is reserved again and still has the old id.  Whoever makes the next *)
(* socket of the slot must then stop the program instead of handing it over.*)
DataStaysWithItsSocket ==
  aborted = "no" =>
    \A s \in Slots : type[s] \notin {"INVALID", "RESERVE"} => queued[s] \subseteq {id[s]}

-----------------------------------------------------------------------------
(* The network thread blocked in its own write: only it empties the pipe.   *)
SelfBlocked == pc[Net] = "write" /\ Len(pipe) = PipeCap
Stopped == aborted # "no" \/ SelfBlocked

(* Where engine_add does not fail, every accepted connection has its start  *)
(* command on the way, in thread_network's hands or in the pipe.            *)
AcceptedHasStart ==
  \A s \in Slots : type[s] = "PACCEPT" /\ ~EngineMayFail =>
    LET start == [op |-> "S", id |-> id[s]] IN
    \/ pc[Net] = "write" /\ cmd[Net] = start
    \/ \E k \in DOMAIN pipe : pipe[k] = start

(* An accepted connection does not stay unopened: it is started or closed,  *)
(* unless an assertion fails or the network thread blocks on its own pipe.  *)
AcceptedOpens ==
  \A s \in Slots : type[s] = "PACCEPT" ~> type[s] # "PACCEPT" \/ Stopped

(* A close request is carried out: an id whose close has reached the pipe   *)
(* comes to name no socket, with the same exceptions.                       *)
CloseTakesEffect ==
  \A i \in 1 .. MaxId + MAX_SOCKET :
    (\E k \in DOMAIN pipe : pipe[k] = [op |-> "K", id |-> i])
      ~> ~Alive(i) \/ Stopped

-----------------------------------------------------------------------------
(* The assertions of the source, as invariants.                             *)

(* check_write_buff_list, in the new_socket that raw_accept calls (the      *)
(* network thread then has its start to post): the slot of an accepted      *)
(* connection has no leftovers in its write lists.                          *)
AcceptListsEmpty == ~(aborted = "write_list" /\ pc[Net] = "write")

(* The default case of socket_server_poll: what is left is CONNECTED.       *)
EventSocketConnected == aborted # "event"

(* force_close: the slot is not one that is still being set up.             *)
ForceCloseNotReserved == aborted # "force_close"
=============================================================================
