---------------------------- MODULE SocketServer ----------------------------
(***************************************************************************)
(* The socket server of c/network/socket_server.c: a network thread that   *)
(* polls epoll and owns the sockets, and application threads that call the *)
(* public interface.  The two sides share the table socket_map, guarded by *)
(* nothing but one compare-and-swap, and a pipe of commands.               *)
(*                                                                         *)
(* A socket is a slot of the table; its application id is hashed to the    *)
(* slot, so ids outlive the sockets they named.  File descriptors are      *)
(* counted, payloads are left out: of a slot's two write lists the model   *)
(* keeps only the ids to which the messages in them were sent (module      *)
(* SendBuffer has the rest).  Id wrap-around is in module GenerateId.      *)
(***************************************************************************)
EXTENDS Integers, Sequences, FiniteSets

CONSTANTS
  MAX_SOCKET,     \* number of slots of socket_map
  MAX_EVENT,      \* number of events in a batch
  Threads,        \* application threads
  Net,            \* the network thread
  PipeCap,        \* commands the kernel's pipe buffer holds
  MaxId,          \* bound: nothing is opened once alloc_id has reached it
  EngineMayFail,  \* whether engine_add may fail
  Calls           \* the calls application threads make

ASSUME ServerAssumption ==
  /\ MAX_SOCKET \in Nat /\ MAX_SOCKET > 1
  /\ MAX_EVENT \in Nat \ {0}
  /\ Net \notin Threads
  /\ PipeCap \in Nat \ {0}
  /\ MaxId \in Nat
  /\ EngineMayFail \in BOOLEAN
  /\ Calls \subseteq {"listen", "start", "close", "send"}

ASSUME ThreadsAssumption == IsFiniteSet(Threads)

(* Threads have names that SlotTable does not use for slots.                *)
ASSUME NamesAssumption == {"free", "used"} \cap (Threads \cup {Net}) = {}

VARIABLES
  type,      \* slot -> s->type
  id,        \* slot -> s->id
  queued,    \* slot -> the ids whose messages its write lists hold
  reg,       \* slots whose descriptor is registered with epoll
  openFds,   \* listening and accepted descriptors that are open
  alloc_id,  \* ss->alloc_id
  pipe,      \* commands written and not yet read
  events,    \* what is left of event_list, with the id each slot had
  pc,        \* thread -> where it is
  tries,     \* thread -> i of generate_id
  cmd,       \* thread -> the command it prepares, with the id it is after
  known,     \* ids that callers of the interface have been given
  aborted    \* the assertion that stopped the program, or "no"

sockets == <<type, id, queued, reg, openFds>>
control == <<pc, tries, cmd>>
vars == <<type, id, queued, reg, openFds, alloc_id, pipe, events, pc, tries,
          cmd, known, aborted>>

-----------------------------------------------------------------------------
Slots == 0 .. MAX_SOCKET - 1
HASH_ID(i) == i % MAX_SOCKET
PipeSlot == HASH_ID(1)
NoId == -1
Ids == Nat \cup {NoId}
Procs == Threads \cup {Net}

(* The types some statement assigns; CONNECTING, HALFCLOSE, BIND never are. *)
Types == {"INVALID", "RESERVE", "PLISTEN", "LISTEN", "CONNECTED", "PACCEPT",
          "PIPE"}
Commands == [op : {"S", "L", "K", "D"}, id : Ids]
NoCmd == [op |-> "none", id |-> NoId]
Locations == {"idle", "probe", "cas", "own", "write"}
Assertions == {"no", "event", "force_close", "new_socket", "write_list"}

(* socket_server_create: id 1 is the reading end of the pipe.  The table is *)
(* one large malloc, which the kernel hands out zeroed.                     *)
Init ==
  /\ type = [s \in Slots |-> IF s = PipeSlot THEN "PIPE" ELSE "INVALID"]
  /\ id = [s \in Slots |-> IF s = PipeSlot THEN 1 ELSE 0]
  /\ queued = [s \in Slots |-> {}]
  /\ reg = {PipeSlot}
  /\ openFds = 0
  /\ alloc_id = 1
  /\ pipe = <<>>
  /\ events = {}
  /\ pc = [p \in Procs |-> "idle"]
  /\ tries = [p \in Procs |-> 0]
  /\ cmd = [p \in Procs |-> NoCmd]
  /\ known = {}
  /\ aborted = "no"

-----------------------------------------------------------------------------
(* Steps of a thread: beginning and ending a call, posting a command.       *)

Begin(p, op) ==
  /\ pc' = [pc EXCEPT ![p] = "probe"]
  /\ tries' = [tries EXCEPT ![p] = 0]
  /\ cmd' = [cmd EXCEPT ![p] = [op |-> op, id |-> NoId]]

Post(p, op, i) ==
  /\ pc' = [pc EXCEPT ![p] = "write"]
  /\ tries' = [tries EXCEPT ![p] = 0]
  /\ cmd' = [cmd EXCEPT ![p] = [op |-> op, id |-> i]]

Return(p) ==
  /\ pc' = [pc EXCEPT ![p] = "idle"]
  /\ tries' = [tries EXCEPT ![p] = 0]
  /\ cmd' = [cmd EXCEPT ![p] = NoCmd]

(* Mutants: a loop of one try too many; ids cut to their low bits.          *)
MutOneTryTooMany(p) ==
  /\ pc[p] = "probe" /\ tries[p] <= MAX_SOCKET
  /\ alloc_id' = alloc_id + 1
  /\ cmd' = [cmd EXCEPT ![p].id = alloc_id + 1]
  /\ IF type[HASH_ID(alloc_id + 1)] = "INVALID"
     THEN pc' = [pc EXCEPT ![p] = "cas"] /\ UNCHANGED tries
     ELSE tries' = [tries EXCEPT ![p] = @ + 1] /\ UNCHANGED pc
  /\ UNCHANGED <<sockets, pipe, events, known, aborted>>

MutShortIds(p) ==
  /\ pc[p] = "probe" /\ tries[p] < MAX_SOCKET
  /\ alloc_id' = (alloc_id + 1) % (2 * MAX_SOCKET)
  /\ cmd' = [cmd EXCEPT ![p].id = alloc_id']
  /\ IF type[HASH_ID(alloc_id')] = "INVALID"
     THEN pc' = [pc EXCEPT ![p] = "cas"] /\ UNCHANGED tries
     ELSE tries' = [tries EXCEPT ![p] = @ + 1] /\ UNCHANGED pc
  /\ UNCHANGED <<sockets, pipe, events, known, aborted>>

(* generate_id, run by an application thread that listens and by the        *)
(* network thread when it accepts.  Taking a number and looking at its slot *)
(* is one step, the compare-and-swap another, writing the id a third.       *)
GenProbe(p) ==
  /\ pc[p] = "probe" /\ tries[p] < MAX_SOCKET
  /\ alloc_id' = alloc_id + 1
  /\ cmd' = [cmd EXCEPT ![p].id = alloc_id + 1]
  /\ \/ /\ type[HASH_ID(alloc_id + 1)] = "INVALID"
        /\ pc' = [pc EXCEPT ![p] = "cas"]
        /\ UNCHANGED tries
     \/ /\ type[HASH_ID(alloc_id + 1)] # "INVALID"
        /\ tries' = [tries EXCEPT ![p] = @ + 1]
        /\ UNCHANGED pc
  /\ UNCHANGED <<sockets, pipe, events, known, aborted>>

(* Mutant: a store where the code has a compare-and-swap.                   *)
MutBlindReserve(p) ==
  /\ pc[p] = "cas"
  /\ type' = [type EXCEPT ![HASH_ID(cmd[p].id)] = "RESERVE"]
  /\ pc' = [pc EXCEPT ![p] = "own"]
  /\ UNCHANGED <<id, queued, reg, openFds, alloc_id, pipe, events, tries, cmd,
                 known, aborted>>

GenCas(p) ==
  LET s == HASH_ID(cmd[p].id) IN
  /\ pc[p] = "cas"
  /\ \/ /\ type[s] = "INVALID"
        /\ type' = [type EXCEPT ![s] = "RESERVE"]
        /\ pc' = [pc EXCEPT ![p] = "own"]
     \/ /\ type[s] # "INVALID"        \* lost the race: a try not counted
        /\ pc' = [pc EXCEPT ![p] = "probe"]
        /\ UNCHANGED type
  /\ UNCHANGED <<id, queued, reg, openFds, alloc_id, pipe, events, tries, cmd,
                 known, aborted>>

(* Mutant: the descriptor is forgotten.                                     *)
MutGenFailLeaks(p) ==
  /\ pc[p] = "probe" /\ tries[p] = MAX_SOCKET
  /\ Return(p)
  /\ UNCHANGED <<sockets, alloc_id, pipe, events, known, aborted>>

(* No slot in MAX_SOCKET tries: the caller closes its descriptor.           *)
GenFail(p) ==
  /\ pc[p] = "probe" /\ tries[p] = MAX_SOCKET
  /\ openFds' = openFds - 1
  /\ Return(p)
  /\ UNCHANGED <<type, id, queued, reg, alloc_id, pipe, events, known, aborted>>

(* Mutant: a non-blocking pipe, whose EAGAIN loses the command.             *)
MutDropWhenFull(p) ==
  /\ pc[p] = "write"
  /\ pipe' = IF Len(pipe) < PipeCap THEN Append(pipe, cmd[p]) ELSE pipe
  /\ known' = IF cmd[p].op = "L" THEN known \cup {cmd[p].id} ELSE known
  /\ Return(p)
  /\ UNCHANGED <<sockets, alloc_id, events, aborted>>

(* send_engine_command: one write of the whole command, which blocks while  *)
(* the pipe is full.  socket_server_listen then returns the id.             *)
WritePipe(p) ==
  /\ pc[p] = "write" /\ Len(pipe) < PipeCap
  /\ pipe' = Append(pipe, cmd[p])
  /\ known' = IF cmd[p].op = "L" THEN known \cup {cmd[p].id} ELSE known
  /\ Return(p)
  /\ UNCHANGED <<sockets, alloc_id, events, aborted>>

-----------------------------------------------------------------------------
(* Helpers of the network thread on one slot.                               *)

(* Mutant: the write lists are not looked at.                               *)
MutNoListCheck(s, i, t) ==
  \/ /\ type[s] # "RESERVE"
     /\ aborted' = "new_socket"
     /\ UNCHANGED <<type, id>>
  \/ /\ type[s] = "RESERVE"
     /\ type' = [type EXCEPT ![s] = t]
     /\ id' = [id EXCEPT ![s] = i]
     /\ UNCHANGED aborted

(* new_socket without registration.  Its assertions: the slot is reserved,  *)
(* and (check_write_buff_list, last) both write lists are empty.            *)
new_socket(s, i, t) ==
  \/ /\ type[s] # "RESERVE"
     /\ aborted' = "new_socket"
     /\ UNCHANGED <<type, id>>
  \/ /\ type[s] = "RESERVE"
     /\ type' = [type EXCEPT ![s] = t]
     /\ id' = [id EXCEPT ![s] = i]
     /\ aborted' = IF queued[s] # {} THEN "write_list" ELSE aborted

(* Mutant: force_close without its assertion.                               *)
MutCloseAny(s) ==
  /\ type' = [type EXCEPT ![s] = "INVALID"]
  /\ reg' = reg \ {s}
  /\ openFds' = openFds - 1
  /\ UNCHANGED aborted

(* force_close of a slot that is not INVALID: closing the descriptor takes  *)
(* it out of epoll; the write lists stay as they are.                       *)
force_close(s) ==
  \/ /\ type[s] = "RESERVE"
     /\ aborted' = "force_close"
     /\ UNCHANGED <<type, reg, openFds>>
  \/ /\ type[s] # "RESERVE"
     /\ type' = [type EXCEPT ![s] = "INVALID"]
     /\ reg' = reg \ {s}
     /\ openFds' = openFds - 1
     /\ UNCHANGED aborted

(* Mutant: the result of engine_add is not looked at.                       *)
MutAddUnchecked(s, t) ==
  /\ \/ reg' = reg \cup {s}
     \/ EngineMayFail /\ UNCHANGED reg
  /\ type' = [type EXCEPT ![s] = t]

(* engine_add, then the new type; on failure the slot stays as it is.       *)
engine_add(s, t) ==
  \/ /\ reg' = reg \cup {s}
     /\ type' = [type EXCEPT ![s] = t]
  \/ /\ EngineMayFail
     /\ UNCHANGED <<reg, type>>

(* The slot is the winner's alone, who writes the id.  A listener then has  *)
(* its command to post; the network thread makes the socket with            *)
(* new_socket, returns SOCKET_ACCEPT and, in thread_network, has a start to *)
(* post.                                                                    *)
GenOwn(p) ==
  LET s == HASH_ID(cmd[p].id) IN
  /\ pc[p] = "own"
  /\ \/ /\ p # Net
        /\ id' = [id EXCEPT ![s] = cmd[p].id]
        /\ UNCHANGED <<type, known, aborted>>
     \/ /\ p = Net
        /\ new_socket(s, cmd[p].id, "PACCEPT")
        /\ known' = known \cup {cmd[p].id}
  /\ Post(p, cmd[p].op, cmd[p].id)
  /\ UNCHANGED <<queued, reg, openFds, alloc_id, pipe, events>>

-----------------------------------------------------------------------------
(* Application threads.                                                     *)

(* socket_server_listen with a descriptor from raw_listen.                  *)
CallListen(t) ==
  /\ "listen" \in Calls /\ pc[t] = "idle" /\ alloc_id < MaxId
  /\ openFds' = openFds + 1
  /\ Begin(t, "L")
  /\ UNCHANGED <<type, id, queued, reg, alloc_id, pipe, events, known, aborted>>

(* socket_server_start; main calls it with -1 when listening failed.        *)
CallStart(t) ==
  /\ "start" \in Calls /\ pc[t] = "idle"
  /\ \E i \in known \cup {NoId} : Post(t, "S", i)
  /\ UNCHANGED <<sockets, alloc_id, pipe, events, known, aborted>>

(* socket_server_close                                                      *)
CallClose(t) ==
  /\ "close" \in Calls /\ pc[t] = "idle"
  /\ \E i \in known : Post(t, "K", i)
  /\ UNCHANGED <<sockets, alloc_id, pipe, events, known, aborted>>

(* socket_server_send and ..._lowpriority look at the slot, unsynchronised, *)
(* before they post; otherwise they free the buffer and return.             *)
CallSend(t) ==
  /\ "send" \in Calls /\ pc[t] = "idle"
  /\ \E i \in known :
       /\ id[HASH_ID(i)] = i /\ type[HASH_ID(i)] # "INVALID"
       /\ Post(t, "D", i)
  /\ UNCHANGED <<sockets, alloc_id, pipe, events, known, aborted>>

-----------------------------------------------------------------------------
(* socket_server_poll and thread_network.                                   *)

Polling == pc[Net] = "idle"
PipeEvent == \E e \in events : e.slot = PipeSlot

(* engine_wait: readiness is level-triggered, so the pipe is ready when it  *)
(* holds a command; which sockets are, and in which order epoll lists them, *)
(* is the environment's choice.  Only a full batch leaves a ready one out.  *)
EngineWait ==
  /\ Polling /\ events = {}
  /\ \E batch \in SUBSET reg :
       /\ batch # {} /\ Cardinality(batch) <= MAX_EVENT
       /\ PipeSlot \in batch => pipe # <<>>
       /\ pipe # <<>> /\ PipeSlot \notin batch => Cardinality(batch) = MAX_EVENT
       /\ events' = {[slot |-> s, id |-> id[s]] : s \in batch}
  /\ UNCHANGED <<sockets, alloc_id, pipe, control, known, aborted>>

(* The next event, when it is for a slot of one of these types.             *)
NextEvent(e, types) ==
  /\ Polling
  /\ e \in events
  /\ type[e.slot] \in types
  /\ events' = events \ {e}

(* Mutant: one event of the pipe is used until the pipe is empty.           *)
MutDrainPipe(e, op) ==
  /\ Polling /\ e \in events /\ type[e.slot] = "PIPE"
  /\ events' = IF Len(pipe) > 1 THEN events ELSE events \ {e}
  /\ pipe # <<>> /\ Head(pipe).op = op
  /\ pipe' = Tail(pipe)

(* process_engine_command takes one command off the pipe.                   *)
Read(e, op) ==
  /\ NextEvent(e, {"PIPE"})
  /\ pipe # <<>> /\ Head(pipe).op = op
  /\ pipe' = Tail(pipe)

(* The slot of the command, when the id is still the one the slot has.      *)
Found(c, s) == s = HASH_ID(c.id) /\ type[s] # "INVALID" /\ id[s] = c.id
Stale(c) == type[HASH_ID(c.id)] = "INVALID" \/ id[HASH_ID(c.id)] # c.id

start_socket(c) ==
  /\ \/ /\ Stale(c)                                         \* SOCKET_ERROR
        /\ UNCHANGED <<type, reg>>
     \/ \E s \in Slots : Found(c, s) /\
          \/ type[s] = "PLISTEN" /\ engine_add(s, "LISTEN")
          \/ type[s] = "PACCEPT" /\ engine_add(s, "CONNECTED")
          \/ /\ type[s] \notin {"PLISTEN", "PACCEPT"}
             /\ UNCHANGED <<type, reg>>
  /\ UNCHANGED <<id, queued, openFds, aborted>>

listen_socket(c) ==
  /\ new_socket(HASH_ID(c.id), c.id, "PLISTEN")
  /\ UNCHANGED <<queued, reg, openFds>>

(* Mutant: a connection that is not started cannot be closed.               *)
MutCloseStarted(c) ==
  /\ \/ /\ Stale(c) \/ type[HASH_ID(c.id)] = "PACCEPT"
        /\ UNCHANGED <<type, reg, openFds, aborted>>
     \/ \E s \in Slots : Found(c, s) /\ type[s] # "PACCEPT" /\ force_close(s)
  /\ UNCHANGED <<id, queued>>

close_socket(c) ==
  /\ \/ /\ Stale(c)
        /\ UNCHANGED <<type, reg, openFds, aborted>>
     \/ \E s \in Slots : Found(c, s) /\ force_close(s)
  /\ UNCHANGED <<id, queued>>

(* A CONNECTED socket with empty lists is written to at once: all of it, a  *)
(* part (or none, on EAGAIN), which queues the rest, or an error.  Anything *)
(* else that is not refused is queued.                                      *)
send_socket(c) ==
  /\ \/ /\ Stale(c)
        /\ UNCHANGED <<type, queued, reg, openFds, aborted>>
     \/ \E s \in Slots : Found(c, s) /\
          \/ /\ type[s] \in {"PACCEPT", "PLISTEN", "LISTEN"}
             /\ UNCHANGED <<type, queued, reg, openFds, aborted>>
          \/ /\ type[s] = "CONNECTED" /\ queued[s] = {}
             /\ \/ UNCHANGED <<type, queued, reg, openFds, aborted>>
                \/ /\ queued' = [queued EXCEPT ![s] = {c.id}]
                   /\ UNCHANGED <<type, reg, openFds, aborted>>
                \/ force_close(s) /\ UNCHANGED queued
          \/ /\ type[s] \notin {"PACCEPT", "PLISTEN", "LISTEN"}
             /\ type[s] # "CONNECTED" \/ queued[s] # {}
             /\ queued' = [queued EXCEPT ![s] = @ \cup {c.id}]
             /\ UNCHANGED <<type, reg, openFds, aborted>>
  /\ UNCHANGED id

ExecStart(e)  == Read(e, "S") /\ start_socket(Head(pipe))
                   /\ UNCHANGED <<alloc_id, control, known>>
ExecListen(e) == Read(e, "L") /\ listen_socket(Head(pipe))
                   /\ UNCHANGED <<alloc_id, control, known>>
ExecClose(e)  == Read(e, "K") /\ close_socket(Head(pipe))
                   /\ UNCHANGED <<alloc_id, control, known>>
ExecSend(e)   == Read(e, "D") /\ send_socket(Head(pipe))
                   /\ UNCHANGED <<alloc_id, control, known>>

(* raw_accept without a connection: EMFILE is reported, others retried.     *)
AcceptNothing(e) ==
  /\ NextEvent(e, {"LISTEN"})
  /\ UNCHANGED <<sockets, alloc_id, pipe, control, known, aborted>>

(* raw_accept with one: generate_id follows, then GenOwn or GenFail.        *)
AcceptConnection(e) ==
  /\ NextEvent(e, {"LISTEN"})
  /\ alloc_id < MaxId
  /\ openFds' = openFds + 1
  /\ Begin(Net, "S")
  /\ UNCHANGED <<type, id, queued, reg, alloc_id, pipe, known, aborted>>

(* read_socket_tcp, with EINTR or EAGAIN; or data that thread_network only  *)
(* prints; or an event that is neither readable nor writable.               *)
ReadData(e) ==
  /\ NextEvent(e, {"CONNECTED"})
  /\ UNCHANGED <<sockets, alloc_id, pipe, control, known, aborted>>

(* Data with a byte equal to EOF: thread_network posts a close.             *)
ReadEof(e) ==
  /\ NextEvent(e, {"CONNECTED"})
  /\ Post(Net, "K", id[e.slot])
  /\ UNCHANGED <<sockets, alloc_id, pipe, known, aborted>>

(* End of stream or an error of the connection.                             *)
ReadGone(e) ==
  /\ NextEvent(e, {"CONNECTED"})
  /\ force_close(e.slot)
  /\ UNCHANGED <<id, queued, alloc_id, pipe, control, known>>

(* An event of a socket closed earlier in the batch.                        *)
SkipInvalid(e) ==
  /\ NextEvent(e, {"INVALID"})
  /\ UNCHANGED <<sockets, alloc_id, pipe, control, known, aborted>>

(* The default case of the switch asserts CONNECTED (its FIXME).            *)
AssertConnected(e) ==
  /\ NextEvent(e, {"RESERVE", "PLISTEN", "PACCEPT"})
  /\ aborted' = "event"
  /\ UNCHANGED <<sockets, alloc_id, pipe, control, known>>

-----------------------------------------------------------------------------
Generate(p) == GenProbe(p) \/ GenCas(p) \/ GenFail(p) \/ GenOwn(p)

Command(e) == ExecStart(e) \/ ExecListen(e) \/ ExecClose(e) \/ ExecSend(e)

SocketEvent(e) ==
  \/ AcceptNothing(e) \/ AcceptConnection(e)
  \/ ReadData(e) \/ ReadEof(e) \/ ReadGone(e)
  \/ SkipInvalid(e) \/ AssertConnected(e)

Call(t) == CallListen(t) \/ CallStart(t) \/ CallClose(t) \/ CallSend(t)

NetStep ==
  /\ aborted = "no"
  /\ \/ Generate(Net)
     \/ WritePipe(Net)
     \/ EngineWait
     \/ \E e \in events : Command(e) \/ SocketEvent(e)

AppStep(t) ==
  /\ aborted = "no"
  /\ \/ Generate(t)
     \/ WritePipe(t)
     \/ Call(t)

Next == NetStep \/ \E t \in Threads : AppStep(t)

Spec == Init /\ [][Next]_vars

(* The network thread is an endless loop that the system schedules; it      *)
(* sleeps only in epoll_wait and in a write to a full pipe, and a thread    *)
(* that has entered generate_id or a write is not stopped there either.     *)
Fairness ==
  /\ WF_vars(NetStep)
  /\ \A t \in Threads : WF_vars(aborted = "no" /\ (Generate(t) \/ WritePipe(t)))

FairSpec == Spec /\ Fairness
=============================================================================
