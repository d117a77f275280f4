----------------------------- MODULE SendStream -----------------------------
(* What a connection does for those who send on it: the peer receives the   *)
(* messages one after the other, of the waiting ones those of high priority *)
(* first, each priority in the order they were sent, every message without  *)
(* a gap and once.  What is begun is finished before another message.  A    *)
(* broken connection stops.                                                 *)
(*                                                                          *)
(* Not that the peer receives whole messages and nothing else: behind one   *)
(* whose direct write took n bytes, and not all, there come n bytes of what *)
(* happens to lie behind it in memory.                                      *)
EXTENDS Integers, SequencesExt

CONSTANT Size        \* Size[m]: bytes of the m-th message that is sent

VARIABLES
  wire,              \* the bytes the peer has got or will get
  current,           \* what is left of a message that is begun
  high, low,         \* messages that wait
  next,              \* number of the next message
  open               \* the connection works

streamVars == <<wire, current, high, low, next, open>>

Byte(m, i) == <<m, i>>
Bytes(m) == [i \in 1 .. Size[m] |-> Byte(m, i)]
BytesOf(ms) == FlattenSeq([k \in DOMAIN ms |-> Bytes(ms[k])])
Pending == current \o BytesOf(high) \o BytesOf(low)

Init ==
  /\ wire = <<>> /\ current = <<>> /\ high = <<>> /\ low = <<>>
  /\ next = 1 /\ open = TRUE

(* A message joins one of the queues.                                       *)
Queue ==
  /\ open /\ next \in DOMAIN Size /\ next' = next + 1
  /\ \/ high' = Append(high, next) /\ UNCHANGED low
     \/ low' = Append(low, next) /\ UNCHANGED high
  /\ UNCHANGED <<wire, current, open>>

(* When nothing waits, a message may go out at once, or a part of it.  As   *)
(* many bytes as the whole message has are then still to go.                *)
SendNow ==
  /\ open /\ next \in DOMAIN Size /\ next' = next + 1
  /\ Pending = <<>>
  /\ \E n \in 1 .. Size[next] :
       /\ wire' = wire \o SubSeq(Bytes(next), 1, n)
       /\ current' = IF n = Size[next] THEN <<>>
                     ELSE [i \in 1 .. Size[next] |-> Byte(next, n + i)]
  /\ UNCHANGED <<high, low, open>>

(* Some of the bytes that wait go out, in their order; no low message is    *)
(* begun while a high one waits.  What is begun then is the message that    *)
(* was, or one that waited.                                                 *)
Transmit ==
  /\ open
  /\ \E n \in 0 .. Len(Pending) :
       /\ wire' = wire \o SubSeq(Pending, 1, n)
       /\ high' \in Suffixes(high) /\ low' \in Suffixes(low)
       /\ low' # low => high' = <<>>
       /\ \/ current' \in Suffixes(current)
          \/ \E m \in DOMAIN Size : current' \in Suffixes(Bytes(m))
       /\ Pending' = SubSeq(Pending, n + 1, Len(Pending))
  /\ UNCHANGED next

(* The connection may break before, after or while bytes go out.            *)
StreamNext ==
  \/ Queue
  \/ SendNow
  \/ Transmit /\ open' \in BOOLEAN
  \/ open /\ open' = FALSE /\ next' \in {next, next + 1}
       /\ UNCHANGED <<wire, current, high, low>>

StreamSpec == Init /\ [][StreamNext]_streamVars
=============================================================================
