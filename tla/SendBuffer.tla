----------------------------- MODULE SendBuffer -----------------------------
(* The write side of one connection of c/network/socket_server.c: the two   *)
(* write lists of struct socket, filled by send_socket and emptied by       *)
(* send_write_buffer.  Bytes are named by their message and their place in  *)
(* it; a byte beyond the end of its message's buffer would be whatever      *)
(* memory follows.                                                          *)
EXTENDS Integers, SequencesExt

CONSTANTS
  Size,          \* Size[m]: bytes of the m-th message that is sent
  WriteEvents    \* whether the engine reports writability from the start

ASSUME BufferAssumption ==
  /\ Size \in Seq(Nat \ {0})
  /\ WriteEvents \in BOOLEAN

VARIABLES
  high, low,     \* s->high, s->low
  write_buff_size,
  sent,          \* what write has taken, in order
  next,          \* number of the next message
  open,          \* the socket is CONNECTED (or closed, then)
  interest       \* the engine is to report that the socket is writable

vars == <<high, low, write_buff_size, sent, next, open, interest>>

-----------------------------------------------------------------------------
(* struct write_buffer: write_ptr is ptr bytes into the message, sz is the  *)
(* field that says how many are left.                                       *)
Buffers == [msg : DOMAIN Size, ptr : Nat, sz : Nat]
Messages == 1 .. Len(Size)

SumSz(list) ==
  LET sum[k \in 0 .. Len(list)] == IF k = 0 THEN 0 ELSE sum[k - 1] + list[k].sz
  IN  sum[Len(list)]

(* n bytes from write_ptr on.                                               *)
BytesFrom(b, n) == [i \in 1 .. n |-> <<b.msg, b.ptr + i>>]

Init ==
  /\ high = <<>> /\ low = <<>>
  /\ write_buff_size = 0
  /\ sent = <<>>
  /\ next = 1
  /\ open = TRUE
  /\ interest = WriteEvents

-----------------------------------------------------------------------------
(* Mutant: the low list is not looked at.                                   *)
MutHighEmpty == high = <<>>

is_send_buffer_empty == high = <<>> /\ low = <<>>

(* append_send_buffer__: sz is the size of the whole message.               *)
Appended(list, m, n) == Append(list, [msg |-> m, ptr |-> n, sz |-> Size[m]])

append_send_buffer_high(m, n) ==
  /\ high' = Appended(high, m, n)
  /\ write_buff_size' = write_buff_size + Size[m]
  /\ UNCHANGED low

(* Mutant: the size of the list is not kept.                                *)
MutLowUncounted(m) ==
  /\ low' = Appended(low, m, 0)
  /\ UNCHANGED <<high, write_buff_size>>

append_send_buffer_low(m) ==
  /\ low' = Appended(low, m, 0)
  /\ write_buff_size' = write_buff_size + Size[m]
  /\ UNCHANGED high

(* send_socket with nothing buffered: a direct write, which takes any n of  *)
(* the bytes (none on EAGAIN and EINTR).  The rest is buffered with high    *)
(* priority, behind the n bytes but with the size of the whole message.     *)
SendDirect ==
  /\ open /\ next \in Messages /\ is_send_buffer_empty
  /\ \E n \in 0 .. Size[next] :
       /\ sent' = sent \o BytesFrom([msg |-> next, ptr |-> 0], n)
       /\ \/ n = Size[next] /\ UNCHANGED <<high, low, write_buff_size>>
          \/ n # Size[next] /\ append_send_buffer_high(next, n)
  /\ next' = next + 1
  /\ UNCHANGED <<open, interest>>

(* The direct write fails: force_close.                                     *)
SendFails ==
  /\ open /\ next \in Messages /\ is_send_buffer_empty
  /\ open' = FALSE
  /\ next' = next + 1
  /\ UNCHANGED <<high, low, write_buff_size, sent, interest>>

(* send_socket behind data that is buffered already ('D' and 'P').          *)
SendQueued ==
  /\ open /\ next \in Messages /\ ~is_send_buffer_empty
  /\ \/ append_send_buffer_high(next, 0)
     \/ append_send_buffer_low(next)
  /\ next' = next + 1
  /\ UNCHANGED <<sent, open, interest>>

-----------------------------------------------------------------------------
(* send_write_buff_list against a kernel that takes room bytes: as many     *)
(* buffers as fit whole, then a part of the next, then it stops.            *)
Whole(list, room) ==
  CHOOSE k \in 0 .. Len(list) :
    /\ SumSz(SubSeq(list, 1, k)) <= room
    /\ k < Len(list) => SumSz(SubSeq(list, 1, k + 1)) > room

Part(list, room) == room - SumSz(SubSeq(list, 1, Whole(list, room)))

WrittenBytes(list, room) ==
  LET k == Whole(list, room) IN
  FlattenSeq([j \in 1 .. k |-> BytesFrom(list[j], list[j].sz)])
    \o IF k = Len(list) THEN <<>> ELSE BytesFrom(list[k + 1], Part(list, room))

Advance(b, n) == [b EXCEPT !.ptr = @ + n, !.sz = @ - n]

Left(list, room) ==
  LET k == Whole(list, room) IN
  IF k = Len(list) THEN <<>>
  ELSE <<Advance(list[k + 1], Part(list, room))>> \o SubSeq(list, k + 2, Len(list))

Uncomplete(list) == list # <<>> /\ Head(list).ptr # 0

(* Mutant: STEP 3 is left out.                                              *)
MutNotRaised(lows) == [high |-> <<>>, low |-> lows]

(* raise_write_buff_list_uncomplete, when the head of the low list is       *)
(* uncomplete; the high list is empty.                                      *)
Raised(lows) ==
  IF Uncomplete(lows) THEN [high |-> <<Head(lows)>>, low |-> Tail(lows)]
                      ELSE [high |-> <<>>, low |-> lows]

(* send_write_buffer, the whole handler of a write event; the kernel takes  *)
(* room bytes.  STEP 1 does not empty the high list.                        *)
FlushHigh(room) ==
  /\ room < SumSz(high)
  /\ sent' = sent \o WrittenBytes(high, room)
  /\ high' = Left(high, room)
  /\ UNCHANGED <<low, interest>>

(* STEPs 2 and 3: it does, and what room is left is for the low list.       *)
FlushLow(room) ==
  LET more == room - SumSz(high)
      lists == Raised(Left(low, more)) IN
  /\ more >= 0 /\ low # <<>>
  /\ sent' = sent \o WrittenBytes(high, room) \o WrittenBytes(low, more)
  /\ high' = lists.high
  /\ low' = lists.low
  /\ UNCHANGED interest

(* STEP 4: there is no low list; the write event is turned off.             *)
FlushAll(room) ==
  /\ room = SumSz(high) /\ low = <<>>
  /\ sent' = sent \o WrittenBytes(high, room)
  /\ high' = <<>>
  /\ interest' = FALSE
  /\ UNCHANGED low

Flush(room) ==
  /\ open /\ interest
  /\ FlushHigh(room) \/ FlushLow(room) \/ FlushAll(room)
  /\ write_buff_size' = write_buff_size - room
  /\ UNCHANGED next

Room == 0 .. SumSz(high) + SumSz(low)

WriteEvent == \E room \in Room : Flush(room) /\ UNCHANGED open

(* Progress of a writable socket, for the fairness.                         *)
WriteProgress == \E room \in Room : Flush(room) /\ UNCHANGED open /\ room > 0

(* After room bytes a write fails: force_close, and the handler returns     *)
(* without STEP 3.                                                          *)
WriteFails ==
  /\ open /\ interest
  /\ \E room \in Room :
       /\ room < SumSz(high) + SumSz(low)
       /\ sent' = sent \o WrittenBytes(high, room)
                       \o (IF room < SumSz(high) THEN <<>>
                           ELSE WrittenBytes(low, room - SumSz(high)))
       /\ high' = Left(high, room)
       /\ low' = IF room < SumSz(high) THEN low ELSE Left(low, room - SumSz(high))
       /\ write_buff_size' = write_buff_size - room
  /\ open' = FALSE
  /\ UNCHANGED <<next, interest>>

-----------------------------------------------------------------------------
Next == SendDirect \/ SendFails \/ SendQueued \/ WriteEvent \/ WriteFails

Spec == Init /\ [][Next]_vars

(* The engine reports a writable socket as long as it is asked to.          *)
FairSpec == Spec /\ WF_vars(WriteProgress)

-----------------------------------------------------------------------------
TypeOK ==
  /\ high \in Seq(Buffers) /\ low \in Seq(Buffers)
  /\ write_buff_size \in Nat
  /\ sent \in Seq(Messages \X Nat)
  /\ next \in 1 .. Len(Size) + 1
  /\ open \in BOOLEAN /\ interest \in BOOLEAN

(* write_buff_size, which socket_server_send returns to callers as the      *)
(* amount that is waiting, is what the buffers of the two lists add up to.  *)
SizeIsKept == write_buff_size = SumSz(high) + SumSz(low)

(* The assertion of send_write_buffer: no message of the low list is begun  *)
(* (it is raised to the high list when it is), except that a failed write   *)
(* leaves it there.                                                         *)
LowNeverBegun == open => ~Uncomplete(low)

(* The connection's promise; the rest of a begun message is at the head of  *)
(* the high list, or after a failed write of the low one.                   *)
Begun == IF Uncomplete(high) THEN <<Head(high)>>
         ELSE IF Uncomplete(low) THEN <<Head(low)>> ELSE <<>>
Waiting(list) == LET rest == IF Uncomplete(list) THEN Tail(list) ELSE list
                 IN [k \in DOMAIN rest |-> rest[k].msg]

Stream == INSTANCE SendStream WITH
  wire <- sent,
  current <- IF Begun = <<>> THEN <<>> ELSE BytesFrom(Begun[1], Begun[1].sz),
  high <- Waiting(high),
  low <- Waiting(low)

(* The lists, with partial writes, short direct writes and raised heads,    *)
(* implement SendStream: every message goes over the wire without a gap,    *)
(* once and in priority order.  What SendStream allows behind the rest of a *)
(* short direct write is the defect that WithinBuffer shows.                *)
ImplementsStream == Stream!StreamSpec

(* A buffer's sz counts bytes of its message that are not yet written; the  *)
(* comment of struct write_buffer says so.  More would be written from      *)
(* beyond the buffer.                                                       *)
WithinBuffer ==
  \A b \in ToSet(high) \cup ToSet(low) : b.ptr + b.sz <= Size[b.msg]

(* Appended data is sent by the engine in the end, as the comments of       *)
(* append_send_buffer_high and append_send_buffer_low say.                  *)
BufferedIsSent == ~is_send_buffer_empty ~> is_send_buffer_empty \/ ~open
=============================================================================
