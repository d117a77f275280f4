--------------------------- MODULE TodoFileProofs ---------------------------
(***************************************************************************)
(* Theorems about the messages of TodoSystem and the files, for any names, *)
(* any hash, any restart limit and any client: every message and every     *)
(* reply is one its receiver can use, and until a process has exited each  *)
(* server's list is on its way to its file behind every older one.         *)
(***************************************************************************)
EXTENDS TodoProofs

(***************************************************************************)
(* The lists.                                                              *)
(***************************************************************************)
Entries == UNION {[D -> Dates] : D \in SUBSET Nat}
Lists == {l \in [auto_id : Nat \ {0}, entries : Entries] : IsList(l)}

LEMMA NewList == new \in Lists
<1>1. DOMAIN <<>> = {} /\ <<>> = [i \in {} |-> "monday"]
  OBVIOUS
<1>2. <<>> \in [{} -> Dates] /\ {} \in SUBSET Nat
  BY <1>1
<1>3. <<>> \in Entries
  BY <1>2 DEF Entries
<1>4. IsList(new)
  BY <1>1 DEF IsList, new
<1> QED
  BY <1>3, <1>4 DEF Lists, new

LEMMA ChangedList ==
  ASSUME NEW l \in Lists, NEW m \in Casts
  PROVE  Changed(l, m) \in Lists
<1>1. /\ l \in [auto_id : Nat \ {0}, entries : Entries] /\ IsList(l)
      /\ l = [auto_id |-> l.auto_id, entries |-> l.entries]
      /\ l.entries \in Entries /\ l.auto_id \in Nat \ {0}
  BY DEF Lists
<1>2. PICK D \in SUBSET Nat : l.entries \in [D -> Dates]
  BY <1>1 DEF Entries
<1>3. D \subseteq 1 .. l.auto_id - 1
  BY <1>1, <1>2 DEF IsList
<1>4. CASE m.op = "add_entry"
  <2>1. m.date \in Dates /\ Changed(l, m) = add_entry(l, m.date)
    BY <1>4 DEF Casts, Changed, Dates
  <2> DEFINE e == With(Only(l.auto_id, m.date), l.entries)
             E == D \cup {l.auto_id}
  <2>2. e \in [E -> Dates] /\ E \in SUBSET Nat
    BY <1>1, <1>2, <2>1 DEF With, Only
  <2>3. E \subseteq 1 .. l.auto_id
    BY <1>1, <1>2, <1>3 DEF IsList
  <2> HIDE DEF e, E
  <2>4. e \in Entries
    BY <2>2 DEF Entries
  <2>5. add_entry(l, m.date) = [auto_id |-> l.auto_id + 1, entries |-> e]
    BY DEF add_entry, e
  <2>6. DOMAIN e \subseteq 1 .. (l.auto_id + 1) - 1
    BY <1>1, <2>2, <2>3
  <2>7. IsList([auto_id |-> l.auto_id + 1, entries |-> e])
    BY <1>1, <2>2, <2>6 DEF IsList
  <2> QED
    BY <1>1, <2>1, <2>4, <2>5, <2>7 DEF Lists
<1>5. CASE m.op = "update_entry"
  <2>1. m.date \in Dates /\ Changed(l, m) = update_entry(l, m.id, m.date)
    BY <1>5 DEF Casts, Changed, Dates
  <2>2. CASE m.id \in DOMAIN l.entries
    <3> DEFINE e == [l.entries EXCEPT ![m.id] = m.date]
    <3>1. e \in [D -> Dates]
      BY <1>2, <2>1
    <3>2. update_entry(l, m.id, m.date) = [auto_id |-> l.auto_id, entries |-> e]
      BY <1>1, <2>2 DEF update_entry
    <3> HIDE DEF e
    <3>3. e \in Entries
      BY <3>1 DEF Entries
    <3>4. IsList([auto_id |-> l.auto_id, entries |-> e])
      BY <1>1, <1>3, <3>1 DEF IsList
    <3> QED
      BY <1>1, <2>1, <3>2, <3>3, <3>4 DEF Lists
  <2>3. CASE m.id \notin DOMAIN l.entries
    BY <2>1, <2>3 DEF update_entry
  <2> QED
    BY <2>2, <2>3
<1>6. CASE m.op = "delete_entry"
  <2>1. Changed(l, m) = delete_entry(l, m.id)
    BY <1>6 DEF Changed
  <2> DEFINE E == D \ {m.id}
             e == [i \in E |-> l.entries[i]]
  <2>2. e \in [E -> Dates] /\ E \in SUBSET Nat /\ E \subseteq 1 .. l.auto_id - 1
    BY <1>2, <1>3
  <2>3. delete_entry(l, m.id) = [auto_id |-> l.auto_id, entries |-> e]
    BY <1>1, <1>2 DEF delete_entry
  <2> HIDE DEF e, E
  <2>4. e \in Entries
    BY <2>2 DEF Entries
  <2>5. IsList([auto_id |-> l.auto_id, entries |-> e])
    BY <1>1, <2>2 DEF IsList
  <2> QED
    BY <1>1, <2>1, <2>3, <2>4, <2>5 DEF Lists
<1>7. m.op \in {"add_entry", "update_entry", "delete_entry"}
  BY DEF Casts
<1> QED
  BY <1>4, <1>5, <1>6, <1>7

(***************************************************************************)
(* Mailboxes.                                                              *)
(***************************************************************************)
LEMMA MailAppended ==
  ASSUME NEW M, NEW box \in Seq(M), NEW m \in M
  PROVE  /\ Append(box, m) \in Seq(M)
         /\ DOMAIN Append(box, m) = 1 .. Len(box) + 1
         /\ DOMAIN box = 1 .. Len(box) /\ Len(box) \in Nat
         /\ \A i \in DOMAIN box : Append(box, m)[i] = box[i]
         /\ Append(box, m)[Len(box) + 1] = m
  OBVIOUS

LEMMA MailTaken ==
  ASSUME NEW M, NEW box \in Seq(M), box # <<>>
  PROVE  /\ Tail(box) \in Seq(M) /\ Head(box) \in M /\ Head(box) = box[1]
         /\ DOMAIN box = 1 .. Len(box) /\ Len(box) \in Nat /\ 1 \in DOMAIN box
         /\ Len(Tail(box)) = Len(box) - 1
         /\ \A i \in DOMAIN Tail(box) : i + 1 \in DOMAIN box /\ Tail(box)[i] = box[i + 1]
  OBVIOUS

(***************************************************************************)
(* What the processes are: a message and a reply is one that the receiver  *)
(* can use, and whoever waits for an answer has asked exactly once.  The   *)
(* definitions are about any processes ps, the last of them being n.       *)
(***************************************************************************)
Gets == [op : {"get"}, from : Nat, key : Names]
Stores == [op : {"store"}, key : Names, data : Lists]
Requests == [from : Nat, key : Names]
Queries == [op : {"entries"}, date : Dates]

Mail(kind) ==
  IF kind = "cache" THEN Names
  ELSE IF kind = "database" THEN Requests
  ELSE IF kind = "server" THEN Casts \cup Queries ELSE Gets \cup Stores

Typed(r) ==
  /\ Fields \subseteq DOMAIN r
  /\ r.kind \in {"cache", "database", "server", "worker"}
  /\ r.box \in Seq(Mail(r.kind))
  /\ r.kind = "cache" =>
       /\ {"todo_servers", "todo_list_name"} \subseteq DOMAIN r
       /\ r.at = "starting server" => r.todo_list_name \in Names
  /\ r.kind = "database" => "worker_list" \in DOMAIN r
  /\ r.kind = "server" =>
       /\ {"name", "list"} \subseteq DOMAIN r
       /\ r.name \in Names /\ r.list \in Lists
  /\ r.kind = "worker" =>
       /\ "job" \in DOMAIN r
       /\ \/ r.at = "idle" /\ r.job = <<>>
          \/ r.at = "writing" /\ \E m \in Stores : r.job = <<m>>

\* A process of that kind, or one that is gone.
IsPid(ps, n, p, kind) == p \in 1 .. n /\ (p \in DOMAIN ps => ps[p].kind = kind)

Refers(ps, n, r) ==
  /\ r.kind \in {"database", "server"} => IsPid(ps, n, r.parent, "cache")
  /\ r.kind = "cache" =>
       /\ \A k \in DOMAIN r.todo_servers : IsPid(ps, n, r.todo_servers[k], "server")
       /\ r.at = "starting server" => IsPid(ps, n, r.on, "server")
  /\ r.kind = "database" /\ r.at = "idle" =>
       \A k \in WorkerIds : IsPid(ps, n, r.worker_list[k], "worker")
  /\ r.kind = "server" /\ r.reply # NoReply =>
       \/ r.at \in {"choosing", "storing"} /\ IsPid(ps, n, Head(r.reply), "worker")
       \/ r.at = "getting" /\ Head(r.reply) \in Lists

\* A call in a mailbox is the only one of a server that waits for its answer.
IsCall(r, i) == r.kind = "database" \/ (r.kind = "worker" /\ r.box[i].op = "get")

Awaits(r, p, kind, key) ==
  /\ r.kind = "server" /\ r.name = key /\ r.on = p /\ r.reply = NoReply
  /\ IF kind = "database" THEN r.at \in {"choosing", "storing"} ELSE r.at = "getting"

Called(ps, n, p, i) ==
  LET m == ps[p].box[i]
  IN  /\ m.from \in 1 .. n
      /\ m.from \in DOMAIN ps =>
           /\ Awaits(ps[m.from], p, ps[p].kind, m.key)
           /\ \A j \in DOMAIN ps[p].box :
                j # i /\ IsCall(ps[p], j) => ps[p].box[j].from # m.from

AllTyped(ps) == \A p \in DOMAIN ps : Typed(ps[p])
AllRefer(ps, n) == \A p \in DOMAIN ps : Refers(ps, n, ps[p])
AllCalled(ps, n) ==
  \A p \in DOMAIN ps : \A i \in DOMAIN ps[p].box : IsCall(ps[p], i) => Called(ps, n, p, i)

Mailed(ps, n) == AllTyped(ps) /\ AllRefer(ps, n) /\ AllCalled(ps, n)

Receives(r, m) == [r EXCEPT !.box = Append(@, m)]
Hears(r, v) == [r EXCEPT !.reply = <<v>>]

(***************************************************************************)
(* A step of the process x, which becomes r, sends m to y and replies v to *)
(* z; 0 is no process.  It may also start processes.                       *)
(***************************************************************************)
Fresh(ps, n, r) ==
  /\ Typed(r) /\ Refers(ps, n, r) /\ r.box = <<>> /\ r.reply = NoReply
  /\ r.at = IF r.kind = "worker" THEN "idle" ELSE "init"

Acts(ps, n, qs, k, x, r, y, m, z, v) ==
  /\ n \in Nat /\ k \in Nat /\ n <= k
  /\ DOMAIN ps \subseteq 1 .. n /\ DOMAIN qs \subseteq 1 .. k /\ DOMAIN ps \subseteq DOMAIN qs
  /\ \A q \in DOMAIN ps :
       qs[q] = IF q = x THEN r
               ELSE IF q = y THEN Receives(ps[q], m)
               ELSE IF q = z THEN Hears(ps[q], v) ELSE ps[q]
  /\ \A q \in DOMAIN qs \ DOMAIN ps : q > n /\ Fresh(qs, k, qs[q])

\* A server that waits for no answer any more.
Free(r) == r.reply # NoReply \/ r.at \in {"init", "idle"}

Moves(ps, qs, k, x, r) ==
  x \in DOMAIN ps =>
    /\ DOMAIN r = DOMAIN ps[x] /\ r.kind = ps[x].kind /\ r.parent = ps[x].parent
    /\ r.kind = "server" => r.name = ps[x].name /\ Free(ps[x])
    /\ Typed(r) /\ Refers(qs, k, r)
    /\ r.box = ps[x].box \/ (ps[x].box # <<>> /\ r.box = Tail(ps[x].box))

Sends(ps, x, r, y, m) ==
  y \in DOMAIN ps =>
    /\ y # x /\ m \in Mail(ps[y].kind)
    /\ ps[y].kind = "database" \/ (ps[y].kind = "worker" /\ m.op = "get") =>
         x \in DOMAIN ps /\ m.from = x /\ Awaits(r, y, ps[y].kind, m.key)

Replies(ps, qs, k, x, r, y, z, v) ==
  z \in DOMAIN ps =>
    /\ y \notin DOMAIN ps /\ z # x
    /\ \/ ps[z].kind = "cache"
       \/ /\ x \in DOMAIN ps /\ ps[x].box # <<>> /\ r.box = Tail(ps[x].box)
          /\ IsCall(ps[x], 1) /\ ps[x].box[1].from = z
          /\ IF ps[x].kind = "database" THEN IsPid(qs, k, v, "worker") ELSE v \in Lists

LEMMA StillPid ==
  ASSUME NEW ps, NEW n, NEW qs, NEW k, NEW x, NEW r, NEW y, NEW m, NEW z, NEW v,
         AllTyped(ps), Acts(ps, n, qs, k, x, r, y, m, z, v),
         x \in DOMAIN ps => r.kind = ps[x].kind,
         NEW p, NEW kind, IsPid(ps, n, p, kind)
  PROVE  IsPid(qs, k, p, kind)
<1>1. p \in 1 .. k
  BY DEF IsPid, Acts
<1>2. ASSUME p \in DOMAIN qs PROVE qs[p].kind = kind
  <2>1. p \in DOMAIN ps
    BY <1>2 DEF IsPid, Acts
  <2>2. qs[p].kind = ps[p].kind
    <3>1. "kind" \in DOMAIN ps[p]
      BY <2>1 DEF AllTyped, Typed, Fields
    <3>2. Receives(ps[p], m).kind = ps[p].kind /\ Hears(ps[p], v).kind = ps[p].kind
      BY <3>1 DEF Receives, Hears
    <3> QED
      BY <2>1, <3>2 DEF Acts
  <2> QED
    BY <2>1, <2>2 DEF IsPid
<1> QED
  BY <1>1, <1>2 DEF IsPid

\* What a step leaves as it is.
LEMMA ActsFields ==
  ASSUME NEW ps, NEW n, NEW qs, NEW k, NEW x, NEW r, NEW y, NEW m, NEW z, NEW v,
         AllTyped(ps), Acts(ps, n, qs, k, x, r, y, m, z, v), Moves(ps, qs, k, x, r),
         Sends(ps, x, r, y, m), Replies(ps, qs, k, x, r, y, z, v), NEW q \in DOMAIN ps
  PROVE  /\ q \in DOMAIN qs
         /\ qs[q].kind = ps[q].kind /\ qs[q].parent = ps[q].parent
         /\ ps[q].kind = "server" => qs[q].name = ps[q].name
         /\ q = x => qs[q] = r
         /\ q = y => qs[q].box = Append(ps[q].box, m)
         /\ q # x /\ q # y => qs[q].box = ps[q].box
         /\ q = z => qs[q].reply = <<v>>
         /\ q # x /\ q # z => qs[q].reply = ps[q].reply
         /\ q # x =>
              /\ qs[q].at = ps[q].at /\ qs[q].on = ps[q].on
              /\ ps[q].kind = "cache" => /\ qs[q].todo_servers = ps[q].todo_servers
                                        /\ qs[q].todo_list_name = ps[q].todo_list_name
              /\ ps[q].kind = "database" => qs[q].worker_list = ps[q].worker_list
              /\ ps[q].kind = "server" => qs[q].list = ps[q].list
              /\ ps[q].kind = "worker" => qs[q].job = ps[q].job
<1>1. Fields \subseteq DOMAIN ps[q]
  BY DEF AllTyped, Typed
<1>2. /\ ps[q].kind = "cache" => {"todo_servers", "todo_list_name"} \subseteq DOMAIN ps[q]
      /\ ps[q].kind = "database" => "worker_list" \in DOMAIN ps[q]
      /\ ps[q].kind = "server" => {"name", "list"} \subseteq DOMAIN ps[q]
      /\ ps[q].kind = "worker" => "job" \in DOMAIN ps[q]
  BY DEF AllTyped, Typed
<1>3. q \in DOMAIN qs
  BY DEF Acts
<1>4. CASE q = x
  BY <1>3, <1>4 DEF Acts, Moves, Sends, Replies
<1>5. CASE q # x /\ q = y
  <2>1. qs[q] = Receives(ps[q], m) /\ q # z
    BY <1>5 DEF Acts, Replies
  <2> QED
    BY <1>1, <1>2, <1>3, <1>5, <2>1 DEF Fields, Receives
<1>6. CASE q # x /\ q # y /\ q = z
  <2>1. qs[q] = Hears(ps[q], v)
    BY <1>6 DEF Acts
  <2> QED
    BY <1>1, <1>2, <1>3, <1>6, <2>1 DEF Fields, Hears
<1>7. CASE q # x /\ q # y /\ q # z
  <2>1. qs[q] = ps[q]
    BY <1>7 DEF Acts
  <2> QED
    BY <1>3, <1>7, <2>1
<1> QED
  BY <1>4, <1>5, <1>6, <1>7

LEMMA StepTyped ==
  ASSUME NEW ps, NEW n, NEW qs, NEW k, NEW x, NEW r, NEW y, NEW m, NEW z, NEW v,
         AllTyped(ps), Acts(ps, n, qs, k, x, r, y, m, z, v), Moves(ps, qs, k, x, r),
         Sends(ps, x, r, y, m)
  PROVE  AllTyped(qs)
<1> SUFFICES ASSUME NEW q \in DOMAIN qs PROVE Typed(qs[q])
  BY DEF AllTyped
<1>1. CASE q \notin DOMAIN ps
  BY <1>1 DEF Acts, Fresh
<1>2. CASE q \in DOMAIN ps /\ q = x
  BY <1>2 DEF Acts, Moves
<1>3. CASE q \in DOMAIN ps /\ q # x
  <2>1. Typed(ps[q])
    BY <1>3 DEF AllTyped
  <2>2. CASE q = y
    <3> DEFINE p == ps[q]
    <3>1. qs[q] = [p EXCEPT !.box = Append(p.box, m)] /\ m \in Mail(p.kind)
      BY <1>3, <2>2 DEF Acts, Sends, Receives
    <3>2. p.box \in Seq(Mail(p.kind)) /\ Fields \subseteq DOMAIN p
      BY <2>1 DEF Typed
    <3>3. Append(p.box, m) \in Seq(Mail(p.kind))
      BY <3>1, <3>2, MailAppended
    <3> HIDE DEF p
    <3> DEFINE b == Append(p.box, m)
    <3>4. b \in Seq(Mail(p.kind)) /\ qs[q] = [p EXCEPT !.box = b]
      BY <3>1, <3>3
    <3> HIDE DEF b
    <3> QED
      BY <2>1, <3>2, <3>4 DEF Typed, Fields, p
  <2>3. CASE q # y /\ q = z
    <3>1. qs[q] = Hears(ps[q], v)
      BY <1>3, <2>3 DEF Acts
    <3> QED
      BY <2>1, <3>1 DEF Typed, Fields, Hears
  <2>4. CASE q # y /\ q # z
    BY <1>3, <2>1, <2>4 DEF Acts
  <2> QED
    BY <2>2, <2>3, <2>4
<1> QED
  BY <1>1, <1>2, <1>3

LEMMA StepRefers ==
  ASSUME NEW ps, NEW n, NEW qs, NEW k, NEW x, NEW r, NEW y, NEW m, NEW z, NEW v,
         Mailed(ps, n), Acts(ps, n, qs, k, x, r, y, m, z, v), Moves(ps, qs, k, x, r),
         Sends(ps, x, r, y, m), Replies(ps, qs, k, x, r, y, z, v)
  PROVE  AllRefer(qs, k)
<1>0. AllTyped(ps) /\ AllRefer(ps, n) /\ AllCalled(ps, n)
  BY DEF Mailed
<1> SUFFICES ASSUME NEW q \in DOMAIN qs PROVE Refers(qs, k, qs[q])
  BY DEF AllRefer
<1>1. CASE q \notin DOMAIN ps
  BY <1>1 DEF Acts, Fresh
<1>2. CASE q \in DOMAIN ps /\ q = x
  BY <1>2 DEF Acts, Moves
<1>3. CASE q \in DOMAIN ps /\ q # x
  <2>1. Refers(ps, n, ps[q])
    BY <1>0, <1>3 DEF AllRefer
  <2>2. \A p, kind : IsPid(ps, n, p, kind) => IsPid(qs, k, p, kind)
    BY <1>0, StillPid DEF Moves
  <2>3. /\ qs[q].kind = ps[q].kind /\ qs[q].parent = ps[q].parent
        /\ q = z => qs[q].reply = <<v>>
        /\ q # z => qs[q].reply = ps[q].reply
        /\ qs[q].at = ps[q].at /\ qs[q].on = ps[q].on
        /\ ps[q].kind = "cache" => qs[q].todo_servers = ps[q].todo_servers
        /\ ps[q].kind = "database" => qs[q].worker_list = ps[q].worker_list
    BY <1>0, <1>3, ActsFields
  <2>4. CASE q = z /\ ps[q].kind = "server"
    <3>1. /\ x \in DOMAIN ps /\ 1 \in DOMAIN ps[x].box /\ IsCall(ps[x], 1)
          /\ ps[x].box[1].from = q
          /\ IF ps[x].kind = "database" THEN IsPid(qs, k, v, "worker") ELSE v \in Lists
      <4>1. /\ x \in DOMAIN ps /\ ps[x].box # <<>> /\ IsCall(ps[x], 1) /\ ps[x].box[1].from = q
            /\ IF ps[x].kind = "database" THEN IsPid(qs, k, v, "worker") ELSE v \in Lists
        BY <1>3, <2>4 DEF Replies
      <4>2. ps[x].box \in Seq(Mail(ps[x].kind))
        BY <1>0, <4>1 DEF AllTyped, Typed
      <4> QED
        BY <4>1, <4>2, MailTaken
    <3>2. Awaits(ps[q], x, ps[x].kind, ps[x].box[1].key)
      BY <1>0, <1>3, <3>1 DEF AllCalled, Called
    <3>3. Head(qs[q].reply) = v
      BY <2>3, <2>4
    <3> QED
      BY <2>1, <2>2, <2>3, <2>4, <3>1, <3>2, <3>3 DEF Refers, Awaits
  <2>5. CASE q # z \/ ps[q].kind # "server"
    BY <2>1, <2>2, <2>3, <2>5 DEF Refers
  <2> QED
    BY <2>4, <2>5
<1> QED
  BY <1>1, <1>2, <1>3

LEMMA StepCalled ==
  ASSUME NEW ps, NEW n, NEW qs, NEW k, NEW x, NEW r, NEW y, NEW m, NEW z, NEW v,
         Mailed(ps, n), Acts(ps, n, qs, k, x, r, y, m, z, v), Moves(ps, qs, k, x, r),
         Sends(ps, x, r, y, m), Replies(ps, qs, k, x, r, y, z, v)
  PROVE  AllCalled(qs, k)
<1>0. AllTyped(ps) /\ AllCalled(ps, n)
  BY DEF Mailed
<1> SUFFICES ASSUME NEW p \in DOMAIN qs, NEW i \in DOMAIN qs[p].box, IsCall(qs[p], i)
             PROVE  Called(qs, k, p, i)
  BY DEF AllCalled
<1>1. p \in DOMAIN ps
  <2> SUFFICES ASSUME p \notin DOMAIN ps PROVE FALSE
    OBVIOUS
  <2>1. qs[p].box = <<>>
    BY DEF Acts, Fresh
  <2> QED
    BY <2>1
<1>2. ps[p].box \in Seq(Mail(ps[p].kind)) /\ qs[p].kind = ps[p].kind
  <2>1. ps[p].box \in Seq(Mail(ps[p].kind))
    BY <1>0, <1>1 DEF AllTyped, Typed
  <2>2. qs[p].kind = ps[p].kind
    BY <1>0, <1>1, ActsFields
  <2> QED
    BY <2>1, <2>2
\* A server that has asked p and waits for the answer is not disturbed.
<1>3. ASSUME NEW j \in DOMAIN ps[p].box, IsCall(ps[p], j), ps[p].box[j] = qs[p].box[i],
             p = x /\ r.box # ps[x].box => j # 1
      PROVE  LET s == qs[p].box[i].from
             IN  /\ s \in 1 .. k
                 /\ s \in DOMAIN qs => /\ s \in DOMAIN ps /\ s # x
                                       /\ Awaits(qs[s], p, qs[p].kind, qs[p].box[i].key)
  <2> DEFINE s == qs[p].box[i].from
  <2>1. Called(ps, n, p, j)
    BY <1>0, <1>1, <1>3 DEF AllCalled
  <2>2. s \in 1 .. n
    BY <1>3, <2>1 DEF Called
  <2>3. s \in 1 .. k
    BY <2>2 DEF Acts
  <2>4. ASSUME s \in DOMAIN qs
        PROVE  s \in DOMAIN ps /\ s # x /\ Awaits(qs[s], p, qs[p].kind, qs[p].box[i].key)
    <3>1. s \in DOMAIN ps
      BY <2>2, <2>4 DEF Acts
    <3>2. Awaits(ps[s], p, ps[p].kind, qs[p].box[i].key)
      BY <1>3, <2>1, <3>1 DEF Called
    <3>3. s # x
      BY <3>1, <3>2 DEF Moves, Free, Awaits
    <3>4. s # z
      <4> SUFFICES ASSUME s = z PROVE FALSE
        OBVIOUS
      <4>1. /\ x \in DOMAIN ps /\ ps[x].box # <<>> /\ r.box = Tail(ps[x].box)
            /\ IsCall(ps[x], 1) /\ ps[x].box[1].from = s
        BY <3>1, <3>2 DEF Replies, Awaits
      <4>2. ps[x].box \in Seq(Mail(ps[x].kind))
        BY <1>0, <4>1 DEF AllTyped, Typed
      <4>3. 1 \in DOMAIN ps[x].box /\ r.box # ps[x].box
        <5>1. /\ 1 \in DOMAIN ps[x].box /\ Len(ps[x].box) \in Nat
              /\ Len(Tail(ps[x].box)) = Len(ps[x].box) - 1
          BY <4>1, <4>2, MailTaken
        <5>2. Len(r.box) = Len(ps[x].box) - 1
          BY <4>1, <5>1
        <5> QED
          BY <5>1, <5>2
      <4>4. Called(ps, n, x, 1)
        BY <1>0, <4>1, <4>3 DEF AllCalled
      <4>5. Awaits(ps[s], x, ps[x].kind, ps[x].box[1].key)
        BY <3>1, <4>1, <4>4 DEF Called
      <4>6. p = x
        BY <3>2, <4>5 DEF Awaits
      <4>7. j # 1
        BY <1>3, <4>3, <4>6
      <4> QED
        BY <1>3, <3>1, <4>1, <4>4, <4>6, <4>7 DEF Called
    <3>5. /\ qs[s].kind = ps[s].kind /\ qs[s].on = ps[s].on /\ qs[s].at = ps[s].at
          /\ qs[s].reply = ps[s].reply /\ qs[s].name = ps[s].name
      <4>1. ps[s].kind = "server"
        BY <3>2 DEF Awaits
      <4> QED
        BY <1>0, <3>1, <3>3, <3>4, <4>1, ActsFields
    <3> QED
      BY <1>2, <3>1, <3>2, <3>3, <3>5 DEF Awaits
  <2> QED
    BY <2>3, <2>4
<1>4. CASE p # y /\ (p = x => r.box = ps[x].box)
  <2>1. qs[p].box = ps[p].box
    BY <1>0, <1>1, <1>4, ActsFields
  <2>2. \A j \in DOMAIN ps[p].box : IsCall(qs[p], j) <=> IsCall(ps[p], j)
    BY <1>2, <2>1 DEF IsCall
  <2>3. Called(ps, n, p, i)
    BY <1>0, <1>1, <2>1, <2>2 DEF AllCalled
  <2> QED
    BY <1>2, <1>3, <1>4, <2>1, <2>2, <2>3 DEF Called
<1>5. CASE p = x /\ r.box # ps[x].box
  <2>1. ps[p].box # <<>> /\ qs[p].box = Tail(ps[p].box) /\ p # y
    BY <1>0, <1>1, <1>5, ActsFields DEF Moves, Sends
  <2>2. \A j \in DOMAIN qs[p].box : /\ j + 1 \in DOMAIN ps[p].box /\ j + 1 # 1
                                    /\ qs[p].box[j] = ps[p].box[j + 1]
    BY <1>2, <2>1, MailTaken
  <2>3. \A j \in DOMAIN qs[p].box : IsCall(qs[p], j) <=> IsCall(ps[p], j + 1)
    BY <1>2, <2>2 DEF IsCall
  <2>4. Called(ps, n, p, i + 1)
    BY <1>0, <1>1, <2>2, <2>3 DEF AllCalled
  <2>5. \A j \in DOMAIN qs[p].box : j # i => j + 1 # i + 1
    BY <1>2, <2>1, MailTaken
  <2>6. LET s == qs[p].box[i].from
        IN  /\ s \in 1 .. k
            /\ s \in DOMAIN qs => /\ s \in DOMAIN ps /\ s # x
                                  /\ Awaits(qs[s], p, qs[p].kind, qs[p].box[i].key)
    BY <1>3, <2>2, <2>3
  <2> QED
    BY <2>2, <2>3, <2>4, <2>5, <2>6 DEF Called
<1>6. CASE p = y
  <2> DEFINE l == Len(ps[p].box)
  <2>1. qs[p].box = Append(ps[p].box, m) /\ m \in Mail(ps[p].kind) /\ p # x
    BY <1>0, <1>1, <1>6, ActsFields DEF Sends
  <2>2. /\ DOMAIN qs[p].box = 1 .. l + 1 /\ DOMAIN ps[p].box = 1 .. l /\ l \in Nat
        /\ \A j \in DOMAIN ps[p].box : qs[p].box[j] = ps[p].box[j]
        /\ qs[p].box[l + 1] = m
    BY <1>2, <2>1, MailAppended
  <2>3. \A j \in DOMAIN ps[p].box : IsCall(qs[p], j) <=> IsCall(ps[p], j)
    BY <1>2, <2>2 DEF IsCall
  <2>4. ASSUME IsCall(qs[p], l + 1)
        PROVE  /\ x \in DOMAIN ps /\ m.from = x /\ Awaits(r, p, ps[p].kind, m.key)
               /\ \A j \in DOMAIN ps[p].box : IsCall(ps[p], j) => ps[p].box[j].from # x
    <3>1. x \in DOMAIN ps /\ m.from = x /\ Awaits(r, p, ps[p].kind, m.key)
      BY <1>1, <1>2, <1>6, <2>2, <2>4 DEF IsCall, Sends
    <3>2. ASSUME NEW j \in DOMAIN ps[p].box, IsCall(ps[p], j), ps[p].box[j].from = x
          PROVE  FALSE
      <4>1. Awaits(ps[x], p, ps[p].kind, ps[p].box[j].key)
        BY <1>0, <1>1, <3>1, <3>2 DEF AllCalled, Called
      <4> QED
        BY <3>1, <4>1 DEF Awaits, Moves, Free
    <3> QED
      BY <3>1, <3>2
  <2>5. CASE i = l + 1
    <3>1. x \in DOMAIN qs /\ qs[x] = r /\ x \in 1 .. k
      BY <2>4, <2>5 DEF Acts
    <3>2. /\ qs[p].box[i] = m /\ m.from = x
          /\ Awaits(qs[x], p, qs[p].kind, m.key)
      BY <1>2, <2>2, <2>4, <2>5, <3>1
    <3>3. ASSUME NEW j \in DOMAIN qs[p].box, j # i, IsCall(qs[p], j)
          PROVE  qs[p].box[j].from # x
      <4>1. j \in DOMAIN ps[p].box
        BY <2>2, <2>5, <3>3
      <4> QED
        BY <2>2, <2>3, <2>4, <2>5, <3>3, <4>1
    <3> QED
      BY <3>1, <3>2, <3>3 DEF Called
  <2>6. CASE i # l + 1
    <3>1. i \in DOMAIN ps[p].box /\ IsCall(ps[p], i) /\ ps[p].box[i] = qs[p].box[i]
      BY <2>2, <2>3, <2>6
    <3>2. LET s == qs[p].box[i].from
          IN  /\ s \in 1 .. k
              /\ s \in DOMAIN qs => /\ s \in DOMAIN ps /\ s # x
                                    /\ Awaits(qs[s], p, qs[p].kind, qs[p].box[i].key)
      BY <1>3, <2>1, <3>1
    <3>3. Called(ps, n, p, i)
      BY <1>0, <1>1, <3>1 DEF AllCalled
    <3>4. \A j \in DOMAIN qs[p].box : j \in DOMAIN ps[p].box \/ j = l + 1
      BY <2>2
    <3> QED
      BY <1>2, <2>2, <2>3, <2>4, <3>1, <3>2, <3>3, <3>4 DEF Called
  <2> QED
    BY <2>5, <2>6
<1> QED
  BY <1>4, <1>5, <1>6

\* Such a step keeps the mail as it should be.
LEMMA StepMailed ==
  ASSUME NEW ps, NEW n, NEW qs, NEW k, NEW x, NEW r, NEW y, NEW m, NEW z, NEW v,
         Mailed(ps, n), Acts(ps, n, qs, k, x, r, y, m, z, v), Moves(ps, qs, k, x, r),
         Sends(ps, x, r, y, m), Replies(ps, qs, k, x, r, y, z, v)
  PROVE  Mailed(qs, k)
  BY StepTyped, StepRefers, StepCalled DEF Mailed

LEMMA EndMailed ==
  ASSUME NEW ps, NEW n, NEW p, Mailed(ps, n)
  PROVE  Mailed([q \in DOMAIN ps \ {p} |-> ps[q]], n)
<1> DEFINE qs == [q \in DOMAIN ps \ {p} |-> ps[q]]
<1>1. DOMAIN qs = DOMAIN ps \ {p} /\ \A q \in DOMAIN qs : qs[q] = ps[q]
  OBVIOUS
<1> HIDE DEF qs
<1>2. AllTyped(qs)
  BY <1>1 DEF Mailed, AllTyped
<1>3. AllRefer(qs, n)
  <2>1. \A x, kind : IsPid(ps, n, x, kind) => IsPid(qs, n, x, kind)
    BY <1>1 DEF IsPid
  <2>2. ASSUME NEW r, Refers(ps, n, r) PROVE Refers(qs, n, r)
    BY <2>1, <2>2 DEF Refers
  <2> QED
    BY <1>1, <2>2 DEF Mailed, AllRefer
<1>4. AllCalled(qs, n)
  BY <1>1 DEF Mailed, AllCalled, Called
<1> QED
  BY <1>2, <1>3, <1>4 DEF Mailed, qs

(***************************************************************************)
(* The steps of TodoSystem as such steps.                                  *)
(***************************************************************************)
MailInv ==
  /\ Mailed(procs, lastPid)
  /\ Database # 0 => procs[Database].kind = "database"

Step(x, r, y, m, z, v) ==
  /\ Acts(procs, lastPid, procs', lastPid', x, r, y, m, z, v)
  /\ Moves(procs, procs', lastPid', x, r)
  /\ Sends(procs, x, r, y, m)
  /\ Replies(procs, procs', lastPid', x, r, y, z, v)

LEMMA MailStep ==
  ASSUME MailInv, NEW x, NEW r, NEW y, NEW m, NEW z, NEW v, Step(x, r, y, m, z, v),
         Database' # 0 => procs'[Database'].kind = "database"
  PROVE  MailInv'
<1>1. Mailed(procs', lastPid')
  BY StepMailed DEF MailInv, Step
<1> QED
  BY <1>1 DEF MailInv

LEMMA QuietMailStep ==
  ASSUME IInv, MailInv, NEW x, NEW r, NEW y, NEW m, NEW z, NEW v, Step(x, r, y, m, z, v),
         Database' = Database
  PROVE  MailInv'
<1>1. ASSUME Database # 0 PROVE procs'[Database].kind = "database"
  <2>1. Database \in DOMAIN procs /\ procs[Database].kind = "database"
    BY <1>1 DEF IInv, ProcessInv, Database, MailInv
  <2> QED
    BY <2>1, ActsFields DEF Step, MailInv, Mailed
<1> QED
  BY <1>1, MailStep

LEMMA TerminateMail ==
  ASSUME IInv, MailInv, NEW p \in DOMAIN procs, Terminate(p), lastPid' = lastPid
  PROVE  MailInv'
<1>1. procs' = [q \in DOMAIN procs \ {p} |-> procs[q]]
  BY DEF Terminate
<1>2. Mailed(procs', lastPid')
  BY <1>1, EndMailed DEF MailInv
<1>3. Database' # 0 => Database' = Database /\ Database # p /\ Database \in DOMAIN procs
  BY DEF IInv, ProcessInv, Database, Terminate
<1>4. Database' # 0 => procs'[Database'].kind = "database"
  BY <1>1, <1>3 DEF MailInv
<1> QED
  BY <1>2, <1>4 DEF MailInv

\* What the processes become.
Takes(r) == [r EXCEPT !.box = Tail(@)]
Asks(r, st, q) == [r EXCEPT !.at = st, !.on = q, !.reply = NoReply]

LEMMA SentAt ==
  ASSUME NEW ps, NEW p, NEW m
  PROVE  /\ DOMAIN Sent(ps, p, m) = DOMAIN ps
         /\ \A q \in DOMAIN ps : Sent(ps, p, m)[q] =
              IF q = p THEN Receives(ps[q], m) ELSE ps[q]
  BY DEF Sent, Receives

LEMMA RepliedAt ==
  ASSUME NEW ps, NEW p, NEW v
  PROVE  /\ DOMAIN Replied(ps, p, v) = DOMAIN ps
         /\ \A q \in DOMAIN ps : Replied(ps, p, v)[q] =
              IF q = p THEN Hears(ps[q], v) ELSE ps[q]
  BY DEF Replied, Hears

LEMMA TakenAt ==
  ASSUME NEW ps, NEW p \in DOMAIN ps
  PROVE  /\ DOMAIN Taken(ps, p) = DOMAIN ps
         /\ \A q \in DOMAIN ps : Taken(ps, p)[q] = IF q = p THEN Takes(ps[q]) ELSE ps[q]
  BY DEF Taken, Takes

LEMMA WaitsAt ==
  ASSUME NEW ps, NEW p \in DOMAIN ps, NEW st, NEW s
  PROVE  /\ DOMAIN Waits(ps, p, st, s) = DOMAIN ps
         /\ \A q \in DOMAIN ps : Waits(ps, p, st, s)[q] =
              IF q = p THEN Asks(ps[q], st, s) ELSE ps[q]
  BY DEF Waits, Asks

\* The fields of a process that takes a message or waits.
LEMMA TakesFields ==
  ASSUME NEW r, Typed(r)
  PROVE  /\ DOMAIN Takes(r) = DOMAIN r /\ Takes(r).box = Tail(r.box)
         /\ Takes(r).kind = r.kind /\ Takes(r).parent = r.parent /\ Takes(r).at = r.at
         /\ Takes(r).on = r.on /\ Takes(r).reply = r.reply
         /\ r.kind = "cache" => /\ Takes(r).todo_servers = r.todo_servers
                                /\ Takes(r).todo_list_name = r.todo_list_name
         /\ r.kind = "database" => Takes(r).worker_list = r.worker_list
         /\ r.kind = "server" => Takes(r).name = r.name /\ Takes(r).list = r.list
         /\ r.kind = "worker" => Takes(r).job = r.job
         /\ r.box # <<>> => Typed(Takes(r))
<1>1. /\ Fields \subseteq DOMAIN r
      /\ r.kind = "cache" => {"todo_servers", "todo_list_name"} \subseteq DOMAIN r
      /\ r.kind = "database" => "worker_list" \in DOMAIN r
      /\ r.kind = "server" => {"name", "list"} \subseteq DOMAIN r
      /\ r.kind = "worker" => "job" \in DOMAIN r
      /\ r.box \in Seq(Mail(r.kind))
  BY DEF Typed
<1> DEFINE b == Tail(r.box)
<1>2. Takes(r) = [r EXCEPT !.box = b]
  BY DEF Takes
<1>3. r.box # <<>> => b \in Seq(Mail(r.kind))
  BY <1>1, MailTaken
<1> HIDE DEF b
<1>4. /\ DOMAIN Takes(r) = DOMAIN r /\ Takes(r).box = b
      /\ Takes(r).kind = r.kind /\ Takes(r).parent = r.parent /\ Takes(r).at = r.at
      /\ Takes(r).on = r.on /\ Takes(r).reply = r.reply
      /\ r.kind = "cache" => /\ Takes(r).todo_servers = r.todo_servers
                             /\ Takes(r).todo_list_name = r.todo_list_name
      /\ r.kind = "database" => Takes(r).worker_list = r.worker_list
      /\ r.kind = "server" => Takes(r).name = r.name /\ Takes(r).list = r.list
      /\ r.kind = "worker" => Takes(r).job = r.job
  BY <1>1, <1>2 DEF Fields
<1>5. r.box # <<>> => Typed(Takes(r))
  BY <1>3, <1>4 DEF Typed
<1> QED
  BY <1>4, <1>5 DEF b

LEMMA AsksFields ==
  ASSUME NEW r, NEW st, NEW q, Typed(r)
  PROVE  /\ DOMAIN Asks(r, st, q) = DOMAIN r /\ Asks(r, st, q).box = r.box
         /\ Asks(r, st, q).kind = r.kind /\ Asks(r, st, q).parent = r.parent
         /\ Asks(r, st, q).at = st /\ Asks(r, st, q).on = q
         /\ Asks(r, st, q).reply = NoReply
<1>1. Fields \subseteq DOMAIN r
  BY DEF Typed
<1> QED
  BY <1>1 DEF Asks, Fields

LEMMA AsksOwnFields ==
  ASSUME NEW r, NEW st, NEW q, Typed(r)
  PROVE  /\ r.kind = "cache" => /\ Asks(r, st, q).todo_servers = r.todo_servers
                                /\ Asks(r, st, q).todo_list_name = r.todo_list_name
         /\ r.kind = "database" => Asks(r, st, q).worker_list = r.worker_list
         /\ r.kind = "server" => /\ Asks(r, st, q).name = r.name
                                 /\ Asks(r, st, q).list = r.list
<1>1. /\ r.kind = "cache" => {"todo_servers", "todo_list_name"} \subseteq DOMAIN r
      /\ r.kind = "database" => "worker_list" \in DOMAIN r
      /\ r.kind = "server" => {"name", "list"} \subseteq DOMAIN r
  BY DEF Typed
<1> QED
  BY <1>1 DEF Asks

NotStarting(r) == r.at # "starting server"

LEMMA AsksTyped ==
  ASSUME NEW r, NEW st, NEW q, Typed(r),
         r.kind \in {"server", "database"} \/ (r.kind = "cache" /\ NotStarting(Asks(r, st, q)))
  PROVE  Typed(Asks(r, st, q))
<1> DEFINE a == Asks(r, st, q)
<1>1. DOMAIN a = DOMAIN r /\ a.box = r.box /\ a.kind = r.kind
  BY AsksFields
<1>2. r.kind = "server" => a.name = r.name /\ a.list = r.list
  BY AsksOwnFields
<1>4. r.kind \in {"server", "database"} \/ (r.kind = "cache" /\ NotStarting(a))
  OBVIOUS
<1> HIDE DEF a
<1>3. Typed(a)
  BY <1>1, <1>2, <1>4 DEF Typed, NotStarting
<1> QED
  BY <1>3 DEF a

\* A step that starts no process.
LEMMA OldProcesses ==
  ASSUME IInv, DOMAIN procs' = DOMAIN procs, lastPid' = lastPid,
         NEW x, NEW r, NEW y, NEW m, NEW z, NEW v,
         \A q \in DOMAIN procs :
           procs'[q] = IF q = x THEN r
                       ELSE IF q = y THEN Receives(procs[q], m)
                       ELSE IF q = z THEN Hears(procs[q], v) ELSE procs[q]
  PROVE  Acts(procs, lastPid, procs', lastPid', x, r, y, m, z, v)
  BY DEF IInv, ProcessInv, Acts

\* What a process referred to, it still refers to.
LEMMA KeepsPids ==
  ASSUME MailInv, NEW x, NEW r, NEW y, NEW m, NEW z, NEW v,
         Acts(procs, lastPid, procs', lastPid', x, r, y, m, z, v),
         x \in DOMAIN procs => r.kind = procs[x].kind
  PROVE  \A p, kind : IsPid(procs, lastPid, p, kind) => IsPid(procs', lastPid', p, kind)
  BY StillPid DEF MailInv, Mailed

(***************************************************************************)
(* Todo.Server.                                                            *)
(***************************************************************************)
Awaiting(st) == st \in {"choosing", "storing"}

LEMMA CallDatabaseActs ==
  ASSUME IInv, MailInv, NEW s \in DOMAIN procs, procs[s].kind = "server", Free(procs[s]),
         NEW st, Awaiting(st), NEW r, NEW ps,
         DOMAIN ps = DOMAIN procs,
         \A q \in DOMAIN procs : ps[q] = IF q = s THEN r ELSE procs[q],
         DOMAIN r = DOMAIN procs[s], r.kind = "server", r.name = procs[s].name,
         r.parent = procs[s].parent, Typed(r),
         r.box = procs[s].box \/ (procs[s].box # <<>> /\ r.box = Tail(procs[s].box)),
         CallDatabase(ps, s, st), registered.database_server # 0
  PROVE  /\ Step(s, Asks(r, st, Database), Database,
                 [from |-> s, key |-> procs[s].name], 0, 0)
         /\ Quiet /\ Outside
<1> DEFINE d == Database
           m == [from |-> s, key |-> procs[s].name]
           a == Asks(r, st, d)
           sent == Sent(ps, d, m)
<1>1. procs' = Waits(sent, s, st, d) /\ Quiet /\ Outside
  BY DEF CallDatabase, Database
<1>2. d \in DOMAIN procs /\ procs[d].kind = "database" /\ d # s /\ 0 \notin DOMAIN procs
  BY DEF IInv, ProcessInv, Database, MailInv
<1>0. m.from = s /\ m.key = procs[s].name /\ m \in Requests
  <2>1. s \in Nat
    BY DEF IInv, ProcessInv
  <2>2. Typed(procs[s])
    BY DEF MailInv, Mailed, AllTyped
  <2> QED
    BY <2>1, <2>2 DEF Requests, Typed
<1> HIDE DEF m, d
<1>3. /\ DOMAIN sent = DOMAIN procs
      /\ \A q \in DOMAIN procs : sent[q] = IF q = d THEN Receives(ps[q], m) ELSE ps[q]
  BY SentAt
<1> HIDE DEF sent
<1>4. DOMAIN procs' = DOMAIN procs
      /\ \A q \in DOMAIN procs : procs'[q] = IF q = s THEN Asks(sent[q], st, d) ELSE sent[q]
  BY <1>1, <1>3, WaitsAt
<1>5. \A q \in DOMAIN procs :
        procs'[q] = IF q = s THEN a
                    ELSE IF q = d THEN Receives(procs[q], m)
                    ELSE IF q = 0 THEN Hears(procs[q], 0) ELSE procs[q]
  BY <1>2, <1>3, <1>4
<1>6. /\ DOMAIN a = DOMAIN procs[s] /\ a.kind = procs[s].kind /\ a.parent = procs[s].parent
      /\ a.name = procs[s].name /\ Typed(a) /\ a.box = r.box
      /\ a.at = st /\ a.on = d /\ a.reply = NoReply
  <2>1. Typed(a) /\ a.at = st /\ a.on = d
    BY AsksFields, AsksTyped
  <2>2. a.reply = NoReply /\ a.box = r.box /\ DOMAIN a = DOMAIN r
    BY AsksFields
  <2>3. a.kind = r.kind /\ a.parent = r.parent /\ a.name = r.name
    BY AsksFields, AsksOwnFields
  <2> QED
    BY <2>1, <2>2, <2>3
<1> HIDE DEF a
<1>7. Acts(procs, lastPid, procs', lastPid', s, a, d, m, 0, 0)
  BY <1>1, <1>4, <1>5, OldProcesses DEF Quiet
<1>8. Refers(procs', lastPid', a)
  <2>1. IsPid(procs, lastPid, procs[s].parent, "cache")
    BY DEF MailInv, Mailed, AllRefer, Refers
  <2>2. IsPid(procs', lastPid', a.parent, "cache")
    BY <1>6, <1>7, <2>1, KeepsPids
  <2> QED
    BY <1>6, <2>2 DEF Refers
<1>9. Moves(procs, procs', lastPid', s, a)
  BY <1>6, <1>8 DEF Moves
<1>10. Sends(procs, s, a, d, m)
  BY <1>0, <1>2, <1>6 DEF Sends, Mail, Awaits, Awaiting
<1>11. Replies(procs, procs', lastPid', s, a, d, 0, 0)
  BY <1>2 DEF Replies
<1> QED
  BY <1>1, <1>7, <1>9, <1>10, <1>11 DEF Step, a, m, d

LEMMA ServerMoves ==
  ASSUME MailInv, NEW s \in DOMAIN procs, NEW r, NEW y, NEW m, NEW z, NEW v,
         Acts(procs, lastPid, procs', lastPid', s, r, y, m, z, v),
         procs[s].kind = "server", Free(procs[s]),
         DOMAIN r = DOMAIN procs[s], r.kind = "server", r.name = procs[s].name,
         r.parent = procs[s].parent, Typed(r), r.reply = NoReply,
         r.box = procs[s].box \/ (procs[s].box # <<>> /\ r.box = Tail(procs[s].box))
  PROVE  Moves(procs, procs', lastPid', s, r)
<1>1. IsPid(procs, lastPid, procs[s].parent, "cache")
  BY DEF MailInv, Mailed, AllRefer, Refers
<1>2. IsPid(procs', lastPid', r.parent, "cache")
  BY <1>1, KeepsPids
<1>3. Refers(procs', lastPid', r)
  BY <1>2 DEF Refers
<1> QED
  BY <1>3 DEF Moves

\* The answer a server waits for.
LEMMA ServerReply ==
  ASSUME MailInv, NEW s \in DOMAIN procs, procs[s].kind = "server", HasReply(s)
  PROVE  /\ Free(procs[s])
         /\ \/ procs[s].at \in {"choosing", "storing"} /\ IsPid(procs, lastPid, Reply(s), "worker")
            \/ procs[s].at = "getting" /\ Reply(s) \in Lists
<1>1. procs[s].reply # NoReply
  BY DEF HasReply
<1>2. Refers(procs, lastPid, procs[s])
  BY DEF MailInv, Mailed, AllRefer
<1> QED
  BY <1>1, <1>2 DEF Free, Refers, Reply

LEMMA ServerGetActs ==
  ASSUME IInv, MailInv, NEW s \in DOMAIN procs, ServerGet(s), Alive(Reply(s))
  PROVE  /\ Step(s, Asks(procs[s], "getting", Reply(s)), Reply(s),
                 [op |-> "get", from |-> s, key |-> procs[s].name], 0, 0)
         /\ Quiet /\ Outside
<1> DEFINE w == Reply(s)
           m == [op |-> "get", from |-> s, key |-> procs[s].name]
           g == "getting"
           a == Asks(procs[s], g, w)
           sent == Sent(procs, w, m)
<1>1. procs' = Waits(sent, s, g, w) /\ Quiet /\ Outside
  BY DEF ServerGet
<1>2. procs[s].kind = "server" /\ procs[s].at = "choosing" /\ HasReply(s)
  BY DEF ServerGet, In
<1>3. /\ w \in DOMAIN procs /\ procs[w].kind = "worker" /\ w # s
      /\ 0 \notin DOMAIN procs /\ Free(procs[s])
  BY <1>2, ServerReply DEF Alive, IsPid, IInv, ProcessInv
<1>4. m.op = "get" /\ m.from = s /\ m.key = procs[s].name /\ m \in Gets
  <2>1. s \in Nat
    BY DEF IInv, ProcessInv
  <2>2. Typed(procs[s])
    BY DEF MailInv, Mailed, AllTyped
  <2> QED
    BY <1>2, <2>1, <2>2 DEF Gets, Typed
<1> HIDE DEF m, w, g
<1>5. /\ DOMAIN sent = DOMAIN procs
      /\ \A q \in DOMAIN procs : sent[q] = IF q = w THEN Receives(procs[q], m) ELSE procs[q]
  BY SentAt
<1> HIDE DEF sent
<1>6. DOMAIN procs' = DOMAIN procs
      /\ \A q \in DOMAIN procs : procs'[q] = IF q = s THEN Asks(sent[q], g, w) ELSE sent[q]
  BY <1>1, <1>5, WaitsAt
<1>7. \A q \in DOMAIN procs :
        procs'[q] = IF q = s THEN a
                    ELSE IF q = w THEN Receives(procs[q], m)
                    ELSE IF q = 0 THEN Hears(procs[q], 0) ELSE procs[q]
  BY <1>3, <1>5, <1>6
<1>8. Typed(procs[s])
  BY DEF MailInv, Mailed, AllTyped
<1>9. /\ DOMAIN a = DOMAIN procs[s] /\ a.kind = "server" /\ a.parent = procs[s].parent
      /\ a.name = procs[s].name /\ a.box = procs[s].box
      /\ a.at = g /\ a.on = w /\ a.reply = NoReply
  BY <1>2, <1>8, AsksFields, AsksOwnFields
<1>10. Typed(a)
  BY <1>2, <1>8, AsksTyped
<1> HIDE DEF a
<1>11. Acts(procs, lastPid, procs', lastPid', s, a, w, m, 0, 0)
  BY <1>1, <1>6, <1>7, OldProcesses DEF Quiet
<1>12. Moves(procs, procs', lastPid', s, a)
  BY <1>2, <1>3, <1>9, <1>10, <1>11, ServerMoves
<1>13. Sends(procs, s, a, w, m)
  BY <1>3, <1>4, <1>9 DEF Sends, Mail, Awaits, g
<1>14. Replies(procs, procs', lastPid', s, a, w, 0, 0)
  BY <1>3 DEF Replies
<1> QED
  BY <1>1, <1>11, <1>12, <1>13, <1>14 DEF Step, a, m, w, g

Loads(r, l) == [r EXCEPT !.list = l]

LEMMA LoadsFields ==
  ASSUME NEW r, NEW l, Typed(r), r.kind = "server"
  PROVE  /\ DOMAIN Loads(r, l) = DOMAIN r /\ Loads(r, l).box = r.box
         /\ Loads(r, l).kind = "server" /\ Loads(r, l).parent = r.parent
         /\ Loads(r, l).name = r.name /\ Loads(r, l).list = l
         /\ Loads(r, l).on = r.on /\ Loads(r, l).reply = r.reply
<1>1. Fields \cup {"name", "list"} \subseteq DOMAIN r
  BY DEF Typed
<1> QED
  BY <1>1 DEF Loads, Fields

LEMMA LoadsAt ==
  ASSUME NEW r, NEW l, Typed(r), r.kind = "server"
  PROVE  Loads(r, l).at = r.at
<1>1. "at" \in DOMAIN r
  BY DEF Typed, Fields
<1> QED
  BY <1>1 DEF Loads

LEMMA LoadsTyped ==
  ASSUME NEW r, NEW l \in Lists, Typed(r), r.kind = "server"
  PROVE  Typed(Loads(r, l))
<1> DEFINE a == Loads(r, l)
<1>1. /\ DOMAIN a = DOMAIN r /\ a.box = r.box /\ a.kind = "server"
      /\ a.name = r.name /\ a.list = l
  BY LoadsFields
<1> HIDE DEF a
<1>2. Typed(a)
  BY <1>1 DEF Typed
<1> QED
  BY <1>2 DEF a

LEMMA ServerReadyActs ==
  ASSUME IInv, MailInv, NEW s \in DOMAIN procs, ServerReady(s)
  PROVE  /\ Step(s, Loads(Asks(procs[s], "idle", 0), Reply(s)), 0, 0, procs[s].parent, s)
         /\ Quiet /\ Outside
<1> DEFINE p == procs[s].parent
           g == "idle"
           b == Asks(procs[s], g, 0)
           a == Loads(b, Reply(s))
           ready == Waits(procs, s, g, 0)
           loaded == [ready EXCEPT ![s].list = Reply(s)]
<1>1. procs' = Replied(loaded, p, s) /\ Quiet /\ Outside
  BY DEF ServerReady, Resumes
<1>2. procs[s].kind = "server" /\ procs[s].at = "getting" /\ HasReply(s)
  BY DEF ServerReady, In
<1>3. /\ Reply(s) \in Lists /\ Free(procs[s]) /\ 0 \notin DOMAIN procs
      /\ p \in DOMAIN procs => procs[p].kind = "cache" /\ p # s
  <2>1. IsPid(procs, lastPid, p, "cache")
    BY <1>2 DEF MailInv, Mailed, AllRefer, Refers
  <2> QED
    BY <1>2, <2>1, ServerReply DEF IsPid, IInv, ProcessInv
<1> HIDE DEF p, g
<1>4. /\ DOMAIN ready = DOMAIN procs
      /\ \A q \in DOMAIN procs : ready[q] = IF q = s THEN b ELSE procs[q]
  BY WaitsAt
<1> HIDE DEF b
<1> HIDE DEF ready
<1>5. /\ DOMAIN loaded = DOMAIN procs
      /\ \A q \in DOMAIN procs : loaded[q] = IF q = s THEN a ELSE procs[q]
  BY <1>4 DEF Loads
<1> HIDE DEF loaded
<1>6. /\ DOMAIN procs' = DOMAIN procs
      /\ \A q \in DOMAIN procs : procs'[q] = IF q = p THEN Hears(loaded[q], s) ELSE loaded[q]
  BY <1>1, <1>5, RepliedAt
<1> HIDE DEF a
<1>7. \A q \in DOMAIN procs :
        procs'[q] = IF q = s THEN a
                    ELSE IF q = 0 THEN Receives(procs[q], 0)
                    ELSE IF q = p THEN Hears(procs[q], s) ELSE procs[q]
  BY <1>3, <1>5, <1>6
<1>8. Typed(procs[s])
  BY DEF MailInv, Mailed, AllTyped
<1>9. /\ DOMAIN b = DOMAIN procs[s] /\ b.kind = "server" /\ b.parent = procs[s].parent
      /\ b.name = procs[s].name /\ b.box = procs[s].box /\ b.reply = NoReply
  BY <1>2, <1>8, AsksFields, AsksOwnFields DEF b
<1>10. Typed(b)
  BY <1>2, <1>8, AsksTyped DEF b
<1>11. /\ DOMAIN a = DOMAIN procs[s] /\ a.kind = "server" /\ a.parent = procs[s].parent
       /\ a.name = procs[s].name /\ a.box = procs[s].box /\ a.reply = NoReply
  BY <1>9, <1>10, LoadsFields DEF a
<1>12. Typed(a)
  BY <1>3, <1>9, <1>10, LoadsTyped DEF a
<1>13. Acts(procs, lastPid, procs', lastPid', s, a, 0, 0, p, s)
  BY <1>1, <1>6, <1>7, OldProcesses DEF Quiet
<1>14. Moves(procs, procs', lastPid', s, a)
  BY <1>2, <1>3, <1>11, <1>12, <1>13, ServerMoves
<1>15. Sends(procs, s, a, 0, 0)
  BY <1>3 DEF Sends
<1>16. Replies(procs, procs', lastPid', s, a, 0, p, s)
  BY <1>3 DEF Replies
<1> QED
  BY <1>1, <1>13, <1>14, <1>15, <1>16 DEF Step, a, b, p, g

LEMMA HandleCastActs ==
  ASSUME IInv, MailInv, NEW s \in DOMAIN procs, HandleCast(s), registered.database_server # 0,
         ~(Message(s).op = "update_entry" /\ Raises(procs[s].list, Message(s).id, Message(s).sameId))
  PROVE  /\ Step(s, Asks(Loads(Takes(procs[s]), Changed(procs[s].list, Message(s))),
                         "storing", Database),
                 Database, [from |-> s, key |-> procs[s].name], 0, 0)
         /\ Quiet /\ Outside
<1> DEFINE l == Changed(procs[s].list, Message(s))
           b == Takes(procs[s])
           r == Loads(b, l)
           g == "storing"
           taken == Taken(procs, s)
           changed == [taken EXCEPT ![s].list = Changed(@, Message(s))]
<1>1. CallDatabase(changed, s, g)
  BY DEF HandleCast
<1>2. procs[s].kind = "server" /\ procs[s].at = "idle" /\ procs[s].box # <<>>
      /\ Message(s).op # "entries"
  BY DEF HandleCast, In, HasMail
<1>3. Typed(procs[s]) /\ Free(procs[s])
  BY <1>2 DEF MailInv, Mailed, AllTyped, Free
<1>4. l \in Lists
  <2>1. procs[s].list \in Lists /\ procs[s].box \in Seq(Casts \cup Queries)
    BY <1>2, <1>3 DEF Typed, Mail
  <2>2. Message(s) \in Casts \cup Queries
    BY <1>2, <2>1, MailTaken DEF Message
  <2>3. Message(s) \in Casts
    BY <1>2, <2>2 DEF Queries
  <2> QED
    BY <2>1, <2>3, ChangedList
<1>5. /\ DOMAIN taken = DOMAIN procs
      /\ \A q \in DOMAIN procs : taken[q] = IF q = s THEN b ELSE procs[q]
  <2>1. /\ DOMAIN taken = DOMAIN procs
        /\ \A q \in DOMAIN procs : taken[q] = IF q = s THEN Takes(procs[q]) ELSE procs[q]
    BY TakenAt
  <2> QED
    BY <2>1
<1>6. /\ DOMAIN b = DOMAIN procs[s] /\ b.kind = "server" /\ b.parent = procs[s].parent
      /\ b.name = procs[s].name /\ b.box = Tail(procs[s].box) /\ b.list = procs[s].list
      /\ Typed(b)
  BY <1>2, <1>3, TakesFields
<1> HIDE DEF b, taken
<1>7. /\ DOMAIN changed = DOMAIN procs
      /\ \A q \in DOMAIN procs : changed[q] = IF q = s THEN r ELSE procs[q]
  BY <1>5, <1>6 DEF Loads
<1> HIDE DEF l
<1>8. /\ DOMAIN r = DOMAIN procs[s] /\ r.kind = "server" /\ r.parent = procs[s].parent
      /\ r.name = procs[s].name /\ r.box = Tail(procs[s].box)
  BY <1>6, LoadsFields
<1>9. Typed(r)
  BY <1>4, <1>6, LoadsTyped
<1>10. Awaiting(g)
  BY DEF Awaiting
<1> HIDE DEF r, changed, g
<1>11. /\ Step(s, Asks(r, g, Database), Database, [from |-> s, key |-> procs[s].name], 0, 0)
       /\ Quiet /\ Outside
  BY <1>1, <1>2, <1>3, <1>7, <1>8, <1>9, <1>10, CallDatabaseActs
<1> QED
  BY <1>11 DEF r, b, l, g

LEMMA ServerInitActs ==
  ASSUME IInv, MailInv, NEW s \in DOMAIN procs, ServerInit(s), registered.database_server # 0
  PROVE  /\ Step(s, Asks(procs[s], "choosing", Database), Database,
                 [from |-> s, key |-> procs[s].name], 0, 0)
         /\ Quiet /\ Outside
<1> DEFINE g == "choosing"
           r == procs[s]
<1>1. CallDatabase(procs, s, g) /\ procs[s].kind = "server" /\ Free(procs[s])
  BY DEF ServerInit, In, Free
<1>2. Typed(r)
  BY DEF MailInv, Mailed, AllTyped
<1>3. Awaiting(g)
  BY DEF Awaiting
<1>4. /\ DOMAIN procs = DOMAIN procs
      /\ \A q \in DOMAIN procs : procs[q] = IF q = s THEN r ELSE procs[q]
      /\ DOMAIN r = DOMAIN procs[s] /\ r.kind = "server" /\ r.name = procs[s].name
      /\ r.parent = procs[s].parent /\ r.box = procs[s].box
  BY <1>1
<1> HIDE DEF g, r
<1>5. /\ Step(s, Asks(r, g, Database), Database, [from |-> s, key |-> procs[s].name], 0, 0)
      /\ Quiet /\ Outside
  BY <1>1, <1>2, <1>3, <1>4, CallDatabaseActs
<1> QED
  BY <1>5 DEF g, r

LEMMA ServerStoreActs ==
  ASSUME IInv, MailInv, NEW s \in DOMAIN procs, ServerStore(s)
  PROVE  /\ Step(s, Asks(procs[s], "idle", 0), Reply(s),
                 [op |-> "store", key |-> procs[s].name, data |-> procs[s].list], 0, 0)
         /\ Quiet /\ Outside
<1> DEFINE w == Reply(s)
           m == [op |-> "store", key |-> procs[s].name, data |-> procs[s].list]
           g == "idle"
           a == Asks(procs[s], g, 0)
           sent == Sent(procs, w, m)
<1>1. procs' = Waits(sent, s, g, 0) /\ Quiet /\ Outside
  BY DEF ServerStore, Resumes, Stored
<1>2. procs[s].kind = "server" /\ procs[s].at = "storing" /\ HasReply(s)
  BY DEF ServerStore, In
<1>3. /\ w \in DOMAIN procs => procs[w].kind = "worker" /\ w # s
      /\ 0 \notin DOMAIN procs /\ Free(procs[s])
  BY <1>2, ServerReply DEF IsPid, IInv, ProcessInv
<1>4. m.op = "store" /\ m \in Stores
  <2>1. Typed(procs[s])
    BY DEF MailInv, Mailed, AllTyped
  <2> QED
    BY <1>2, <2>1 DEF Stores, Typed
<1> HIDE DEF m, w, g
<1>5. /\ DOMAIN sent = DOMAIN procs
      /\ \A q \in DOMAIN procs : sent[q] = IF q = w THEN Receives(procs[q], m) ELSE procs[q]
  BY SentAt
<1> HIDE DEF sent
<1>6. DOMAIN procs' = DOMAIN procs
      /\ \A q \in DOMAIN procs : procs'[q] = IF q = s THEN Asks(sent[q], g, 0) ELSE sent[q]
  BY <1>1, <1>5, WaitsAt
<1>7. \A q \in DOMAIN procs :
        procs'[q] = IF q = s THEN a
                    ELSE IF q = w THEN Receives(procs[q], m)
                    ELSE IF q = 0 THEN Hears(procs[q], 0) ELSE procs[q]
  BY <1>3, <1>5, <1>6
<1>8. Typed(procs[s])
  BY DEF MailInv, Mailed, AllTyped
<1>9. /\ DOMAIN a = DOMAIN procs[s] /\ a.kind = "server" /\ a.parent = procs[s].parent
      /\ a.name = procs[s].name /\ a.box = procs[s].box /\ a.reply = NoReply
  BY <1>2, <1>8, AsksFields, AsksOwnFields
<1>10. Typed(a)
  BY <1>2, <1>8, AsksTyped
<1> HIDE DEF a
<1>11. Acts(procs, lastPid, procs', lastPid', s, a, w, m, 0, 0)
  BY <1>1, <1>6, <1>7, OldProcesses DEF Quiet
<1>12. Moves(procs, procs', lastPid', s, a)
  BY <1>2, <1>3, <1>9, <1>10, <1>11, ServerMoves
<1>13. Sends(procs, s, a, w, m)
  BY <1>3, <1>4 DEF Sends, Mail
<1>14. Replies(procs, procs', lastPid', s, a, w, 0, 0)
  BY <1>3 DEF Replies
<1> QED
  BY <1>1, <1>11, <1>12, <1>13, <1>14 DEF Step, a, m, w, g

LEMMA HandleEntriesActs ==
  ASSUME IInv, MailInv, NEW s \in DOMAIN procs, HandleEntries(s)
  PROVE  Step(s, Takes(procs[s]), 0, 0, 0, 0)
<1> DEFINE a == Takes(procs[s])
<1>1. procs' = Taken(procs, s) /\ Quiet
  BY DEF HandleEntries
<1>2. procs[s].kind = "server" /\ procs[s].at = "idle" /\ procs[s].box # <<>>
      /\ 0 \notin DOMAIN procs /\ Free(procs[s])
  BY DEF HandleEntries, In, HasMail, Free, IInv, ProcessInv
<1>3. Typed(procs[s])
  BY DEF MailInv, Mailed, AllTyped
<1>4. procs[s].reply = NoReply
  BY <1>2 DEF MailInv, Mailed, AllRefer, Refers
<1>5. /\ DOMAIN procs' = DOMAIN procs
      /\ \A q \in DOMAIN procs : procs'[q] = IF q = s THEN Takes(procs[q]) ELSE procs[q]
  BY <1>1, TakenAt
<1>6. \A q \in DOMAIN procs :
        procs'[q] = IF q = s THEN a
                    ELSE IF q = 0 THEN Receives(procs[q], 0)
                    ELSE IF q = 0 THEN Hears(procs[q], 0) ELSE procs[q]
  BY <1>2, <1>5
<1>7. /\ DOMAIN a = DOMAIN procs[s] /\ a.kind = "server" /\ a.parent = procs[s].parent
      /\ a.name = procs[s].name /\ a.box = Tail(procs[s].box) /\ a.reply = NoReply /\ Typed(a)
  BY <1>2, <1>3, <1>4, TakesFields
<1> HIDE DEF a
<1>8. Acts(procs, lastPid, procs', lastPid', s, a, 0, 0, 0, 0)
  BY <1>1, <1>5, <1>6, OldProcesses DEF Quiet
<1>9. Moves(procs, procs', lastPid', s, a)
  BY <1>2, <1>7, <1>8, ServerMoves
<1>10. Sends(procs, s, a, 0, 0) /\ Replies(procs, procs', lastPid', s, a, 0, 0, 0)
  BY <1>2 DEF Sends, Replies
<1> QED
  BY <1>8, <1>9, <1>10 DEF Step, a

(***************************************************************************)
(* Todo.Database and Todo.DatabaseWorker.                                  *)
(***************************************************************************)
LEMMA ChooseWorkerActs ==
  ASSUME IInv, MailInv, NEW d \in DOMAIN procs, ChooseWorker(d)
  PROVE  /\ Step(d, Takes(procs[d]), 0, 0, Message(d).from,
                 procs[d].worker_list[phash2[Message(d).key]])
         /\ Quiet /\ Outside
         /\ Message(d) = procs[d].box[1] /\ Message(d) \in Requests
<1> DEFINE a == Takes(procs[d])
           m == Message(d)
           s == m.from
           v == procs[d].worker_list[phash2[m.key]]
           taken == Taken(procs, d)
<1>1. procs' = Replied(taken, s, v) /\ Quiet /\ Outside
  BY DEF ChooseWorker
<1>2. procs[d].kind = "database" /\ procs[d].at = "idle" /\ procs[d].box # <<>>
      /\ 0 \notin DOMAIN procs
  BY DEF ChooseWorker, In, HasMail, IInv, ProcessInv
<1>3. Typed(procs[d]) /\ Refers(procs, lastPid, procs[d])
  BY DEF MailInv, Mailed, AllTyped, AllRefer
<1>4. procs[d].box \in Seq(Requests)
  BY <1>2, <1>3 DEF Typed, Mail
<1>5. m = procs[d].box[1] /\ m \in Requests /\ 1 \in DOMAIN procs[d].box
  BY <1>2, <1>4, MailTaken DEF Message
<1>6. IsCall(procs[d], 1)
  BY <1>2 DEF IsCall
<1>7. s \in DOMAIN procs => procs[s].kind = "server" /\ s # d
  BY <1>2, <1>5, <1>6 DEF MailInv, Mailed, AllCalled, Called, Awaits
<1>8. IsPid(procs, lastPid, v, "worker")
  <2>1. m.key \in Names
    BY <1>5 DEF Requests
  <2>2. phash2[m.key] \in WorkerIds
    BY <2>1 DEF WorkerIds
  <2> QED
    BY <1>2, <1>3, <2>2 DEF Refers
<1> HIDE DEF m, s, v
<1>9. /\ DOMAIN taken = DOMAIN procs
      /\ \A q \in DOMAIN procs : taken[q] = IF q = d THEN Takes(procs[q]) ELSE procs[q]
  BY TakenAt
<1> HIDE DEF taken
<1>10. /\ DOMAIN procs' = DOMAIN procs
       /\ \A q \in DOMAIN procs : procs'[q] = IF q = s THEN Hears(taken[q], v) ELSE taken[q]
  BY <1>1, <1>9, RepliedAt
<1>11. \A q \in DOMAIN procs :
         procs'[q] = IF q = d THEN a
                     ELSE IF q = 0 THEN Receives(procs[q], 0)
                     ELSE IF q = s THEN Hears(procs[q], v) ELSE procs[q]
  BY <1>2, <1>7, <1>9, <1>10
<1>12. /\ DOMAIN a = DOMAIN procs[d] /\ a.kind = "database" /\ a.parent = procs[d].parent
       /\ a.box = Tail(procs[d].box) /\ a.reply = procs[d].reply /\ a.at = procs[d].at
       /\ a.worker_list = procs[d].worker_list /\ Typed(a)
  BY <1>2, <1>3, TakesFields
<1> HIDE DEF a
<1>13. Acts(procs, lastPid, procs', lastPid', d, a, 0, 0, s, v)
  BY <1>1, <1>10, <1>11, OldProcesses DEF Quiet
<1>14. \A p, kind : IsPid(procs, lastPid, p, kind) => IsPid(procs', lastPid', p, kind)
  BY <1>2, <1>12, <1>13, KeepsPids
<1>15. Refers(procs', lastPid', a)
  BY <1>2, <1>3, <1>12, <1>14 DEF Refers
<1>16. Moves(procs, procs', lastPid', d, a)
  BY <1>2, <1>12, <1>15 DEF Moves
<1>17. Sends(procs, d, a, 0, 0)
  BY <1>2 DEF Sends
<1>18. Replies(procs, procs', lastPid', d, a, 0, s, v)
  BY <1>2, <1>5, <1>6, <1>7, <1>8, <1>12, <1>14 DEF Replies, s
<1> QED
  BY <1>1, <1>5, <1>13, <1>16, <1>17, <1>18 DEF Step, a, s, v, m

Works(r, st, job) == [r EXCEPT !.at = st, !.job = job]

LEMMA WorksFields ==
  ASSUME NEW r, NEW st, NEW job, Typed(r), r.kind = "worker"
  PROVE  /\ DOMAIN Works(r, st, job) = DOMAIN r /\ Works(r, st, job).kind = "worker"
         /\ Works(r, st, job).box = r.box /\ Works(r, st, job).parent = r.parent
         /\ Works(r, st, job).reply = r.reply /\ Works(r, st, job).job = job
         /\ Works(r, st, job).at = st
<1>1. Fields \cup {"job"} \subseteq DOMAIN r
  BY DEF Typed
<1> QED
  BY <1>1 DEF Works, Fields

\* A worker waits for nobody and refers to nobody.
LEMMA WorkerMoves ==
  ASSUME NEW w \in DOMAIN procs, procs[w].kind = "worker", NEW r,
         DOMAIN r = DOMAIN procs[w], r.kind = "worker", r.parent = procs[w].parent, Typed(r),
         r.box = procs[w].box \/ (procs[w].box # <<>> /\ r.box = Tail(procs[w].box))
  PROVE  Moves(procs, procs', lastPid', w, r)
  BY DEF Moves, Refers

\* The message a worker takes.
LEMMA WorkerMessage ==
  ASSUME MailInv, NEW w \in DOMAIN procs, procs[w].kind = "worker", HasMail(w)
  PROVE  /\ Message(w) = procs[w].box[1] /\ 1 \in DOMAIN procs[w].box
         /\ Message(w).op = "get" => Message(w) \in Gets
         /\ Message(w).op = "store" => Message(w) \in Stores
         /\ Message(w).op \in {"get", "store"}
<1>1. procs[w].box \in Seq(Gets \cup Stores) /\ procs[w].box # <<>>
  BY DEF HasMail, MailInv, Mailed, AllTyped, Typed, Mail
<1>2. /\ Message(w) = procs[w].box[1] /\ 1 \in DOMAIN procs[w].box
      /\ Message(w) \in Gets \cup Stores
  BY <1>1, MailTaken DEF Message
<1> QED
  BY <1>2 DEF Gets, Stores

LEMMA OpenFileActs ==
  ASSUME IInv, MailInv, NEW w \in DOMAIN procs, OpenFile(w)
  PROVE  /\ Step(w, Works(Takes(procs[w]), "writing", <<Message(w)>>), 0, 0, 0, 0)
         /\ Message(w) \in Stores
         /\ Quiet /\ UNCHANGED <<supervisor, client, budget>>
<1> DEFINE m == Message(w)
           b == Takes(procs[w])
           a == Works(b, "writing", <<m>>)
           taken == Taken(procs, w)
<1>1. procs' = [taken EXCEPT ![w].at = "writing", ![w].job = <<m>>]
      /\ Quiet /\ UNCHANGED <<supervisor, client, budget>>
  BY DEF OpenFile
<1>2. procs[w].kind = "worker" /\ HasMail(w) /\ m.op = "store" /\ 0 \notin DOMAIN procs
  BY DEF OpenFile, In, IInv, ProcessInv
<1>3. m \in Stores
  BY <1>2, WorkerMessage
<1>4. Typed(procs[w]) /\ procs[w].box # <<>>
  BY <1>2 DEF MailInv, Mailed, AllTyped, HasMail
<1> HIDE DEF m
<1>5. /\ DOMAIN taken = DOMAIN procs
      /\ \A q \in DOMAIN procs : taken[q] = IF q = w THEN Takes(procs[q]) ELSE procs[q]
  BY TakenAt
<1> HIDE DEF taken
<1>6. DOMAIN procs' = DOMAIN procs
      /\ \A q \in DOMAIN procs : procs'[q] = IF q = w THEN Works(taken[q], "writing", <<m>>) ELSE taken[q]
  BY <1>1, <1>5 DEF Works
<1>7. \A q \in DOMAIN procs :
        procs'[q] = IF q = w THEN a
                    ELSE IF q = 0 THEN Receives(procs[q], 0)
                    ELSE IF q = 0 THEN Hears(procs[q], 0) ELSE procs[q]
  BY <1>2, <1>5, <1>6
<1>8. /\ DOMAIN b = DOMAIN procs[w] /\ b.kind = "worker" /\ b.parent = procs[w].parent
      /\ b.box = Tail(procs[w].box) /\ Typed(b)
  BY <1>2, <1>4, TakesFields
<1> HIDE DEF b
<1>9. /\ DOMAIN a = DOMAIN procs[w] /\ a.kind = "worker" /\ a.parent = procs[w].parent
      /\ a.box = Tail(procs[w].box) /\ a.job = <<m>>
  BY <1>8, WorksFields
<1>10. a.at = "writing"
  BY <1>8 DEF Works, Typed, Fields
<1> HIDE DEF a
<1>11. Typed(a)
  BY <1>3, <1>8, <1>9, <1>10 DEF Typed
<1>12. Acts(procs, lastPid, procs', lastPid', w, a, 0, 0, 0, 0)
  BY <1>1, <1>6, <1>7, OldProcesses DEF Quiet
<1>13. Moves(procs, procs', lastPid', w, a)
  BY <1>2, <1>4, <1>9, <1>11, WorkerMoves
<1>14. Sends(procs, w, a, 0, 0) /\ Replies(procs, procs', lastPid', w, a, 0, 0, 0)
  BY <1>2 DEF Sends, Replies
<1> QED
  BY <1>1, <1>3, <1>12, <1>13, <1>14 DEF Step, a, b, m

LEMMA WriteFileActs ==
  ASSUME IInv, MailInv, NEW w \in DOMAIN procs, WriteFile(w)
  PROVE  /\ Step(w, Works(procs[w], "idle", <<>>), 0, 0, 0, 0)
         /\ \E m \in Stores :
              /\ procs[w].job = <<m>>
              /\ file' = [file EXCEPT ![m.key] = [state |-> "whole", list |-> m.data]]
         /\ Quiet /\ UNCHANGED <<supervisor, client, budget>>
<1> DEFINE a == Works(procs[w], "idle", <<>>)
<1>1. procs' = [procs EXCEPT ![w].at = "idle", ![w].job = <<>>]
      /\ Quiet /\ UNCHANGED <<supervisor, client, budget>>
  BY DEF WriteFile
<1>2. procs[w].kind = "worker" /\ procs[w].at = "writing" /\ 0 \notin DOMAIN procs
  BY DEF WriteFile, In, IInv, ProcessInv
<1>3. Typed(procs[w])
  BY DEF MailInv, Mailed, AllTyped
<1>4. \E m \in Stores :
        /\ procs[w].job = <<m>>
        /\ file' = [file EXCEPT ![m.key] = [state |-> "whole", list |-> m.data]]
  <2>1. PICK m \in Stores : procs[w].job = <<m>>
    BY <1>2, <1>3 DEF Typed
  <2>2. Head(procs[w].job) = m
    BY <2>1
  <2> QED
    BY <2>1, <2>2 DEF WriteFile
<1>5. DOMAIN procs' = DOMAIN procs
      /\ \A q \in DOMAIN procs : procs'[q] = IF q = w THEN Works(procs[q], "idle", <<>>) ELSE procs[q]
  BY <1>1 DEF Works
<1>6. \A q \in DOMAIN procs :
        procs'[q] = IF q = w THEN a
                    ELSE IF q = 0 THEN Receives(procs[q], 0)
                    ELSE IF q = 0 THEN Hears(procs[q], 0) ELSE procs[q]
  BY <1>2, <1>5
<1>7. /\ DOMAIN a = DOMAIN procs[w] /\ a.kind = "worker" /\ a.parent = procs[w].parent
      /\ a.box = procs[w].box /\ a.job = <<>>
  BY <1>2, <1>3, WorksFields
<1>8. a.at = "idle"
  BY <1>3 DEF Works, Typed, Fields
<1> HIDE DEF a
<1>9. Typed(a)
  BY <1>2, <1>3, <1>7, <1>8 DEF Typed
<1>10. Acts(procs, lastPid, procs', lastPid', w, a, 0, 0, 0, 0)
  BY <1>1, <1>5, <1>6, OldProcesses DEF Quiet
<1>11. Moves(procs, procs', lastPid', w, a)
  BY <1>2, <1>7, <1>9, WorkerMoves
<1>12. Sends(procs, w, a, 0, 0) /\ Replies(procs, procs', lastPid', w, a, 0, 0, 0)
  BY <1>2 DEF Sends, Replies
<1> QED
  BY <1>1, <1>4, <1>10, <1>11, <1>12 DEF Step, a

FileTyped == file \in [Names -> [state : {"absent", "partial", "whole"}, list : Lists]]

LEMMA GetFileActs ==
  ASSUME IInv, MailInv, FileTyped, NEW w \in DOMAIN procs, GetFile(w),
         file[Message(w).key].state # "partial"
  PROVE  /\ Step(w, Takes(procs[w]), 0, 0, Message(w).from, file[Message(w).key].list)
         /\ Message(w) \in Gets /\ Message(w) = procs[w].box[1]
         /\ Quiet /\ Outside
<1> DEFINE a == Takes(procs[w])
           m == Message(w)
           s == m.from
           v == file[m.key].list
           taken == Taken(procs, w)
<1>1. procs' = Replied(taken, s, v) /\ Quiet /\ Outside
  BY DEF GetFile
<1>2. procs[w].kind = "worker" /\ HasMail(w) /\ m.op = "get" /\ 0 \notin DOMAIN procs
  BY DEF GetFile, In, IInv, ProcessInv
<1>3. Typed(procs[w]) /\ procs[w].box # <<>>
  BY <1>2 DEF MailInv, Mailed, AllTyped, HasMail
<1>4. m = procs[w].box[1] /\ m \in Gets /\ 1 \in DOMAIN procs[w].box
  BY <1>2, WorkerMessage
<1>5. IsCall(procs[w], 1)
  BY <1>2, <1>4 DEF IsCall
<1>6. s \in DOMAIN procs => procs[s].kind = "server" /\ s # w
  BY <1>2, <1>4, <1>5 DEF MailInv, Mailed, AllCalled, Called, Awaits
<1>7. v \in Lists
  BY <1>4 DEF Gets, FileTyped
<1> HIDE DEF m, s, v
<1>8. /\ DOMAIN taken = DOMAIN procs
      /\ \A q \in DOMAIN procs : taken[q] = IF q = w THEN Takes(procs[q]) ELSE procs[q]
  BY TakenAt
<1> HIDE DEF taken
<1>9. /\ DOMAIN procs' = DOMAIN procs
      /\ \A q \in DOMAIN procs : procs'[q] = IF q = s THEN Hears(taken[q], v) ELSE taken[q]
  BY <1>1, <1>8, RepliedAt
<1>10. \A q \in DOMAIN procs :
         procs'[q] = IF q = w THEN a
                     ELSE IF q = 0 THEN Receives(procs[q], 0)
                     ELSE IF q = s THEN Hears(procs[q], v) ELSE procs[q]
  BY <1>2, <1>6, <1>8, <1>9
<1>11. /\ DOMAIN a = DOMAIN procs[w] /\ a.kind = "worker" /\ a.parent = procs[w].parent
       /\ a.box = Tail(procs[w].box) /\ Typed(a)
  BY <1>2, <1>3, TakesFields
<1> HIDE DEF a
<1>12. Acts(procs, lastPid, procs', lastPid', w, a, 0, 0, s, v)
  BY <1>1, <1>9, <1>10, OldProcesses DEF Quiet
<1>13. Moves(procs, procs', lastPid', w, a)
  BY <1>2, <1>3, <1>11, WorkerMoves
<1>14. Sends(procs, w, a, 0, 0)
  BY <1>2 DEF Sends
<1>15. Replies(procs, procs', lastPid', w, a, 0, s, v)
  BY <1>2, <1>3, <1>4, <1>5, <1>6, <1>7, <1>11 DEF Replies, s
<1> QED
  BY <1>1, <1>4, <1>12, <1>13, <1>14, <1>15 DEF Step, a, s, v, m

(***************************************************************************)
(* Todo.Cache.                                                             *)
(***************************************************************************)
LEMMA Grown ==
  ASSUME IInv, NEW qs, NEW new1, procs' = With(Only(Spawned, new1), qs),
         DOMAIN qs = DOMAIN procs
  PROVE  /\ DOMAIN procs' = DOMAIN procs \cup {Spawned} /\ Spawned \notin DOMAIN procs
         /\ procs'[Spawned] = new1
         /\ \A q \in DOMAIN procs : procs'[q] = qs[q]
  BY NewPid DEF With, Only

\* A step that starts one process.
LEMMA NewProcess ==
  ASSUME IInv, DOMAIN procs' = DOMAIN procs \cup {Spawned}, lastPid' = Spawned,
         Fresh(procs', lastPid', procs'[Spawned]),
         NEW x, NEW r, NEW y, NEW m, NEW z, NEW v,
         \A q \in DOMAIN procs :
           procs'[q] = IF q = x THEN r
                       ELSE IF q = y THEN Receives(procs[q], m)
                       ELSE IF q = z THEN Hears(procs[q], v) ELSE procs[q]
  PROVE  Acts(procs, lastPid, procs', lastPid', x, r, y, m, z, v)
<1>1. /\ lastPid \in Nat /\ lastPid' \in Nat /\ lastPid <= lastPid' /\ Spawned > lastPid
      /\ DOMAIN procs \subseteq 1 .. lastPid
  BY DEF IInv, ProcessInv, Spawned
<1>2. DOMAIN procs' \subseteq 1 .. lastPid'
  BY NewPid
<1>3. \A q \in DOMAIN procs' \ DOMAIN procs : q = Spawned
  OBVIOUS
<1> QED
  BY <1>1, <1>2, <1>3 DEF Acts

LEMMA CacheMoves ==
  ASSUME MailInv, NEW c \in DOMAIN procs, NEW r, NEW y, NEW m, NEW z, NEW v,
         Acts(procs, lastPid, procs', lastPid', c, r, y, m, z, v),
         procs[c].kind = "cache",
         DOMAIN r = DOMAIN procs[c], r.kind = "cache", r.parent = procs[c].parent, Typed(r),
         r.box = procs[c].box \/ (procs[c].box # <<>> /\ r.box = Tail(procs[c].box)),
         r.todo_servers = procs[c].todo_servers,
         r.at = "starting server" => IsPid(procs', lastPid', r.on, "server")
  PROVE  Moves(procs, procs', lastPid', c, r)
<1>1. \A k \in DOMAIN procs[c].todo_servers :
        IsPid(procs, lastPid, procs[c].todo_servers[k], "server")
  BY DEF MailInv, Mailed, AllRefer, Refers
<1>2. \A k \in DOMAIN r.todo_servers : IsPid(procs', lastPid', r.todo_servers[k], "server")
  BY <1>1, KeepsPids
<1>3. Refers(procs', lastPid', r)
  BY <1>2 DEF Refers
<1> QED
  BY <1>3 DEF Moves

LEMMA QuietCacheActs ==
  ASSUME IInv, MailInv, NEW c \in DOMAIN procs, procs[c].kind = "cache", Quiet,
         procs' = Resumes(procs, c)
  PROVE  Step(c, Asks(procs[c], "idle", 0), 0, 0, 0, 0)
<1> DEFINE g == "idle"
           a == Asks(procs[c], g, 0)
<1>1. procs' = Waits(procs, c, g, 0) /\ 0 \notin DOMAIN procs
  BY DEF Resumes, IInv, ProcessInv
<1>2. Typed(procs[c])
  BY DEF MailInv, Mailed, AllTyped
<1>3. /\ DOMAIN procs' = DOMAIN procs
      /\ \A q \in DOMAIN procs : procs'[q] = IF q = c THEN Asks(procs[q], g, 0) ELSE procs[q]
  BY <1>1, WaitsAt
<1>4. \A q \in DOMAIN procs :
        procs'[q] = IF q = c THEN a
                    ELSE IF q = 0 THEN Receives(procs[q], 0)
                    ELSE IF q = 0 THEN Hears(procs[q], 0) ELSE procs[q]
  BY <1>1, <1>3
<1>0. g # "starting server"
  OBVIOUS
<1> HIDE DEF g
<1>5. /\ DOMAIN a = DOMAIN procs[c] /\ a.kind = "cache" /\ a.parent = procs[c].parent
      /\ a.box = procs[c].box /\ a.todo_servers = procs[c].todo_servers
      /\ a.at = g
  BY <1>2, AsksFields, AsksOwnFields
<1> HIDE DEF a
<1>6. NotStarting(a)
  BY <1>0, <1>5 DEF NotStarting
<1>7. Typed(a)
  <2>1. NotStarting(Asks(procs[c], g, 0))
    BY <1>6 DEF a
  <2>2. Typed(Asks(procs[c], g, 0))
    BY <1>2, <2>1, AsksTyped
  <2> QED
    BY <2>2 DEF a
<1>8. Acts(procs, lastPid, procs', lastPid', c, a, 0, 0, 0, 0)
  BY <1>3, <1>4, OldProcesses DEF Quiet
<1>9. Moves(procs, procs', lastPid', c, a)
  BY <1>5, <1>6, <1>7, <1>8, CacheMoves DEF NotStarting
<1>10. Sends(procs, c, a, 0, 0) /\ Replies(procs, procs', lastPid', c, a, 0, 0, 0)
  BY <1>1 DEF Sends, Replies
<1> QED
  BY <1>8, <1>9, <1>10 DEF Step, a, g

LEMMA NewDatabaseFresh ==
  ASSUME NEW ps, NEW n, NEW c, IsPid(ps, n, c, "cache")
  PROVE  Fresh(ps, n, NewDatabase(c))
<1> DEFINE r == NewDatabase(c)
<1>1. /\ Fields \cup {"worker_list"} \subseteq DOMAIN r /\ r.kind = "database" /\ r.parent = c
      /\ r.box = <<>> /\ r.reply = NoReply
  BY DEF NewDatabase, Process, With, Fields, NoReply
<1>2. r.at = "init"
  BY DEF NewDatabase, Process, With
<1> HIDE DEF r
<1>3. Typed(r)
  BY <1>1 DEF Typed, Mail
<1>4. Refers(ps, n, r)
  BY <1>1, <1>2 DEF Refers
<1> QED
  BY <1>1, <1>2, <1>3, <1>4 DEF Fresh, r

LEMMA NewServerFresh ==
  ASSUME NEW ps, NEW n, NEW c, IsPid(ps, n, c, "cache"), NEW name \in Names
  PROVE  Fresh(ps, n, NewServer(c, name))
<1> DEFINE r == NewServer(c, name)
<1>1. /\ Fields \cup {"name", "list"} \subseteq DOMAIN r /\ r.kind = "server" /\ r.parent = c
      /\ r.box = <<>> /\ r.reply = NoReply /\ r.name = name /\ r.list = new
  BY DEF NewServer, Process, With, Fields, NoReply
<1>2. r.at = "init"
  BY DEF NewServer, Process, With
<1> HIDE DEF r
<1>3. Typed(r)
  BY <1>1, NewList DEF Typed, Mail
<1>4. Refers(ps, n, r)
  BY <1>1, <1>2 DEF Refers
<1> QED
  BY <1>1, <1>2, <1>3, <1>4 DEF Fresh, r

LEMMA NewWorkerFresh ==
  ASSUME NEW ps, NEW n, NEW d
  PROVE  Fresh(ps, n, NewWorker(d))
<1> DEFINE r == NewWorker(d)
<1>1. /\ Fields \cup {"job"} \subseteq DOMAIN r /\ r.kind = "worker"
      /\ r.box = <<>> /\ r.reply = NoReply /\ r.job = <<>>
  BY DEF NewWorker, Process, With, Fields, NoReply
<1>2. r.at = "idle"
  BY DEF NewWorker, Process, With
<1> HIDE DEF r
<1>3. Typed(r)
  BY <1>1, <1>2 DEF Typed, Mail
<1>4. Refers(ps, n, r)
  BY <1>1 DEF Refers
<1> QED
  BY <1>1, <1>2, <1>3, <1>4 DEF Fresh, r

LEMMA NewCacheFresh ==
  ASSUME NEW ps, NEW n
  PROVE  Fresh(ps, n, NewCache)
<1> DEFINE r == NewCache
<1>1. /\ Fields \cup {"todo_servers", "todo_list_name"} \subseteq DOMAIN r /\ r.kind = "cache"
      /\ r.box = <<>> /\ r.reply = NoReply /\ r.todo_servers = <<>>
  BY DEF NewCache, Process, With, Fields, NoReply
<1>2. r.at = "init"
  BY DEF NewCache, Process, With
<1> HIDE DEF r
<1>3. Typed(r)
  BY <1>1, <1>2 DEF Typed, Mail
<1>5. DOMAIN <<>> = {}
  OBVIOUS
<1>4. Refers(ps, n, r)
  BY <1>1, <1>2, <1>5 DEF Refers
<1> QED
  BY <1>1, <1>2, <1>3, <1>4 DEF Fresh, r

LEMMA StartDatabaseActs ==
  ASSUME IInv, MailInv, NEW c \in DOMAIN procs, StartDatabase(c),
         registered.database_server = 0
  PROVE  /\ Step(c, Asks(procs[c], "starting database", Spawned), 0, 0, 0, 0)
         /\ procs'[Spawned] = NewDatabase(c) /\ Database' = Spawned
         /\ DOMAIN procs' = DOMAIN procs \cup {Spawned} /\ Spawned \notin DOMAIN procs
         /\ links' = Linked(c) /\ lastPid' = Spawned /\ Cache' = Cache
         /\ UNCHANGED exiting /\ Outside
<1> DEFINE g == "starting database"
           a == Asks(procs[c], g, Spawned)
           qs == Waits(procs, c, g, Spawned)
           nd == NewDatabase(c)
<1>1. /\ procs' = With(Only(Spawned, nd), qs) /\ lastPid' = Spawned /\ links' = Linked(c)
      /\ registered' = [registered EXCEPT !.database_server = Spawned]
      /\ UNCHANGED exiting /\ Outside
  BY DEF StartDatabase
<1>2. Cache' = Cache /\ Database' = Spawned
  BY <1>1 DEF IInv, ProcessInv, Cache, Database
<1>3. procs[c].kind = "cache" /\ 0 \notin DOMAIN procs
  <2>1. In(c, "cache", "init")
    BY DEF StartDatabase
  <2> QED
    BY <2>1, NewPid DEF In
<1>0. g # "starting server"
  OBVIOUS
<1> HIDE DEF g
<1>4. /\ DOMAIN qs = DOMAIN procs
      /\ \A q \in DOMAIN procs : qs[q] = IF q = c THEN Asks(procs[q], g, Spawned) ELSE procs[q]
  BY WaitsAt
<1> HIDE DEF qs, nd
<1>5. /\ DOMAIN procs' = DOMAIN procs \cup {Spawned} /\ Spawned \notin DOMAIN procs
      /\ procs'[Spawned] = nd /\ \A q \in DOMAIN procs : procs'[q] = qs[q]
  BY <1>1, <1>4, Grown
<1>6. \A q \in DOMAIN procs :
        procs'[q] = IF q = c THEN a
                    ELSE IF q = 0 THEN Receives(procs[q], 0)
                    ELSE IF q = 0 THEN Hears(procs[q], 0) ELSE procs[q]
  BY <1>3, <1>4, <1>5
<1>7. Typed(procs[c])
  BY DEF MailInv, Mailed, AllTyped
<1>8. /\ DOMAIN a = DOMAIN procs[c] /\ a.kind = "cache" /\ a.parent = procs[c].parent
      /\ a.box = procs[c].box /\ a.todo_servers = procs[c].todo_servers
      /\ a.at = g
  BY <1>3, <1>7, AsksFields, AsksOwnFields
<1>9. Typed(a)
  <2>1. NotStarting(Asks(procs[c], g, Spawned))
    BY <1>0, <1>8 DEF NotStarting
  <2>2. Typed(Asks(procs[c], g, Spawned))
    BY <1>3, <1>7, <2>1, AsksTyped
  <2> QED
    BY <2>2
<1> HIDE DEF a
<1>10. IsPid(procs', lastPid', c, "cache")
  <2>1. c \in 1 .. lastPid' /\ procs'[c] = a
    BY <1>1, <1>6, NewPid
  <2> QED
    BY <1>8, <2>1 DEF IsPid
<1>11. Fresh(procs', lastPid', procs'[Spawned])
  BY <1>5, <1>10, NewDatabaseFresh DEF nd
<1>12. Acts(procs, lastPid, procs', lastPid', c, a, 0, 0, 0, 0)
  BY <1>1, <1>5, <1>6, <1>11, NewProcess
<1>13. Moves(procs, procs', lastPid', c, a)
  BY <1>0, <1>3, <1>8, <1>9, <1>12, CacheMoves
<1>14. Sends(procs, c, a, 0, 0) /\ Replies(procs, procs', lastPid', c, a, 0, 0, 0)
  BY <1>3 DEF Sends, Replies
<1> QED
  BY <1>1, <1>2, <1>5, <1>12, <1>13, <1>14 DEF Step, a, g, nd

\* The cache has the server that it is asked for.
LEMMA KnownServerActs ==
  ASSUME IInv, MailInv, NEW c \in DOMAIN procs, ServerProcess(c),
         Message(c) \in DOMAIN procs[c].todo_servers
  PROVE  /\ Step(c, Takes(procs[c]), 0, 0, 0, 0) /\ Quiet
         /\ client' = [client EXCEPT !.reply = <<procs[c].todo_servers[Message(c)]>>]
         /\ UNCHANGED <<file, supervisor, budget>>
<1> DEFINE a == Takes(procs[c])
<1>1. /\ procs' = Taken(procs, c) /\ Quiet
      /\ client' = [client EXCEPT !.reply = <<procs[c].todo_servers[Message(c)]>>]
      /\ UNCHANGED <<file, supervisor, budget>>
  BY DEF ServerProcess
<1>2. procs[c].kind = "cache" /\ procs[c].at = "idle" /\ procs[c].box # <<>>
      /\ 0 \notin DOMAIN procs
  BY DEF ServerProcess, In, HasMail, IInv, ProcessInv
<1>3. Typed(procs[c])
  BY DEF MailInv, Mailed, AllTyped
<1>5. /\ DOMAIN procs' = DOMAIN procs
      /\ \A q \in DOMAIN procs : procs'[q] = IF q = c THEN Takes(procs[q]) ELSE procs[q]
  BY <1>1, TakenAt
<1>6. \A q \in DOMAIN procs :
        procs'[q] = IF q = c THEN a
                    ELSE IF q = 0 THEN Receives(procs[q], 0)
                    ELSE IF q = 0 THEN Hears(procs[q], 0) ELSE procs[q]
  BY <1>2, <1>5
<1>7. /\ DOMAIN a = DOMAIN procs[c] /\ a.kind = "cache" /\ a.parent = procs[c].parent
      /\ a.box = Tail(procs[c].box) /\ a.todo_servers = procs[c].todo_servers
      /\ a.at = procs[c].at /\ Typed(a)
  BY <1>2, <1>3, TakesFields
<1> HIDE DEF a
<1>8. Acts(procs, lastPid, procs', lastPid', c, a, 0, 0, 0, 0)
  BY <1>1, <1>5, <1>6, OldProcesses DEF Quiet
<1>9. Moves(procs, procs', lastPid', c, a)
  BY <1>2, <1>7, <1>8, CacheMoves
<1>10. Sends(procs, c, a, 0, 0) /\ Replies(procs, procs', lastPid', c, a, 0, 0, 0)
  BY <1>2 DEF Sends, Replies
<1> QED
  BY <1>1, <1>8, <1>9, <1>10 DEF Step, a

Starts(r, n) == [r EXCEPT !.todo_list_name = n]

LEMMA StartsFields ==
  ASSUME NEW r, NEW n, Typed(r), r.kind = "cache"
  PROVE  /\ DOMAIN Starts(r, n) = DOMAIN r /\ Starts(r, n).box = r.box
         /\ Starts(r, n).kind = "cache" /\ Starts(r, n).parent = r.parent
         /\ Starts(r, n).todo_servers = r.todo_servers /\ Starts(r, n).todo_list_name = n
         /\ Starts(r, n).on = r.on /\ Starts(r, n).reply = r.reply
<1>1. Fields \cup {"todo_servers", "todo_list_name"} \subseteq DOMAIN r
  BY DEF Typed
<1> QED
  BY <1>1 DEF Starts, Fields

LEMMA StartsAt ==
  ASSUME NEW r, NEW n, Typed(r), r.kind = "cache"
  PROVE  Starts(r, n).at = r.at
<1>1. "at" \in DOMAIN r
  BY DEF Typed, Fields
<1> QED
  BY <1>1 DEF Starts

\* It has none, and starts one.
LEMMA NewServerActs ==
  ASSUME IInv, MailInv, NEW c \in DOMAIN procs, ServerProcess(c),
         Message(c) \notin DOMAIN procs[c].todo_servers
  PROVE  /\ Step(c, Starts(Asks(Takes(procs[c]), "starting server", Spawned), Message(c)),
                 0, 0, 0, 0)
         /\ procs'[Spawned] = NewServer(c, Message(c)) /\ Message(c) \in Names
         /\ DOMAIN procs' = DOMAIN procs \cup {Spawned} /\ Spawned \notin DOMAIN procs
         /\ links' = Linked(c) /\ lastPid' = Spawned /\ UNCHANGED <<exiting, registered>>
         /\ Outside
<1> DEFINE g == "starting server"
           n == Message(c)
           t == Takes(procs[c])
           b == Asks(t, g, Spawned)
           a == Starts(b, n)
           taken == Taken(procs, c)
           waiting == Waits(taken, c, g, Spawned)
           qs == [waiting EXCEPT ![c].todo_list_name = n]
           ns == NewServer(c, n)
<1>1. /\ procs' = With(Only(Spawned, ns), qs) /\ lastPid' = Spawned /\ links' = Linked(c)
      /\ UNCHANGED <<exiting, registered>> /\ Outside
  BY DEF ServerProcess, Outside
<1>2. procs[c].kind = "cache" /\ procs[c].box # <<>> /\ 0 \notin DOMAIN procs
  <2>1. In(c, "cache", "idle") /\ HasMail(c)
    BY DEF ServerProcess
  <2> QED
    BY <2>1, NewPid DEF In, HasMail
<1>3. Typed(procs[c])
  BY DEF MailInv, Mailed, AllTyped
<1>4. n \in Names
  <2>1. procs[c].box \in Seq(Names)
    BY <1>2, <1>3 DEF Typed, Mail
  <2> QED
    BY <1>2, <2>1, MailTaken DEF Message
<1> HIDE DEF n
<1>5. /\ DOMAIN taken = DOMAIN procs
      /\ \A q \in DOMAIN procs : taken[q] = IF q = c THEN Takes(procs[q]) ELSE procs[q]
  BY TakenAt
<1> HIDE DEF taken, g
<1>6. /\ DOMAIN waiting = DOMAIN procs
      /\ \A q \in DOMAIN procs : waiting[q] = IF q = c THEN Asks(taken[q], g, Spawned) ELSE taken[q]
  BY <1>5, WaitsAt
<1> HIDE DEF waiting
<1>7. /\ DOMAIN qs = DOMAIN procs
      /\ \A q \in DOMAIN procs : qs[q] = IF q = c THEN Starts(waiting[q], n) ELSE waiting[q]
  BY <1>6 DEF Starts
<1> HIDE DEF qs, ns
<1>8. /\ DOMAIN procs' = DOMAIN procs \cup {Spawned} /\ Spawned \notin DOMAIN procs
      /\ procs'[Spawned] = ns /\ \A q \in DOMAIN procs : procs'[q] = qs[q]
  BY <1>1, <1>7, Grown
<1> HIDE DEF a
<1>9. \A q \in DOMAIN procs :
        procs'[q] = IF q = c THEN a
                    ELSE IF q = 0 THEN Receives(procs[q], 0)
                    ELSE IF q = 0 THEN Hears(procs[q], 0) ELSE procs[q]
  BY <1>2, <1>5, <1>6, <1>7, <1>8 DEF a
<1>10. /\ DOMAIN t = DOMAIN procs[c] /\ t.kind = "cache" /\ t.parent = procs[c].parent
       /\ t.box = Tail(procs[c].box) /\ t.todo_servers = procs[c].todo_servers /\ Typed(t)
  BY <1>2, <1>3, TakesFields
<1> HIDE DEF t
<1>11. /\ DOMAIN b = DOMAIN procs[c] /\ b.kind = "cache" /\ b.parent = procs[c].parent
       /\ b.box = Tail(procs[c].box) /\ b.todo_servers = procs[c].todo_servers
       /\ b.on = Spawned /\ "todo_list_name" \in DOMAIN b /\ Fields \subseteq DOMAIN b
  <2>1. /\ DOMAIN b = DOMAIN t /\ b.kind = t.kind /\ b.parent = t.parent
        /\ b.box = t.box /\ b.on = Spawned
    BY <1>10, AsksFields
  <2>2. b.todo_servers = t.todo_servers
    BY <1>10, AsksOwnFields
  <2>3. "todo_list_name" \in DOMAIN t /\ Fields \subseteq DOMAIN t
    BY <1>10 DEF Typed
  <2> QED
    BY <1>10, <2>1, <2>2, <2>3
<1> HIDE DEF b
<1>12. /\ DOMAIN a = DOMAIN procs[c] /\ a.kind = "cache" /\ a.parent = procs[c].parent
       /\ a.box = Tail(procs[c].box) /\ a.todo_servers = procs[c].todo_servers
       /\ a.on = Spawned /\ a.todo_list_name = n
  BY <1>11 DEF Starts, a, Fields
<1>13. Typed(a)
  <2>1. /\ Fields \cup {"todo_servers", "todo_list_name"} \subseteq DOMAIN procs[c]
        /\ procs[c].box \in Seq(Names)
    BY <1>2, <1>3 DEF Typed, Mail
  <2>2. Tail(procs[c].box) \in Seq(Names)
    BY <1>2, <2>1, MailTaken
  <2> QED
    BY <1>4, <1>12, <2>1, <2>2 DEF Typed, Mail
<1>14. IsPid(procs', lastPid', c, "cache")
  <2>1. c \in 1 .. lastPid' /\ procs'[c] = a
    BY <1>1, <1>9, NewPid
  <2> QED
    BY <1>12, <2>1 DEF IsPid
<1>15. Fresh(procs', lastPid', procs'[Spawned])
  BY <1>4, <1>8, <1>14, NewServerFresh DEF ns
<1>16. Acts(procs, lastPid, procs', lastPid', c, a, 0, 0, 0, 0)
  BY <1>1, <1>8, <1>9, <1>15, NewProcess
<1>17. IsPid(procs', lastPid', a.on, "server")
  <2>1. a.on \in 1 .. lastPid'
    BY <1>1, <1>12, NewPid
  <2>2. ns.kind = "server"
    BY DEF ns, NewServer, Process, With
  <2> QED
    BY <1>8, <1>12, <2>1, <2>2 DEF IsPid
<1>18. Moves(procs, procs', lastPid', c, a)
  BY <1>2, <1>12, <1>13, <1>16, <1>17, CacheMoves
<1>19. Sends(procs, c, a, 0, 0) /\ Replies(procs, procs', lastPid', c, a, 0, 0, 0)
  BY <1>2 DEF Sends, Replies
<1> QED
  BY <1>1, <1>4, <1>8, <1>16, <1>18, <1>19 DEF Step, a, b, t, g, n, ns

Remembers(r, map) == [r EXCEPT !.todo_servers = map, !.todo_list_name = ""]

LEMMA RemembersFields ==
  ASSUME NEW r, NEW map, Fields \cup {"todo_servers", "todo_list_name"} \subseteq DOMAIN r
  PROVE  /\ DOMAIN Remembers(r, map) = DOMAIN r /\ Remembers(r, map).box = r.box
         /\ Remembers(r, map).kind = r.kind /\ Remembers(r, map).parent = r.parent
         /\ Remembers(r, map).todo_servers = map
         /\ Remembers(r, map).on = r.on /\ Remembers(r, map).reply = r.reply
  BY DEF Remembers, Fields

LEMMA RemembersAt ==
  ASSUME NEW r, NEW map, Fields \cup {"todo_servers", "todo_list_name"} \subseteq DOMAIN r
  PROVE  Remembers(r, map).at = r.at
  BY DEF Remembers, Fields

LEMMA ServerStartedActs ==
  ASSUME IInv, MailInv, NEW c \in DOMAIN procs, ServerStarted(c)
  PROVE  /\ Step(c, Remembers(Asks(procs[c], "idle", 0),
                              Remember(c, procs[c].todo_list_name, procs[c].on)), 0, 0, 0, 0)
         /\ client' = [client EXCEPT !.reply = <<procs[c].on>>]
         /\ IsPid(procs, lastPid, procs[c].on, "server")
         /\ Quiet /\ UNCHANGED <<file, supervisor, budget>>
<1> DEFINE g == "idle"
           s == procs[c].on
           n == procs[c].todo_list_name
           map == Remember(c, n, s)
           b == Asks(procs[c], g, 0)
           a == Remembers(b, map)
           waiting == Waits(procs, c, g, 0)
           qs == [waiting EXCEPT ![c].todo_servers = map, ![c].todo_list_name = ""]
<1>1. /\ procs' = qs /\ client' = [client EXCEPT !.reply = <<s>>]
      /\ Quiet /\ UNCHANGED <<file, supervisor, budget>>
  BY DEF ServerStarted, Resumes
<1>2. procs[c].kind = "cache" /\ 0 \notin DOMAIN procs
  <2>1. In(c, "cache", "starting server")
    BY DEF ServerStarted
  <2> QED
    BY <2>1, NewPid DEF In
<1>20. procs[c].at = "starting server"
  BY DEF ServerStarted, In
<1>3. Typed(procs[c]) /\ Refers(procs, lastPid, procs[c])
  BY DEF MailInv, Mailed, AllTyped, AllRefer
<1>4. /\ IsPid(procs, lastPid, s, "server")
      /\ \A k \in DOMAIN procs[c].todo_servers :
           IsPid(procs, lastPid, procs[c].todo_servers[k], "server")
  BY <1>2, <1>20, <1>3 DEF Refers
<1>5. \A k \in DOMAIN map : IsPid(procs, lastPid, map[k], "server")
  BY <1>4 DEF Remember, With, Only
<1>0. g # "starting server"
  OBVIOUS
<1> HIDE DEF g, map
<1>6. /\ DOMAIN waiting = DOMAIN procs
      /\ \A q \in DOMAIN procs : waiting[q] = IF q = c THEN Asks(procs[q], g, 0) ELSE procs[q]
  BY WaitsAt
<1> HIDE DEF waiting
<1>7. /\ DOMAIN qs = DOMAIN procs
      /\ \A q \in DOMAIN procs : qs[q] = IF q = c THEN Remembers(waiting[q], map) ELSE waiting[q]
  BY <1>6 DEF Remembers
<1> HIDE DEF qs
<1> HIDE DEF a
<1>8. \A q \in DOMAIN procs :
        procs'[q] = IF q = c THEN a
                    ELSE IF q = 0 THEN Receives(procs[q], 0)
                    ELSE IF q = 0 THEN Hears(procs[q], 0) ELSE procs[q]
  BY <1>1, <1>2, <1>6, <1>7 DEF a
<1>9. /\ DOMAIN b = DOMAIN procs[c] /\ b.kind = "cache" /\ b.parent = procs[c].parent
      /\ b.box = procs[c].box /\ b.at = g
      /\ Fields \cup {"todo_servers", "todo_list_name"} \subseteq DOMAIN b
  <2>1. Fields \cup {"todo_servers", "todo_list_name"} \subseteq DOMAIN procs[c]
    BY <1>2, <1>3 DEF Typed
  <2> QED
    BY <1>2, <1>3, <2>1, AsksFields
<1> HIDE DEF b
<1>10. /\ DOMAIN a = DOMAIN procs[c] /\ a.kind = "cache" /\ a.parent = procs[c].parent
       /\ a.box = procs[c].box /\ a.todo_servers = map
  BY <1>9, RemembersFields DEF a
<1>11. a.at = g
  BY <1>9, RemembersAt DEF a
<1>12. Typed(a)
  BY <1>0, <1>2, <1>3, <1>10, <1>11 DEF Typed
<1>13. Acts(procs, lastPid, procs', lastPid', c, a, 0, 0, 0, 0)
  BY <1>1, <1>7, <1>8, OldProcesses DEF Quiet
<1>14. \A k \in DOMAIN map : IsPid(procs', lastPid', map[k], "server")
  BY <1>2, <1>5, <1>10, <1>13, KeepsPids
<1>15. Refers(procs', lastPid', a)
  BY <1>0, <1>10, <1>11, <1>14 DEF Refers
<1>16. Moves(procs, procs', lastPid', c, a)
  BY <1>2, <1>10, <1>12, <1>15 DEF Moves
<1>17. Sends(procs, c, a, 0, 0) /\ Replies(procs, procs', lastPid', c, a, 0, 0, 0)
  BY <1>2 DEF Sends, Replies
<1> QED
  BY <1>1, <1>4, <1>13, <1>16, <1>17 DEF Step, a, b, g, map

(***************************************************************************)
(* The steps that are no process's.                                        *)
(***************************************************************************)
LEMMA RestartMail ==
  ASSUME IInv, MailInv, Restart
  PROVE  MailInv'
<1>1. CASE StartCache
  <2>1. /\ procs' = With(Only(Spawned, NewCache), procs)
        /\ lastPid' = Spawned /\ registered' = [registered EXCEPT !.todo_cache = Spawned]
    BY <1>1 DEF StartCache
  <2>2. /\ DOMAIN procs' = DOMAIN procs \cup {Spawned} /\ Spawned \notin DOMAIN procs
        /\ procs'[Spawned] = NewCache /\ \A q \in DOMAIN procs : procs'[q] = procs[q]
    BY <2>1, Grown
  <2>3. 0 \notin DOMAIN procs
    BY NewPid
  <2>4. \A q \in DOMAIN procs :
          procs'[q] = IF q = 0 THEN 0
                      ELSE IF q = 0 THEN Receives(procs[q], 0)
                      ELSE IF q = 0 THEN Hears(procs[q], 0) ELSE procs[q]
    BY <2>2, <2>3
  <2>5. Fresh(procs', lastPid', procs'[Spawned])
    BY <2>2, NewCacheFresh
  <2>6. Acts(procs, lastPid, procs', lastPid', 0, 0, 0, 0, 0, 0)
    BY <2>1, <2>2, <2>4, <2>5, NewProcess
  <2>7. Step(0, 0, 0, 0, 0, 0)
    BY <2>3, <2>6 DEF Step, Moves, Sends, Replies
  <2>8. Database' = Database
    BY <2>1 DEF IInv, ProcessInv, Database
  <2> QED
    BY <2>7, <2>8, QuietMailStep
<1>2. CASE UNCHANGED <<procs, lastPid, links, exiting, registered>>
  BY <1>2 DEF MailInv, Database
<1> QED
  BY <1>1, <1>2 DEF Restart

\* The client sends a message, or not.
LEMMA ClientActs ==
  ASSUME IInv, MailInv, NEW p, NEW m, Quiet, procs' = Sent(procs, p, m),
         p \in DOMAIN procs => /\ procs[p].kind \in {"cache", "server"}
                               /\ m \in Mail(procs[p].kind)
  PROVE  Step(0, 0, p, m, 0, 0)
<1>1. 0 \notin DOMAIN procs
  BY NewPid
<1>2. /\ DOMAIN procs' = DOMAIN procs
      /\ \A q \in DOMAIN procs : procs'[q] = IF q = p THEN Receives(procs[q], m) ELSE procs[q]
  BY SentAt
<1>3. \A q \in DOMAIN procs :
        procs'[q] = IF q = 0 THEN 0
                    ELSE IF q = p THEN Receives(procs[q], m)
                    ELSE IF q = 0 THEN Hears(procs[q], 0) ELSE procs[q]
  BY <1>1, <1>2
<1>4. Acts(procs, lastPid, procs', lastPid', 0, 0, p, m, 0, 0)
  BY <1>2, <1>3, OldProcesses DEF Quiet
<1> QED
  BY <1>1, <1>4 DEF Step, Moves, Sends, Replies

Employs(r, pid) == [r EXCEPT !.worker_list = pid]

LEMMA EmploysFields ==
  ASSUME NEW r, NEW pid, Fields \cup {"worker_list"} \subseteq DOMAIN r
  PROVE  /\ DOMAIN Employs(r, pid) = DOMAIN r /\ Employs(r, pid).box = r.box
         /\ Employs(r, pid).kind = r.kind /\ Employs(r, pid).parent = r.parent
         /\ Employs(r, pid).worker_list = pid
  BY DEF Employs, Fields

LEMMA StartWorkersActs ==
  ASSUME IInv, MailInv, NEW d \in DOMAIN procs, StartWorkers(d)
  PROVE  \E pid \in [WorkerIds -> DOMAIN procs' \ DOMAIN procs] :
           /\ Step(d, Employs(Asks(procs[d], "idle", 0), pid), 0, 0, procs[d].parent, d)
           /\ \A q \in DOMAIN procs' \ DOMAIN procs : procs'[q] = NewWorker(d)
           /\ links' = links \cup {{d, w} : w \in DOMAIN procs' \ DOMAIN procs}
           /\ UNCHANGED <<exiting, registered>> /\ Outside
<1> DEFINE n == Cardinality(WorkerIds)
           g == "idle"
           p == procs[d].parent
           pid == CHOOSE f \in [WorkerIds -> lastPid + 1 .. lastPid + n] :
                    \A i, j \in WorkerIds : f[i] = f[j] => i = j
           workers == {pid[i] : i \in WorkerIds}
           b == Asks(procs[d], g, 0)
           a == Employs(b, pid)
           ready == Waits(procs, d, g, 0)
           listed == [ready EXCEPT ![d].worker_list = pid]
           qs == Replied(listed, p, d)
<1>1. /\ lastPid \in Nat /\ DOMAIN procs \subseteq 1 .. lastPid
      /\ procs[d].kind = "database" /\ 0 \notin DOMAIN procs
  BY DEF IInv, ProcessInv, StartWorkers, In
<1>2. /\ procs' = With([w \in workers |-> NewWorker(d)], qs)
      /\ lastPid' = lastPid + n /\ links' = links \cup {{d, w} : w \in workers}
      /\ UNCHANGED <<exiting, registered>> /\ Outside
  BY DEF StartWorkers, Resumes
<1>3. n \in Nat /\ pid \in [WorkerIds -> lastPid + 1 .. lastPid + n]
  <2>1. n \in Nat /\ \E f \in [WorkerIds -> lastPid + 1 .. lastPid + n] :
                       \A i, j \in WorkerIds : f[i] = f[j] => i = j
    BY <1>1, WorkerPids
  <2> HIDE DEF n
  <2> QED
    BY <2>1
<1> HIDE DEF n, pid
<1>4. workers \subseteq lastPid + 1 .. lastPid + n /\ pid \in [WorkerIds -> workers]
  BY <1>3
<1>5. Typed(procs[d]) /\ Refers(procs, lastPid, procs[d])
  BY DEF MailInv, Mailed, AllTyped, AllRefer
<1>6. IsPid(procs, lastPid, p, "cache")
  BY <1>1, <1>5 DEF Refers
<1>7. p # d /\ (p \in DOMAIN procs => procs[p].kind = "cache")
  BY <1>1, <1>6 DEF IsPid
<1> HIDE DEF g, p
<1>8. /\ DOMAIN ready = DOMAIN procs
      /\ \A q \in DOMAIN procs : ready[q] = IF q = d THEN Asks(procs[q], g, 0) ELSE procs[q]
  BY WaitsAt
<1> HIDE DEF ready
<1>9. /\ DOMAIN listed = DOMAIN procs
      /\ \A q \in DOMAIN procs : listed[q] = IF q = d THEN Employs(ready[q], pid) ELSE ready[q]
  BY <1>8 DEF Employs
<1> HIDE DEF listed
<1>10. /\ DOMAIN qs = DOMAIN procs
       /\ \A q \in DOMAIN procs : qs[q] = IF q = p THEN Hears(listed[q], d) ELSE listed[q]
  BY <1>9, RepliedAt
<1> HIDE DEF workers, qs
<1>11. workers \cap DOMAIN procs = {}
  BY <1>1, <1>3, <1>4
<1>12. /\ DOMAIN procs' = DOMAIN procs \cup workers
       /\ \A q \in DOMAIN procs : procs'[q] = qs[q]
       /\ \A q \in workers : procs'[q] = NewWorker(d)
  BY <1>2, <1>10, <1>11 DEF With
<1> HIDE DEF a
<1>13. \A q \in DOMAIN procs :
         procs'[q] = IF q = d THEN a
                     ELSE IF q = 0 THEN Receives(procs[q], 0)
                     ELSE IF q = p THEN Hears(procs[q], d) ELSE procs[q]
  BY <1>1, <1>7, <1>8, <1>9, <1>10, <1>12 DEF a
<1>14. workers = DOMAIN procs' \ DOMAIN procs
  BY <1>11, <1>12
<1>15. \A q \in workers : q > lastPid /\ Fresh(procs', lastPid', procs'[q])
  <2>1. \A q \in workers : q > lastPid
    BY <1>1, <1>3, <1>4
  <2> QED
    BY <1>12, <2>1, NewWorkerFresh
<1>16. /\ lastPid' \in Nat /\ lastPid <= lastPid' /\ DOMAIN procs' \subseteq 1 .. lastPid'
  <2>1. lastPid' = lastPid + n
    BY <1>2
  <2>2. \A w \in workers : w \in 1 .. lastPid + n
    BY <1>1, <1>3, <1>4
  <2>3. \A q \in DOMAIN procs : q \in 1 .. lastPid + n
    BY <1>1, <1>3
  <2> QED
    BY <1>1, <1>3, <1>12, <2>1, <2>2, <2>3
<1>17. Acts(procs, lastPid, procs', lastPid', d, a, 0, 0, p, d)
  BY <1>1, <1>12, <1>13, <1>14, <1>15, <1>16 DEF Acts
<1>18. /\ DOMAIN b = DOMAIN procs[d] /\ b.kind = "database" /\ b.parent = p
       /\ b.box = procs[d].box /\ Fields \cup {"worker_list"} \subseteq DOMAIN b
  <2>1. Fields \cup {"worker_list"} \subseteq DOMAIN procs[d]
    BY <1>1, <1>5 DEF Typed
  <2> QED
    BY <1>1, <1>5, <2>1, AsksFields DEF p
<1> HIDE DEF b
<1>19. /\ DOMAIN a = DOMAIN procs[d] /\ a.kind = "database" /\ a.parent = p
       /\ a.box = procs[d].box /\ a.worker_list = pid
  BY <1>18, EmploysFields DEF a
<1>20. Typed(a)
  BY <1>1, <1>5, <1>19 DEF Typed
<1>21. IsPid(procs', lastPid', a.parent, "cache")
  BY <1>1, <1>6, <1>17, <1>19, KeepsPids
<1>22. \A k \in WorkerIds : IsPid(procs', lastPid', a.worker_list[k], "worker")
  <2>1. NewWorker(d).kind = "worker"
    BY DEF NewWorker, Process, With
  <2> QED
    BY <1>4, <1>12, <1>16, <1>19, <2>1 DEF IsPid
<1>23. Refers(procs', lastPid', a)
  BY <1>19, <1>21, <1>22 DEF Refers
<1>24. Moves(procs, procs', lastPid', d, a)
  BY <1>1, <1>19, <1>20, <1>23 DEF Moves, p
<1>25. Sends(procs, d, a, 0, 0) /\ Replies(procs, procs', lastPid', d, a, 0, p, d)
  BY <1>1, <1>7 DEF Sends, Replies
<1>26. Step(d, Employs(Asks(procs[d], "idle", 0), pid), 0, 0, procs[d].parent, d)
  BY <1>17, <1>24, <1>25 DEF Step, a, b, g, p
<1> QED
  BY <1>2, <1>4, <1>12, <1>14, <1>26

(***************************************************************************)
(* The client: what it waits for is in one mailbox, once, or in the hands  *)
(* of the cache, and what it has been given is a server.                   *)
(***************************************************************************)
Starting(r) == r.at = "starting server"

Asked(p, r, cl) ==
  r.kind = "cache" /\ (r.box # <<>> \/ Starting(r)) =>
    /\ cl.at = "asking" /\ cl.on = p /\ cl.reply = NoReply
    /\ Starting(r) => r.box = <<>>
    /\ Len(r.box) <= 1

Queried(p, r, cl) ==
  r.kind = "server" =>
    \A i \in DOMAIN r.box : r.box[i].op = "entries" =>
      /\ cl.at = "reading" /\ cl.on = p /\ cl.reply = NoReply
      /\ \A j \in DOMAIN r.box : j # i => r.box[j].op # "entries"

ClientTyped(ps, n, cl) ==
  /\ {"at", "pid", "on", "reply"} \subseteq DOMAIN cl
  /\ cl.at \in {"idle", "asking", "ready", "reading"}
  /\ cl.at \in {"idle", "ready"} => cl.reply = NoReply
  /\ cl.at \in {"ready", "reading"} => IsPid(ps, n, cl.pid, "server")
  /\ cl.at = "asking" /\ cl.reply # NoReply => IsPid(ps, n, Head(cl.reply), "server")

ClientInv ==
  /\ ClientTyped(procs, lastPid, client)
  /\ \A p \in DOMAIN procs : Asked(p, procs[p], client) /\ Queried(p, procs[p], client)

\* A step that the client does not notice.
LEMMA ClientKept ==
  ASSUME MailInv, ClientInv, NEW x, NEW r, NEW y, NEW m, NEW z, NEW v,
         Step(x, r, y, m, z, v), client' = client,
         y \in DOMAIN procs => procs[y].kind \notin {"cache", "server"},
         x \in DOMAIN procs /\ procs[x].kind = "cache" =>
           r.box = procs[x].box /\ (Starting(r) <=> Starting(procs[x]))
  PROVE  ClientInv'
<1>0. /\ AllTyped(procs) /\ Acts(procs, lastPid, procs', lastPid', x, r, y, m, z, v)
      /\ Moves(procs, procs', lastPid', x, r)
      /\ Sends(procs, x, r, y, m) /\ Replies(procs, procs', lastPid', x, r, y, z, v)
  BY DEF MailInv, Mailed, Step
<1>1. ClientTyped(procs', lastPid', client')
  <2>1. \A p, kind : IsPid(procs, lastPid, p, kind) => IsPid(procs', lastPid', p, kind)
    BY <1>0, KeepsPids DEF Moves
  <2> QED
    BY <2>1 DEF ClientInv, ClientTyped
<1>2. ASSUME NEW p \in DOMAIN procs'
      PROVE  Asked(p, procs'[p], client) /\ Queried(p, procs'[p], client)
  <2>1. CASE p \notin DOMAIN procs
    <3>1. procs'[p].box = <<>> /\ (procs'[p].kind = "cache" => procs'[p].at = "init")
      BY <1>0, <2>1 DEF Acts, Fresh
    <3>2. procs'[p].kind = "cache" => ~Starting(procs'[p])
      BY <3>1 DEF Starting
    <3>3. DOMAIN <<>> = {}
      OBVIOUS
    <3>4. Asked(p, procs'[p], client)
      BY <3>1, <3>2 DEF Asked
    <3>5. Queried(p, procs'[p], client)
      BY <3>1, <3>3 DEF Queried
    <3> QED
      BY <3>4, <3>5
  <2>2. CASE p \in DOMAIN procs
    <3>1. Asked(p, procs[p], client) /\ Queried(p, procs[p], client)
      BY <2>2 DEF ClientInv
    <3>2. /\ procs'[p].kind = procs[p].kind
          /\ p = x => procs'[p] = r
          /\ p # x /\ p # y => procs'[p].box = procs[p].box
      BY <1>0, <2>2, ActsFields
    <3>3. p # x => procs'[p].at = procs[p].at
      BY <1>0, <2>2, ActsFields
    <3>4. CASE procs[p].kind = "cache"
      <4>1. procs'[p].box = procs[p].box
        BY <2>2, <3>2, <3>4
      <4>2. Starting(procs'[p]) <=> Starting(procs[p])
        BY <2>2, <3>2, <3>3, <3>4 DEF Starting
      <4> QED
        BY <3>1, <3>2, <3>4, <4>1, <4>2 DEF Asked, Queried
    <3>5. CASE procs[p].kind = "server"
      <4>1. CASE procs'[p].box = procs[p].box
        BY <3>1, <3>2, <3>5, <4>1 DEF Asked, Queried
      <4>2. CASE procs[p].box # <<>> /\ procs'[p].box = Tail(procs[p].box)
        <5>1. procs[p].box \in Seq(Mail("server"))
          BY <1>0, <2>2, <3>5 DEF AllTyped, Typed
        <5>2. \A i \in DOMAIN procs'[p].box :
                i \in Nat /\ i + 1 \in DOMAIN procs[p].box
                /\ procs'[p].box[i] = procs[p].box[i + 1]
          BY <4>2, <5>1, MailTaken
        <5> QED
          BY <3>1, <3>2, <3>5, <5>2 DEF Asked, Queried
      <4> QED
        BY <1>0, <2>2, <3>2, <3>5, <4>1, <4>2 DEF Moves
    <3> QED
      BY <3>2, <3>4, <3>5 DEF Asked, Queried
  <2> QED
    BY <2>1, <2>2
<1> QED
  BY <1>1, <1>2 DEF ClientInv

LEMMA TerminateClient ==
  ASSUME ClientInv, NEW p \in DOMAIN procs, Terminate(p), lastPid' = lastPid, client' = client
  PROVE  ClientInv'
<1>1. procs' = [q \in DOMAIN procs \ {p} |-> procs[q]]
  BY DEF Terminate
<1>2. \A q, kind : IsPid(procs, lastPid, q, kind) => IsPid(procs', lastPid', q, kind)
  BY <1>1 DEF IsPid
<1> QED
  BY <1>1, <1>2 DEF ClientInv, ClientTyped

\* What a step of one process leaves of the mailboxes, when the client is told
\* an answer: no call of the client is left.
Told(cl, v) == [cl EXCEPT !.reply = <<v>>]

LEMMA ToldFields ==
  ASSUME NEW cl, NEW v, {"at", "pid", "on", "reply"} \subseteq DOMAIN cl
  PROVE  /\ DOMAIN Told(cl, v) = DOMAIN cl /\ Told(cl, v).at = cl.at
         /\ Told(cl, v).pid = cl.pid /\ Told(cl, v).on = cl.on
         /\ Told(cl, v).reply = <<v>> /\ Told(cl, v).reply # NoReply
         /\ Head(Told(cl, v).reply) = v
  BY DEF Told, NoReply

NoCalls(p, r) ==
  /\ r.kind = "cache" => r.box = <<>> /\ ~Starting(r)
  /\ r.kind = "server" => \A i \in DOMAIN r.box : r.box[i].op # "entries"

LEMMA NoCallsClient ==
  ASSUME NEW cl, NEW p, NEW r, NoCalls(p, r)
  PROVE  Asked(p, r, cl) /\ Queried(p, r, cl)
  BY DEF NoCalls, Asked, Queried

LEMMA FreshNoCalls ==
  ASSUME NEW ps, NEW n, NEW p, NEW r, Fresh(ps, n, r)
  PROVE  NoCalls(p, r)
<1>1. r.box = <<>> /\ (r.kind = "cache" => r.at = "init")
  BY DEF Fresh
<1>2. r.kind = "cache" => ~Starting(r)
  BY <1>1 DEF Starting
<1>3. DOMAIN <<>> = {}
  OBVIOUS
<1> QED
  BY <1>1, <1>2, <1>3 DEF NoCalls

\* The cache answers the client, which has asked it.
LEMMA CacheAnswers ==
  ASSUME IInv, MailInv, ClientInv, NEW c \in DOMAIN procs, procs[c].kind = "cache",
         procs[c].box # <<>> \/ Starting(procs[c]),
         NEW r, Step(c, r, 0, 0, 0, 0), r.box = <<>>, ~Starting(r),
         NEW s, IsPid(procs, lastPid, s, "server"), client' = Told(client, s)
  PROVE  ClientInv'
<1>0. /\ AllTyped(procs) /\ Acts(procs, lastPid, procs', lastPid', c, r, 0, 0, 0, 0)
      /\ Moves(procs, procs', lastPid', c, r)
      /\ Sends(procs, c, r, 0, 0) /\ Replies(procs, procs', lastPid', c, r, 0, 0, 0)
  BY DEF MailInv, Mailed, Step
<1>1. client.at = "asking" /\ ClientTyped(procs, lastPid, client)
  BY DEF ClientInv, Asked
<1>2. \A p, kind : IsPid(procs, lastPid, p, kind) => IsPid(procs', lastPid', p, kind)
  BY <1>0, KeepsPids DEF Moves
<1>3. ClientTyped(procs', lastPid', client')
  BY <1>1, <1>2, ToldFields DEF ClientTyped
<1>4. ASSUME NEW p \in DOMAIN procs' PROVE NoCalls(p, procs'[p])
  <2>1. CASE p \notin DOMAIN procs
    BY <1>0, <2>1, FreshNoCalls DEF Acts
  <2>2. CASE p = c
    BY <1>0, <2>2 DEF Acts, NoCalls, Moves
  <2>3. CASE p \in DOMAIN procs /\ p # c
    <3>1. procs'[p].kind = procs[p].kind /\ procs'[p].box = procs[p].box
      BY <1>0, <2>3, NewPid, ActsFields
    <3>2. procs[p].kind # "cache"
      BY <2>3 DEF IInv, CacheInv
    <3>3. Queried(p, procs[p], client)
      BY <2>3 DEF ClientInv
    <3> QED
      BY <1>1, <3>1, <3>2, <3>3 DEF NoCalls, Queried
  <2> QED
    BY <2>1, <2>2, <2>3
<1> QED
  BY <1>3, <1>4, NoCallsClient DEF ClientInv

LEMMA ServerAnswersClient ==
  ASSUME IInv, MailInv, ClientInv, NEW s \in DOMAIN procs, HandleEntries(s)
  PROVE  ClientInv'
<1> DEFINE r == Takes(procs[s])
           v == entries(procs[s].list, Message(s).date)
<1>0. /\ AllTyped(procs) /\ Acts(procs, lastPid, procs', lastPid', s, r, 0, 0, 0, 0)
      /\ Moves(procs, procs', lastPid', s, r)
      /\ Sends(procs, s, r, 0, 0) /\ Replies(procs, procs', lastPid', s, r, 0, 0, 0)
  BY HandleEntriesActs DEF MailInv, Mailed, Step
<1>1. /\ procs[s].kind = "server" /\ procs[s].box # <<>> /\ Message(s).op = "entries"
      /\ client' = Told(client, v)
  BY DEF HandleEntries, In, HasMail, Told
<1>2. procs[s].box \in Seq(Mail("server")) /\ Typed(procs[s])
  BY <1>0, <1>1 DEF AllTyped, Typed
<1>3. /\ 1 \in DOMAIN procs[s].box /\ procs[s].box[1].op = "entries"
      /\ \A i \in DOMAIN Tail(procs[s].box) :
           i + 1 \in DOMAIN procs[s].box /\ i + 1 # 1
           /\ Tail(procs[s].box)[i] = procs[s].box[i + 1]
  BY <1>1, <1>2, MailTaken DEF Message
<1>4. /\ client.at = "reading" /\ client.on = s
      /\ \A j \in DOMAIN procs[s].box : j # 1 => procs[s].box[j].op # "entries"
      /\ ClientTyped(procs, lastPid, client)
  BY <1>1, <1>3 DEF ClientInv, Queried
<1>5. r.box = Tail(procs[s].box) /\ r.kind = "server"
  BY <1>1, <1>2, TakesFields
<1> HIDE DEF r, v
<1>6. \A p, kind : IsPid(procs, lastPid, p, kind) => IsPid(procs', lastPid', p, kind)
  BY <1>0, KeepsPids DEF Moves
<1>7. ClientTyped(procs', lastPid', client')
  BY <1>1, <1>4, <1>6, ToldFields DEF ClientTyped
<1>8. ASSUME NEW p \in DOMAIN procs' PROVE NoCalls(p, procs'[p])
  <2>1. CASE p \notin DOMAIN procs
    BY <1>0, <2>1, FreshNoCalls DEF Acts
  <2>2. CASE p = s
    <3>1. procs'[p] = r
      BY <1>0, <2>2 DEF Acts
    <3>2. \A i \in DOMAIN r.box : r.box[i].op # "entries"
      BY <1>3, <1>4, <1>5
    <3> QED
      BY <1>5, <3>1, <3>2 DEF NoCalls
  <2>3. CASE p \in DOMAIN procs /\ p # s
    <3>1. /\ procs'[p].kind = procs[p].kind /\ procs'[p].box = procs[p].box
          /\ procs'[p].at = procs[p].at
      BY <1>0, <2>3, NewPid, ActsFields
    <3>2. Queried(p, procs[p], client) /\ Asked(p, procs[p], client)
      BY <2>3 DEF ClientInv
    <3>3. Starting(procs'[p]) <=> Starting(procs[p])
      BY <3>1 DEF Starting
    <3>4. procs[p].kind = "server" => \A i \in DOMAIN procs[p].box : procs[p].box[i].op # "entries"
      BY <1>4, <2>3, <3>2 DEF Queried
    <3>5. procs[p].kind = "cache" => procs[p].box = <<>> /\ ~Starting(procs[p])
      BY <1>4, <3>2 DEF Asked
    <3>6. procs'[p].kind = "cache" => procs'[p].box = <<>> /\ ~Starting(procs'[p])
      BY <3>1, <3>3, <3>5
    <3>7. procs'[p].kind = "server" =>
            \A i \in DOMAIN procs'[p].box : procs'[p].box[i].op # "entries"
      BY <3>1, <3>4
    <3> QED
      BY <3>6, <3>7 DEF NoCalls
  <2> QED
    BY <2>1, <2>2, <2>3
<1> QED
  BY <1>7, <1>8, NoCallsClient DEF ClientInv

(***************************************************************************)
(* The client's own steps.                                                 *)
(***************************************************************************)
LEMMA SentBoxes ==
  ASSUME IInv, MailInv, NEW p, NEW m, Step(0, 0, p, m, 0, 0), Quiet
  PROVE  /\ DOMAIN procs' = DOMAIN procs
         /\ \A q \in DOMAIN procs :
              /\ procs'[q].kind = procs[q].kind
              /\ Starting(procs'[q]) <=> Starting(procs[q])
              /\ q = p => procs'[q].box = Append(procs[q].box, m)
              /\ q # p => procs'[q].box = procs[q].box
<1>1. /\ AllTyped(procs) /\ Acts(procs, lastPid, procs', lastPid', 0, 0, p, m, 0, 0)
      /\ Moves(procs, procs', lastPid', 0, 0)
      /\ Sends(procs, 0, 0, p, m) /\ Replies(procs, procs', lastPid', 0, 0, p, 0, 0)
  BY DEF MailInv, Mailed, Step
<1>2. DOMAIN procs' = DOMAIN procs
  BY <1>1 DEF Quiet, Acts
<1>3. ASSUME NEW q \in DOMAIN procs
      PROVE  /\ procs'[q].kind = procs[q].kind
             /\ procs'[q].at = procs[q].at
             /\ q = p => procs'[q].box = Append(procs[q].box, m)
             /\ q # p => procs'[q].box = procs[q].box
  <2>1. q # 0
    BY NewPid
  <2>2. /\ procs'[q].kind = procs[q].kind
        /\ q = p => procs'[q].box = Append(procs[q].box, m)
        /\ q # 0 /\ q # p => procs'[q].box = procs[q].box
        /\ q # 0 => procs'[q].at = procs[q].at
    BY <1>1, ActsFields
  <2> QED
    BY <2>1, <2>2
<1> QED
  BY <1>2, <1>3 DEF Starting

\* Nothing is under way while the client waits for nothing.
LEMMA IdleNoCalls ==
  ASSUME ClientInv, client.at \in {"idle", "ready"} \/ client.reply # NoReply,
         NEW p \in DOMAIN procs
  PROVE  NoCalls(p, procs[p])
  BY DEF ClientInv, Asked, Queried, NoCalls

LEMMA FirstMessage ==
  ASSUME NEW m
  PROVE  Append(<<>>, m) = <<m>> /\ Len(<<m>>) = 1
<1>1. Len(<<m>>) = 1
  OBVIOUS
<1>2. Append(<<>>, m) = <<m>>
  OBVIOUS
<1> QED
  BY <1>1, <1>2

AsksCache(cl, p) == [cl EXCEPT !.at = "asking", !.on = p]
AsksServer(cl, p) == [cl EXCEPT !.at = "reading", !.on = p]

LEMMA AskClient ==
  ASSUME IInv, MailInv, ClientInv, NEW n \in Names, Ask(n)
  PROVE  MailInv' /\ ClientInv'
<1>1. Quiet /\ client.at \in {"idle", "ready"} /\ UNCHANGED <<file, supervisor>>
  BY DEF Ask, Calls
<1>2. Database' = Database
  BY <1>1 DEF Quiet, Database
<1>3. CASE ~Alive(Cache)
  <2>1. procs' = procs /\ client' = NewClient /\ lastPid' = lastPid
    BY <1>1, <1>3 DEF Ask, Calls, Quiet, Cache
  <2>2. MailInv'
    BY <1>2, <2>1 DEF MailInv
  <2>3. ClientTyped(procs', lastPid', client')
    BY <2>1 DEF ClientTyped, NewClient, NoReply
  <2> QED
    BY <1>1, <2>1, <2>2, <2>3, IdleNoCalls, NoCallsClient DEF ClientInv
<1>4. CASE Alive(Cache)
  <2>1. procs' = Sent(procs, Cache, n) /\ client' = AsksCache(client, Cache)
    BY <1>4 DEF Ask, Calls, Cache, AsksCache
  <2>2. Cache \in DOMAIN procs /\ procs[Cache].kind = "cache"
    BY <1>4, NewPid DEF IInv, CacheInv, Alive
  <2>3. n \in Mail("cache")
    BY DEF Mail
  <2>4. Step(0, 0, Cache, n, 0, 0)
    BY <1>1, <2>1, <2>2, <2>3, ClientActs
  <2>5. MailInv'
    BY <1>2, <2>4, QuietMailStep
  <2>6. /\ client'.at = "asking" /\ client'.on = Cache /\ client'.reply = NoReply
        /\ DOMAIN client' = DOMAIN client
    BY <1>1, <2>1 DEF ClientInv, ClientTyped, AsksCache
  <2>7. ClientTyped(procs', lastPid', client')
    BY <2>6 DEF ClientInv, ClientTyped
  <2>8. ASSUME NEW q \in DOMAIN procs'
        PROVE  Asked(q, procs'[q], client') /\ Queried(q, procs'[q], client')
    <3>1. /\ q \in DOMAIN procs /\ procs'[q].kind = procs[q].kind
          /\ Starting(procs'[q]) <=> Starting(procs[q])
          /\ q = Cache => procs'[q].box = Append(procs[q].box, n)
          /\ q # Cache => procs'[q].box = procs[q].box
      BY <1>1, <2>4, SentBoxes
    <3>2. NoCalls(q, procs[q])
      BY <1>1, <3>1, IdleNoCalls
    <3>3. CASE q = Cache
      <4>1. procs[q].box = <<>> /\ ~Starting(procs'[q])
        BY <2>2, <3>1, <3>2, <3>3 DEF NoCalls
      <4>2. Len(procs'[q].box) = 1
        BY <3>1, <3>3, <4>1, FirstMessage
      <4> QED
        BY <2>2, <2>6, <3>1, <3>3, <4>1, <4>2 DEF Asked, Queried
    <3>4. CASE q # Cache
      <4>1. NoCalls(q, procs'[q])
        BY <3>1, <3>2, <3>4 DEF NoCalls
      <4> QED
        BY <4>1, NoCallsClient
    <3> QED
      BY <3>3, <3>4
  <2> QED
    BY <2>5, <2>7, <2>8 DEF ClientInv
<1> QED
  BY <1>3, <1>4

LEMMA ReadEntriesClient ==
  ASSUME IInv, MailInv, ClientInv, NEW date \in Dates, ReadEntries(date)
  PROVE  MailInv' /\ ClientInv'
<1> DEFINE p == client.pid
           m == [op |-> "entries", date |-> date]
<1>1. Quiet /\ client.at = "ready" /\ UNCHANGED <<file, supervisor>>
  BY DEF ReadEntries, Calls
<1>2. Database' = Database
  BY <1>1 DEF Quiet, Database
<1>0. m \in Queries /\ m.op = "entries"
  BY DEF Queries
<1>3. CASE ~Alive(p)
  <2>1. procs' = procs /\ client' = NewClient /\ lastPid' = lastPid
    BY <1>1, <1>3 DEF ReadEntries, Calls, Quiet
  <2>2. MailInv'
    BY <1>2, <2>1 DEF MailInv
  <2>3. ClientTyped(procs', lastPid', client')
    BY <2>1 DEF ClientTyped, NewClient, NoReply
  <2> QED
    BY <1>1, <2>1, <2>2, <2>3, IdleNoCalls, NoCallsClient DEF ClientInv
<1>4. CASE Alive(p)
  <2>1. procs' = Sent(procs, p, m) /\ client' = AsksServer(client, p)
    BY <1>4 DEF ReadEntries, Calls, AsksServer
  <2>2. p \in DOMAIN procs /\ procs[p].kind = "server" /\ IsPid(procs, lastPid, p, "server")
    BY <1>1, <1>4 DEF ClientInv, ClientTyped, Alive, IsPid
  <2> HIDE DEF m, p
  <2>3. m \in Mail("server")
    BY <1>0 DEF Mail
  <2>4. Step(0, 0, p, m, 0, 0)
    BY <1>1, <2>1, <2>2, <2>3, ClientActs
  <2>5. MailInv'
    BY <1>2, <2>4, QuietMailStep
  <2>6. /\ client'.at = "reading" /\ client'.on = p /\ client'.reply = NoReply
        /\ client'.pid = client.pid /\ DOMAIN client' = DOMAIN client
    BY <1>1, <2>1 DEF ClientInv, ClientTyped, AsksServer
  <2>7. ClientTyped(procs', lastPid', client')
    <3>1. /\ AllTyped(procs) /\ Acts(procs, lastPid, procs', lastPid', 0, 0, p, m, 0, 0)
          /\ 0 \notin DOMAIN procs
      BY <2>4, NewPid DEF MailInv, Mailed, Step
    <3>2. IsPid(procs', lastPid', p, "server")
      BY <2>2, <3>1, StillPid
    <3> QED
      BY <2>6, <3>2 DEF ClientInv, ClientTyped, p
  <2>8. ASSUME NEW q \in DOMAIN procs'
        PROVE  Asked(q, procs'[q], client') /\ Queried(q, procs'[q], client')
    <3>1. /\ q \in DOMAIN procs /\ procs'[q].kind = procs[q].kind
          /\ Starting(procs'[q]) <=> Starting(procs[q])
          /\ q = p => procs'[q].box = Append(procs[q].box, m)
          /\ q # p => procs'[q].box = procs[q].box
      BY <1>1, <2>4, SentBoxes
    <3>2. NoCalls(q, procs[q])
      BY <1>1, <3>1, IdleNoCalls
    <3>3. CASE q = p
      <4>1. procs[q].box \in Seq(Mail("server"))
        BY <2>2, <3>3 DEF MailInv, Mailed, AllTyped, Typed
      <4>2. \A i \in DOMAIN procs[q].box : procs[q].box[i].op # "entries"
        BY <2>2, <3>2, <3>3 DEF NoCalls
      <4> DEFINE l == Len(procs[q].box)
      <4>3. \A i \in DOMAIN procs'[q].box :
              i = l + 1 \/ (i \in DOMAIN procs[q].box /\ procs'[q].box[i] = procs[q].box[i])
        BY <2>3, <3>1, <3>3, <4>1, MailAppended
      <4>4. \A i \in DOMAIN procs'[q].box : procs'[q].box[i].op = "entries" => i = l + 1
        BY <4>2, <4>3
      <4> HIDE DEF l
      <4>5. \A i \in DOMAIN procs'[q].box : procs'[q].box[i].op = "entries" =>
              \A j \in DOMAIN procs'[q].box : j # i => procs'[q].box[j].op # "entries"
        BY <4>4
      <4> QED
        BY <2>2, <2>6, <3>1, <3>3, <4>5 DEF Asked, Queried
    <3>4. CASE q # p
      <4>1. NoCalls(q, procs'[q])
        BY <3>1, <3>2, <3>4 DEF NoCalls
      <4> QED
        BY <4>1, NoCallsClient
    <3> QED
      BY <3>3, <3>4
  <2> QED
    BY <2>5, <2>7, <2>8 DEF ClientInv
<1> QED
  BY <1>3, <1>4

LEMMA CastClient ==
  ASSUME IInv, MailInv, ClientInv, NEW m \in Casts, Cast(m)
  PROVE  MailInv' /\ ClientInv'
<1> DEFINE p == client.pid
<1>1. /\ Quiet /\ client.at = "ready" /\ client' = client
      /\ procs' = Sent(procs, p, m)
  BY DEF Cast
<1>2. Database' = Database
  BY <1>1 DEF Quiet, Database
<1>3. IsPid(procs, lastPid, p, "server") /\ m \in Mail("server") /\ m.op # "entries"
  BY <1>1 DEF ClientInv, ClientTyped, Mail, Casts
<1> HIDE DEF p
<1>4. Step(0, 0, p, m, 0, 0)
  BY <1>1, <1>3, ClientActs DEF IsPid
<1>5. MailInv'
  BY <1>2, <1>4, QuietMailStep
<1>6. ClientTyped(procs', lastPid', client')
  <2>1. /\ AllTyped(procs) /\ Acts(procs, lastPid, procs', lastPid', 0, 0, p, m, 0, 0)
        /\ 0 \notin DOMAIN procs
    BY <1>4, NewPid DEF MailInv, Mailed, Step
  <2>2. \A q, kind : IsPid(procs, lastPid, q, kind) => IsPid(procs', lastPid', q, kind)
    BY <2>1, StillPid
  <2> QED
    BY <1>1, <2>2 DEF ClientInv, ClientTyped
<1>7. ASSUME NEW q \in DOMAIN procs' PROVE NoCalls(q, procs'[q])
  <2>1. /\ q \in DOMAIN procs /\ procs'[q].kind = procs[q].kind
        /\ Starting(procs'[q]) <=> Starting(procs[q])
        /\ q = p => procs'[q].box = Append(procs[q].box, m)
        /\ q # p => procs'[q].box = procs[q].box
    BY <1>1, <1>4, SentBoxes
  <2>2. NoCalls(q, procs[q])
    BY <1>1, <2>1, IdleNoCalls
  <2>3. CASE q = p
    <3>1. procs[q].kind = "server" /\ procs[q].box \in Seq(Mail("server"))
      BY <1>3, <2>1, <2>3 DEF MailInv, Mailed, AllTyped, Typed, IsPid
    <3>2. \A i \in DOMAIN procs[q].box : procs[q].box[i].op # "entries"
      BY <2>2, <3>1 DEF NoCalls
    <3>3. \A i \in DOMAIN procs'[q].box :
            (i = Len(procs[q].box) + 1 /\ procs'[q].box[i] = m)
            \/ (i \in DOMAIN procs[q].box /\ procs'[q].box[i] = procs[q].box[i])
      BY <1>3, <2>1, <2>3, <3>1, MailAppended
    <3>4. \A i \in DOMAIN procs'[q].box : procs'[q].box[i].op # "entries"
      BY <1>3, <3>2, <3>3
    <3> QED
      BY <2>1, <3>1, <3>4 DEF NoCalls
  <2>4. CASE q # p
    BY <2>1, <2>2, <2>4 DEF NoCalls
  <2> QED
    BY <2>3, <2>4
<1> QED
  BY <1>5, <1>6, <1>7, NoCallsClient DEF ClientInv

LEMMA AnswerClient ==
  ASSUME IInv, ClientInv, Answered \/ NotAnswered
  PROVE  ClientInv'
<1>1. procs' = procs /\ lastPid' = lastPid
  BY DEF Answered, NotAnswered, Quiet
<1>2. CASE Answered
  <2>1. client.reply # NoReply /\ client.at \in {"asking", "reading"}
    BY <1>2 DEF Answered, Waiting
  <2>2. /\ client'.at = "ready" /\ client'.reply = NoReply
        /\ DOMAIN client' = {"at", "pid", "on", "reply"}
        /\ client'.pid = IF client.at = "asking" THEN Head(client.reply) ELSE client.pid
    BY <1>2 DEF Answered, NewClient
  <2>3. IsPid(procs, lastPid, client'.pid, "server")
    BY <2>1, <2>2 DEF ClientInv, ClientTyped
  <2>4. ClientTyped(procs', lastPid', client')
    BY <1>1, <2>2, <2>3 DEF ClientTyped
  <2> QED
    BY <1>1, <2>1, <2>4, IdleNoCalls, NoCallsClient DEF ClientInv
<1>3. CASE NotAnswered
  <2>1. client' = NewClient /\ client.on \notin DOMAIN procs
    BY <1>3 DEF NotAnswered, Alive
  <2>2. ClientTyped(procs', lastPid', client')
    BY <2>1 DEF ClientTyped, NewClient, NoReply
  <2>3. \A p \in DOMAIN procs : NoCalls(p, procs[p])
    BY <2>1 DEF ClientInv, Asked, Queried, NoCalls
  <2> QED
    BY <1>1, <2>2, <2>3, NoCallsClient DEF ClientInv
<1> QED
  BY <1>2, <1>3

(***************************************************************************)
(* The rest of the state.                                                  *)
(***************************************************************************)
SignalInv == exiting \subseteq DOMAIN procs /\ \A l \in links : Cardinality(l) = 2

SupervisorInv == supervisor \in [up : BOOLEAN, restarts : 0 .. MaxRestarts]

BudgetInv == "names" \in DOMAIN budget /\ budget.names \subseteq Names

\* What every message, every reply, every file and the client are.
MessageInv == MailInv /\ ClientInv /\ SignalInv /\ FileTyped /\ SupervisorInv /\ BudgetInv

LEMMA LinkOfTwo ==
  ASSUME NEW a, NEW b, a # b
  PROVE  Cardinality({a, b}) = 2
<1>1. IsFiniteSet({a}) /\ Cardinality({a}) = 1
  BY FS_Singleton
<1>2. Cardinality({a} \cup {b}) = 1 + 1
  BY <1>1, FS_AddElement
<1>3. {a} \cup {b} = {a, b}
  OBVIOUS
<1> QED
  BY <1>2, <1>3

LEMMA MessageInvInit == Init => MessageInv
<1> SUFFICES ASSUME Init PROVE MessageInv
  OBVIOUS
<1>1. DOMAIN procs = {1} /\ procs[1] = NewCache /\ lastPid = 1
  BY DEF Init, Only
<1>2. Fresh(procs, lastPid, NewCache)
  BY NewCacheFresh
<1>3. \A p \in DOMAIN procs : Fresh(procs, lastPid, procs[p])
  BY <1>1, <1>2
<1>4. Mailed(procs, lastPid)
  <2>1. \A p \in DOMAIN procs : /\ Typed(procs[p]) /\ Refers(procs, lastPid, procs[p])
                                /\ procs[p].box = <<>>
    BY <1>3 DEF Fresh
  <2>2. DOMAIN <<>> = {}
    OBVIOUS
  <2> QED
    BY <2>1, <2>2 DEF Mailed, AllTyped, AllRefer, AllCalled
<1>5. MailInv
  BY <1>4 DEF MailInv, Init, Database
<1>6. ClientInv
  <2>1. ClientTyped(procs, lastPid, client)
    BY DEF Init, ClientTyped, NewClient, NoReply
  <2> QED
    BY <1>3, <2>1, FreshNoCalls, NoCallsClient DEF ClientInv
<1>7. SignalInv
  BY DEF Init, SignalInv
<1>8. FileTyped
  BY NewList DEF Init, FileTyped
<1>9. SupervisorInv
  BY RestartAssumption DEF Init, SupervisorInv
<1>10. BudgetInv
  BY BudgetAssumption DEF Init, BudgetInv
<1> QED
  BY <1>5, <1>6, <1>7, <1>8, <1>9, <1>10 DEF MessageInv

LEMMA SignalsKept ==
  ASSUME SignalInv, exiting' = exiting, DOMAIN procs \subseteq DOMAIN procs',
         \A l \in links' : l \in links \/ \E a, b : a # b /\ l = {a, b}
  PROVE  SignalInv'
<1>1. \A a, b : a # b => Cardinality({a, b}) = 2
  BY LinkOfTwo
<1>2. \A l \in links' : Cardinality(l) = 2
  BY <1>1 DEF SignalInv
<1> QED
  BY <1>2 DEF SignalInv

LEMMA TerminateSignals ==
  ASSUME SignalInv, NEW p \in DOMAIN procs, Terminate(p)
  PROVE  SignalInv'
<1>1. /\ DOMAIN procs' = DOMAIN procs \ {p}
      /\ links' = {l \in links : p \notin l}
      /\ exiting' = (exiting \cup {q \in DOMAIN procs : {p, q} \in links}) \ {p}
  BY DEF Terminate
<1>2. exiting' \subseteq DOMAIN procs'
  BY <1>1 DEF SignalInv
<1>3. \A l \in links' : Cardinality(l) = 2
  BY <1>1 DEF SignalInv
<1> QED
  BY <1>2, <1>3 DEF SignalInv

\* A step of one process that starts and ends none.
LEMMA QuietMessages ==
  ASSUME IInv, MessageInv, NEW x, NEW r, NEW y, NEW m, NEW z, NEW v,
         Step(x, r, y, m, z, v), Quiet, UNCHANGED <<supervisor, client, budget>>, FileTyped',
         y \in DOMAIN procs => procs[y].kind \notin {"cache", "server"},
         x \in DOMAIN procs /\ procs[x].kind = "cache" =>
           r.box = procs[x].box /\ (Starting(r) <=> Starting(procs[x]))
  PROVE  MessageInv'
<1>1. MailInv'
  BY QuietMailStep DEF MessageInv, Quiet, Database
<1>2. ClientInv'
  BY ClientKept DEF MessageInv
<1>3. SignalInv'
  <2>1. DOMAIN procs \subseteq DOMAIN procs'
    BY DEF Step, Acts
  <2> QED
    BY <2>1, SignalsKept DEF MessageInv, Quiet
<1> QED
  BY <1>1, <1>2, <1>3 DEF MessageInv, SupervisorInv, BudgetInv

LEMMA TerminateMessages ==
  ASSUME IInv, MessageInv, NEW p \in DOMAIN procs, Terminate(p), lastPid' = lastPid, Outside
  PROVE  MessageInv'
<1>1. MailInv'
  BY TerminateMail DEF MessageInv
<1>2. ClientInv'
  BY TerminateClient DEF MessageInv, Outside
<1>3. SignalInv'
  BY TerminateSignals DEF MessageInv
<1> QED
  BY <1>1, <1>2, <1>3 DEF MessageInv, Outside, FileTyped, SupervisorInv, BudgetInv

LEMMA CacheMessages ==
  ASSUME IInv, MessageInv, NEW c \in DOMAIN procs, StartDatabase(c) \/ DatabaseStarted(c)
  PROVE  MessageInv'
<1>0. Typed(procs[c])
  BY DEF MessageInv, MailInv, Mailed, AllTyped
<1>1. /\ procs[c].kind = "cache" /\ ~Starting(procs[c]) /\ Outside
  <2>1. /\ In(c, "cache", "init") \/ In(c, "cache", "starting database")
        /\ Outside
    BY DEF StartDatabase, DatabaseStarted
  <2> QED
    BY <2>1 DEF In, Starting
<1>2. FileTyped' /\ SupervisorInv' /\ BudgetInv'
  BY <1>1 DEF MessageInv, Outside, FileTyped, SupervisorInv, BudgetInv
<1>3. ASSUME procs' = Resumes(procs, c), Quiet PROVE MessageInv'
  <2> DEFINE g == "idle"
             r == Asks(procs[c], g, 0)
  <2>1. Step(c, r, 0, 0, 0, 0)
    BY <1>1, <1>3, QuietCacheActs DEF MessageInv
  <2>0. g # "starting server"
    OBVIOUS
  <2> HIDE DEF g
  <2>2. r.box = procs[c].box /\ r.at = g
    BY <1>0, AsksFields
  <2>3. ~Starting(r)
    BY <2>0, <2>2 DEF Starting
  <2>4. 0 \notin DOMAIN procs
    BY NewPid
  <2> HIDE DEF r
  <2> QED
    BY <1>1, <1>2, <1>3, <2>1, <2>2, <2>3, <2>4, QuietMessages DEF Outside
<1>4. ASSUME StartDatabase(c), registered.database_server = 0 PROVE MessageInv'
  <2> DEFINE g == "starting database"
             r == Asks(procs[c], g, Spawned)
  <2>1. /\ Step(c, r, 0, 0, 0, 0)
        /\ procs'[Spawned] = NewDatabase(c) /\ Database' = Spawned
        /\ DOMAIN procs' = DOMAIN procs \cup {Spawned} /\ Spawned \notin DOMAIN procs
        /\ links' = links \cup {{c, Spawned}} /\ exiting' = exiting
    BY <1>4, StartDatabaseActs DEF MessageInv, Linked
  <2>0. g # "starting server"
    OBVIOUS
  <2> HIDE DEF g
  <2>2. r.box = procs[c].box /\ r.at = g
    BY <1>0, AsksFields
  <2>3. ~Starting(r)
    BY <2>0, <2>2 DEF Starting
  <2>4. 0 \notin DOMAIN procs
    BY NewPid
  <2> HIDE DEF r
  <2>5. NewDatabase(c).kind = "database"
    BY DEF NewDatabase, Process, With
  <2>6. MailInv'
    BY <2>1, <2>5, MailStep DEF MessageInv
  <2>7. ClientInv'
    BY <1>1, <2>1, <2>2, <2>3, <2>4, ClientKept DEF MessageInv, Outside
  <2>8. SignalInv'
    <3>1. c # Spawned
      BY <2>1
    <3> QED
      BY <2>1, <3>1, SignalsKept DEF MessageInv
  <2> QED
    BY <1>2, <2>6, <2>7, <2>8 DEF MessageInv
<1> QED
  BY <1>3, <1>4 DEF StartDatabase, DatabaseStarted

LEMMA ServerProcessMessages ==
  ASSUME IInv, MessageInv, NEW c \in DOMAIN procs, ServerProcess(c)
  PROVE  MessageInv'
<1>1. /\ procs[c].kind = "cache" /\ procs[c].box # <<>>
      /\ UNCHANGED <<file, supervisor, budget>>
  <2>1. In(c, "cache", "idle") /\ HasMail(c) /\ UNCHANGED <<file, supervisor, budget>>
    BY DEF ServerProcess
  <2> QED
    BY <2>1 DEF In, HasMail
<1>2. FileTyped' /\ SupervisorInv' /\ BudgetInv'
  BY <1>1 DEF MessageInv, FileTyped, SupervisorInv, BudgetInv
<1>3. Typed(procs[c]) /\ procs[c].box \in Seq(Names)
  BY <1>1 DEF MessageInv, MailInv, Mailed, AllTyped, Typed, Mail
<1>4. Asked(c, procs[c], client)
  BY DEF MessageInv, ClientInv
<1>5. Tail(procs[c].box) = <<>> /\ ~Starting(procs[c])
  <2>1. Len(procs[c].box) <= 1 /\ ~Starting(procs[c])
    BY <1>1, <1>4 DEF Asked
  <2>2. /\ Len(Tail(procs[c].box)) = Len(procs[c].box) - 1 /\ Len(procs[c].box) \in Nat
        /\ Tail(procs[c].box) \in Seq(Names) /\ 1 \in 1 .. Len(procs[c].box)
    BY <1>1, <1>3, MailTaken
  <2> DEFINE k == Len(procs[c].box)
             l == Len(Tail(procs[c].box))
  <2>4. k \in Nat /\ k <= 1 /\ l = k - 1 /\ 1 \in 1 .. k
    BY <2>1, <2>2
  <2> HIDE DEF k, l
  <2>5. l = 0
    BY <2>4
  <2>3. Len(Tail(procs[c].box)) = 0
    BY <2>5 DEF l
  <2> QED
    BY <2>1, <2>2, <2>3
<1>6. CASE Message(c) \in DOMAIN procs[c].todo_servers
  <2> DEFINE r == Takes(procs[c])
             s == procs[c].todo_servers[Message(c)]
  <2>1. /\ Step(c, r, 0, 0, 0, 0) /\ Quiet
        /\ client' = [client EXCEPT !.reply = <<s>>]
    BY <1>6, KnownServerActs DEF MessageInv
  <2>2. r.box = <<>> /\ r.at = procs[c].at
    BY <1>3, <1>5, TakesFields
  <2>3. ~Starting(r)
    BY <1>5, <2>2 DEF Starting
  <2>4. IsPid(procs, lastPid, s, "server")
    BY <1>1, <1>6 DEF MessageInv, MailInv, Mailed, AllRefer, Refers
  <2> HIDE DEF r, s
  <2>5. ClientInv'
    BY <1>1, <2>1, <2>2, <2>3, <2>4, CacheAnswers DEF MessageInv, Told
  <2>6. MailInv'
    BY <2>1, QuietMailStep DEF MessageInv, Quiet, Database
  <2>7. SignalInv'
    <3>1. DOMAIN procs \subseteq DOMAIN procs'
      BY <2>1 DEF Step, Acts
    <3> QED
      BY <2>1, <3>1, SignalsKept DEF MessageInv, Quiet
  <2> QED
    BY <1>2, <2>5, <2>6, <2>7 DEF MessageInv
<1>7. CASE Message(c) \notin DOMAIN procs[c].todo_servers
  <2> DEFINE g == "starting server"
             t == Takes(procs[c])
             b == Asks(t, g, Spawned)
             r == Starts(b, Message(c))
  <2>1. /\ Step(c, r, 0, 0, 0, 0)
        /\ DOMAIN procs' = DOMAIN procs \cup {Spawned} /\ Spawned \notin DOMAIN procs
        /\ links' = links \cup {{c, Spawned}} /\ UNCHANGED <<exiting, registered>>
        /\ client' = client
    BY <1>7, NewServerActs DEF MessageInv, Linked, Outside
  <2> HIDE DEF g
  <2>2. Typed(t) /\ t.box = <<>> /\ t.kind = "cache"
    BY <1>1, <1>3, <1>5, TakesFields
  <2> HIDE DEF t
  <2>3. b.box = <<>> /\ b.kind = "cache" /\ DOMAIN b = DOMAIN t
    BY <2>2, AsksFields
  <2>4. {"box", "kind"} \subseteq DOMAIN t
    BY <2>2 DEF Typed, Fields
  <2> HIDE DEF b
  <2>5. r.box = <<>> /\ r.kind = "cache"
    BY <2>3, <2>4 DEF Starts
  <2> HIDE DEF r
  <2>6. MailInv'
    BY <2>1, QuietMailStep DEF MessageInv, Database
  <2>7. SignalInv'
    <3>1. c # Spawned
      BY <2>1
    <3> QED
      BY <2>1, <3>1, SignalsKept DEF MessageInv
  <2>8. ClientInv'
    <3>0. /\ AllTyped(procs) /\ Acts(procs, lastPid, procs', lastPid', c, r, 0, 0, 0, 0)
          /\ Moves(procs, procs', lastPid', c, r)
          /\ Sends(procs, c, r, 0, 0) /\ Replies(procs, procs', lastPid', c, r, 0, 0, 0)
          /\ 0 \notin DOMAIN procs
      BY <2>1, NewPid DEF MessageInv, MailInv, Mailed, Step
    <3>1. /\ client.at = "asking" /\ client.on = c /\ client.reply = NoReply
          /\ ClientTyped(procs, lastPid, client)
      BY <1>1, <1>4 DEF Asked, MessageInv, ClientInv
    <3>2. ClientTyped(procs', lastPid', client')
      BY <2>1, <3>1 DEF ClientTyped
    <3>3. ASSUME NEW p \in DOMAIN procs'
          PROVE  Asked(p, procs'[p], client) /\ Queried(p, procs'[p], client)
      <4>1. CASE p \notin DOMAIN procs
        BY <3>0, <4>1, FreshNoCalls, NoCallsClient DEF Acts
      <4>2. CASE p = c
        <5>1. procs'[p] = r /\ Len(<<>>) <= 1
          BY <3>0, <4>2 DEF Acts
        <5> QED
          BY <2>5, <3>1, <4>2, <5>1 DEF Asked, Queried
      <4>3. CASE p \in DOMAIN procs /\ p # c
        <5>1. procs'[p].kind = procs[p].kind /\ procs'[p].box = procs[p].box
          BY <3>0, <4>3, ActsFields
        <5>2. procs[p].kind # "cache"
          BY <1>1, <4>3 DEF IInv, CacheInv
        <5>3. Queried(p, procs[p], client)
          BY <4>3 DEF MessageInv, ClientInv
        <5> QED
          BY <5>1, <5>2, <5>3 DEF Asked, Queried
      <4> QED
        BY <4>1, <4>2, <4>3
    <3> QED
      BY <2>1, <3>2, <3>3 DEF ClientInv
  <2> QED
    BY <1>2, <2>6, <2>7, <2>8 DEF MessageInv
<1> QED
  BY <1>6, <1>7

LEMMA ServerStartedMessages ==
  ASSUME IInv, MessageInv, NEW c \in DOMAIN procs, ServerStarted(c)
  PROVE  MessageInv'
<1> DEFINE g == "idle"
           b == Asks(procs[c], g, 0)
           map == Remember(c, procs[c].todo_list_name, procs[c].on)
           r == Remembers(b, map)
           s == procs[c].on
<1>1. procs[c].kind = "cache" /\ Starting(procs[c])
  <2>1. In(c, "cache", "starting server")
    BY DEF ServerStarted
  <2> QED
    BY <2>1 DEF In, Starting
<1>2. /\ Step(c, r, 0, 0, 0, 0) /\ client' = Told(client, s)
      /\ IsPid(procs, lastPid, s, "server")
      /\ Quiet /\ UNCHANGED <<file, supervisor, budget>>
  BY ServerStartedActs DEF MessageInv, Told
<1>3. Typed(procs[c])
  BY DEF MessageInv, MailInv, Mailed, AllTyped
<1>4. procs[c].box = <<>>
  BY <1>1 DEF MessageInv, ClientInv, Asked
<1>0. g # "starting server"
  OBVIOUS
<1> HIDE DEF g, map, s
<1>5. /\ b.box = <<>> /\ b.at = g
      /\ Fields \cup {"todo_servers", "todo_list_name"} \subseteq DOMAIN b
  <2>1. Fields \cup {"todo_servers", "todo_list_name"} \subseteq DOMAIN procs[c]
    BY <1>1, <1>3 DEF Typed
  <2> QED
    BY <1>3, <1>4, <2>1, AsksFields
<1> HIDE DEF b
<1>6. r.box = <<>> /\ r.at = g
  BY <1>5, RemembersFields, RemembersAt
<1> HIDE DEF r
<1>7. ~Starting(r)
  BY <1>0, <1>6 DEF Starting
<1>8. ClientInv'
  BY <1>1, <1>2, <1>6, <1>7, CacheAnswers DEF MessageInv
<1>9. MailInv'
  BY <1>2, QuietMailStep DEF MessageInv, Quiet, Database
<1>10. SignalInv'
  <2>1. DOMAIN procs \subseteq DOMAIN procs'
    BY <1>2 DEF Step, Acts
  <2> QED
    BY <1>2, <2>1, SignalsKept DEF MessageInv, Quiet
<1> QED
  BY <1>2, <1>8, <1>9, <1>10 DEF MessageInv, FileTyped, SupervisorInv, BudgetInv

LEMMA DatabaseMessages ==
  ASSUME IInv, MessageInv, NEW d \in DOMAIN procs, StartWorkers(d) \/ ChooseWorker(d)
  PROVE  MessageInv'
<1>1. procs[d].kind = "database" /\ 0 \notin DOMAIN procs
  BY NewPid DEF StartWorkers, ChooseWorker, In
<1>2. CASE StartWorkers(d)
  <2>1. PICK pid \in [WorkerIds -> DOMAIN procs' \ DOMAIN procs] :
           /\ Step(d, Employs(Asks(procs[d], "idle", 0), pid), 0, 0, procs[d].parent, d)
           /\ links' = links \cup {{d, w} : w \in DOMAIN procs' \ DOMAIN procs}
           /\ UNCHANGED <<exiting, registered>> /\ Outside
    BY <1>2, StartWorkersActs DEF MessageInv
  <2> DEFINE r == Employs(Asks(procs[d], "idle", 0), pid)
  <2> HIDE DEF r
  <2>2. Step(d, r, 0, 0, procs[d].parent, d)
    BY <2>1 DEF r
  <2>3. MailInv'
    BY <2>1, <2>2, QuietMailStep DEF MessageInv, Database
  <2>4. ClientInv'
    BY <1>1, <2>1, <2>2, ClientKept DEF MessageInv, Outside
  <2>5. SignalInv'
    <3>1. DOMAIN procs \subseteq DOMAIN procs'
      BY <2>2 DEF Step, Acts
    <3>2. \A w \in DOMAIN procs' \ DOMAIN procs : w # d
      OBVIOUS
    <3> QED
      BY <2>1, <3>1, <3>2, SignalsKept DEF MessageInv
  <2> QED
    BY <2>1, <2>3, <2>4, <2>5 DEF MessageInv, Outside, FileTyped, SupervisorInv, BudgetInv
<1>3. CASE ChooseWorker(d)
  <2> DEFINE r == Takes(procs[d])
             z == Message(d).from
             v == procs[d].worker_list[phash2[Message(d).key]]
  <2>1. Step(d, r, 0, 0, z, v) /\ Quiet /\ Outside
    BY <1>3, ChooseWorkerActs DEF MessageInv
  <2> HIDE DEF r, z, v
  <2>2. FileTyped'
    BY <2>1 DEF MessageInv, FileTyped, Outside
  <2> QED
    BY <1>1, <2>1, <2>2, QuietMessages DEF Outside
<1> QED
  BY <1>2, <1>3

LEMMA WorkerMessages ==
  ASSUME IInv, MessageInv, NEW w \in DOMAIN procs, OpenFile(w) \/ WriteFile(w) \/ GetFile(w)
  PROVE  MessageInv'
<1>1. procs[w].kind = "worker" /\ 0 \notin DOMAIN procs
  BY NewPid DEF OpenFile, WriteFile, GetFile, In
<1>2. CASE OpenFile(w)
  <2> DEFINE r == Works(Takes(procs[w]), "writing", <<Message(w)>>)
             n == Message(w).key
  <2>1. /\ Step(w, r, 0, 0, 0, 0) /\ Quiet /\ UNCHANGED <<supervisor, client, budget>>
        /\ n \in Names
    BY <1>2, OpenFileActs DEF MessageInv, Stores
  <2> HIDE DEF r
  <2>2. file' = [file EXCEPT ![n].state = "partial"]
    BY <1>2 DEF OpenFile
  <2> HIDE DEF n
  <2>3. FileTyped'
    BY <2>1, <2>2 DEF MessageInv, FileTyped
  <2> QED
    BY <1>1, <2>1, <2>3, QuietMessages
<1>3. CASE WriteFile(w)
  <2> DEFINE r == Works(procs[w], "idle", <<>>)
  <2>1. /\ Step(w, r, 0, 0, 0, 0) /\ Quiet /\ UNCHANGED <<supervisor, client, budget>>
        /\ \E m \in Stores :
              /\ procs[w].job = <<m>>
              /\ file' = [file EXCEPT ![m.key] = [state |-> "whole", list |-> m.data]]
    BY <1>3, WriteFileActs DEF MessageInv
  <2> HIDE DEF r
  <2>2. PICK m \in Stores :
           file' = [file EXCEPT ![m.key] = [state |-> "whole", list |-> m.data]]
    BY <2>1
  <2>3. FileTyped'
    BY <2>2 DEF MessageInv, FileTyped, Stores
  <2> QED
    BY <1>1, <2>1, <2>3, QuietMessages
<1>4. CASE GetFile(w)
  <2>1. CASE file[Message(w).key].state = "partial"
    BY <1>4, <2>1, TerminateMessages DEF GetFile
  <2>2. CASE file[Message(w).key].state # "partial"
    <3> DEFINE r == Takes(procs[w])
               z == Message(w).from
               v == file[Message(w).key].list
    <3>1. Step(w, r, 0, 0, z, v) /\ Quiet /\ Outside
      BY <1>4, <2>2, GetFileActs DEF MessageInv
    <3> HIDE DEF r, z, v
    <3>2. FileTyped'
      BY <3>1 DEF MessageInv, FileTyped, Outside
    <3> QED
      BY <1>1, <3>1, <3>2, QuietMessages DEF Outside
  <2> QED
    BY <2>1, <2>2
<1> QED
  BY <1>2, <1>3, <1>4

LEMMA ServerMessages ==
  ASSUME IInv, MessageInv, NEW s \in DOMAIN procs,
         ServerInit(s) \/ ServerGet(s) \/ ServerReady(s) \/ HandleCast(s)
           \/ ServerStore(s) \/ HandleEntries(s)
  PROVE  MessageInv'
<1>1. procs[s].kind = "server" /\ 0 \notin DOMAIN procs
  BY NewPid DEF ServerInit, ServerGet, ServerReady, HandleCast, ServerStore, HandleEntries, In
<1>2. MailInv /\ Database \in DOMAIN procs => procs[Database].kind = "database"
  BY <1>1 DEF MessageInv, MailInv
<1>3. ASSUME NEW r, NEW y, NEW m, NEW z, NEW v, Step(s, r, y, m, z, v), Quiet, Outside,
             y \in DOMAIN procs => procs[y].kind \notin {"cache", "server"}
      PROVE  MessageInv'
  <2>1. FileTyped'
    BY <1>3 DEF MessageInv, FileTyped, Outside
  <2> QED
    BY <1>1, <1>3, <2>1, QuietMessages DEF Outside
<1>4. ASSUME registered.database_server = 0, ServerInit(s) \/ HandleCast(s)
      PROVE  MessageInv'
  BY <1>4, TerminateMessages DEF ServerInit, HandleCast, CallDatabase
<1>5. ASSUME registered.database_server # 0, ServerInit(s) PROVE MessageInv'
  <2>1. /\ Step(s, Asks(procs[s], "choosing", Database), Database,
                [from |-> s, key |-> procs[s].name], 0, 0)
        /\ Quiet /\ Outside
    BY <1>5, ServerInitActs DEF MessageInv
  <2> QED
    BY <1>2, <1>3, <2>1 DEF MessageInv
<1>6. CASE ServerGet(s)
  <2>1. CASE ~Alive(Reply(s))
    BY <1>6, <2>1, TerminateMessages DEF ServerGet, Outside
  <2>2. CASE Alive(Reply(s))
    <3>1. /\ Step(s, Asks(procs[s], "getting", Reply(s)), Reply(s),
                 [op |-> "get", from |-> s, key |-> procs[s].name], 0, 0)
          /\ Quiet /\ Outside
      BY <1>6, <2>2, ServerGetActs DEF MessageInv
    <3>2. IsPid(procs, lastPid, Reply(s), "worker")
      BY <1>1, <1>6, ServerReply DEF MessageInv, ServerGet, In
    <3> QED
      BY <1>3, <3>1, <3>2 DEF IsPid
  <2> QED
    BY <2>1, <2>2
<1>7. CASE ServerReady(s)
  <2>1. /\ Step(s, Loads(Asks(procs[s], "idle", 0), Reply(s)), 0, 0, procs[s].parent, s)
        /\ Quiet /\ Outside
    BY <1>7, ServerReadyActs DEF MessageInv
  <2> QED
    BY <1>1, <1>3, <2>1
<1>8. ASSUME registered.database_server # 0, HandleCast(s) PROVE MessageInv'
  <2>1. CASE Message(s).op = "update_entry"
             /\ Raises(procs[s].list, Message(s).id, Message(s).sameId)
    BY <1>8, <2>1, TerminateMessages DEF HandleCast
  <2>2. CASE ~(Message(s).op = "update_entry"
               /\ Raises(procs[s].list, Message(s).id, Message(s).sameId))
    <3>1. /\ Step(s, Asks(Loads(Takes(procs[s]), Changed(procs[s].list, Message(s))),
                          "storing", Database),
                  Database, [from |-> s, key |-> procs[s].name], 0, 0)
          /\ Quiet /\ Outside
      BY <1>8, <2>2, HandleCastActs DEF MessageInv
    <3> QED
      BY <1>2, <1>3, <3>1 DEF MessageInv
  <2> QED
    BY <2>1, <2>2
<1>9. CASE ServerStore(s)
  <2>1. /\ Step(s, Asks(procs[s], "idle", 0), Reply(s),
                [op |-> "store", key |-> procs[s].name, data |-> procs[s].list], 0, 0)
        /\ Quiet /\ Outside
    BY <1>9, ServerStoreActs DEF MessageInv
  <2>2. IsPid(procs, lastPid, Reply(s), "worker")
    BY <1>1, <1>9, ServerReply DEF MessageInv, ServerStore, In
  <2> QED
    BY <1>3, <2>1, <2>2 DEF IsPid
<1>10. CASE HandleEntries(s)
  <2>1. Step(s, Takes(procs[s]), 0, 0, 0, 0)
    BY <1>10, HandleEntriesActs DEF MessageInv
  <2>2. Quiet /\ UNCHANGED <<file, supervisor, budget>>
    BY <1>10 DEF HandleEntries
  <2>3. MailInv'
    BY <2>1, <2>2, QuietMailStep DEF MessageInv, Quiet, Database
  <2>4. ClientInv'
    BY <1>10, ServerAnswersClient DEF MessageInv
  <2>5. SignalInv'
    <3>1. DOMAIN procs \subseteq DOMAIN procs'
      BY <2>1 DEF Step, Acts
    <3> QED
      BY <2>2, <3>1, SignalsKept DEF MessageInv, Quiet
  <2> QED
    BY <2>2, <2>3, <2>4, <2>5 DEF MessageInv, FileTyped, SupervisorInv, BudgetInv
<1> QED
  BY <1>4, <1>5, <1>6, <1>7, <1>8, <1>9, <1>10

LEMMA RestartMessages ==
  ASSUME IInv, MessageInv, Restart
  PROVE  MessageInv'
<1>1. MailInv'
  BY RestartMail DEF MessageInv
<1>2. FileTyped' /\ BudgetInv' /\ client' = client
  BY DEF Restart, MessageInv, FileTyped, BudgetInv
<1>3. SupervisorInv'
  <2> DEFINE k == supervisor.restarts
             j == IF k < MaxRestarts THEN k + 1 ELSE k
  <2>1. supervisor \in [up : BOOLEAN, restarts : 0 .. MaxRestarts]
    BY DEF MessageInv, SupervisorInv
  <2>2. j \in 0 .. MaxRestarts
    BY <2>1, RestartAssumption
  <2>3. \/ supervisor' = [supervisor EXCEPT !.restarts = j]
        \/ supervisor' = [supervisor EXCEPT !.up = FALSE]
    BY DEF Restart
  <2> HIDE DEF j
  <2> QED
    BY <2>1, <2>2, <2>3 DEF SupervisorInv
<1>4. /\ lastPid \in Nat /\ lastPid' \in Nat /\ lastPid <= lastPid'
      /\ DOMAIN procs \subseteq DOMAIN procs' /\ DOMAIN procs \subseteq 1 .. lastPid
      /\ \A p \in DOMAIN procs : procs'[p] = procs[p]
      /\ \A p \in DOMAIN procs' \ DOMAIN procs : p \notin 1 .. lastPid /\ procs'[p] = NewCache
      /\ links' = links /\ exiting' = exiting
  <2>1. lastPid \in Nat /\ DOMAIN procs \subseteq 1 .. lastPid
    BY DEF IInv, ProcessInv
  <2>2. CASE StartCache
    <3>1. /\ procs' = With(Only(Spawned, NewCache), procs) /\ lastPid' = Spawned
          /\ links' = links /\ exiting' = exiting
      BY <2>2 DEF StartCache
    <3>2. /\ DOMAIN procs' = DOMAIN procs \cup {Spawned}
          /\ procs'[Spawned] = NewCache /\ \A q \in DOMAIN procs : procs'[q] = procs[q]
      BY <3>1, Grown
    <3>3. Spawned \in Nat /\ lastPid <= Spawned /\ Spawned \notin 1 .. lastPid
      BY <2>1 DEF Spawned
    <3> QED
      BY <2>1, <3>1, <3>2, <3>3
  <2>3. CASE UNCHANGED <<procs, lastPid, links, exiting, registered>>
    BY <2>1, <2>3
  <2> QED
    BY <2>2, <2>3 DEF Restart
<1>5. SignalInv'
  BY <1>4, SignalsKept DEF MessageInv
<1>6. \A p, kind : IsPid(procs, lastPid, p, kind) => IsPid(procs', lastPid', p, kind)
  BY <1>4 DEF IsPid
<1>7. ClientTyped(procs', lastPid', client')
  BY <1>2, <1>6 DEF MessageInv, ClientInv, ClientTyped
<1>8. \A p \in DOMAIN procs' : Asked(p, procs'[p], client) /\ Queried(p, procs'[p], client)
  BY <1>4, NewCacheFresh, FreshNoCalls, NoCallsClient DEF MessageInv, ClientInv
<1>9. ClientInv'
  BY <1>2, <1>7, <1>8 DEF ClientInv
<1> QED
  BY <1>1, <1>2, <1>3, <1>5, <1>9 DEF MessageInv

LEMMA EnvironmentMessages ==
  ASSUME IInv, MessageInv, Answered \/ NotAnswered \/ Environment
  PROVE  MessageInv'
<1>1. CASE Answered \/ NotAnswered
  <2>1. UNCHANGED <<procs, lastPid, links, exiting, registered, file, supervisor, budget>>
    BY <1>1 DEF Answered, NotAnswered, Quiet
  <2>2. MailInv'
    BY <2>1 DEF MessageInv, MailInv, Database
  <2>3. ClientInv'
    BY <1>1, AnswerClient DEF MessageInv
  <2>4. SignalInv' /\ FileTyped' /\ SupervisorInv' /\ BudgetInv'
    BY <2>1 DEF MessageInv, SignalInv, FileTyped, SupervisorInv, BudgetInv
  <2> QED
    BY <2>2, <2>3, <2>4 DEF MessageInv
<1>2. ASSUME NEW what \in {"calls", "casts", "kills"}, Uses(what) PROVE BudgetInv'
  BY <1>2 DEF Uses, MessageInv, BudgetInv
<1>3. ASSUME DOMAIN procs' = DOMAIN procs, Quiet, UNCHANGED <<file, supervisor>>
      PROVE  SignalInv' /\ FileTyped' /\ SupervisorInv'
  BY <1>3 DEF MessageInv, SignalInv, FileTyped, SupervisorInv, Quiet
<1>4. \A p, m : DOMAIN Sent(procs, p, m) = DOMAIN procs
  BY SentAt
<1>5. ASSUME NEW n \in budget.names, Ask(n) PROVE MessageInv'
  <2>1. n \in Names
    BY DEF MessageInv, BudgetInv
  <2>2. MailInv' /\ ClientInv'
    BY <1>5, <2>1, AskClient DEF MessageInv
  <2>3. Quiet /\ UNCHANGED <<file, supervisor>> /\ DOMAIN procs' = DOMAIN procs /\ Uses("calls")
    BY <1>4, <1>5 DEF Ask, Calls
  <2> QED
    BY <1>2, <1>3, <2>2, <2>3 DEF MessageInv
<1>6. ASSUME NEW d \in Dates, ReadEntries(d) PROVE MessageInv'
  <2>1. MailInv' /\ ClientInv'
    BY <1>6, ReadEntriesClient DEF MessageInv
  <2>2. Quiet /\ UNCHANGED <<file, supervisor>> /\ DOMAIN procs' = DOMAIN procs /\ Uses("calls")
    BY <1>4, <1>6 DEF ReadEntries, Calls
  <2> QED
    BY <1>2, <1>3, <2>1, <2>2 DEF MessageInv
<1>7. ASSUME NEW m \in Casts, Cast(m) PROVE MessageInv'
  <2>1. MailInv' /\ ClientInv'
    BY <1>7, CastClient DEF MessageInv
  <2>2. Quiet /\ UNCHANGED <<file, supervisor>> /\ DOMAIN procs' = DOMAIN procs /\ Uses("casts")
    BY <1>4, <1>7 DEF Cast
  <2> QED
    BY <1>2, <1>3, <2>1, <2>2 DEF MessageInv
<1>8. CASE Kill
  <2>1. /\ UNCHANGED <<procs, lastPid, links, registered, file, supervisor, client>>
        /\ exiting' = exiting \cup {Cache} /\ Cache # 0 /\ Uses("kills")
    BY <1>8 DEF Kill, Cache
  <2>2. Cache \in DOMAIN procs
    BY <2>1 DEF IInv, ProcessInv, Cache
  <2>3. MailInv' /\ ClientInv'
    BY <2>1 DEF MessageInv, MailInv, ClientInv, Database
  <2>4. SignalInv' /\ FileTyped' /\ SupervisorInv'
    BY <2>1, <2>2 DEF MessageInv, SignalInv, FileTyped, SupervisorInv
  <2> QED
    BY <1>2, <2>1, <2>3, <2>4 DEF MessageInv
<1> QED
  BY <1>1, <1>5, <1>6, <1>7, <1>8 DEF Environment

LEMMA MessageInvStep == IInv /\ MessageInv /\ [Next]_vars => MessageInv'
<1> SUFFICES ASSUME IInv, MessageInv, [Next]_vars PROVE MessageInv'
  OBVIOUS
<1>1. ASSUME NEW p \in Pids, StartDatabase(p) \/ DatabaseStarted(p) PROVE MessageInv'
  BY <1>1, CacheMessages DEF Pids
<1>2. ASSUME NEW p \in Pids, ServerProcess(p) PROVE MessageInv'
  BY <1>2, ServerProcessMessages DEF Pids
<1>3. ASSUME NEW p \in Pids, ServerStarted(p) PROVE MessageInv'
  BY <1>3, ServerStartedMessages DEF Pids
<1>4. ASSUME NEW p \in Pids, StartWorkers(p) \/ ChooseWorker(p) PROVE MessageInv'
  BY <1>4, DatabaseMessages DEF Pids
<1>5. ASSUME NEW p \in Pids, OpenFile(p) \/ WriteFile(p) \/ GetFile(p) PROVE MessageInv'
  BY <1>5, WorkerMessages DEF Pids
<1>6. ASSUME NEW p \in Pids,
             ServerInit(p) \/ ServerGet(p) \/ ServerReady(p) \/ HandleCast(p)
               \/ ServerStore(p) \/ HandleEntries(p)
      PROVE  MessageInv'
  BY <1>6, ServerMessages DEF Pids
<1>7. ASSUME NEW p \in Pids, CallFails(p) \/ Exit(p) PROVE MessageInv'
  BY <1>7, TerminateMessages DEF Pids, CallFails, Exit
<1>8. CASE Restart
  BY <1>8, RestartMessages
<1>9. CASE Answered \/ NotAnswered \/ Environment
  BY <1>9, EnvironmentMessages
<1>10. CASE UNCHANGED vars
  BY <1>10 DEF vars, MessageInv, MailInv, ClientInv, SignalInv, FileTyped, SupervisorInv, BudgetInv, Database
<1>11. CASE System
  BY <1>1, <1>2, <1>3, <1>4, <1>5, <1>6, <1>7, <1>8, <1>9, <1>11 DEF System
<1> QED
  BY <1>9, <1>10, <1>11 DEF Next

LEMMA MessageInvHolds == Spec => [](IInv /\ MessageInv)
<1>1. Init => IInv /\ MessageInv
  BY IInvInit, MessageInvInit
<1>2. IInv /\ MessageInv /\ [Next]_vars => IInv' /\ MessageInv'
  BY IInvStep, MessageInvStep
<1> QED
  BY <1>1, <1>2, PTL DEF Spec

\* For the same: a process finds only messages in its mailbox that it has a
\* clause for, a reply is of the kind its caller matches it with, and a call in a
\* mailbox, the client's too, is the only one of a process that still waits for
\* its answer (the clauses of cache.ex, database.ex, database_worker.ex and
\* server.ex): an answer is never taken for that of another call.
THEOREM MessagesUnderstood == Spec => [](Mailed(procs, lastPid) /\ ClientInv)
<1>1. MessageInv => Mailed(procs, lastPid) /\ ClientInv
  BY DEF MessageInv, MailInv
<1> QED
  BY <1>1, MessageInvHolds, PTL

\* What a worker still has to do.
LEMMA Appended ==
  ASSUME NEW M, NEW s \in Seq(M), NEW t \in Seq(M)
  PROVE  s \o t \in Seq(M)
  OBVIOUS

LEMMA ShortMail ==
  ASSUME NEW M
  PROVE  <<>> \in Seq(M) /\ \A m \in M : <<m>> \in Seq(M)
<1>1. <<>> \in Seq(M)
  OBVIOUS
<1>2. \A m \in M : <<m>> \in Seq(M)
  OBVIOUS
<1> QED
  BY <1>1, <1>2

LEMMA WorkTyped ==
  ASSUME MailInv, NEW w \in Workers
  PROVE  Work(w) \in Seq(Gets \cup Stores)
<1>1. /\ procs[w].box \in Seq(Gets \cup Stores)
      /\ procs[w].job = <<>> \/ \E m \in Stores : procs[w].job = <<m>>
  BY DEF Workers, MailInv, Mailed, AllTyped, Typed, Mail
<1>2. procs[w].job \in Seq(Gets \cup Stores)
  BY <1>1, ShortMail
<1> QED
  BY <1>1, <1>2, Appended DEF Work

LEMMA MessagesTyped == IInv /\ MessageInv => TypeOK
<1> SUFFICES ASSUME IInv, MessageInv PROVE TypeOK
  OBVIOUS
<1>1. /\ lastPid \in Nat /\ DOMAIN procs \subseteq 1 .. lastPid
      /\ \A l \in links : l \subseteq DOMAIN procs /\ Cardinality(l) = 2
      /\ exiting \subseteq DOMAIN procs
      /\ \A r \in DOMAIN registered : registered[r] \in DOMAIN procs \cup {0}
  BY DEF IInv, ProcessInv, MessageInv, SignalInv
<1>2. \A s \in Servers : procs[s].name \in Names /\ IsList(procs[s].list)
  BY DEF Servers, MessageInv, MailInv, Mailed, AllTyped, Typed, Lists
<1>3. ASSUME NEW w \in Workers, NEW n \in Names, NEW i \in Pending(w, n)
      PROVE  IsList(Work(w)[i].data)
  <2>1. Work(w) \in Seq(Gets \cup Stores)
    BY WorkTyped DEF MessageInv
  <2>2. i \in DOMAIN Work(w) /\ Work(w)[i].op = "store"
    BY DEF Pending, IsStore
  <2>3. Work(w)[i] \in Gets \cup Stores
    BY <2>1, <2>2
  <2> QED
    BY <2>2, <2>3 DEF Gets, Stores, Lists
<1>4. \A n \in Names : file[n].state \in {"absent", "partial", "whole"} /\ IsList(file[n].list)
  BY DEF MessageInv, FileTyped, Lists
<1>5. supervisor \in [up : BOOLEAN, restarts : 0 .. MaxRestarts]
  BY DEF MessageInv, SupervisorInv
<1> QED
  BY <1>1, <1>2, <1>3, <1>4, <1>5 DEF TypeOK

\* For any names, any restart limit and any client: pids, links and signals are
\* those of live processes, and every list there is, in a server, on its way to
\* a worker or in a file, keeps its ids below the next one, so that no entry
\* ever takes the place of another (list.ex, database_worker.ex, server.ex).
THEOREM TypeCorrect == Spec => []TypeOK
<1>1. IInv /\ MessageInv => TypeOK
  BY MessagesTyped
<1> QED
  BY <1>1, MessageInvHolds, PTL

(***************************************************************************)
(* The files.  A queue is what a worker still has to do; a list is behind  *)
(* it when it is what the file will hold once the queue is done.           *)
(***************************************************************************)
Queue(r) == r.job \o r.box

PendingIn(work, n) == {i \in DOMAIN work : IsStore(work[i]) /\ work[i].key = n}

Behind(work, n, l, kept) ==
  \/ PendingIn(work, n) = {} /\ l = kept
  \/ \E i \in PendingIn(work, n) : /\ work[i].data = l
                                   /\ \A j \in PendingIn(work, n) : j <= i

StoreOf(m, n) == IsStore(m) /\ m.key = n

LEMMA BehindAppended ==
  ASSUME NEW M, NEW work \in Seq(M), NEW m \in M, NEW n, NEW l, NEW kept
  PROVE  /\ ~StoreOf(m, n) /\ Behind(work, n, l, kept) => Behind(Append(work, m), n, l, kept)
         /\ StoreOf(m, n) => Behind(Append(work, m), n, m.data, kept)
<1> DEFINE w == Append(work, m)
           k == Len(work) + 1
<1>1. /\ DOMAIN w = 1 .. k /\ DOMAIN work = 1 .. k - 1 /\ k \in Nat /\ 1 <= k
      /\ \A i \in DOMAIN work : w[i] = work[i]
      /\ w[k] = m
  BY MailAppended
<1> HIDE DEF w, k
<1>2. ASSUME ~StoreOf(m, n), Behind(work, n, l, kept) PROVE Behind(w, n, l, kept)
  <2>1. PendingIn(w, n) = PendingIn(work, n)
    BY <1>1, <1>2 DEF PendingIn, StoreOf
  <2>2. \A i \in PendingIn(work, n) : w[i] = work[i]
    BY <1>1 DEF PendingIn
  <2> QED
    BY <1>2, <2>1, <2>2 DEF Behind
<1>3. ASSUME StoreOf(m, n) PROVE Behind(w, n, m.data, kept)
  <2>1. k \in PendingIn(w, n)
    BY <1>1, <1>3 DEF PendingIn, StoreOf
  <2>2. \A j \in PendingIn(w, n) : j <= k
    BY <1>1 DEF PendingIn
  <2> QED
    BY <1>1, <2>1, <2>2 DEF Behind
<1> QED
  BY <1>2, <1>3 DEF w

LEMMA BehindTaken ==
  ASSUME NEW M, NEW work \in Seq(M), work # <<>>, NEW n, NEW l, NEW kept,
         Behind(work, n, l, kept)
  PROVE  /\ ~StoreOf(work[1], n) => Behind(Tail(work), n, l, kept)
         /\ StoreOf(work[1], n) => Behind(Tail(work), n, l, work[1].data)
<1> DEFINE w == Tail(work)
           k == Len(work)
<1>1. /\ DOMAIN w = 1 .. k - 1 /\ DOMAIN work = 1 .. k /\ k \in Nat /\ 1 \in 1 .. k
      /\ \A i \in DOMAIN w : w[i] = work[i + 1]
  <2>1. /\ w \in Seq(M) /\ Len(w) = k - 1 /\ DOMAIN work = 1 .. k /\ k \in Nat
        /\ 1 \in DOMAIN work /\ \A i \in DOMAIN w : w[i] = work[i + 1]
    BY MailTaken
  <2>2. DOMAIN w = 1 .. Len(w)
    BY <2>1
  <2> QED
    BY <2>1, <2>2
<1> HIDE DEF w, k
<1>2. \A i \in PendingIn(work, n) : i \in 1 .. k /\ (i # 1 => i - 1 \in PendingIn(w, n))
  BY <1>1 DEF PendingIn
<1>3. \A i \in PendingIn(w, n) : i \in 1 .. k - 1 /\ i + 1 \in PendingIn(work, n)
  BY <1>1 DEF PendingIn
<1>4. 1 \in PendingIn(work, n) <=> StoreOf(work[1], n)
  BY <1>1 DEF PendingIn, StoreOf
<1>5. CASE PendingIn(work, n) = {} /\ l = kept
  <2>1. PendingIn(w, n) = {} /\ ~StoreOf(work[1], n)
    BY <1>3, <1>4, <1>5
  <2> QED
    BY <1>5, <2>1 DEF Behind, w
<1>6. ASSUME NEW i \in PendingIn(work, n), work[i].data = l,
             \A j \in PendingIn(work, n) : j <= i
      PROVE  /\ i # 1 => \A f : Behind(w, n, l, f)
             /\ i = 1 => StoreOf(work[1], n) /\ PendingIn(w, n) = {}
  <2>1. ASSUME i # 1, NEW f PROVE Behind(w, n, l, f)
    <3>1. i - 1 \in PendingIn(w, n) /\ i \in Nat
      BY <1>1, <1>2, <2>1
    <3>2. w[i - 1].data = l
      <4>1. i - 1 \in DOMAIN w /\ (i - 1) + 1 = i
        BY <3>1 DEF PendingIn
      <4> QED
        BY <1>1, <1>6, <4>1
    <3>3. \A j \in PendingIn(w, n) : j <= i - 1
      <4>1. \A j \in PendingIn(w, n) : j + 1 <= i /\ j \in Int
        BY <1>1, <1>3, <1>6
      <4> QED
        BY <3>1, <4>1
    <3> QED
      BY <3>1, <3>2, <3>3 DEF Behind
  <2>2. ASSUME i = 1 PROVE StoreOf(work[1], n) /\ PendingIn(w, n) = {}
    <3>1. \A j \in PendingIn(w, n) : j + 1 <= 1 /\ j \in 1 .. k - 1
      BY <1>3, <1>6, <2>2
    <3>2. PendingIn(w, n) = {}
      BY <1>1, <3>1
    <3>3. StoreOf(work[1], n)
      BY <1>4, <1>6, <2>2
    <3> QED
      BY <3>2, <3>3
  <2> QED
    BY <2>1, <2>2
<1>7. CASE \E i \in PendingIn(work, n) : work[i].data = l /\ \A j \in PendingIn(work, n) : j <= i
  <2>1. PICK i \in PendingIn(work, n) : work[i].data = l /\ \A j \in PendingIn(work, n) : j <= i
    BY <1>7
  <2>2. CASE i = 1
    BY <1>6, <2>1, <2>2 DEF Behind, w
  <2>3. CASE i # 1
    BY <1>6, <2>1, <2>3 DEF w
  <2> QED
    BY <2>2, <2>3
<1> QED
  BY <1>5, <1>7 DEF Behind

\* A worker's queue, when it gets a message, opens a file and is done with it.
LEMMA QueueAppended ==
  ASSUME NEW M, NEW s \in Seq(M), NEW t \in Seq(M), NEW m \in M
  PROVE  s \o Append(t, m) = Append(s \o t, m)
  OBVIOUS

LEMMA QueueTold ==
  ASSUME NEW M, NEW m \in M, NEW r, r.box \in Seq(M), r.job \in Seq(M),
         NEW q, q.job = r.job, q.box = Append(r.box, m)
  PROVE  Queue(q) = Append(Queue(r), m)
<1> DEFINE s == r.job
           t == r.box
<1>1. s \in Seq(M) /\ t \in Seq(M) /\ m \in M
  OBVIOUS
<1>2. Queue(q) = s \o Append(t, m) /\ Queue(r) = s \o t
  BY DEF Queue
<1> HIDE DEF s, t
<1>3. s \o Append(t, m) = Append(s \o t, m)
  BY <1>1, QueueAppended
<1> QED
  BY <1>2, <1>3

LEMMA QueueEmpty ==
  ASSUME NEW M, NEW s \in Seq(M)
  PROVE  <<>> \o s = s
  OBVIOUS

LEMMA QueueOne ==
  ASSUME NEW M, NEW s \in Seq(M), NEW m \in M
  PROVE  /\ <<m>> \o s # <<>> /\ Tail(<<m>> \o s) = s
         /\ (<<m>> \o s)[1] = m
  OBVIOUS

LEMMA QueueHead ==
  ASSUME NEW M, NEW s \in Seq(M), s # <<>>
  PROVE  <<Head(s)>> \o Tail(s) = s
  OBVIOUS

NoExit == DOMAIN procs = 1 .. lastPid
DbIdle == Database # 0 /\ procs[Database].at = "idle"
DbOf(n) == procs[Database].worker_list[phash2[n]]

OnlyCacheExits == exiting \subseteq {Cache} /\ Cache # 0
OneDatabase == \A p \in DOMAIN procs : procs[p].kind = "database" => p = Database

\* A server that has read its file.
Reads(r) == r.at \in {"idle", "storing"}

\* What a worker has to do is about lists that it keeps, and a list that it
\* has to store has a server.
WorkInv ==
  \A w \in Workers : \A i \in DOMAIN Work(w) :
    LET m == Work(w)[i]
    IN  /\ DbIdle /\ w = DbOf(m.key)
        /\ IsStore(m) => \E s \in Servers : procs[s].name = m.key /\ Reads(procs[s])

\* The list is on its way to the file of that name.
Lag(n, l) == Behind(Work(DbOf(n)), n, l, file[n].list)

Follows(r) ==
  /\ r.at \in {"getting", "idle", "storing"} \/ r.reply # NoReply => DbIdle
  /\ r.at \in {"choosing", "storing"} /\ r.reply # NoReply => Head(r.reply) = DbOf(r.name)
  /\ r.at = "getting" /\ r.reply # NoReply => Head(r.reply) = file[r.name].list
  /\ r.at = "idle" => Lag(r.name, r.list)

ServerInv == \A s \in Servers : Follows(procs[s])

IsWriting(r, n) == r.at = "writing" /\ r.job # <<>> /\ Head(r.job).key = n

PartialInv ==
  \A n \in Names : file[n].state = "partial" => \E w \in Workers : IsWriting(procs[w], n)

FileParts == OnlyCacheExits /\ OneDatabase /\ WorkInv /\ ServerInv /\ PartialInv
FileInv == NoExit => FileParts

LEMMA FileInvInit == Init => FileInv
<1> SUFFICES ASSUME Init PROVE FileInv
  OBVIOUS
<1>1. DOMAIN procs = {1} /\ procs[1] = NewCache
  BY DEF Init, Only
<1>2. NewCache.kind = "cache"
  BY DEF NewCache, Process, With
<1>3. Servers = {} /\ Workers = {} /\ \A p \in DOMAIN procs : procs[p].kind = "cache"
  BY <1>1, <1>2 DEF Servers, Workers
<1>4. OnlyCacheExits /\ OneDatabase
  BY <1>3 DEF Init, OnlyCacheExits, OneDatabase, Cache
<1>5. \A n \in Names : file[n].state = "absent"
  BY DEF Init
<1> QED
  BY <1>3, <1>4, <1>5 DEF FileInv, FileParts, WorkInv, ServerInv, PartialInv

\* Of each list there is one server.
LEMMA SoleServer ==
  ASSUME IInv, OnlyCacheExits, NEW s \in Servers, NEW t \in Servers,
         procs[s].name = procs[t].name
  PROVE  s = t
<1>1. \A u \in Servers : u \notin exiting
  BY DEF OnlyCacheExits, Servers, IInv, CacheInv
<1>2. Cache # 0 /\ Knows(Cache, s) /\ Knows(Cache, t)
  BY <1>1 DEF IInv, StayingInv
<1>3. procs[Cache].at = "starting server" =>
        LET u == procs[Cache].on
        IN  /\ procs[Cache].todo_list_name \notin DOMAIN procs[Cache].todo_servers
            /\ u \in Servers => procs[u].name = procs[Cache].todo_list_name
  BY <1>2 DEF IInv, StartingInv
<1> DEFINE n == procs[s].name
           known == procs[Cache].todo_servers
<1>4. CASE n \in DOMAIN known
  <2>1. known[n] = s
    BY <1>2, <1>3, <1>4 DEF Knows
  <2>2. known[n] = t
    BY <1>2, <1>3, <1>4 DEF Knows
  <2> QED
    BY <2>1, <2>2
<1>5. CASE n \notin DOMAIN known
  BY <1>2, <1>5 DEF Knows
<1> QED
  BY <1>4, <1>5

\* A step that starts processes, or none, ends none.
LEMMA ActsNoExit ==
  ASSUME NEW x, NEW r, NEW y, NEW m, NEW z, NEW v, Step(x, r, y, m, z, v), NoExit'
  PROVE  NoExit
<1>1. Acts(procs, lastPid, procs', lastPid', x, r, y, m, z, v)
  BY DEF Step
<1>2. \A p \in 1 .. lastPid : p \in 1 .. lastPid' /\ ~(p > lastPid)
  BY <1>1 DEF Acts
<1>3. 1 .. lastPid \subseteq DOMAIN procs
  BY <1>1, <1>2 DEF Acts, NoExit
<1> QED
  BY <1>1, <1>3 DEF NoExit, Acts

LEMMA TerminateExit ==
  ASSUME IInv, NEW p \in DOMAIN procs, Terminate(p), lastPid' = lastPid
  PROVE  ~NoExit'
<1>1. p \in 1 .. lastPid' /\ p \notin DOMAIN procs'
  BY DEF IInv, ProcessInv, Terminate
<1> QED
  BY <1>1 DEF NoExit

\* The worker of a list.
LEMMA WorkerOf ==
  ASSUME IInv, MailInv, NoExit, DbIdle, NEW n \in Names
  PROVE  DbOf(n) \in Workers
<1>1. Database \in DOMAIN procs /\ procs[Database].kind = "database" /\ procs[Database].at = "idle"
  BY DEF IInv, ProcessInv, Database, DbIdle, MailInv
<1>2. phash2[n] \in WorkerIds
  BY DEF WorkerIds
<1>3. IsPid(procs, lastPid, DbOf(n), "worker")
  BY <1>1, <1>2 DEF MailInv, Mailed, AllRefer, Refers, DbOf
<1> QED
  BY <1>3 DEF IsPid, NoExit, Workers

\* What a step makes of the queues and of the servers.
LEMMA WorksAt ==
  ASSUME IInv, MailInv, NEW x, NEW r, NEW y, NEW m, NEW z, NEW v, Step(x, r, y, m, z, v)
  PROVE  /\ \A w \in Workers :
              /\ w \in Workers' /\ Work(w) \in Seq(Gets \cup Stores)
              /\ w = x => Work(w)' = Queue(r)
              /\ w = y => Work(w)' = Append(Work(w), m) /\ m \in Gets \cup Stores
              /\ w # x /\ w # y => Work(w)' = Work(w)
              /\ w # x => procs'[w].at = procs[w].at /\ procs'[w].job = procs[w].job
         /\ \A w \in Workers' : w \in Workers \/ Work(w)' = <<>>
<1>1. /\ AllTyped(procs) /\ Acts(procs, lastPid, procs', lastPid', x, r, y, m, z, v)
      /\ Moves(procs, procs', lastPid', x, r)
      /\ Sends(procs, x, r, y, m) /\ Replies(procs, procs', lastPid', x, r, y, z, v)
  BY DEF MailInv, Mailed, Step
<1>2. ASSUME NEW w \in Workers
      PROVE  /\ w \in Workers' /\ Work(w) \in Seq(Gets \cup Stores)
             /\ w = x => Work(w)' = Queue(r)
             /\ w = y => Work(w)' = Append(Work(w), m) /\ m \in Gets \cup Stores
             /\ w # x /\ w # y => Work(w)' = Work(w)
             /\ w # x => procs'[w].at = procs[w].at /\ procs'[w].job = procs[w].job
  <2>1. w \in DOMAIN procs /\ procs[w].kind = "worker"
    BY DEF Workers
  <2>2. /\ w \in DOMAIN procs' /\ procs'[w].kind = "worker"
        /\ w = x => procs'[w] = r
        /\ w = y => procs'[w].box = Append(procs[w].box, m)
        /\ w # x /\ w # y => procs'[w].box = procs[w].box
        /\ w # x => procs'[w].at = procs[w].at /\ procs'[w].job = procs[w].job
    BY <1>1, <2>1, ActsFields
  <2>3. w = y => w # x /\ m \in Gets \cup Stores
    BY <1>1, <2>1 DEF Sends, Mail
  <2>4. Work(w) \in Seq(Gets \cup Stores)
    BY WorkTyped
  <2>5. procs[w].box \in Seq(Gets \cup Stores) /\ procs[w].job \in Seq(Gets \cup Stores)
    <3>1. Typed(procs[w])
      BY <1>1, <2>1 DEF AllTyped
    <3> QED
      BY <2>1, <3>1, ShortMail DEF Typed, Mail
  <2>6. ASSUME w = y PROVE Work(w)' = Append(Work(w), m)
    <3>1. procs'[w].job = procs[w].job /\ procs'[w].box = Append(procs[w].box, m)
      BY <2>2, <2>3, <2>6
    <3>2. Queue(procs'[w]) = Append(Queue(procs[w]), m)
      BY <2>3, <2>5, <2>6, <3>1, QueueTold
    <3>3. Work(w)' = Queue(procs'[w]) /\ Work(w) = Queue(procs[w])
      BY DEF Work, Queue
    <3> QED
      BY <3>2, <3>3
  <2>7. w = x => Work(w)' = Queue(r)
    BY <2>2 DEF Work, Queue
  <2>8. w # x /\ w # y => Work(w)' = Work(w)
    BY <2>2 DEF Work
  <2> QED
    BY <2>2, <2>3, <2>4, <2>6, <2>7, <2>8 DEF Workers
<1>3. ASSUME NEW w \in Workers', w \notin Workers PROVE Work(w)' = <<>>
  <2>1. w \notin DOMAIN procs
    <3> SUFFICES ASSUME w \in DOMAIN procs PROVE FALSE
      OBVIOUS
    <3>1. procs'[w].kind = procs[w].kind
      BY <1>1, ActsFields
    <3> QED
      BY <1>3, <3>1 DEF Workers
  <2>2. Fresh(procs', lastPid', procs'[w]) /\ procs'[w].kind = "worker"
    BY <1>1, <2>1 DEF Acts, Workers
  <2>3. procs'[w].box = <<>> /\ procs'[w].job = <<>>
    BY <2>2 DEF Fresh, Typed
  <2>4. <<>> \in Seq({})
    BY ShortMail
  <2>5. <<>> \o <<>> = <<>>
    BY <2>4, QueueEmpty
  <2> QED
    BY <2>3, <2>5 DEF Work
<1> QED
  BY <1>2, <1>3

LEMMA ServersAt ==
  ASSUME IInv, MailInv, NEW x, NEW r, NEW y, NEW m, NEW z, NEW v, Step(x, r, y, m, z, v)
  PROVE  /\ \A s \in Servers :
              /\ s \in Servers' /\ procs'[s].name = procs[s].name /\ procs[s].name \in Names
              /\ s = x => procs'[s] = r
              /\ s # x => procs'[s].at = procs[s].at /\ procs'[s].list = procs[s].list
              /\ s # x /\ s = z => procs'[s].reply = <<v>>
              /\ s # x /\ s # z => procs'[s].reply = procs[s].reply
         /\ \A s \in Servers' : \/ s \in Servers
                                \/ procs'[s].at = "init" /\ procs'[s].reply = NoReply
<1>1. /\ AllTyped(procs) /\ Acts(procs, lastPid, procs', lastPid', x, r, y, m, z, v)
      /\ Moves(procs, procs', lastPid', x, r)
      /\ Sends(procs, x, r, y, m) /\ Replies(procs, procs', lastPid', x, r, y, z, v)
  BY DEF MailInv, Mailed, Step
<1>2. ASSUME NEW s \in Servers
      PROVE  /\ s \in Servers' /\ procs'[s].name = procs[s].name /\ procs[s].name \in Names
             /\ s = x => procs'[s] = r
             /\ s # x => procs'[s].at = procs[s].at /\ procs'[s].list = procs[s].list
             /\ s # x /\ s = z => procs'[s].reply = <<v>>
             /\ s # x /\ s # z => procs'[s].reply = procs[s].reply
  <2>1. s \in DOMAIN procs /\ procs[s].kind = "server"
    BY DEF Servers
  <2>2. procs[s].name \in Names
    BY <1>1, <2>1 DEF AllTyped, Typed
  <2>3. /\ s \in DOMAIN procs' /\ procs'[s].kind = "server"
        /\ procs'[s].name = procs[s].name
        /\ s = x => procs'[s] = r
        /\ s # x => procs'[s].at = procs[s].at /\ procs'[s].list = procs[s].list
        /\ s = z => procs'[s].reply = <<v>>
        /\ s # x /\ s # z => procs'[s].reply = procs[s].reply
    BY <1>1, <2>1, ActsFields
  <2> QED
    BY <2>2, <2>3 DEF Servers
<1>3. ASSUME NEW s \in Servers', s \notin Servers
      PROVE  procs'[s].at = "init" /\ procs'[s].reply = NoReply
  <2>1. s \notin DOMAIN procs
    <3> SUFFICES ASSUME s \in DOMAIN procs PROVE FALSE
      OBVIOUS
    <3>1. procs'[s].kind = procs[s].kind
      BY <1>1, ActsFields
    <3> QED
      BY <1>3, <3>1 DEF Servers
  <2>2. Fresh(procs', lastPid', procs'[s]) /\ procs'[s].kind = "server"
    BY <1>1, <2>1 DEF Acts, Servers
  <2> QED
    BY <2>2 DEF Fresh
<1> QED
  BY <1>2, <1>3

DbKept == DbIdle => DbIdle' /\ \A n \in Names : DbOf(n)' = DbOf(n)

LEMMA DbStays ==
  ASSUME IInv, MailInv, NEW x, NEW r, NEW y, NEW m, NEW z, NEW v, Step(x, r, y, m, z, v),
         Database' = Database,
         x = Database => r.at = procs[x].at /\ r.worker_list = procs[x].worker_list
  PROVE  DbKept
<1> SUFFICES ASSUME DbIdle PROVE DbIdle' /\ \A n \in Names : DbOf(n)' = DbOf(n)
  BY DEF DbKept
<1>1. /\ AllTyped(procs) /\ Acts(procs, lastPid, procs', lastPid', x, r, y, m, z, v)
      /\ Moves(procs, procs', lastPid', x, r)
      /\ Sends(procs, x, r, y, m) /\ Replies(procs, procs', lastPid', x, r, y, z, v)
  BY DEF MailInv, Mailed, Step
<1>2. Database \in DOMAIN procs /\ procs[Database].kind = "database"
  BY DEF IInv, ProcessInv, Database, DbIdle, MailInv
<1>3. /\ Database = x => procs'[Database] = r
      /\ Database # x => /\ procs'[Database].at = procs[Database].at
                         /\ procs'[Database].worker_list = procs[Database].worker_list
  BY <1>1, <1>2, ActsFields
<1>4. procs'[Database].at = procs[Database].at
  BY <1>3
<1>5. procs'[Database].worker_list = procs[Database].worker_list
  BY <1>3
<1> QED
  BY <1>4, <1>5 DEF DbIdle, DbOf

\* A step of a process of another kind than the database.
LEMMA DbNotMoved ==
  ASSUME IInv, MailInv, NEW x, NEW r, NEW y, NEW m, NEW z, NEW v, Step(x, r, y, m, z, v),
         Database' = Database, x \in DOMAIN procs => procs[x].kind # "database"
  PROVE  DbKept
<1>1. x # Database \/ Database = 0
  BY DEF IInv, ProcessInv, Database, MailInv
<1>2. CASE Database = 0
  BY <1>2 DEF DbKept, DbIdle
<1>3. CASE x # Database
  BY <1>3, DbStays
<1> QED
  BY <1>1, <1>2, <1>3

LEMMA OneDatabaseStep ==
  ASSUME IInv, MailInv, NEW x, NEW r, NEW y, NEW m, NEW z, NEW v, Step(x, r, y, m, z, v),
         OneDatabase, Database' = Database,
         \A q \in DOMAIN procs' \ DOMAIN procs : procs'[q].kind # "database"
  PROVE  OneDatabase'
<1>1. /\ AllTyped(procs) /\ Acts(procs, lastPid, procs', lastPid', x, r, y, m, z, v)
      /\ Moves(procs, procs', lastPid', x, r)
      /\ Sends(procs, x, r, y, m) /\ Replies(procs, procs', lastPid', x, r, y, z, v)
  BY DEF MailInv, Mailed, Step
<1>2. \A q \in DOMAIN procs : procs'[q].kind = procs[q].kind
  BY <1>1, ActsFields
<1> QED
  BY <1>2 DEF OneDatabase

\* What the workers have to do, when one of them is done with its first message
\* or gets one more.
Moved(x, r) ==
  x \in Workers =>
    Queue(r) = Work(x) \/ (Work(x) # <<>> /\ Queue(r) = Tail(Work(x)))

LEMMA WorkStep ==
  ASSUME IInv, MailInv, NEW x, NEW r, NEW y, NEW m, NEW z, NEW v, Step(x, r, y, m, z, v),
         WorkInv, DbKept, Moved(x, r),
         x \in Servers => (Reads(procs[x]) => Reads(r)),
         y \in Workers =>
           /\ DbIdle /\ m.key \in Names /\ y = DbOf(m.key)
           /\ IsStore(m) => x \in Servers /\ procs[x].name = m.key /\ Reads(r)
  PROVE  WorkInv'
<1>1. /\ \A w \in Workers :
           /\ w \in Workers' /\ Work(w) \in Seq(Gets \cup Stores)
           /\ w = x => Work(w)' = Queue(r)
           /\ w = y => Work(w)' = Append(Work(w), m) /\ m \in Gets \cup Stores
           /\ w # x /\ w # y => Work(w)' = Work(w)
      /\ \A w \in Workers' : w \in Workers \/ Work(w)' = <<>>
  BY WorksAt
<1>2. \A s \in Servers :
        /\ s \in Servers' /\ procs'[s].name = procs[s].name
        /\ s = x => procs'[s] = r
        /\ s # x => procs'[s].at = procs[s].at
  BY ServersAt
<1>3. ASSUME NEW s \in Servers, Reads(procs[s]) PROVE s \in Servers' /\ Reads(procs'[s])
  BY <1>2, <1>3 DEF Reads
<1>4. ASSUME NEW w \in Workers', NEW i \in DOMAIN Work(w)'
      PROVE  /\ w \in Workers
             /\ (\E j \in DOMAIN Work(w) : Work(w)'[i] = Work(w)[j]) \/ (w = y /\ Work(w)'[i] = m)
  <2>1. DOMAIN <<>> = {}
    OBVIOUS
  <2>2. w \in Workers
    BY <1>1, <1>4, <2>1
  <2>3. CASE w # x /\ w # y
    BY <1>1, <1>4, <2>2, <2>3
  <2>4. CASE w = x
    <3>1. Work(w)' = Work(w) \/ (Work(w) # <<>> /\ Work(w)' = Tail(Work(w)))
      BY <1>1, <2>2, <2>4 DEF Moved
    <3>2. Work(w) # <<>> => \A k \in DOMAIN Tail(Work(w)) :
             k + 1 \in DOMAIN Work(w) /\ Tail(Work(w))[k] = Work(w)[k + 1]
      BY <1>1, <2>2, MailTaken
    <3> QED
      BY <1>4, <2>2, <3>1, <3>2
  <2>5. CASE w = y
    <3>1. Work(w)' = Append(Work(w), m) /\ Work(w) \in Seq(Gets \cup Stores) /\ m \in Gets \cup Stores
      BY <1>1, <2>2, <2>5
    <3>2. /\ DOMAIN Append(Work(w), m) = 1 .. Len(Work(w)) + 1
          /\ DOMAIN Work(w) = 1 .. Len(Work(w)) /\ Len(Work(w)) \in Nat
          /\ \A k \in DOMAIN Work(w) : Append(Work(w), m)[k] = Work(w)[k]
          /\ Append(Work(w), m)[Len(Work(w)) + 1] = m
      BY <3>1, MailAppended
    <3>3. i \in DOMAIN Work(w) \/ i = Len(Work(w)) + 1
      BY <1>4, <3>1, <3>2
    <3> QED
      BY <2>2, <2>5, <3>1, <3>2, <3>3
  <2> QED
    BY <2>3, <2>4, <2>5
<1>5. ASSUME NEW w \in Workers', NEW i \in DOMAIN Work(w)', NEW g, g = Work(w)'[i]
      PROVE  /\ DbIdle' /\ w = DbOf(g.key)'
             /\ IsStore(g) => \E s \in Servers' : procs'[s].name = g.key /\ Reads(procs'[s])
  <2>1. CASE \E j \in DOMAIN Work(w) : g = Work(w)[j]
    <3>1. /\ w \in Workers /\ Work(w) \in Seq(Gets \cup Stores)
      BY <1>1, <1>4
    <3>2. PICK j \in DOMAIN Work(w) : g = Work(w)[j]
      BY <2>1
    <3>3. g \in Gets \cup Stores
      BY <3>1, <3>2
    <3>4. g.key \in Names
      BY <3>3 DEF Gets, Stores
    <3>5. /\ DbIdle /\ w = DbOf(g.key)
          /\ IsStore(g) => \E s \in Servers : procs[s].name = g.key /\ Reads(procs[s])
      BY <3>1, <3>2 DEF WorkInv
    <3>6. DbIdle' /\ w = DbOf(g.key)'
      BY <3>4, <3>5 DEF DbKept
    <3> QED
      BY <1>2, <1>3, <3>5, <3>6
  <2>2. CASE w = y /\ g = m
    <3>1. /\ DbIdle /\ g.key \in Names /\ w = DbOf(g.key)
          /\ IsStore(g) => x \in Servers /\ procs[x].name = g.key /\ Reads(r)
      BY <1>4, <2>2
    <3>2. DbIdle' /\ w = DbOf(g.key)'
      BY <3>1 DEF DbKept
    <3> QED
      BY <1>2, <3>1, <3>2
  <2> QED
    BY <1>4, <1>5, <2>1, <2>2
<1> QED
  BY <1>5 DEF WorkInv

\* What a server has to be after a step.
LEMMA FollowsNext ==
  ASSUME NEW s, NEW st, NEW reply, NEW n \in Names, NEW l,
         procs'[s].at = st, procs'[s].reply = reply, procs'[s].name = n, procs'[s].list = l,
         st \in {"getting", "idle", "storing"} \/ reply # NoReply => DbIdle',
         st \in {"choosing", "storing"} /\ reply # NoReply => Head(reply) = DbOf(n)',
         st = "getting" /\ reply # NoReply => Head(reply) = file'[n].list,
         st = "idle" => Lag(n, l)'
  PROVE  Follows(procs[s])'
<1>1. Follows(procs[s])' <=>
        LET q == procs'[s]
        IN  /\ q.at \in {"getting", "idle", "storing"} \/ q.reply # NoReply => DbIdle'
            /\ q.at \in {"choosing", "storing"} /\ q.reply # NoReply =>
                 Head(q.reply) = procs'[Database'].worker_list[phash2[q.name]]
            /\ q.at = "getting" /\ q.reply # NoReply => Head(q.reply) = file'[q.name].list
            /\ q.at = "idle" =>
                 LET w == procs'[Database'].worker_list[phash2[q.name]]
                 IN  Behind(procs'[w].job \o procs'[w].box, q.name, q.list, file'[q.name].list)
  BY DEF Follows, Lag, DbOf, Work
<1>2. st = "idle" =>
        LET w == procs'[Database'].worker_list[phash2[n]]
        IN  Behind(procs'[w].job \o procs'[w].box, n, l, file'[n].list)
  BY DEF Lag, DbOf, Work
<1>3. DbOf(n)' = procs'[Database'].worker_list[phash2[n]]
  BY DEF DbOf
<1> QED
  BY <1>1, <1>2, <1>3

LEMMA LagKept ==
  ASSUME DbKept, DbIdle, NEW n \in Names, NEW l, NEW w, w = DbOf(n), Work(w)' = Work(w),
         Lag(n, l), file'[n].list = file[n].list
  PROVE  Lag(n, l)'
<1>1. DbOf(n)' = w
  BY DEF DbKept
<1>2. procs'[Database'].worker_list[phash2[n]] = w /\ procs[Database].worker_list[phash2[n]] = w
  BY <1>1 DEF DbOf
<1>3. Behind(Work(w), n, l, file[n].list)
  BY <1>2 DEF Lag, DbOf
<1>4. Behind(Work(w)', n, l, file'[n].list)
  BY <1>3
<1> QED
  BY <1>2, <1>4 DEF Lag, DbOf, Work

LEMMA LagNext ==
  ASSUME DbKept, DbIdle, NEW n \in Names, NEW l, NEW w, w = DbOf(n),
         Behind(Work(w)', n, l, file'[n].list)
  PROVE  Lag(n, l)'
<1>1. DbOf(n)' = w
  BY DEF DbKept
<1>2. procs'[Database'].worker_list[phash2[n]] = w
  BY <1>1 DEF DbOf
<1> QED
  BY <1>2 DEF Lag, DbOf, Work

LEMMA ServersStep ==
  ASSUME IInv, MailInv, NEW x, NEW r, NEW y, NEW m, NEW z, NEW v, Step(x, r, y, m, z, v),
         ServerInv, DbKept,
         \A s \in Servers : s = x \/ s = z => Follows(procs[s])',
         \A s \in Servers : s # x /\ s # z => \A n \in Names : \A l : procs[s].name = n =>
           /\ procs[s].at = "getting" /\ procs[s].reply # NoReply =>
                file'[n].list = file[n].list
           /\ procs[s].at = "idle" /\ DbIdle /\ Lag(n, l) => Lag(n, l)'
  PROVE  ServerInv'
<1>1. /\ \A s \in Servers :
           /\ s \in Servers' /\ procs'[s].name = procs[s].name /\ procs[s].name \in Names
           /\ s # x => procs'[s].at = procs[s].at /\ procs'[s].list = procs[s].list
           /\ s # x /\ s # z => procs'[s].reply = procs[s].reply
      /\ \A s \in Servers' : \/ s \in Servers
                             \/ procs'[s].at = "init" /\ procs'[s].reply = NoReply
  BY ServersAt
<1>2. ASSUME NEW s \in Servers' PROVE Follows(procs[s])'
  <2>1. CASE s \in Servers /\ s # x /\ s # z
    <3>1. /\ procs'[s].at = procs[s].at /\ procs'[s].reply = procs[s].reply
          /\ procs'[s].name = procs[s].name /\ procs'[s].list = procs[s].list
          /\ procs[s].name \in Names
      BY <1>1, <2>1
    <3>2. ASSUME NEW st, NEW reply, NEW n \in Names, NEW l, st = procs[s].at,
                 reply = procs[s].reply, n = procs[s].name, l = procs[s].list
          PROVE  Follows(procs[s])'
      <4>1. /\ procs'[s].at = st /\ procs'[s].reply = reply /\ procs'[s].name = n
            /\ procs'[s].list = l
        BY <3>1, <3>2
      <4>2. /\ st \in {"getting", "idle", "storing"} \/ reply # NoReply => DbIdle
            /\ st \in {"choosing", "storing"} /\ reply # NoReply => Head(reply) = DbOf(n)
            /\ st = "getting" /\ reply # NoReply => Head(reply) = file[n].list
            /\ st = "idle" => Lag(n, l)
        BY <2>1, <3>2 DEF ServerInv, Follows
      <4>3. /\ st = "getting" /\ reply # NoReply => file'[n].list = file[n].list
            /\ st = "idle" /\ DbIdle /\ Lag(n, l) => Lag(n, l)'
        BY <2>1, <3>2
      <4>4. /\ st \in {"getting", "idle", "storing"} \/ reply # NoReply => DbIdle'
            /\ st \in {"choosing", "storing"} /\ reply # NoReply => Head(reply) = DbOf(n)'
        <5>1. DbIdle => DbIdle' /\ DbOf(n)' = DbOf(n)
          BY DEF DbKept
        <5> QED
          BY <4>2, <5>1
      <4>5. /\ st = "getting" /\ reply # NoReply => Head(reply) = file'[n].list
            /\ st = "idle" => Lag(n, l)'
        BY <4>2, <4>3
      <4> QED
        BY <4>1, <4>4, <4>5, FollowsNext
    <3> QED
      BY <3>1, <3>2
  <2>2. CASE s \in Servers /\ (s = x \/ s = z)
    BY <2>2
  <2>3. CASE s \notin Servers
    <3>1. procs'[s].at = "init" /\ procs'[s].reply = NoReply
      BY <1>1, <2>3
    <3> QED
      BY <3>1 DEF Follows
  <2> QED
    BY <2>1, <2>2, <2>3
<1> QED
  BY <1>2 DEF ServerInv

\* A step that leaves the workers and the files alone.
LEMMA QuietFiles ==
  ASSUME IInv, MailInv, NEW x, NEW r, NEW y, NEW m, NEW z, NEW v, Step(x, r, y, m, z, v),
         NoExit, FileParts, DbKept, Database' = Database, Cache' = Cache,
         exiting' \subseteq exiting \cup {Cache}, file' = file,
         x \notin Workers, y \notin Workers,
         x \in Servers => (Reads(procs[x]) => Reads(r)),
         \A s \in Servers : s = x \/ s = z => Follows(procs[s])',
         \A q \in DOMAIN procs' \ DOMAIN procs : procs'[q].kind # "database"
  PROVE  FileParts'
<1>1. OnlyCacheExits'
  BY DEF FileParts, OnlyCacheExits
<1>2. OneDatabase'
  BY OneDatabaseStep DEF FileParts
<1>3. WorkInv'
  BY WorkStep DEF FileParts, Moved
<1>4. \A w \in Workers :
        /\ w \in Workers' /\ Work(w)' = Work(w)
        /\ procs'[w].at = procs[w].at /\ procs'[w].job = procs[w].job
  BY WorksAt
<1>5. ASSUME NEW n \in Names, NEW l, DbIdle, Lag(n, l) PROVE Lag(n, l)'
  <2>1. ASSUME NEW w, w = DbOf(n) PROVE Lag(n, l)'
    <3>1. w \in Workers
      BY <1>5, <2>1, WorkerOf
    <3> QED
      BY <1>4, <1>5, <2>1, <3>1, LagKept
  <2> QED
    BY <2>1
<1>6. ServerInv'
  BY <1>5, ServersStep DEF FileParts
<1>7. PartialInv'
  <2> SUFFICES ASSUME NEW n \in Names, file[n].state = "partial"
               PROVE  \E w \in Workers' : IsWriting(procs[w], n)'
    BY DEF PartialInv
  <2>1. PICK w \in Workers : IsWriting(procs[w], n)
    BY DEF FileParts, PartialInv
  <2>2. IsWriting(procs[w], n)'
    BY <1>4, <2>1 DEF IsWriting
  <2> QED
    BY <1>4, <2>2
<1> QED
  BY <1>1, <1>2, <1>3, <1>6, <1>7 DEF FileParts

\* A step of the cache or of the client.
LEMMA OtherFiles ==
  ASSUME IInv, MailInv, NEW x, NEW r, NEW y, NEW m, Step(x, r, y, m, 0, 0),
         NoExit, FileParts, registered' = registered, exiting' = exiting, file' = file,
         x \in DOMAIN procs => procs[x].kind = "cache",
         y \in DOMAIN procs => procs[y].kind \in {"cache", "server"},
         \A q \in DOMAIN procs' \ DOMAIN procs : procs'[q].kind # "database"
  PROVE  FileParts'
<1>1. 0 \notin DOMAIN procs
  BY NewPid
<1>2. Database' = Database /\ Cache' = Cache
  BY DEF Database, Cache
<1>3. DbKept
  BY <1>2, DbNotMoved
<1>4. x \notin Workers /\ y \notin Workers /\ x \notin Servers /\ 0 \notin Servers
  BY <1>1 DEF Workers, Servers
<1> QED
  BY <1>2, <1>3, <1>4, QuietFiles

LEMMA NoneNew ==
  ASSUME NEW x, NEW r, NEW y, NEW m, NEW z, NEW v, Step(x, r, y, m, z, v), lastPid' = lastPid
  PROVE  DOMAIN procs' = DOMAIN procs
<1>1. Acts(procs, lastPid, procs', lastPid', x, r, y, m, z, v)
  BY DEF Step
<1>2. \A q \in 1 .. lastPid : ~(q > lastPid)
  BY <1>1 DEF Acts
<1> QED
  BY <1>1, <1>2 DEF Acts

\* While nothing has exited, the supervisor does nothing.
LEMMA FilesNow ==
  ASSUME FileInv, NEW x, NEW r, NEW y, NEW m, NEW z, NEW v, Step(x, r, y, m, z, v), NoExit'
  PROVE  NoExit /\ FileParts
  BY ActsNoExit DEF FileInv

LEMMA CacheFiles ==
  ASSUME IInv, MailInv, FileInv, NEW c \in DOMAIN procs,
         \/ StartDatabase(c) /\ registered.database_server # 0
         \/ DatabaseStarted(c) \/ ServerProcess(c) \/ ServerStarted(c)
  PROVE  FileInv'
<1> SUFFICES ASSUME NoExit' PROVE FileParts'
  BY DEF FileInv
<1>0. procs[c].kind = "cache"
  BY DEF StartDatabase, DatabaseStarted, ServerProcess, ServerStarted, In
<1>1. 0 \notin DOMAIN procs
  BY NewPid
<1>2. ASSUME NEW r, Step(c, r, 0, 0, 0, 0), registered' = registered, exiting' = exiting,
             file' = file, \A q \in DOMAIN procs' \ DOMAIN procs : procs'[q].kind # "database"
      PROVE  FileParts'
  <2>1. NoExit /\ FileParts
    BY <1>2, FilesNow
  <2> QED
    BY <1>0, <1>1, <1>2, <2>1, OtherFiles
<1>3. ASSUME NEW r, Step(c, r, 0, 0, 0, 0), Quiet, file' = file PROVE FileParts'
  <2>1. DOMAIN procs' = DOMAIN procs
    BY <1>3, NoneNew DEF Quiet
  <2> QED
    BY <1>2, <1>3, <2>1 DEF Quiet
<1>4. CASE (StartDatabase(c) /\ registered.database_server # 0) \/ DatabaseStarted(c)
  <2>1. procs' = Resumes(procs, c) /\ Quiet /\ file' = file
    BY <1>4 DEF StartDatabase, DatabaseStarted, Outside
  <2>2. Step(c, Asks(procs[c], "idle", 0), 0, 0, 0, 0)
    BY <1>0, <2>1, QuietCacheActs
  <2> QED
    BY <1>3, <2>1, <2>2
<1>5. CASE ServerProcess(c) /\ Message(c) \in DOMAIN procs[c].todo_servers
  <2>1. Step(c, Takes(procs[c]), 0, 0, 0, 0) /\ Quiet /\ file' = file
    BY <1>5, KnownServerActs
  <2> QED
    BY <1>3, <2>1
<1>6. CASE ServerProcess(c) /\ Message(c) \notin DOMAIN procs[c].todo_servers
  <2> DEFINE r == Starts(Asks(Takes(procs[c]), "starting server", Spawned), Message(c))
  <2>1. /\ Step(c, r, 0, 0, 0, 0)
        /\ procs'[Spawned] = NewServer(c, Message(c))
        /\ DOMAIN procs' = DOMAIN procs \cup {Spawned}
        /\ UNCHANGED <<exiting, registered>> /\ Outside
    BY <1>6, NewServerActs
  <2>2. NewServer(c, Message(c)).kind = "server"
    BY DEF NewServer, Process, With
  <2>3. \A q \in DOMAIN procs' \ DOMAIN procs : procs'[q].kind # "database"
    BY <2>1, <2>2
  <2> HIDE DEF r
  <2> QED
    BY <1>2, <2>1, <2>3 DEF Outside
<1>7. CASE ServerStarted(c)
  <2> DEFINE r == Remembers(Asks(procs[c], "idle", 0),
                            Remember(c, procs[c].todo_list_name, procs[c].on))
  <2>1. Step(c, r, 0, 0, 0, 0) /\ Quiet /\ file' = file
    BY <1>7, ServerStartedActs
  <2> HIDE DEF r
  <2> QED
    BY <1>3, <2>1
<1> QED
  BY <1>4, <1>5, <1>6, <1>7

\* A new database has nothing to do and nobody to answer.
LEMMA StartDatabaseFiles ==
  ASSUME IInv, MailInv, FileInv, NEW c \in DOMAIN procs, StartDatabase(c),
         registered.database_server = 0
  PROVE  FileInv'
<1> SUFFICES ASSUME NoExit' PROVE FileParts'
  BY DEF FileInv
<1> DEFINE r == Asks(procs[c], "starting database", Spawned)
<1>1. /\ Step(c, r, 0, 0, 0, 0)
      /\ procs'[Spawned] = NewDatabase(c) /\ Database' = Spawned
      /\ DOMAIN procs' = DOMAIN procs \cup {Spawned} /\ Spawned \notin DOMAIN procs
      /\ Cache' = Cache /\ exiting' = exiting /\ Outside
  BY StartDatabaseActs
<1> HIDE DEF r
<1>2. NoExit /\ FileParts
  BY <1>1, FilesNow
<1>3. procs[c].kind = "cache" /\ Database = 0 /\ ~DbIdle /\ 0 \notin DOMAIN procs
  BY NewPid DEF StartDatabase, In, Database, DbIdle
<1>4. \A w \in Workers : Work(w) \in Seq(Gets \cup Stores) /\ DOMAIN Work(w) = {}
  BY <1>2, <1>3, WorkTyped DEF FileParts, WorkInv
<1>5. c \notin Workers /\ c \notin Servers /\ 0 \notin Workers /\ 0 \notin Servers
  BY <1>3 DEF Workers, Servers
<1>6. OnlyCacheExits'
  BY <1>1, <1>2 DEF FileParts, OnlyCacheExits
<1>7. OneDatabase'
  <2>1. \A q \in DOMAIN procs : procs'[q].kind = procs[q].kind
    BY <1>1, ActsFields DEF MailInv, Mailed, Step
  <2>2. \A q \in DOMAIN procs : procs[q].kind # "database"
    BY <1>2, <1>3 DEF FileParts, OneDatabase
  <2> QED
    BY <1>1, <2>1, <2>2 DEF OneDatabase
<1>8. DbKept
  BY <1>3 DEF DbKept
<1>9. WorkInv'
  BY <1>1, <1>2, <1>5, <1>8, WorkStep DEF FileParts, Moved
<1>10. ServerInv'
  <2>1. \A s \in Servers : s # c /\ s # 0
    BY <1>5
  <2>2. file' = file
    BY <1>1 DEF Outside
  <2> QED
    BY <1>1, <1>2, <1>3, <1>8, <2>1, <2>2, ServersStep DEF FileParts
<1>11. PartialInv'
  <2>1. \A w \in Workers :
          /\ w \in Workers'
          /\ procs'[w].at = procs[w].at /\ procs'[w].job = procs[w].job
    BY <1>1, <1>5, WorksAt
  <2>2. file' = file
    BY <1>1 DEF Outside
  <2> SUFFICES ASSUME NEW n \in Names, file[n].state = "partial"
               PROVE  \E w \in Workers' : IsWriting(procs[w], n)'
    BY <2>2 DEF PartialInv
  <2>3. PICK w \in Workers : IsWriting(procs[w], n)
    BY <1>2 DEF FileParts, PartialInv
  <2>4. IsWriting(procs[w], n)'
    BY <2>1, <2>3 DEF IsWriting
  <2> QED
    BY <2>1, <2>4
<1> QED
  BY <1>6, <1>7, <1>9, <1>10, <1>11 DEF FileParts

\* A step after which the works and the files are what they were, and nobody
\* is answered but the cache.
LEMMA StartWorkersFiles ==
  ASSUME IInv, MailInv, FileInv, NEW d \in DOMAIN procs, StartWorkers(d)
  PROVE  FileInv'
<1> SUFFICES ASSUME NoExit' PROVE FileParts'
  BY DEF FileInv
<1>1. PICK pid \in [WorkerIds -> DOMAIN procs' \ DOMAIN procs] :
        /\ Step(d, Employs(Asks(procs[d], "idle", 0), pid), 0, 0, procs[d].parent, d)
        /\ \A q \in DOMAIN procs' \ DOMAIN procs : procs'[q] = NewWorker(d)
        /\ UNCHANGED <<exiting, registered>> /\ Outside
  BY StartWorkersActs
<1> DEFINE r == Employs(Asks(procs[d], "idle", 0), pid)
           z == procs[d].parent
<1>2. Step(d, r, 0, 0, z, d)
  BY <1>1
<1> HIDE DEF r
<1>3. NoExit /\ FileParts
  BY <1>2, FilesNow
<1>4. In(d, "database", "init")
  BY DEF StartWorkers
<1>5. procs[d].kind = "database" /\ procs[d].at # "idle" /\ 0 \notin DOMAIN procs
  BY <1>4, NewPid DEF In
<1>6. Database = d /\ ~DbIdle
  BY <1>3, <1>5 DEF FileParts, OneDatabase, DbIdle
<1>7. z \in DOMAIN procs => procs[z].kind = "cache"
  BY <1>5 DEF MailInv, Mailed, AllRefer, Refers, IsPid
<1>8. d \notin Workers /\ d \notin Servers /\ z \notin Servers /\ 0 \notin Workers
  BY <1>5, <1>7 DEF Workers, Servers
<1>9. Database' = Database /\ Cache' = Cache /\ file' = file /\ exiting' = exiting
  BY <1>1 DEF Database, Cache, Outside
<1>10. DbKept
  BY <1>6 DEF DbKept
<1>11. \A q \in DOMAIN procs' \ DOMAIN procs : procs'[q].kind # "database"
  <2>1. NewWorker(d).kind = "worker"
    BY DEF NewWorker, Process, With
  <2> QED
    BY <1>1, <2>1
<1>12. \A s \in Servers : s # d /\ s # z
  BY <1>8
<1> HIDE DEF z
<1> QED
  BY <1>2, <1>3, <1>8, <1>9, <1>10, <1>11, <1>12, QuietFiles

LEMMA TerminateFiles ==
  ASSUME IInv, NEW p \in DOMAIN procs, Terminate(p), lastPid' = lastPid
  PROVE  FileInv'
  BY TerminateExit DEF FileInv

LEMMA FilesSame ==
  ASSUME UNCHANGED <<procs, lastPid, registered, file>>, FileInv, OnlyCacheExits => OnlyCacheExits'
  PROVE  FileInv'
<1>1. Database' = Database /\ Servers' = Servers /\ Workers' = Workers /\ (NoExit' <=> NoExit)
  BY DEF Database, Servers, Workers, NoExit
<1>2. OneDatabase => OneDatabase'
  BY <1>1 DEF OneDatabase
<1>3. DbIdle' <=> DbIdle
  BY <1>1 DEF DbIdle
<1>4. \A n : DbOf(n)' = DbOf(n)
  BY <1>1 DEF DbOf
<1>5. \A w : Work(w)' = Work(w)
  BY DEF Work
<1>6. WorkInv => WorkInv'
  BY <1>1, <1>3, <1>4, <1>5 DEF WorkInv
<1>7. ServerInv => ServerInv'
  <2>1. ASSUME NEW r, Follows(procs[r]) PROVE Follows(procs[r])'
    BY <2>1, <1>1 DEF Follows, DbIdle, DbOf, Lag, Work
  <2> QED
    BY <1>1, <2>1 DEF ServerInv
<1>8. PartialInv => PartialInv'
  BY <1>1 DEF PartialInv, IsWriting
<1> QED
  BY <1>1, <1>2, <1>6, <1>7, <1>8 DEF FileInv, FileParts

LEMMA EnvironmentFiles ==
  ASSUME IInv, MessageInv, FileInv, Answered \/ NotAnswered \/ Environment
  PROVE  FileInv'
<1>0. MailInv /\ ClientInv /\ BudgetInv
  BY DEF MessageInv
<1>1. CASE Answered \/ NotAnswered
  <2>1. UNCHANGED <<procs, lastPid, exiting, registered, file>>
    BY <1>1 DEF Answered, NotAnswered, Quiet
  <2> QED
    BY <2>1, FilesSame DEF OnlyCacheExits, Cache
<1>2. ASSUME Kill PROVE FileInv'
  <2>1. UNCHANGED <<procs, lastPid, registered, file>> /\ exiting' = exiting \cup {Cache}
    BY <1>2 DEF Kill, Cache
  <2>2. OnlyCacheExits => OnlyCacheExits'
    BY <2>1 DEF OnlyCacheExits, Cache
  <2> QED
    BY <2>1, <2>2, FilesSame
<1>3. ASSUME NEW p, NEW m, Quiet, file' = file, procs' = Sent(procs, p, m),
             p \in DOMAIN procs => /\ procs[p].kind \in {"cache", "server"}
                                   /\ m \in Mail(procs[p].kind)
      PROVE  FileInv'
  <2> SUFFICES ASSUME NoExit' PROVE FileParts'
    BY DEF FileInv
  <2>1. Step(0, 0, p, m, 0, 0)
    BY <1>0, <1>3, ClientActs
  <2>2. NoExit /\ FileParts
    BY <2>1, FilesNow
  <2>3. DOMAIN procs' = DOMAIN procs
    BY <1>3, <2>1, NoneNew DEF Quiet
  <2>4. 0 \notin DOMAIN procs
    BY NewPid
  <2> QED
    BY <1>0, <1>3, <2>1, <2>2, <2>3, <2>4, OtherFiles DEF Quiet
<1>4. ASSUME UNCHANGED <<procs, lastPid, exiting, registered, file>> PROVE FileInv'
  BY <1>4, FilesSame DEF OnlyCacheExits, Cache
<1>5. ASSUME NEW n \in budget.names, Ask(n) PROVE FileInv'
  <2>1. n \in Names
    BY <1>0 DEF BudgetInv
  <2>2. /\ Quiet /\ file' = file
        /\ \/ Alive(Cache) /\ procs' = Sent(procs, Cache, n)
           \/ procs' = procs
    BY <1>5 DEF Ask, Calls, Cache
  <2>3. Alive(Cache) => procs[Cache].kind = "cache" /\ n \in Mail(procs[Cache].kind)
    <3>1. Alive(Cache) => Cache # 0
      BY NewPid DEF Alive
    <3> QED
      BY <2>1, <3>1 DEF Mail, IInv, CacheInv
  <2> QED
    BY <1>3, <1>4, <2>2, <2>3 DEF Alive, Quiet
<1>6. client.at = "ready" /\ client.pid \in DOMAIN procs => procs[client.pid].kind = "server"
  BY <1>0 DEF ClientInv, ClientTyped, IsPid
<1>7. ASSUME NEW d \in Dates, ReadEntries(d) PROVE FileInv'
  <2> DEFINE m == [op |-> "entries", date |-> d]
  <2>1. m \in Queries
    BY DEF Queries
  <2>2. /\ Quiet /\ file' = file /\ client.at = "ready"
        /\ \/ Alive(client.pid) /\ procs' = Sent(procs, client.pid, m)
           \/ procs' = procs
    BY <1>7 DEF ReadEntries, Calls
  <2>3. Alive(client.pid) => /\ procs[client.pid].kind = "server"
                             /\ m \in Mail(procs[client.pid].kind)
    BY <1>6, <2>1, <2>2 DEF Mail, Alive
  <2> HIDE DEF m
  <2> QED
    BY <1>3, <1>4, <2>2, <2>3 DEF Alive, Quiet
<1>8. ASSUME NEW m \in Casts, Cast(m) PROVE FileInv'
  <2>1. Quiet /\ file' = file /\ procs' = Sent(procs, client.pid, m) /\ client.at = "ready"
    BY <1>8 DEF Cast
  <2>2. client.pid \in DOMAIN procs => /\ procs[client.pid].kind = "server"
                                       /\ m \in Mail(procs[client.pid].kind)
    BY <1>6, <2>1 DEF Mail
  <2> QED
    BY <1>3, <2>1, <2>2
<1> QED
  BY <1>1, <1>2, <1>5, <1>7, <1>8 DEF Environment

LEMMA RestartFiles ==
  ASSUME IInv, FileInv, Restart
  PROVE  FileInv'
<1>1. Cache = 0
  BY DEF Restart, Cache
<1>2. ~NoExit
  BY <1>1 DEF FileInv, FileParts, OnlyCacheExits
<1>3. CASE StartCache
  <2>1. DOMAIN procs' = DOMAIN procs \cup {Spawned} /\ lastPid' = Spawned
    BY <1>3 DEF StartCache, With, Only
  <2>2. lastPid \in Nat /\ DOMAIN procs \subseteq 1 .. lastPid
    BY DEF IInv, ProcessInv
  <2>3. 1 .. Spawned = (1 .. lastPid) \cup {Spawned} /\ Spawned \notin 1 .. lastPid
    BY <2>2 DEF Spawned
  <2>4. NoExit' => NoExit
    BY <2>1, <2>2, <2>3 DEF NoExit
  <2> QED
    BY <1>2, <2>4 DEF FileInv
<1>4. CASE UNCHANGED <<procs, lastPid, links, exiting, registered>>
  BY <1>2, <1>4 DEF FileInv, NoExit
<1> QED
  BY <1>3, <1>4 DEF Restart

\* A step of a server that gives the workers nothing to do.
LEMMA ServerQuiet ==
  ASSUME IInv, MailInv, NEW s \in Servers, NEW r, NEW y, NEW m, NEW z, NEW v,
         Step(s, r, y, m, z, v), NoExit, FileParts, Quiet, file' = file,
         y \notin Workers, z \notin Servers,
         Reads(procs[s]) => Reads(r),
         DbKept /\ procs'[s] = r => Follows(procs[s])'
  PROVE  FileParts'
<1>1. Database' = Database /\ Cache' = Cache /\ exiting' = exiting
  BY DEF Quiet, Database, Cache
<1>2. DbKept
  BY <1>1, DbNotMoved DEF Servers
<1>3. procs'[s] = r
  BY ServersAt
<1>4. DOMAIN procs' = DOMAIN procs
  BY NoneNew DEF Quiet
<1>5. s \notin Workers
  BY DEF Servers, Workers
<1>6. \A t \in Servers : t = s \/ t = z => Follows(procs[t])'
  BY <1>2, <1>3
<1> QED
  BY <1>1, <1>2, <1>4, <1>5, <1>6, QuietFiles

LEMMA NotZero ==
  ASSUME IInv
  PROVE  0 \notin Workers /\ 0 \notin Servers
  BY NewPid DEF Workers, Servers

LEMMA NotWorker ==
  ASSUME IInv, MailInv
  PROVE  Database \notin Workers
  BY NotZero DEF Workers, MailInv

LEMMA ServerInitFiles ==
  ASSUME IInv, MailInv, FileInv, NEW s \in DOMAIN procs, ServerInit(s)
  PROVE  FileInv'
<1>1. CASE registered.database_server = 0
  <2>1. Terminate(s) /\ lastPid' = lastPid
    BY <1>1 DEF ServerInit, CallDatabase
  <2> QED
    BY <2>1, TerminateFiles
<1>2. CASE registered.database_server # 0
  <2> SUFFICES ASSUME NoExit' PROVE FileParts'
    BY DEF FileInv
  <2> DEFINE g == "choosing"
             r == Asks(procs[s], g, Database)
             m == [from |-> s, key |-> procs[s].name]
  <2>1. Step(s, r, Database, m, 0, 0) /\ Quiet /\ Outside
    BY <1>2, ServerInitActs
  <2>2. In(s, "server", "init")
    BY DEF ServerInit
  <2>3. s \in Servers /\ ~Reads(procs[s]) /\ Typed(procs[s]) /\ procs[s].name \in Names
    BY <2>2 DEF In, Servers, Reads, MailInv, Mailed, AllTyped, Typed
  <2>4. g \notin {"getting", "idle", "storing"}
    OBVIOUS
  <2> HIDE DEF g
  <2>5. r.at = g /\ r.reply = NoReply
    BY <2>3, AsksFields
  <2> HIDE DEF r, m
  <2>6. NoExit /\ FileParts
    BY <2>1, FilesNow
  <2>7. ASSUME procs'[s] = r PROVE Follows(procs[s])'
    <3>1. procs'[s].at = g /\ procs'[s].reply = NoReply
      BY <2>5, <2>7
    <3> QED
      BY <2>4, <3>1 DEF Follows
  <2> QED
    BY <2>1, <2>3, <2>6, <2>7, NotZero, NotWorker, ServerQuiet DEF Outside
<1> QED
  BY <1>1, <1>2

LEMMA HandleCastFiles ==
  ASSUME IInv, MailInv, FileInv, NEW s \in DOMAIN procs, HandleCast(s)
  PROVE  FileInv'
<1> DEFINE raises == Message(s).op = "update_entry"
                       /\ Raises(procs[s].list, Message(s).id, Message(s).sameId)
<1>1. CASE registered.database_server = 0 \/ raises
  <2>1. Terminate(s) /\ lastPid' = lastPid
    BY <1>1 DEF HandleCast, CallDatabase
  <2> QED
    BY <2>1, TerminateFiles
<1>2. CASE registered.database_server # 0 /\ ~raises
  <2> SUFFICES ASSUME NoExit' PROVE FileParts'
    BY DEF FileInv
  <2> DEFINE g == "storing"
             q == Loads(Takes(procs[s]), Changed(procs[s].list, Message(s)))
             r == Asks(q, g, Database)
             m == [from |-> s, key |-> procs[s].name]
  <2>1. Step(s, r, Database, m, 0, 0) /\ Quiet /\ Outside
    BY <1>2, HandleCastActs
  <2>2. In(s, "server", "idle") /\ HasMail(s)
    BY DEF HandleCast
  <2>3. s \in Servers /\ Typed(procs[s]) /\ procs[s].name \in Names
    BY <2>2 DEF In, Servers, MailInv, Mailed, AllTyped, Typed
  <2>0. g = "storing"
    OBVIOUS
  <2> HIDE DEF g
  <2>5. r.at = g /\ r.reply = NoReply
    <3>1. /\ DOMAIN Takes(procs[s]) = DOMAIN procs[s] /\ Takes(procs[s]).kind = "server"
          /\ Typed(Takes(procs[s]))
      BY <2>2, <2>3, TakesFields DEF HasMail, Servers
    <3>2. DOMAIN q = DOMAIN procs[s]
      BY <3>1, LoadsFields
    <3>3. {"at", "reply"} \subseteq DOMAIN q
      BY <2>3, <3>2 DEF Typed, Fields
    <3> QED
      BY <3>3 DEF Asks
  <2> HIDE DEF r, m, q, raises
  <2>4. Reads(r)
    BY <2>0, <2>5 DEF Reads
  <2>6. NoExit /\ FileParts
    BY <2>1, FilesNow
  <2>8. DbIdle
    BY <2>2, <2>3, <2>6 DEF FileParts, ServerInv, Follows, In
  <2>7. ASSUME procs'[s] = r, DbKept PROVE Follows(procs[s])'
    <3>1. procs'[s].at = g /\ procs'[s].reply = NoReply
      BY <2>5, <2>7
    <3>2. DbIdle'
      BY <2>7, <2>8 DEF DbKept
    <3> QED
      BY <2>0, <3>1, <3>2 DEF Follows
  <2> QED
    BY <2>1, <2>3, <2>4, <2>6, <2>7, NotZero, NotWorker, ServerQuiet DEF Outside
<1> QED
  BY <1>1, <1>2

LEMMA HandleEntriesFiles ==
  ASSUME IInv, MailInv, FileInv, NEW s \in DOMAIN procs, HandleEntries(s)
  PROVE  FileInv'
<1> SUFFICES ASSUME NoExit' PROVE FileParts'
  BY DEF FileInv
<1> DEFINE r == Takes(procs[s])
<1>1. Step(s, r, 0, 0, 0, 0)
  BY HandleEntriesActs
<1>2. In(s, "server", "idle") /\ Quiet /\ file' = file
  BY DEF HandleEntries
<1>3. s \in Servers /\ Typed(procs[s]) /\ procs[s].name \in Names
  BY <1>2 DEF In, Servers, MailInv, Mailed, AllTyped, Typed
<1>4. /\ r.at = procs[s].at /\ r.reply = procs[s].reply
      /\ r.name = procs[s].name /\ r.list = procs[s].list
  BY <1>3, TakesFields DEF Servers
<1> HIDE DEF r
<1>5. NoExit /\ FileParts /\ Follows(procs[s])
  BY <1>1, <1>3, FilesNow DEF FileParts, ServerInv
<1>6. ASSUME procs'[s] = r, DbKept PROVE Follows(procs[s])'
  <2>1. \A w \in Workers : Work(w)' = Work(w)
    <3>1. s \notin Workers
      BY <1>3 DEF Servers, Workers
    <3> QED
      BY <1>1, <3>1, NotZero, WorksAt
  <2>2. ASSUME NEW st, NEW reply, NEW n \in Names, NEW l, st = procs[s].at,
               reply = procs[s].reply, n = procs[s].name, l = procs[s].list
        PROVE  Follows(procs[s])'
    <3>1. /\ procs'[s].at = st /\ procs'[s].reply = reply /\ procs'[s].name = n
          /\ procs'[s].list = l
      BY <1>4, <1>6, <2>2
    <3>2. st = "idle" /\ DbIdle /\ Lag(n, l)
      BY <1>2, <1>5, <2>2 DEF Follows, In
    <3>3. DbIdle'
      BY <1>6, <3>2 DEF DbKept
    <3>4. Lag(n, l)'
      <4>1. ASSUME NEW w, w = DbOf(n) PROVE Lag(n, l)'
        <5>1. w \in Workers
          BY <1>5, <3>2, <4>1, WorkerOf
        <5>2. Work(w)' = Work(w)
          BY <2>1, <5>1
        <5> QED
          BY <1>2, <1>6, <3>2, <4>1, <5>2, LagKept
      <4> QED
        BY <4>1
    <3>5. st \notin {"choosing", "storing"} /\ st # "getting"
      BY <3>2
    <3> QED
      BY <3>1, <3>3, <3>4, <3>5, FollowsNext
  <2> QED
    BY <1>3, <2>2
<1> QED
  BY <1>1, <1>2, <1>3, <1>4, <1>5, <1>6, NotZero, ServerQuiet DEF Reads

LEMMA Chosen ==
  ASSUME NEW t, NEW key \in Names, NEW v, DbIdle, DbKept, v = DbOf(key),
         procs'[t].name = key, procs'[t].at \in {"choosing", "storing"}, procs'[t].reply = <<v>>
  PROVE  Follows(procs[t])'
<1>1. DbIdle' /\ v = DbOf(key)'
  BY DEF DbKept
<1>2. ASSUME NEW st, NEW l, st = procs'[t].at, l = procs'[t].list PROVE Follows(procs[t])'
  <2>1. st \in {"choosing", "storing"} /\ st # "getting" /\ st # "idle" /\ Head(<<v>>) = v
    BY <1>2
  <2> QED
    BY <1>1, <1>2, <2>1, FollowsNext
<1> QED
  BY <1>2

\* The database's only other step: it names the worker of the list.
LEMMA ChooseWorkerFiles ==
  ASSUME IInv, MailInv, FileInv, NEW d \in DOMAIN procs, ChooseWorker(d)
  PROVE  FileInv'
<1> SUFFICES ASSUME NoExit' PROVE FileParts'
  BY DEF FileInv
<1> DEFINE r == Takes(procs[d])
           z == Message(d).from
           key == Message(d).key
           v == procs[d].worker_list[phash2[key]]
<1>1. /\ Step(d, r, 0, 0, z, v) /\ Quiet /\ Outside
      /\ Message(d) = procs[d].box[1] /\ Message(d) \in Requests
  BY ChooseWorkerActs
<1>2. In(d, "database", "idle") /\ HasMail(d)
  BY DEF ChooseWorker
<1>3. procs[d].kind = "database" /\ procs[d].at = "idle" /\ procs[d].box # <<>> /\ Typed(procs[d])
  BY <1>2 DEF In, HasMail, MailInv, Mailed, AllTyped
<1>4. r.at = procs[d].at /\ r.worker_list = procs[d].worker_list
  BY <1>3, TakesFields
<1> HIDE DEF r
<1>5. NoExit /\ FileParts
  BY <1>1, FilesNow
<1>6. d = Database /\ DbIdle /\ v = DbOf(key)
  <2>1. d = Database /\ d # 0
    BY <1>3, <1>5, NewPid DEF FileParts, OneDatabase
  <2> QED
    BY <1>3, <2>1 DEF DbIdle, DbOf
<1>7. Database' = Database /\ Cache' = Cache /\ exiting' = exiting /\ file' = file
  BY <1>1 DEF Quiet, Outside, Database, Cache
<1>8. DbKept
  BY <1>1, <1>4, <1>7, DbStays
<1>9. d \notin Workers /\ d \notin Servers
  BY <1>3 DEF Workers, Servers
<1>10. key \in Names
  BY <1>1 DEF Requests
<1>11. z \in Servers => Awaits(procs[z], d, "database", key)
  <2>1. 1 \in DOMAIN procs[d].box /\ IsCall(procs[d], 1)
    <3>1. procs[d].box \in Seq(Requests)
      BY <1>3 DEF Typed, Mail
    <3> QED
      BY <1>3, <3>1, MailTaken DEF IsCall
  <2>2. Called(procs, lastPid, d, 1)
    BY <2>1 DEF MailInv, Mailed, AllCalled
  <2>3. z \in DOMAIN procs => Awaits(procs[z], d, procs[d].kind, key)
    BY <1>1, <2>2 DEF Called
  <2> QED
    BY <1>3, <2>3 DEF Servers
<1> HIDE DEF v, z, key
<1>12. ASSUME NEW t \in Servers, t = d \/ t = z PROVE Follows(procs[t])'
  <2>1. Awaits(procs[t], d, "database", key) /\ t # d /\ t = z
    BY <1>9, <1>11, <1>12
  <2>2. procs[t].name = key /\ procs[t].at \in {"choosing", "storing"}
    BY <2>1 DEF Awaits
  <2>3. procs'[t].name = key /\ procs'[t].at = procs[t].at /\ procs'[t].reply = <<v>>
    BY <1>1, <2>1, <2>2, ServersAt
  <2>4. ASSUME NEW n, NEW u, n = key, u = v PROVE Follows(procs[t])'
    BY <1>6, <1>8, <1>10, <2>2, <2>3, <2>4, Chosen
  <2> QED
    BY <2>4
<1>13. DOMAIN procs' = DOMAIN procs
  BY <1>1, NoneNew DEF Quiet
<1> QED
  BY <1>1, <1>5, <1>7, <1>8, <1>9, <1>12, <1>13, NotZero, QuietFiles

\* No worker has to store the list of a server that has not read its file.
LEMMA NothingPending ==
  ASSUME IInv, FileParts, NEW s \in Servers, ~Reads(procs[s]), NEW w \in Workers
  PROVE  PendingIn(Work(w), procs[s].name) = {}
<1> SUFFICES ASSUME NEW i \in PendingIn(Work(w), procs[s].name) PROVE FALSE
  OBVIOUS
<1>1. i \in DOMAIN Work(w) /\ IsStore(Work(w)[i]) /\ Work(w)[i].key = procs[s].name
  BY DEF PendingIn
<1>2. PICK t \in Servers : procs[t].name = procs[s].name /\ Reads(procs[t])
  BY <1>1 DEF FileParts, WorkInv
<1>3. t = s
  BY <1>2, SoleServer DEF FileParts
<1> QED
  BY <1>2, <1>3

LEMMA ServerReadyFiles ==
  ASSUME IInv, MailInv, FileInv, NEW s \in DOMAIN procs, ServerReady(s)
  PROVE  FileInv'
<1> SUFFICES ASSUME NoExit' PROVE FileParts'
  BY DEF FileInv
<1> DEFINE g == "idle"
           q == Asks(procs[s], g, 0)
           a == Reply(s)
           r == Loads(q, a)
           z == procs[s].parent
<1>0. g = "idle"
  OBVIOUS
<1>1. Step(s, r, 0, 0, z, s) /\ Quiet /\ Outside
  BY ServerReadyActs
<1>2. In(s, "server", "getting") /\ HasReply(s)
  BY DEF ServerReady
<1>3. s \in Servers /\ Typed(procs[s]) /\ procs[s].name \in Names /\ procs[s].kind = "server"
  BY <1>2 DEF In, Servers, MailInv, Mailed, AllTyped, Typed
<1>4. z \notin Servers
  <2>1. z \in DOMAIN procs => procs[z].kind = "cache"
    BY <1>3 DEF MailInv, Mailed, AllRefer, Refers, IsPid
  <2> QED
    BY <2>1 DEF Servers
<1> HIDE DEF g
<1>5. r.at = g /\ r.reply = NoReply /\ r.name = procs[s].name /\ r.list = a
  <2>1. /\ q.at = g /\ q.reply = NoReply /\ q.kind = "server" /\ q.name = procs[s].name
        /\ DOMAIN q = DOMAIN procs[s]
    BY <1>3, AsksFields, AsksOwnFields
  <2>2. {"at", "reply", "name", "list"} \subseteq DOMAIN q
    BY <1>3, <2>1 DEF Typed, Fields
  <2> HIDE DEF q, a
  <2> QED
    BY <2>1, <2>2 DEF Loads
<1> HIDE DEF r, z
<1>6. NoExit /\ FileParts
  BY <1>1, FilesNow
<1>7. ~Reads(procs[s]) /\ DbIdle /\ a = file[procs[s].name].list
  <2>1. procs[s].at = "getting" /\ procs[s].reply # NoReply
    BY <1>2 DEF In, HasReply
  <2>2. Follows(procs[s])
    BY <1>3, <1>6 DEF FileParts, ServerInv
  <2>3. DbIdle /\ Head(procs[s].reply) = file[procs[s].name].list
    BY <2>1, <2>2 DEF Follows
  <2>4. ~Reads(procs[s])
    BY <2>1 DEF Reads
  <2> QED
    BY <2>3, <2>4 DEF Reply
<1> HIDE DEF a
<1>8. file' = file
  BY <1>1 DEF Outside
<1>9. ASSUME procs'[s] = r, DbKept PROVE Follows(procs[s])'
  <2>1. ASSUME NEW st, NEW reply, NEW n \in Names, NEW l, st = g, reply = NoReply,
               n = procs[s].name, l = a
        PROVE  Follows(procs[s])'
    <3>1. /\ procs'[s].at = st /\ procs'[s].reply = reply /\ procs'[s].name = n
          /\ procs'[s].list = l
      BY <1>5, <1>9, <2>1
    <3>2. DbIdle'
      BY <1>7, <1>9 DEF DbKept
    <3>3. ASSUME NEW w, w = DbOf(n) PROVE Lag(n, l)'
      <4>1. w \in Workers
        BY <1>6, <1>7, <3>3, WorkerOf
      <4>2. PendingIn(Work(w), n) = {}
        BY <1>3, <1>6, <1>7, <2>1, <4>1, NothingPending
      <4>3. l = file[n].list
        BY <1>7, <2>1
      <4>4. Lag(n, l)
        BY <3>3, <4>2, <4>3 DEF Lag, Behind
      <4>5. Work(w)' = Work(w)
        <5>1. s \notin Workers /\ w # 0
          BY <1>3, <4>1, NotZero DEF Workers
        <5> QED
          BY <1>1, <4>1, <5>1, WorksAt
      <4> QED
        BY <1>7, <1>8, <1>9, <3>3, <4>4, <4>5, LagKept
    <3>4. Lag(n, l)'
      BY <3>3
    <3>5. st \notin {"choosing", "storing"} /\ st # "getting"
      BY <1>0, <2>1
    <3> QED
      BY <2>1, <3>1, <3>2, <3>4, <3>5, FollowsNext
  <2> QED
    BY <1>3, <2>1
<1> QED
  BY <1>1, <1>3, <1>4, <1>6, <1>7, <1>8, <1>9, NotZero, ServerQuiet

\* A server sends its worker a message about its own list.
LEMMA MailFiles ==
  ASSUME IInv, MailInv, NEW s \in Servers, NEW r, NEW y, NEW m,
         Step(s, r, y, m, 0, 0), NoExit, FileParts, Quiet, file' = file,
         DbIdle, m.key \in Names, m.key = procs[s].name, y = DbOf(m.key),
         IsStore(m) => Reads(r), Reads(procs[s]) => Reads(r),
         DbKept /\ procs'[s] = r => Follows(procs[s])'
  PROVE  FileParts'
<1>1. Database' = Database /\ Cache' = Cache /\ exiting' = exiting
  BY DEF Quiet, Database, Cache
<1>2. DbKept
  BY <1>1, DbNotMoved DEF Servers
<1>3. procs'[s] = r
  BY ServersAt
<1>4. DOMAIN procs' = DOMAIN procs
  BY NoneNew DEF Quiet
<1>5. s \notin Workers /\ 0 \notin Servers
  BY NotZero DEF Servers, Workers
<1>6. OnlyCacheExits' /\ OneDatabase'
  BY <1>1, <1>4, OneDatabaseStep DEF FileParts, OnlyCacheExits
<1>7. WorkInv'
  BY <1>2, <1>5, WorkStep DEF FileParts, Moved
<1>8. \A w \in Workers :
        /\ w \in Workers' /\ Work(w) \in Seq(Gets \cup Stores)
        /\ w = y => Work(w)' = Append(Work(w), m) /\ m \in Gets \cup Stores
        /\ w # y => Work(w)' = Work(w)
        /\ procs'[w].at = procs[w].at /\ procs'[w].job = procs[w].job
  BY <1>5, WorksAt
<1>9. ASSUME NEW n \in Names, NEW l, DbIdle, Lag(n, l), n # m.key PROVE Lag(n, l)'
  <2>1. ASSUME NEW w, w = DbOf(n) PROVE Lag(n, l)'
    <3>1. w \in Workers
      BY <1>9, <2>1, WorkerOf
    <3>2. CASE w # y
      BY <1>2, <1>8, <1>9, <2>1, <3>1, <3>2, LagKept
    <3>3. CASE w = y
      <4>1. Behind(Work(w), n, l, file[n].list)
        BY <1>9, <2>1 DEF Lag
      <4>2. ~StoreOf(m, n)
        BY <1>9 DEF StoreOf
      <4>3. Behind(Append(Work(w), m), n, l, file[n].list)
        BY <1>8, <3>1, <3>3, <4>1, <4>2, BehindAppended
      <4>4. Behind(Work(w)', n, l, file'[n].list)
        BY <1>8, <3>1, <3>3, <4>3
      <4> QED
        BY <1>2, <1>9, <2>1, <4>4, LagNext
    <3> QED
      BY <3>2, <3>3
  <2> QED
    BY <2>1
<1>10. ServerInv'
  <2>1. ASSUME NEW t \in Servers, t # s PROVE procs[t].name # m.key
    BY <2>1, SoleServer DEF FileParts
  <2>2. \A t \in Servers : t = s \/ t = 0 => Follows(procs[t])'
    BY <1>2, <1>3, <1>5
  <2> QED
    BY <1>2, <1>9, <2>1, <2>2, ServersStep DEF FileParts
<1>11. PartialInv'
  <2> SUFFICES ASSUME NEW n \in Names, file[n].state = "partial"
               PROVE  \E w \in Workers' : IsWriting(procs[w], n)'
    BY DEF PartialInv
  <2>1. PICK w \in Workers : IsWriting(procs[w], n)
    BY DEF FileParts, PartialInv
  <2>2. IsWriting(procs[w], n)'
    BY <1>8, <2>1 DEF IsWriting
  <2> QED
    BY <1>8, <2>2
<1> QED
  BY <1>6, <1>7, <1>10, <1>11 DEF FileParts

LEMMA ServerGetFiles ==
  ASSUME IInv, MailInv, FileInv, NEW s \in DOMAIN procs, ServerGet(s)
  PROVE  FileInv'
<1>1. CASE ~Alive(Reply(s))
  <2>1. Terminate(s) /\ lastPid' = lastPid
    BY <1>1 DEF ServerGet
  <2> QED
    BY <2>1, TerminateFiles
<1>2. CASE Alive(Reply(s))
  <2> SUFFICES ASSUME NoExit' PROVE FileParts'
    BY DEF FileInv
  <2> DEFINE g == "getting"
             y == Reply(s)
             r == Asks(procs[s], g, y)
             m == [op |-> "get", from |-> s, key |-> procs[s].name]
  <2>0. g = "getting" /\ m.key = procs[s].name /\ ~IsStore(m)
    BY DEF IsStore
  <2>1. Step(s, r, y, m, 0, 0) /\ Quiet /\ Outside
    BY <1>2, ServerGetActs
  <2>2. In(s, "server", "choosing") /\ HasReply(s)
    BY DEF ServerGet
  <2>3. s \in Servers /\ Typed(procs[s]) /\ procs[s].name \in Names
    BY <2>2 DEF In, Servers, MailInv, Mailed, AllTyped, Typed
  <2> HIDE DEF g, m
  <2>4. r.at = g /\ r.reply = NoReply
    BY <2>3, AsksFields
  <2> HIDE DEF r
  <2>5. NoExit /\ FileParts
    BY <2>1, FilesNow
  <2>6. ~Reads(procs[s]) /\ DbIdle /\ y = DbOf(procs[s].name)
    <3>1. procs[s].at = "choosing" /\ procs[s].reply # NoReply
      BY <2>2 DEF In, HasReply
    <3>2. Follows(procs[s])
      BY <2>3, <2>5 DEF FileParts, ServerInv
    <3>3. DbIdle /\ Head(procs[s].reply) = DbOf(procs[s].name)
      BY <3>1, <3>2 DEF Follows
    <3>4. ~Reads(procs[s])
      BY <3>1 DEF Reads
    <3> QED
      BY <3>3, <3>4 DEF Reply
  <2> HIDE DEF y
  <2>7. ASSUME procs'[s] = r, DbKept PROVE Follows(procs[s])'
    <3>1. procs'[s].at = g /\ procs'[s].reply = NoReply
      BY <2>4, <2>7
    <3>2. DbIdle'
      BY <2>6, <2>7 DEF DbKept
    <3> QED
      BY <2>0, <3>1, <3>2 DEF Follows
  <2>8. y = DbOf(m.key)
    BY <2>0, <2>6
  <2> QED
    BY <2>0, <2>1, <2>3, <2>5, <2>6, <2>7, <2>8, MailFiles DEF Outside
<1> QED
  BY <1>1, <1>2

LEMMA ServerStoreFiles ==
  ASSUME IInv, MailInv, FileInv, NEW s \in DOMAIN procs, ServerStore(s)
  PROVE  FileInv'
<1> SUFFICES ASSUME NoExit' PROVE FileParts'
  BY DEF FileInv
<1> DEFINE g == "idle"
           y == Reply(s)
           r == Asks(procs[s], g, 0)
           m == [op |-> "store", key |-> procs[s].name, data |-> procs[s].list]
<1>0. g = "idle" /\ m.key = procs[s].name /\ IsStore(m) /\ m.data = procs[s].list
  BY DEF IsStore
<1>1. Step(s, r, y, m, 0, 0) /\ Quiet /\ Outside
  BY ServerStoreActs
<1>2. In(s, "server", "storing") /\ HasReply(s)
  BY DEF ServerStore
<1>3. s \in Servers /\ Typed(procs[s]) /\ procs[s].name \in Names /\ procs[s].kind = "server"
  BY <1>2 DEF In, Servers, MailInv, Mailed, AllTyped, Typed
<1> HIDE DEF g, m
<1>4. /\ r.at = g /\ r.reply = NoReply /\ r.name = procs[s].name /\ r.list = procs[s].list
  BY <1>3, AsksFields, AsksOwnFields
<1> HIDE DEF r
<1>5. Reads(r)
  BY <1>0, <1>4 DEF Reads
<1>6. NoExit /\ FileParts
  BY <1>1, FilesNow
<1>7. DbIdle /\ y = DbOf(procs[s].name)
  <2>1. procs[s].at = "storing" /\ procs[s].reply # NoReply
    BY <1>2 DEF In, HasReply
  <2>2. Follows(procs[s])
    BY <1>3, <1>6 DEF FileParts, ServerInv
  <2>3. DbIdle /\ Head(procs[s].reply) = DbOf(procs[s].name)
    BY <2>1, <2>2 DEF Follows
  <2> QED
    BY <2>3 DEF Reply
<1> HIDE DEF y
<1>8. ASSUME procs'[s] = r, DbKept PROVE Follows(procs[s])'
  <2>1. ASSUME NEW st, NEW reply, NEW n \in Names, NEW l, NEW k, st = g, reply = NoReply,
               n = procs[s].name, l = procs[s].list, k = m
        PROVE  Follows(procs[s])'
    <3>1. /\ procs'[s].at = st /\ procs'[s].reply = reply /\ procs'[s].name = n
          /\ procs'[s].list = l
      BY <1>4, <1>8, <2>1
    <3>2. DbIdle'
      BY <1>7, <1>8 DEF DbKept
    <3>3. ASSUME NEW w, w = DbOf(n) PROVE Lag(n, l)'
      <4>1. w \in Workers /\ w = y
        BY <1>6, <1>7, <2>1, <3>3, WorkerOf
      <4>2. Work(w) \in Seq(Gets \cup Stores) /\ Work(w)' = Append(Work(w), k) /\ k \in Gets \cup Stores
        BY <1>1, <2>1, <4>1, WorksAt
      <4>3. StoreOf(k, n) /\ k.data = l
        BY <1>0, <2>1 DEF StoreOf
      <4>4. Behind(Append(Work(w), k), n, l, file'[n].list)
        BY <4>2, <4>3, BehindAppended
      <4>5. Behind(Work(w)', n, l, file'[n].list)
        BY <4>2, <4>4
      <4> QED
        BY <1>7, <1>8, <3>3, <4>5, LagNext
    <3>4. Lag(n, l)'
      BY <3>3
    <3>5. st \notin {"choosing", "storing"} /\ st # "getting"
      BY <1>0, <2>1
    <3> QED
      BY <2>1, <3>1, <3>2, <3>4, <3>5, FollowsNext
  <2> QED
    BY <1>3, <2>1
<1>9. y = DbOf(m.key)
  BY <1>0, <1>7
<1> QED
  BY <1>0, <1>1, <1>3, <1>5, <1>6, <1>7, <1>8, <1>9, MailFiles DEF Outside

LEMMA LagTaken ==
  ASSUME DbKept, DbIdle, NEW n \in Names, NEW l, NEW w, w = DbOf(n), NEW M,
         Work(w) \in Seq(M), Work(w) # <<>>, Work(w)' = Tail(Work(w)), Lag(n, l),
         StoreOf(Work(w)[1], n) => file'[n].list = Work(w)[1].data,
         ~StoreOf(Work(w)[1], n) => file'[n].list = file[n].list
  PROVE  Lag(n, l)'
<1>1. Behind(Work(w), n, l, file[n].list)
  BY DEF Lag
<1>2. Behind(Tail(Work(w)), n, l, file'[n].list)
  BY <1>1, BehindTaken
<1>3. Behind(Work(w)', n, l, file'[n].list)
  BY <1>2
<1> QED
  BY <1>3, LagNext

\* What a worker has to do: when it waits for a message, and when it writes.
LEMMA QueueIdle ==
  ASSUME MailInv, NEW w \in DOMAIN procs, In(w, "worker", "idle")
  PROVE  /\ w \in Workers /\ procs[w].box \in Seq(Gets \cup Stores)
         /\ procs[w].job = <<>> /\ Work(w) = procs[w].box
         /\ Typed(procs[w]) /\ procs[w].kind = "worker"
<1>1. procs[w].kind = "worker" /\ procs[w].at = "idle" /\ Typed(procs[w])
  BY DEF In, MailInv, Mailed, AllTyped
<1>2. procs[w].box \in Seq(Gets \cup Stores)
  BY <1>1 DEF Typed, Mail
<1>3. procs[w].job = <<>>
  BY <1>1 DEF Typed
<1>4. Work(w) = procs[w].box
  <2>1. <<>> \o procs[w].box = procs[w].box
    BY <1>2, QueueEmpty
  <2> QED
    BY <1>3, <2>1 DEF Work
<1> QED
  BY <1>1, <1>2, <1>3, <1>4 DEF Workers

LEMMA QueueTaken ==
  ASSUME MailInv, NEW w \in DOMAIN procs, In(w, "worker", "idle"), HasMail(w)
  PROVE  /\ Queue(Works(Takes(procs[w]), "writing", <<Message(w)>>)) = Work(w)
         /\ Queue(Takes(procs[w])) = Tail(Work(w))
         /\ Work(w) # <<>> /\ Message(w) = Work(w)[1] /\ 1 \in DOMAIN Work(w)
         /\ Work(w) \in Seq(Gets \cup Stores)
<1>1. /\ procs[w].box \in Seq(Gets \cup Stores) /\ procs[w].box # <<>>
      /\ procs[w].job = <<>> /\ Work(w) = procs[w].box
      /\ Typed(procs[w]) /\ procs[w].kind = "worker"
  BY QueueIdle DEF HasMail
<1> DEFINE b == procs[w].box
           q == Takes(procs[w])
           r == Works(q, "writing", <<Message(w)>>)
<1>2. q.box = Tail(b) /\ q.job = <<>> /\ Typed(q) /\ q.kind = "worker"
  BY <1>1, TakesFields
<1>3. r.box = Tail(b) /\ r.job = <<Message(w)>>
  BY <1>2, WorksFields
<1>4. Message(w) = Head(b) /\ Head(b) = b[1] /\ 1 \in DOMAIN b /\ Tail(b) \in Seq(Gets \cup Stores)
  BY <1>1, MailTaken DEF Message
<1> HIDE DEF b, q, r
<1>5. Queue(r) = b
  <2>1. <<Head(b)>> \o Tail(b) = b
    <3>1. b \in Seq(Gets \cup Stores) /\ b # <<>>
      BY <1>1 DEF b
    <3> QED
      BY <3>1, QueueHead
  <2> QED
    BY <1>3, <1>4, <2>1 DEF Queue
<1>6. Queue(q) = Tail(b)
  <2>1. <<>> \o Tail(b) = Tail(b)
    BY <1>4, QueueEmpty
  <2> QED
    BY <1>2, <2>1 DEF Queue
<1> QED
  BY <1>1, <1>4, <1>5, <1>6 DEF b, q, r

LEMMA QueueWritten ==
  ASSUME MailInv, NEW w \in DOMAIN procs, In(w, "worker", "writing"), NEW m \in Stores,
         procs[w].job = <<m>>
  PROVE  /\ w \in Workers
         /\ Queue(Works(procs[w], "idle", <<>>)) = Tail(Work(w))
         /\ Work(w) # <<>> /\ Work(w)[1] = m /\ 1 \in DOMAIN Work(w)
         /\ Work(w) \in Seq(Gets \cup Stores)
<1>1. w \in Workers /\ Typed(procs[w]) /\ procs[w].kind = "worker"
  BY DEF In, MailInv, Mailed, AllTyped, Workers
<1> DEFINE b == procs[w].box
           r == Works(procs[w], "idle", <<>>)
<1>2. b \in Seq(Gets \cup Stores)
  BY <1>1 DEF Typed, Mail
<1>3. r.box = b /\ r.job = <<>>
  BY <1>1, WorksFields
<1>4. Work(w) = <<m>> \o b /\ Work(w) \in Seq(Gets \cup Stores)
  BY <1>1, WorkTyped DEF Work
<1> HIDE DEF b, r
<1>5. <<m>> \o b # <<>> /\ Tail(<<m>> \o b) = b /\ (<<m>> \o b)[1] = m
  <2>1. m \in Gets \cup Stores
    OBVIOUS
  <2> QED
    BY <1>2, <2>1, QueueOne
<1>6. Queue(r) = b
  <2>1. <<>> \o b = b
    BY <1>2, QueueEmpty
  <2> QED
    BY <1>3, <2>1 DEF Queue
<1>7. 1 \in DOMAIN Work(w)
  BY <1>4, <1>5, MailTaken
<1> QED
  BY <1>1, <1>4, <1>5, <1>6, <1>7 DEF r

LEMMA OpenFileFiles ==
  ASSUME IInv, MessageInv, FileInv, NEW w \in DOMAIN procs, OpenFile(w)
  PROVE  FileInv'
<1> SUFFICES ASSUME NoExit' PROVE FileParts'
  BY DEF FileInv
<1>0. MailInv /\ FileTyped
  BY DEF MessageInv
<1> DEFINE k == Message(w)
           r == Works(Takes(procs[w]), "writing", <<k>>)
<1>1. Step(w, r, 0, 0, 0, 0) /\ k \in Stores /\ Quiet
  BY <1>0, OpenFileActs
<1>2. /\ In(w, "worker", "idle") /\ HasMail(w)
      /\ file' = [file EXCEPT ![k.key].state = "partial"]
  BY DEF OpenFile
<1>3. w \in Workers /\ procs[w].kind = "worker" /\ Queue(r) = Work(w) /\ Typed(procs[w])
  BY <1>0, <1>2, QueueIdle, QueueTaken
<1>4. r.at = "writing" /\ r.job = <<k>>
  <2>1. Typed(Takes(procs[w])) /\ Takes(procs[w]).kind = "worker"
    BY <1>2, <1>3, TakesFields DEF HasMail
  <2> QED
    BY <2>1, WorksFields
<1>5. k.key \in Names
  BY <1>1 DEF Stores
<1> HIDE DEF r, k
<1>6. NoExit /\ FileParts
  BY <1>1, FilesNow
<1>7. /\ \A n \in Names : file'[n].list = file[n].list
      /\ \A n \in Names : n # k.key => file'[n] = file[n]
  BY <1>0, <1>2, <1>5 DEF FileTyped
<1>8. Database' = Database /\ Cache' = Cache /\ exiting' = exiting /\ DOMAIN procs' = DOMAIN procs
  BY <1>1, NoneNew DEF Quiet, Database, Cache
<1>9. DbKept
  BY <1>0, <1>1, <1>3, <1>8, DbNotMoved
<1>10. OnlyCacheExits' /\ OneDatabase'
  BY <1>0, <1>1, <1>6, <1>8, OneDatabaseStep DEF FileParts, OnlyCacheExits
<1>11. w \notin Servers
  BY <1>3 DEF Servers
<1>12. WorkInv'
  BY <1>0, <1>1, <1>3, <1>6, <1>9, <1>11, NotZero, WorkStep DEF FileParts, Moved
<1>13. \A u \in Workers :
         /\ u \in Workers' /\ Work(u)' = Work(u)
         /\ u # w => procs'[u].at = procs[u].at /\ procs'[u].job = procs[u].job
         /\ u = w => procs'[u] = r
  <2>1. procs'[w] = r
    <3>1. Acts(procs, lastPid, procs', lastPid', w, r, 0, 0, 0, 0)
      BY <1>1 DEF Step
    <3> QED
      BY <3>1 DEF Acts
  <2> QED
    BY <1>0, <1>1, <1>3, <2>1, NotZero, WorksAt
<1>14. ASSUME NEW n \in Names, NEW l, DbIdle, Lag(n, l) PROVE Lag(n, l)'
  <2>1. ASSUME NEW u, u = DbOf(n) PROVE Lag(n, l)'
    <3>1. u \in Workers
      BY <1>0, <1>6, <1>14, <2>1, WorkerOf
    <3> QED
      BY <1>7, <1>9, <1>13, <1>14, <2>1, <3>1, LagKept
  <2> QED
    BY <2>1
<1>15. ServerInv'
  <2>1. \A s \in Servers : s # w /\ s # 0
    BY <1>11, NotZero
  <2> QED
    BY <1>0, <1>1, <1>6, <1>7, <1>9, <1>14, <2>1, ServersStep DEF FileParts
<1>16. PartialInv'
  <2> SUFFICES ASSUME NEW n \in Names, file'[n].state = "partial"
               PROVE  \E u \in Workers' : IsWriting(procs[u], n)'
    BY DEF PartialInv
  <2>1. CASE n = k.key
    <3>1. IsWriting(procs[w], n)'
      BY <1>3, <1>4, <1>13, <2>1 DEF IsWriting
    <3> QED
      BY <1>3, <1>13, <3>1
  <2>2. CASE n # k.key
    <3>1. PICK u \in Workers : IsWriting(procs[u], n)
      BY <1>6, <1>7, <2>2 DEF FileParts, PartialInv
    <3>2. u # w
      BY <1>2, <3>1 DEF IsWriting, In
    <3>3. IsWriting(procs[u], n)'
      BY <1>13, <3>1, <3>2 DEF IsWriting
    <3> QED
      BY <1>13, <3>3
  <2> QED
    BY <2>1, <2>2
<1> QED
  BY <1>10, <1>12, <1>15, <1>16 DEF FileParts

LEMMA WriteFileFiles ==
  ASSUME IInv, MessageInv, FileInv, NEW w \in DOMAIN procs, WriteFile(w)
  PROVE  FileInv'
<1> SUFFICES ASSUME NoExit' PROVE FileParts'
  BY DEF FileInv
<1>0. MailInv /\ FileTyped
  BY DEF MessageInv
<1> DEFINE r == Works(procs[w], "idle", <<>>)
<1>1. Step(w, r, 0, 0, 0, 0) /\ Quiet
  BY <1>0, WriteFileActs
<1>2. PICK m \in Stores :
        /\ procs[w].job = <<m>>
        /\ file' = [file EXCEPT ![m.key] = [state |-> "whole", list |-> m.data]]
  BY <1>0, WriteFileActs
<1>3. In(w, "worker", "writing")
  BY DEF WriteFile
<1>4. /\ w \in Workers /\ procs[w].kind = "worker" /\ Queue(r) = Tail(Work(w)) /\ Work(w) # <<>>
      /\ Work(w)[1] = m /\ 1 \in DOMAIN Work(w) /\ Work(w) \in Seq(Gets \cup Stores)
  BY <1>0, <1>2, <1>3, QueueWritten DEF Workers
<1> HIDE DEF r
<1>5. m.key \in Names /\ IsStore(m)
  BY DEF Stores, IsStore
<1>6. NoExit /\ FileParts
  BY <1>1, FilesNow
<1>7. /\ \A n \in Names : n # m.key => file'[n] = file[n]
      /\ file'[m.key].state = "whole" /\ file'[m.key].list = m.data
  BY <1>0, <1>2, <1>5 DEF FileTyped
<1>8. Database' = Database /\ Cache' = Cache /\ exiting' = exiting /\ DOMAIN procs' = DOMAIN procs
  BY <1>1, NoneNew DEF Quiet, Database, Cache
<1>9. DbKept
  BY <1>0, <1>1, <1>4, <1>8, DbNotMoved
<1>10. OnlyCacheExits' /\ OneDatabase'
  BY <1>0, <1>1, <1>6, <1>8, OneDatabaseStep DEF FileParts, OnlyCacheExits
<1>11. w \notin Servers
  BY <1>4 DEF Servers
<1>12. WorkInv'
  BY <1>0, <1>1, <1>4, <1>6, <1>9, <1>11, NotZero, WorkStep DEF FileParts, Moved
<1>13. \A u \in Workers :
         /\ u \in Workers'
         /\ u # w => /\ Work(u)' = Work(u)
                     /\ procs'[u].at = procs[u].at /\ procs'[u].job = procs[u].job
         /\ u = w => Work(u)' = Tail(Work(u))
  BY <1>0, <1>1, <1>4, NotZero, WorksAt
<1>14. /\ DbIdle /\ w = DbOf(m.key)
       /\ \E s \in Servers : procs[s].name = m.key /\ Reads(procs[s])
  BY <1>4, <1>5, <1>6 DEF FileParts, WorkInv
<1>15. ASSUME NEW n \in Names, NEW l, DbIdle, Lag(n, l) PROVE Lag(n, l)'
  <2>1. ASSUME NEW u, u = DbOf(n) PROVE Lag(n, l)'
    <3>1. u \in Workers
      BY <1>0, <1>6, <1>15, <2>1, WorkerOf
    <3>2. CASE u # w
      <4>1. n # m.key
        BY <1>14, <2>1, <3>2
      <4> QED
        BY <1>7, <1>9, <1>13, <1>15, <2>1, <3>1, <3>2, <4>1, LagKept
    <3>3. CASE u = w
      <4>1. StoreOf(Work(u)[1], n) => n = m.key /\ Work(u)[1].data = m.data
        BY <1>4, <3>3 DEF StoreOf
      <4>2. ~StoreOf(Work(u)[1], n) => n # m.key
        BY <1>4, <1>5, <3>3 DEF StoreOf
      <4>3. /\ StoreOf(Work(u)[1], n) => file'[n].list = Work(u)[1].data
            /\ ~StoreOf(Work(u)[1], n) => file'[n].list = file[n].list
        BY <1>7, <4>1, <4>2
      <4>4. Work(u) \in Seq(Gets \cup Stores) /\ Work(u) # <<>> /\ Work(u)' = Tail(Work(u))
        BY <1>4, <1>13, <3>3
      <4> QED
        BY <1>9, <1>15, <2>1, <4>3, <4>4, LagTaken
    <3> QED
      BY <3>2, <3>3
  <2> QED
    BY <2>1
<1>16. ServerInv'
  <2>1. \A s \in Servers : s # w /\ s # 0
    BY <1>11, NotZero
  <2>2. ASSUME NEW s \in Servers, NEW n \in Names, procs[s].name = n, procs[s].at = "getting"
        PROVE  file'[n].list = file[n].list
    <3>1. ~Reads(procs[s])
      BY <2>2 DEF Reads
    <3>2. n # m.key
      BY <1>6, <1>14, <2>2, <3>1, SoleServer DEF FileParts
    <3> QED
      BY <1>7, <3>2
  <2> QED
    BY <1>0, <1>1, <1>6, <1>9, <1>15, <2>1, <2>2, ServersStep DEF FileParts
<1>17. PartialInv'
  <2> SUFFICES ASSUME NEW n \in Names, file'[n].state = "partial"
               PROVE  \E u \in Workers' : IsWriting(procs[u], n)'
    BY DEF PartialInv
  <2>1. n # m.key
    BY <1>7
  <2>2. PICK u \in Workers : IsWriting(procs[u], n)
    BY <1>6, <1>7, <2>1 DEF FileParts, PartialInv
  <2>3. u # w
    BY <1>2, <2>1, <2>2 DEF IsWriting
  <2>4. IsWriting(procs[u], n)'
    BY <1>13, <2>2, <2>3 DEF IsWriting
  <2> QED
    BY <1>13, <2>4
<1> QED
  BY <1>10, <1>12, <1>16, <1>17 DEF FileParts

LEMMA Fetched ==
  ASSUME NEW t, NEW key \in Names, NEW v, DbIdle, DbKept, v = file'[key].list,
         procs'[t].name = key, procs'[t].at = "getting", procs'[t].reply = <<v>>
  PROVE  Follows(procs[t])'
<1>1. DbIdle'
  BY DEF DbKept
<1>2. ASSUME NEW st, NEW l, st = procs'[t].at, l = procs'[t].list PROVE Follows(procs[t])'
  <2>1. st = "getting" /\ st \notin {"choosing", "storing"} /\ st # "idle" /\ Head(<<v>>) = v
    BY <1>2
  <2> QED
    BY <1>1, <1>2, <2>1, FollowsNext
<1> QED
  BY <1>2

LEMMA GetFileFiles ==
  ASSUME IInv, MessageInv, FileInv, NEW w \in DOMAIN procs, GetFile(w)
  PROVE  FileInv'
<1>a. CASE file[Message(w).key].state = "partial"
  <2>1. Terminate(w) /\ lastPid' = lastPid
    BY <1>a DEF GetFile
  <2> QED
    BY <2>1, TerminateFiles
<1>b. CASE file[Message(w).key].state # "partial"
  <2> SUFFICES ASSUME NoExit' PROVE FileParts'
    BY DEF FileInv
  <2>0. MailInv /\ FileTyped
    BY DEF MessageInv
  <2> DEFINE r == Takes(procs[w])
             z == Message(w).from
             key == Message(w).key
             v == file[key].list
  <2>1. /\ Step(w, r, 0, 0, z, v) /\ Quiet /\ Outside
        /\ Message(w) \in Gets /\ Message(w) = procs[w].box[1]
    BY <1>b, <2>0, GetFileActs
  <2>2. In(w, "worker", "idle") /\ HasMail(w)
    BY DEF GetFile
  <2>3. /\ w \in Workers /\ procs[w].kind = "worker" /\ Queue(r) = Tail(Work(w))
        /\ Work(w) # <<>> /\ Message(w) = Work(w)[1] /\ 1 \in DOMAIN Work(w)
        /\ Work(w) \in Seq(Gets \cup Stores) /\ Work(w) = procs[w].box
    BY <2>0, <2>2, QueueIdle, QueueTaken
  <2> HIDE DEF r
  <2>4. key \in Names /\ ~IsStore(Message(w)) /\ Message(w).op = "get"
    BY <2>1 DEF Gets, IsStore
  <2>5. NoExit /\ FileParts
    BY <2>1, FilesNow
  <2>6. /\ Database' = Database /\ Cache' = Cache /\ exiting' = exiting
        /\ DOMAIN procs' = DOMAIN procs /\ file' = file
    BY <2>1, NoneNew DEF Quiet, Outside, Database, Cache
  <2>7. DbKept
    BY <2>0, <2>1, <2>3, <2>6, DbNotMoved
  <2>8. OnlyCacheExits' /\ OneDatabase'
    BY <2>0, <2>1, <2>5, <2>6, OneDatabaseStep DEF FileParts, OnlyCacheExits
  <2>9. w \notin Servers
    BY <2>3 DEF Servers
  <2>10. DbIdle
    BY <2>3, <2>5 DEF FileParts, WorkInv
  <2>11. z \in Servers => Awaits(procs[z], w, "worker", key)
    <3>1. IsCall(procs[w], 1) /\ 1 \in DOMAIN procs[w].box
      BY <2>1, <2>3, <2>4 DEF IsCall
    <3>2. Called(procs, lastPid, w, 1)
      BY <2>0, <3>1 DEF MailInv, Mailed, AllCalled
    <3>3. z \in DOMAIN procs => Awaits(procs[z], w, procs[w].kind, key)
      BY <2>1, <3>2 DEF Called
    <3> QED
      BY <2>3, <3>3 DEF Servers
  <2>12. v = file'[key].list
    BY <2>6
  <2> HIDE DEF v, z, key
  <2>13. WorkInv'
    BY <2>0, <2>1, <2>3, <2>5, <2>7, <2>9, NotZero, WorkStep DEF FileParts, Moved
  <2>14. \A u \in Workers :
           /\ u \in Workers'
           /\ u # w => /\ Work(u)' = Work(u)
                       /\ procs'[u].at = procs[u].at /\ procs'[u].job = procs[u].job
           /\ u = w => Work(u)' = Tail(Work(u))
    BY <2>0, <2>1, <2>3, NotZero, WorksAt
  <2>15. ASSUME NEW n \in Names, NEW l, DbIdle, Lag(n, l) PROVE Lag(n, l)'
    <3>1. ASSUME NEW u, u = DbOf(n) PROVE Lag(n, l)'
      <4>1. u \in Workers
        BY <2>0, <2>5, <2>15, <3>1, WorkerOf
      <4>2. CASE u # w
        BY <2>6, <2>7, <2>14, <2>15, <3>1, <4>1, <4>2, LagKept
      <4>3. CASE u = w
        <5>1. ~StoreOf(Work(u)[1], n)
          BY <2>3, <2>4, <4>3 DEF StoreOf
        <5>2. Work(u) \in Seq(Gets \cup Stores) /\ Work(u) # <<>> /\ Work(u)' = Tail(Work(u))
          BY <2>3, <2>14, <4>3
        <5> QED
          BY <2>6, <2>7, <2>15, <3>1, <5>1, <5>2, LagTaken
      <4> QED
        BY <4>2, <4>3
    <3> QED
      BY <3>1
  <2>16. ServerInv'
    <3>1. ASSUME NEW t \in Servers, t = w \/ t = z PROVE Follows(procs[t])'
      <4>1. Awaits(procs[t], w, "worker", key) /\ t # w /\ t = z
        BY <2>9, <2>11, <3>1
      <4>2. procs[t].name = key /\ procs[t].at = "getting"
        BY <4>1 DEF Awaits
      <4>3. procs'[t].name = key /\ procs'[t].at = procs[t].at /\ procs'[t].reply = <<v>>
        BY <2>0, <2>1, <4>1, <4>2, ServersAt
      <4>4. ASSUME NEW n, NEW u, n = key, u = v PROVE Follows(procs[t])'
        <5>1. u = file'[n].list /\ n \in Names
          BY <2>4, <2>12, <4>4 DEF key
        <5> QED
          BY <2>7, <2>10, <4>2, <4>3, <4>4, <5>1, Fetched
      <4> QED
        BY <4>4
    <3> QED
      BY <2>0, <2>1, <2>5, <2>6, <2>7, <2>15, <3>1, ServersStep DEF FileParts
  <2>17. PartialInv'
    <3> SUFFICES ASSUME NEW n \in Names, file[n].state = "partial"
                 PROVE  \E u \in Workers' : IsWriting(procs[u], n)'
      BY <2>6 DEF PartialInv
    <3>1. PICK u \in Workers : IsWriting(procs[u], n)
      BY <2>5 DEF FileParts, PartialInv
    <3>2. u # w
      BY <2>2, <3>1 DEF IsWriting, In
    <3>3. IsWriting(procs[u], n)'
      BY <2>14, <3>1, <3>2 DEF IsWriting
    <3> QED
      BY <2>14, <3>3
  <2> QED
    BY <2>8, <2>13, <2>16, <2>17 DEF FileParts
<1> QED
  BY <1>a, <1>b

LEMMA FileInvStep == IInv /\ MessageInv /\ FileInv /\ [Next]_vars => FileInv'
<1> SUFFICES ASSUME IInv, MessageInv, FileInv, [Next]_vars PROVE FileInv'
  OBVIOUS
<1>0. MailInv
  BY DEF MessageInv
<1>1. ASSUME NEW p \in Pids,
             StartDatabase(p) \/ DatabaseStarted(p) \/ ServerProcess(p) \/ ServerStarted(p)
      PROVE  FileInv'
  BY <1>0, <1>1, CacheFiles, StartDatabaseFiles DEF Pids
<1>2. ASSUME NEW p \in Pids, StartWorkers(p) \/ ChooseWorker(p) PROVE FileInv'
  BY <1>0, <1>2, StartWorkersFiles, ChooseWorkerFiles DEF Pids
<1>3. ASSUME NEW p \in Pids, OpenFile(p) \/ WriteFile(p) \/ GetFile(p) PROVE FileInv'
  BY <1>3, OpenFileFiles, WriteFileFiles, GetFileFiles DEF Pids
<1>4. ASSUME NEW p \in Pids,
             ServerInit(p) \/ ServerGet(p) \/ ServerReady(p) \/ HandleCast(p)
               \/ ServerStore(p) \/ HandleEntries(p)
      PROVE  FileInv'
  BY <1>0, <1>4, ServerInitFiles, ServerGetFiles, ServerReadyFiles, HandleCastFiles,
     ServerStoreFiles, HandleEntriesFiles DEF Pids
<1>5. ASSUME NEW p \in Pids, CallFails(p) \/ Exit(p) PROVE FileInv'
  BY <1>5, TerminateFiles DEF Pids, CallFails, Exit
<1>6. CASE Restart
  BY <1>6, RestartFiles
<1>7. CASE Answered \/ NotAnswered \/ Environment
  BY <1>7, EnvironmentFiles
<1>8. CASE UNCHANGED vars
  BY <1>8, FilesSame DEF vars, OnlyCacheExits, Cache
<1>9. CASE System
  BY <1>1, <1>2, <1>3, <1>4, <1>5, <1>6, <1>7, <1>9 DEF System
<1> QED
  BY <1>7, <1>8, <1>9 DEF Next

\* What the invariant says of the file of a server that is idle.
LEMMA FileFollowed == IInv /\ MessageInv /\ FileInv => FileFollowsServer
<1> SUFFICES ASSUME IInv, MessageInv, FileInv, DOMAIN procs = 1 .. lastPid,
                    NEW s \in Servers, procs[s].at = "idle", NEW n, n = procs[s].name,
                    NEW w, w = procs[Database].worker_list[phash2[n]]
             PROVE  /\ procs[s].list = IF Pending(w, n) = {} THEN file[n].list ELSE Newest(w, n)
                    /\ file[n].state = "partial" => procs[w].at = "writing"
  BY DEF FileFollowsServer
<1>1. FileParts /\ MailInv
  BY DEF FileInv, NoExit, MessageInv
<1>2. n \in Names
  BY <1>1 DEF MailInv, Mailed, AllTyped, Typed, Servers
<1>3. DbIdle /\ Lag(n, procs[s].list) /\ w = DbOf(n)
  BY <1>1 DEF FileParts, ServerInv, Follows, DbOf
<1>4. w \in Workers
  BY <1>1, <1>2, <1>3, WorkerOf DEF NoExit
<1>5. Pending(w, n) = PendingIn(Work(w), n)
  BY DEF Pending, PendingIn
<1>6. Work(w) \in Seq(Gets \cup Stores)
  BY <1>1, <1>4, WorkTyped
<1>7. procs[s].list = IF Pending(w, n) = {} THEN file[n].list ELSE Newest(w, n)
  <2>1. Behind(Work(w), n, procs[s].list, file[n].list)
    BY <1>3 DEF Lag
  <2>2. CASE Pending(w, n) = {}
    BY <1>5, <2>1, <2>2 DEF Behind
  <2>3. CASE Pending(w, n) # {}
    <3>1. PICK i \in Pending(w, n) : Work(w)[i].data = procs[s].list
                                     /\ \A j \in Pending(w, n) : j <= i
      BY <1>5, <2>1, <2>3 DEF Behind
    <3>2. \A j \in Pending(w, n) : j \in Nat
      <4>1. Work(w) # <<>>
        <5>1. DOMAIN <<>> = {}
          OBVIOUS
        <5> QED
          BY <3>1, <5>1 DEF Pending
      <4>2. DOMAIN Work(w) = 1 .. Len(Work(w)) /\ Len(Work(w)) \in Nat
        BY <1>6, <4>1, MailTaken
      <4>3. \A j \in DOMAIN Work(w) : j \in Nat
        BY <4>2
      <4> QED
        BY <4>3 DEF Pending
    <3> DEFINE k == CHOOSE i0 \in Pending(w, n) : \A j \in Pending(w, n) : j <= i0
    <3>3. k \in Pending(w, n) /\ \A j \in Pending(w, n) : j <= k
      BY <3>1
    <3>4. Newest(w, n) = Work(w)[k].data
      BY DEF Newest
    <3> HIDE DEF k
    <3>5. k = i
      <4>1. k \in Nat /\ i \in Nat /\ k <= i /\ i <= k
        BY <3>1, <3>2, <3>3
      <4> QED
        BY <4>1
    <3> QED
      BY <2>3, <3>1, <3>4, <3>5
  <2> QED
    BY <2>2, <2>3
<1>8. ASSUME file[n].state = "partial" PROVE procs[w].at = "writing"
  <2>1. PICK u \in Workers : IsWriting(procs[u], n)
    BY <1>1, <1>2, <1>8 DEF FileParts, PartialInv
  <2>2. procs[u].at = "writing" /\ procs[u].job # <<>> /\ Head(procs[u].job).key = n
    BY <2>1 DEF IsWriting
  <2>3. In(u, "worker", "writing") /\ u \in DOMAIN procs /\ Typed(procs[u]) /\ procs[u].kind = "worker"
    BY <1>1, <2>1, <2>2 DEF In, Workers, MailInv, Mailed, AllTyped
  <2>4. PICK m \in Stores : procs[u].job = <<m>>
    BY <2>2, <2>3 DEF Typed
  <2>5. Work(u)[1] = m /\ 1 \in DOMAIN Work(u)
    BY <1>1, <2>3, <2>4, QueueWritten
  <2>6. u = DbOf(m.key)
    BY <1>1, <2>1, <2>5 DEF FileParts, WorkInv
  <2>7. m.key = n
    BY <2>2, <2>4
  <2> QED
    BY <1>3, <2>2, <2>6, <2>7
<1> QED
  BY <1>7, <1>8

\* For any names, any hash and any client: until a process has exited, what a
\* server that waits for a message has in memory is what its file will hold
\* when the worker of that name has done what it was told, and the file is in
\* pieces only while that worker writes (server.ex, database.ex,
\* database_worker.ex).
THEOREM FileFollows == Spec => []FileFollowsServer
<1>1. Init => IInv /\ MessageInv /\ FileInv
  BY IInvInit, MessageInvInit, FileInvInit
<1>2. IInv /\ MessageInv /\ FileInv /\ [Next]_vars => IInv' /\ MessageInv' /\ FileInv'
  BY IInvStep, MessageInvStep, FileInvStep
<1>3. IInv /\ MessageInv /\ FileInv => FileFollowsServer
  BY FileFollowed
<1> QED
  BY <1>1, <1>2, <1>3, PTL DEF Spec
=============================================================================
