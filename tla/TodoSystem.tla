----------------------------- MODULE TodoSystem -----------------------------
(***************************************************************************)
(* The supervised to-do system (supervised_todo/lib/todo): a cache that    *)
(* starts one server for each list, a database with its workers, linked to *)
(* one another as start_link links them, and a supervisor that restarts    *)
(* the cache.  A process takes one message at a time, waits in the calls   *)
(* it makes, and may be killed between any two steps.                      *)
(***************************************************************************)
EXTENDS TodoList, Sequences, FiniteSets

CONSTANTS
  Names,                         \* the names of the to-do lists
  phash2,                        \* the worker of each name: :erlang.phash2(key, 3)
  MaxRestarts,                   \* the supervisor's default intensity, 3
  Budgets                        \* bounds of the model: how many calls, casts and
                                 \* kills the client may make, with which names

ASSUME HashAssumption == phash2 \in [Names -> 0 .. 2]
ASSUME RestartAssumption == MaxRestarts \in Nat
ASSUME BudgetAssumption ==
  Budgets \subseteq [names : SUBSET Names, calls : Nat, casts : Nat, kills : Nat]

VARIABLES
  procs,       \* the state of every live process
  lastPid,
  links,       \* the links, each a set of two pids
  exiting,     \* processes an exit signal has been sent to
  registered,  \* the process under each name, 0 for none
  file,        \* for each name: "absent", "partial" or "whole", and the list
  supervisor,  \* "up" or "down", and the restarts it remembers
  client,      \* the state of the client
  budget       \* bounds of the model: what is left of one of Budgets

vars == <<procs, lastPid, links, exiting, registered, file, supervisor, client, budget>>

WorkerIds == {phash2[n] : n \in Names}

(***************************************************************************)
(* Processes.  A reply goes past the mailbox: a call waits for nothing     *)
(* else.                                                                   *)
(***************************************************************************)
NoReply == <<>>
Process(kind, parent) ==
  [kind |-> kind, parent |-> parent, at |-> "init", box |-> <<>>, reply |-> NoReply, on |-> 0]

Alive(p) == p \in DOMAIN procs
In(p, kind, at) == procs[p].kind = kind /\ procs[p].at = at
Sent(ps, p, m) == IF p \in DOMAIN ps THEN [ps EXCEPT ![p].box = Append(@, m)] ELSE ps
Replied(ps, p, r) == IF p \in DOMAIN ps THEN [ps EXCEPT ![p].reply = <<r>>] ELSE ps
Waits(ps, p, at, q) == [ps EXCEPT ![p].at = at, ![p].on = q, ![p].reply = NoReply]
Resumes(ps, p) == Waits(ps, p, "idle", 0)
Taken(ps, p) == [ps EXCEPT ![p].box = Tail(@)]
HasMail(p) == procs[p].box # <<>>
Message(p) == Head(procs[p].box)
Reply(p) == Head(procs[p].reply)
HasReply(p) == procs[p].reply # NoReply

\* The end of a process: its links send exit signals, its names are free.
Terminate(p) ==
  /\ procs' = [q \in DOMAIN procs \ {p} |-> procs[q]]
  /\ links' = {l \in links : p \notin l}
  /\ exiting' = (exiting \cup {q \in DOMAIN procs : {p, q} \in links}) \ {p}
  /\ registered' = [n \in DOMAIN registered |-> IF registered[n] = p THEN 0 ELSE registered[n]]

Quiet == UNCHANGED <<lastPid, links, exiting, registered>>
Outside == UNCHANGED <<file, supervisor, client, budget>>

Spawned == lastPid + 1

\* mutant: GenServer.start instead of start_link
MutLinked(p) == links

Linked(p) == links \cup {{p, Spawned}}

(***************************************************************************)
(* Todo.Cache                                                              *)
(***************************************************************************)
NewCache == With(Process("cache", 0), [todo_servers |-> <<>>, todo_list_name |-> ""])
NewDatabase(c) == With(Process("database", c), [worker_list |-> <<>>])
NewServer(c, n) == With(Process("server", c), [name |-> n, list |-> new])

\* init: what Database.start_link returns is not looked at.
StartDatabase(c) ==
  /\ In(c, "cache", "init")
  /\ IF registered.database_server # 0
     THEN procs' = Resumes(procs, c) /\ Quiet
     ELSE /\ procs' = With(Only(Spawned, NewDatabase(c)),
                           Waits(procs, c, "starting database", Spawned))
          /\ lastPid' = Spawned
          /\ links' = Linked(c)
          /\ registered' = [registered EXCEPT !.database_server = Spawned]
          /\ UNCHANGED exiting
  /\ Outside

DatabaseStarted(c) ==
  /\ In(c, "cache", "starting database")
  /\ HasReply(c) \/ ~Alive(procs[c].on)
  /\ procs' = Resumes(procs, c)
  /\ Quiet /\ Outside

\* mutant: the new server is not put into the map
MutRemember(c, n, s) == procs[c].todo_servers

Remember(c, n, s) == With(Only(n, s), procs[c].todo_servers)

ServerProcess(c) ==
  /\ In(c, "cache", "idle") /\ HasMail(c)
  /\ LET n == Message(c)
         known == n \in DOMAIN procs[c].todo_servers
     IN  /\ client' = IF known THEN [client EXCEPT !.reply = <<procs[c].todo_servers[n]>>] ELSE client
         /\ IF known
            THEN procs' = Taken(procs, c) /\ Quiet
            ELSE /\ procs' = With(Only(Spawned, NewServer(c, n)),
                              [Waits(Taken(procs, c), c, "starting server", Spawned)
                                 EXCEPT ![c].todo_list_name = n])
                 /\ lastPid' = Spawned
                 /\ links' = Linked(c)
                 /\ UNCHANGED <<exiting, registered>>
  /\ UNCHANGED <<file, supervisor, budget>>

ServerStarted(c) ==
  /\ In(c, "cache", "starting server") /\ HasReply(c)
  /\ LET s == procs[c].on
         n == procs[c].todo_list_name
     IN  /\ procs' = [Resumes(procs, c) EXCEPT ![c].todo_servers = Remember(c, n, s),
                                               ![c].todo_list_name = ""]
         /\ client' = [client EXCEPT !.reply = <<s>>]
  /\ Quiet /\ UNCHANGED <<file, supervisor, budget>>

(***************************************************************************)
(* Todo.Database and Todo.DatabaseWorker.  The workers are started one     *)
(* after the other, which nothing can see but the database.                *)
(***************************************************************************)
NewWorker(d) == With([Process("worker", d) EXCEPT !.at = "idle"], [job |-> <<>>])

StartWorkers(d) ==
  /\ In(d, "database", "init")
  /\ LET pid == CHOOSE f \in [WorkerIds -> lastPid + 1 .. lastPid + Cardinality(WorkerIds)] :
                  \A i, j \in WorkerIds : f[i] = f[j] => i = j
         workers == {pid[i] : i \in WorkerIds}
     IN  /\ procs' = With([w \in workers |-> NewWorker(d)],
                          Replied([Resumes(procs, d) EXCEPT ![d].worker_list = pid],
                                  procs[d].parent, d))
         /\ lastPid' = lastPid + Cardinality(WorkerIds)
         /\ links' = links \cup {{d, w} : w \in workers}
  /\ UNCHANGED <<exiting, registered>> /\ Outside

ChooseWorker(d) ==
  /\ In(d, "database", "idle") /\ HasMail(d)
  /\ procs' = Replied(Taken(procs, d), Message(d).from,
                      procs[d].worker_list[phash2[Message(d).key]])
  /\ Quiet /\ Outside

\* File.write! opens the file, which empties it, and then writes.
OpenFile(w) ==
  /\ In(w, "worker", "idle") /\ HasMail(w) /\ Message(w).op = "store"
  /\ procs' = [Taken(procs, w) EXCEPT ![w].at = "writing", ![w].job = <<Message(w)>>]
  /\ file' = [file EXCEPT ![Message(w).key].state = "partial"]
  /\ Quiet /\ UNCHANGED <<supervisor, client, budget>>

WriteFile(w) ==
  /\ In(w, "worker", "writing")
  /\ procs' = [procs EXCEPT ![w].at = "idle", ![w].job = <<>>]
  /\ LET job == Head(procs[w].job)
     IN  file' = [file EXCEPT ![job.key] = [state |-> "whole", list |-> job.data]]
  /\ Quiet /\ UNCHANGED <<supervisor, client, budget>>

\* binary_to_term raises on half a file.
GetFile(w) ==
  /\ In(w, "worker", "idle") /\ HasMail(w) /\ Message(w).op = "get"
  /\ IF file[Message(w).key].state = "partial" THEN Terminate(w) /\ UNCHANGED lastPid
     ELSE /\ procs' = Replied(Taken(procs, w), Message(w).from, file[Message(w).key].list)
          /\ Quiet
  /\ Outside

(***************************************************************************)
(* Todo.Server                                                             *)
(***************************************************************************)
\* GenServer.call(:database_server, {:choose_worker, key}) exits when there is
\* no such process.
CallDatabase(ps, s, at) ==
  /\ IF registered.database_server = 0 THEN Terminate(s) /\ UNCHANGED lastPid
     ELSE /\ procs' = Waits(Sent(ps, registered.database_server,
                                 [from |-> s, key |-> procs[s].name]),
                            s, at, registered.database_server)
          /\ Quiet
  /\ Outside

ServerInit(s) == In(s, "server", "init") /\ CallDatabase(procs, s, "choosing")

ServerGet(s) ==
  /\ In(s, "server", "choosing") /\ HasReply(s)
  /\ LET w == Reply(s)
     IN  IF ~Alive(w) THEN Terminate(s) /\ UNCHANGED lastPid
         ELSE /\ procs' = Waits(Sent(procs, w, [op |-> "get", from |-> s, key |-> procs[s].name]),
                                s, "getting", w)
              /\ Quiet
  /\ Outside

\* Todo.Database.get(name) || Todo.List.new(): an absent file reads as new.
ServerReady(s) ==
  /\ In(s, "server", "getting") /\ HasReply(s)
  /\ procs' = Replied([Resumes(procs, s) EXCEPT ![s].list = Reply(s)], procs[s].parent, s)
  /\ Quiet /\ Outside

Changed(l, m) ==
  CASE m.op = "add_entry"    -> add_entry(l, m.date)
    [] m.op = "update_entry" -> update_entry(l, m.id, m.date)
    [] m.op = "delete_entry" -> delete_entry(l, m.id)

HandleCast(s) ==
  /\ In(s, "server", "idle") /\ HasMail(s) /\ Message(s).op # "entries"
  /\ IF Message(s).op = "update_entry" /\ Raises(procs[s].list, Message(s).id, Message(s).sameId)
     THEN Terminate(s) /\ UNCHANGED lastPid /\ Outside
     ELSE CallDatabase([Taken(procs, s) EXCEPT ![s].list = Changed(@, Message(s))], s, "storing")

\* mutant: what is stored is the list the file had before the change
MutStored(s) == file[procs[s].name].list

Stored(s) == procs[s].list

\* The store is a cast: nothing tells whether the worker was there.
ServerStore(s) ==
  /\ In(s, "server", "storing") /\ HasReply(s)
  /\ procs' = Resumes(Sent(procs, Reply(s),
                           [op |-> "store", key |-> procs[s].name, data |-> Stored(s)]), s)
  /\ Quiet /\ Outside

HandleEntries(s) ==
  /\ In(s, "server", "idle") /\ HasMail(s) /\ Message(s).op = "entries"
  /\ procs' = Taken(procs, s)
  /\ client' = [client EXCEPT !.reply = <<entries(procs[s].list, Message(s).date)>>]
  /\ Quiet /\ UNCHANGED <<file, supervisor, budget>>

(***************************************************************************)
(* Exits.  A process that waits for one that is gone exits too; the one    *)
(* exception is the cache in init.                                         *)
(***************************************************************************)
CallFails(p) ==
  /\ procs[p].on # 0 /\ ~Alive(procs[p].on) /\ ~HasReply(p)
  /\ ~In(p, "cache", "starting database")
  /\ Terminate(p) /\ UNCHANGED lastPid /\ Outside

Exit(p) == p \in exiting /\ Terminate(p) /\ UNCHANGED lastPid /\ Outside

(***************************************************************************)
(* Todo.Supervisor: one_for_one, with the cache as its only child.  When   *)
(* there have been too many restarts, either they are too close and it     *)
(* gives up, or the oldest is forgotten.                                   *)
(***************************************************************************)
StartCache ==
  /\ procs' = With(Only(Spawned, NewCache), procs)
  /\ lastPid' = Spawned
  /\ registered' = [registered EXCEPT !.todo_cache = Spawned]
  /\ UNCHANGED <<links, exiting>>

\* mutant: restart: :temporary
MutRestart == FALSE /\ UNCHANGED vars

Restart ==
  /\ supervisor.up /\ registered.todo_cache = 0
  /\ \/ /\ StartCache
        /\ supervisor' = [supervisor EXCEPT !.restarts =
                            IF @ < MaxRestarts THEN @ + 1 ELSE @]
     \/ /\ supervisor.restarts = MaxRestarts
        /\ supervisor' = [supervisor EXCEPT !.up = FALSE]
        /\ UNCHANGED <<procs, lastPid, links, exiting, registered>>
  /\ UNCHANGED <<file, client, budget>>

(***************************************************************************)
(* The client: it asks the cache for a server, uses the one it was given   *)
(* and, as the test does, kills the cache.  A call to a process that is    *)
(* gone, or goes, exits, and the client begins anew.                       *)
(***************************************************************************)
NewClient == [at |-> "idle", pid |-> 0, on |-> 0, reply |-> NoReply]
Uses(what) == budget[what] > 0 /\ budget' = [budget EXCEPT ![what] = @ - 1]
Calls(p, m, at) ==
  /\ Uses("calls")
  /\ IF Alive(p) THEN /\ procs' = Sent(procs, p, m)
                      /\ client' = [client EXCEPT !.at = at, !.on = p]
     ELSE procs' = procs /\ client' = NewClient
  /\ Quiet /\ UNCHANGED <<file, supervisor>>

Ask(n) == client.at \in {"idle", "ready"} /\ Calls(registered.todo_cache, n, "asking")
ReadEntries(date) ==
  client.at = "ready" /\ Calls(client.pid, [op |-> "entries", date |-> date], "reading")

Waiting == client.at \in {"asking", "reading"}

\* What server_process answers is the server to use from now on.
Answered ==
  /\ Waiting /\ client.reply # NoReply
  /\ client' = [NewClient EXCEPT !.at = "ready",
                  !.pid = IF client.at = "asking" THEN Head(client.reply) ELSE client.pid]
  /\ Quiet /\ UNCHANGED <<procs, file, supervisor, budget>>

\* mutant: the caller does not monitor the process it calls
MutNotAnswered == FALSE /\ UNCHANGED vars

NotAnswered ==
  /\ Waiting /\ client.reply = NoReply /\ ~Alive(client.on)
  /\ client' = NewClient
  /\ Quiet /\ UNCHANGED <<procs, file, supervisor, budget>>

Casts ==
  {[op |-> "add_entry", date |-> "monday"]}
  \cup [op : {"update_entry"}, id : {1}, date : {"friday"}, sameId : BOOLEAN]
  \cup {[op |-> "delete_entry", id |-> 1]}

Cast(m) ==
  /\ client.at = "ready" /\ Uses("casts")
  /\ procs' = Sent(procs, client.pid, m)
  /\ Quiet /\ UNCHANGED <<file, supervisor, client>>

Kill ==
  /\ Uses("kills") /\ registered.todo_cache # 0
  /\ exiting' = exiting \cup {registered.todo_cache}
  /\ UNCHANGED <<procs, lastPid, links, registered, file, supervisor, client>>

(***************************************************************************)
(* The system after Todo.Supervisor.start_link.                            *)
(***************************************************************************)
Init ==
  /\ procs = Only(1, NewCache)
  /\ lastPid = 1
  /\ links = {} /\ exiting = {}
  /\ registered = [todo_cache |-> 1, database_server |-> 0]
  /\ file = [n \in Names |-> [state |-> "absent", list |-> new]]
  /\ supervisor = [up |-> TRUE, restarts |-> 0]
  /\ client = NewClient
  /\ budget \in Budgets

Pids == DOMAIN procs

System ==
  \/ \E p \in Pids : StartDatabase(p)
  \/ \E p \in Pids : DatabaseStarted(p)
  \/ \E p \in Pids : ServerProcess(p)
  \/ \E p \in Pids : ServerStarted(p)
  \/ \E p \in Pids : StartWorkers(p)
  \/ \E p \in Pids : ChooseWorker(p)
  \/ \E p \in Pids : OpenFile(p)
  \/ \E p \in Pids : WriteFile(p)
  \/ \E p \in Pids : GetFile(p)
  \/ \E p \in Pids : ServerInit(p)
  \/ \E p \in Pids : ServerGet(p)
  \/ \E p \in Pids : ServerReady(p)
  \/ \E p \in Pids : HandleCast(p)
  \/ \E p \in Pids : ServerStore(p)
  \/ \E p \in Pids : HandleEntries(p)
  \/ \E p \in Pids : CallFails(p)
  \/ \E p \in Pids : Exit(p)
  \/ Restart \/ Answered \/ NotAnswered

Environment ==
  \/ \E n \in budget.names : Ask(n)
  \/ \E d \in Dates : ReadEntries(d)
  \/ \E m \in Casts : Cast(m)
  \/ Kill

Next == System \/ Environment

\* The scheduler runs every process that can run, and exit signals arrive.
Spec == Init /\ [][Next]_vars /\ WF_vars(System)
=============================================================================
