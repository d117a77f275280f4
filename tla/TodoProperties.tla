--------------------------- MODULE TodoProperties ---------------------------
(***************************************************************************)
(* The properties of TodoSystem.                                           *)
(***************************************************************************)
EXTENDS TodoSystem

Servers == {p \in DOMAIN procs : procs[p].kind = "server"}
Workers == {p \in DOMAIN procs : procs[p].kind = "worker"}
Cache == registered.todo_cache
Database == registered.database_server

IsStore(m) == m.op = "store"
\* What a worker still has to do, in order, and which of it stores a list.
Work(w) == procs[w].job \o procs[w].box
Pending(w, n) == {i \in DOMAIN Work(w) : IsStore(Work(w)[i]) /\ Work(w)[i].key = n}
Newest(w, n) ==
  Work(w)[CHOOSE i \in Pending(w, n) : \A j \in Pending(w, n) : j <= i].data

\* Types; every list there is, in memory, on its way or on disk, keeps its ids
\* below the next one, so that no entry ever takes the place of another.
TypeOK ==
  /\ lastPid \in Nat /\ DOMAIN procs \subseteq 1 .. lastPid
  /\ \A l \in links : l \subseteq DOMAIN procs /\ Cardinality(l) = 2
  /\ exiting \subseteq DOMAIN procs
  /\ \A r \in DOMAIN registered : registered[r] \in DOMAIN procs \cup {0}
  /\ \A s \in Servers : procs[s].name \in Names /\ IsList(procs[s].list)
  /\ \A w \in Workers, n \in Names :
       \A i \in Pending(w, n) : IsList(Work(w)[i].data)
  /\ \A n \in Names : file[n].state \in {"absent", "partial", "whole"} /\ IsList(file[n].list)
  /\ supervisor \in [up : BOOLEAN, restarts : 0 .. MaxRestarts]

\* A live cache that has no exit signal coming hands out live servers only, and
\* it knows every server that will stay: no list ever has two of them.
CacheKnowsServers ==
  /\ Cache # 0 /\ Cache \notin exiting =>
       \A n \in DOMAIN procs[Cache].todo_servers :
         LET s == procs[Cache].todo_servers[n] IN s \in Servers /\ procs[s].name = n
  /\ \A s \in Servers \ exiting :
       /\ Cache # 0
       /\ \/ procs[s].name \in DOMAIN procs[Cache].todo_servers
             /\ procs[Cache].todo_servers[procs[s].name] = s
          \/ procs[Cache].at = "starting server" /\ procs[Cache].on = s

\* A restarted cache may find the old database and go on without a link to it,
\* but only to one that is about to exit: no database outlives its cache.
DatabaseGoesWithCache ==
  Database # 0 /\ Database \notin exiting => Cache # 0 /\ {Cache, Database} \in links

\* Until a process has exited, a server that has handled a change has it on its
\* way to the file behind every older one, and a file is only in pieces while
\* it is being written.
FileFollowsServer ==
  DOMAIN procs = 1 .. lastPid =>
    \A s \in Servers :
      procs[s].at = "idle" =>
        LET n == procs[s].name
            w == procs[Database].worker_list[phash2[n]]
        IN  /\ procs[s].list = IF Pending(w, n) = {} THEN file[n].list ELSE Newest(w, n)
            /\ file[n].state = "partial" => procs[w].at = "writing"

\* Nothing is about to exit and the cache takes the next request: with a
\* database, or without one.
Quiescent == exiting = {} /\ Cache # 0 /\ procs[Cache].at = "idle"
Serving == Quiescent /\ Database # 0
Stranded == Quiescent /\ Database = 0
GaveUp == ~supervisor.up

\* The cache has been asked for a list it knows no server of.
NewListAsked ==
  \E i \in DOMAIN procs[Cache].box : procs[Cache].box[i] \notin DOMAIN procs[Cache].todo_servers

\* Whatever exits, and whenever: the exit signals take everything that was
\* linked along, and the supervisor gives up or there is a cache again.  This
\* one may have kept to the old database, which then exits (cache.ex:5), and
\* be stranded without one.  It does not stay so: the first request for a new
\* list, which is lost, brings it down, and the next cache has a database,
\* unless the client kills that one too.
Recovers ==
  /\ (exiting # {} \/ Cache = 0) ~> (Serving \/ Stranded \/ GaveUp)
  /\ (Stranded /\ NewListAsked /\ budget.kills = 0) ~> (Serving \/ GaveUp)

\* No call waits for ever: cache, server, database and worker wait for one
\* another in no circle, and a call to a process that exits is told so.
CallsEnd == Waiting ~> ~Waiting
=============================================================================
