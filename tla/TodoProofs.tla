----------------------------- MODULE TodoProofs -----------------------------
(***************************************************************************)
(* Theorems about TodoSystem, for any names, any hash, any restart limit   *)
(* and any client: no database and no server outlives its cache without an *)
(* exit signal on its way, and the cache knows every server that stays.    *)
(***************************************************************************)
EXTENDS TodoProperties, FunctionTheorems, FiniteSetTheorems, TLAPS

(***************************************************************************)
(* The fields of the processes.                                            *)
(***************************************************************************)
Fields == {"kind", "parent", "at", "box", "reply", "on"}

Shaped(ps) ==
  \A p \in DOMAIN ps :
    /\ Fields \subseteq DOMAIN ps[p]
    /\ ps[p].kind = "cache" => {"todo_servers", "todo_list_name"} \subseteq DOMAIN ps[p]
    /\ ps[p].kind = "server" => "name" \in DOMAIN ps[p]

(***************************************************************************)
(* What the invariant reads of the processes: a step that keeps it and the *)
(* links and names cannot disturb the invariant.                           *)
(***************************************************************************)
SameView(ps, qs) ==
  /\ DOMAIN qs = DOMAIN ps
  /\ \A p \in DOMAIN ps :
       /\ DOMAIN qs[p] = DOMAIN ps[p]
       /\ qs[p].kind = ps[p].kind
       /\ ps[p].kind = "server" => qs[p].name = ps[p].name
       /\ ps[p].kind = "cache" =>
            /\ (qs[p].at = "starting server") <=> (ps[p].at = "starting server")
            /\ ps[p].at = "starting server" => qs[p].on = ps[p].on
            /\ qs[p].todo_servers = ps[p].todo_servers
            /\ qs[p].todo_list_name = ps[p].todo_list_name

LEMMA ViewShaped ==
  ASSUME NEW ps, NEW qs, Shaped(ps), SameView(ps, qs)
  PROVE  Shaped(qs)
  BY DEF Shaped, SameView

LEMMA ViewTransitive ==
  ASSUME NEW ps, NEW qs, NEW rs, SameView(ps, qs), SameView(qs, rs)
  PROVE  SameView(ps, rs)
  BY DEF SameView

LEMMA SentView ==
  ASSUME NEW ps, NEW p, NEW m, Shaped(ps)
  PROVE  SameView(ps, Sent(ps, p, m))
  BY DEF Shaped, SameView, Sent, Fields

LEMMA RepliedView ==
  ASSUME NEW ps, NEW p, NEW r, Shaped(ps)
  PROVE  SameView(ps, Replied(ps, p, r))
  BY DEF Shaped, SameView, Replied, Fields

LEMMA TakenView ==
  ASSUME NEW ps, NEW p, Shaped(ps)
  PROVE  SameView(ps, Taken(ps, p))
  BY DEF Shaped, SameView, Taken, Fields

\* A step of a process that is no cache.
LEMMA PutView ==
  ASSUME NEW ps, NEW p \in DOMAIN ps, NEW r, Shaped(ps), ps[p].kind # "cache",
         DOMAIN r = DOMAIN ps[p], r.kind = ps[p].kind,
         ps[p].kind = "server" => r.name = ps[p].name
  PROVE  SameView(ps, [ps EXCEPT ![p] = r])
  BY DEF SameView

LEMMA WaitsView ==
  ASSUME NEW ps, NEW p \in DOMAIN ps, NEW at, NEW q, Shaped(ps),
         ps[p].kind = "cache" => ps[p].at # "starting server" /\ at # "starting server"
  PROVE  SameView(ps, Waits(ps, p, at, q))
  BY DEF Shaped, SameView, Waits, Fields

(***************************************************************************)
(* The inductive invariant.                                                *)
(***************************************************************************)
\* What is alive, linked or registered is a process that was spawned.
ProcessInv ==
  /\ lastPid \in Nat
  /\ DOMAIN procs \subseteq 1 .. lastPid
  /\ Shaped(procs)
  /\ \A l \in links : l \subseteq DOMAIN procs
  /\ registered \in [{"todo_cache", "database_server"} -> DOMAIN procs \cup {0}]

\* The only cache there is is the registered one.
CacheInv ==
  /\ \A p \in DOMAIN procs : procs[p].kind = "cache" => p = Cache
  /\ Cache # 0 => procs[Cache].kind = "cache"

Knows(c, s) ==
  \/ /\ procs[s].name \in DOMAIN procs[c].todo_servers
     /\ procs[c].todo_servers[procs[s].name] = s
  \/ procs[c].at = "starting server" /\ procs[c].on = s

\* A server without an exit signal is linked to the cache, which knows it.
StayingInv ==
  \A s \in Servers \ exiting : Cache # 0 /\ {Cache, s} \in links /\ Knows(Cache, s)

\* A cache without an exit signal is linked to the servers it knows.
KnownInv ==
  Cache # 0 /\ Cache \notin exiting =>
    \A n \in DOMAIN procs[Cache].todo_servers :
      LET s == procs[Cache].todo_servers[n]
      IN  s \in Servers /\ procs[s].name = n /\ {Cache, s} \in links

\* It starts a server for a name it has no server for.
StartingInv ==
  Cache # 0 /\ procs[Cache].at = "starting server" =>
    LET s == procs[Cache].on
    IN  /\ procs[Cache].todo_list_name \notin DOMAIN procs[Cache].todo_servers
        /\ s \in Servers => procs[s].name = procs[Cache].todo_list_name
        /\ Cache \notin exiting => s \in Servers /\ {Cache, s} \in links

IInv ==
  /\ ProcessInv /\ CacheInv /\ DatabaseGoesWithCache
  /\ StayingInv /\ KnownInv /\ StartingInv

LEMMA IInvInit == Init => IInv
<1> SUFFICES ASSUME Init PROVE IInv
  OBVIOUS
<1>1. DOMAIN procs = {1} /\ procs[1] = NewCache
  BY DEF Init, Only
<1>2. /\ Fields \cup {"todo_servers", "todo_list_name"} \subseteq DOMAIN NewCache
      /\ NewCache.kind = "cache" /\ NewCache.at = "init"
      /\ NewCache.todo_servers = <<>>
  BY DEF NewCache, Process, Fields, With
<1>3. ProcessInv
  BY <1>1, <1>2 DEF Init, ProcessInv, Shaped
<1>4. CacheInv /\ DatabaseGoesWithCache
  BY <1>1, <1>2 DEF Init, CacheInv, DatabaseGoesWithCache, Cache, Database
<1>5. StayingInv
  BY <1>1, <1>2 DEF StayingInv, Servers
<1>6. Cache = 1
  BY DEF Init, Cache
<1>7. procs[Cache].at = "init" /\ procs[Cache].todo_servers = <<>>
  BY <1>1, <1>2, <1>6
<1>8. KnownInv
  BY <1>7 DEF KnownInv
<1>9. StartingInv
  BY <1>7 DEF StartingInv
<1> QED
  BY <1>3, <1>4, <1>5, <1>8, <1>9 DEF IInv

(***************************************************************************)
(* Steps that add processes and links, of which the invariant sees nothing *)
(* else, and steps of which it sees nothing.                               *)
(***************************************************************************)
LEMMA GrowStep ==
  ASSUME IInv, DatabaseGoesWithCache', NEW qs, NEW added, SameView(procs, qs),
         DOMAIN procs' = DOMAIN procs \cup added, added \cap DOMAIN procs = {},
         \A p \in DOMAIN procs : procs'[p] = qs[p],
         \A p \in added : /\ Fields \subseteq DOMAIN procs'[p]
                          /\ procs'[p].kind \notin {"cache", "server"},
         lastPid' \in Nat, DOMAIN procs' \subseteq 1 .. lastPid',
         links \subseteq links', \A l \in links' \ links : l \subseteq DOMAIN procs',
         exiting' = exiting, Cache' = Cache,
         registered' \in [{"todo_cache", "database_server"} -> DOMAIN procs' \cup {0}]
  PROVE  IInv'
<1>0. Shaped(qs)
  BY ViewShaped DEF IInv, ProcessInv
<1>1. Shaped(procs')
  BY <1>0 DEF Shaped, SameView
<1>2. ProcessInv'
  BY <1>1 DEF IInv, ProcessInv
<1>3. Cache # 0 => Cache \in DOMAIN procs
  BY DEF IInv, ProcessInv, Cache
<1>4. \A p \in DOMAIN procs :
        /\ procs'[p].kind = procs[p].kind
        /\ procs[p].kind = "server" => procs'[p].name = procs[p].name
        /\ procs[p].kind = "cache" =>
             /\ procs[p].at = "starting server" =>
                  procs'[p].at = "starting server" /\ procs'[p].on = procs[p].on
             /\ procs'[p].at = "starting server" => procs[p].at = "starting server"
             /\ procs'[p].todo_servers = procs[p].todo_servers
             /\ procs'[p].todo_list_name = procs[p].todo_list_name
  BY DEF SameView
<1>5. CacheInv'
  BY <1>3, <1>4 DEF IInv, CacheInv
<1>6. Servers' = Servers /\ \A s \in Servers : procs'[s].name = procs[s].name
  BY <1>4 DEF Servers
<1>7. Cache # 0 =>
        /\ procs[Cache].at = "starting server" =>
             procs'[Cache].at = "starting server" /\ procs'[Cache].on = procs[Cache].on
        /\ procs'[Cache].at = "starting server" => procs[Cache].at = "starting server"
        /\ procs'[Cache].todo_servers = procs[Cache].todo_servers
        /\ procs'[Cache].todo_list_name = procs[Cache].todo_list_name
  BY <1>3, <1>4 DEF IInv, CacheInv
<1>8. StayingInv'
  <2> SUFFICES ASSUME NEW s \in Servers, s \notin exiting
               PROVE  Cache # 0 /\ {Cache, s} \in links' /\ Knows(Cache, s)'
    BY <1>6 DEF StayingInv
  <2>1. Cache # 0 /\ {Cache, s} \in links /\ Knows(Cache, s)
    BY DEF IInv, StayingInv
  <2> QED
    BY <1>6, <1>7, <2>1 DEF Knows
<1>9. KnownInv'
  <2> SUFFICES ASSUME Cache # 0, Cache \notin exiting,
                      NEW n \in DOMAIN procs'[Cache].todo_servers
               PROVE  LET s == procs'[Cache].todo_servers[n]
                      IN  s \in Servers' /\ procs'[s].name = n /\ {Cache, s} \in links'
    BY DEF KnownInv
  <2> DEFINE s == procs[Cache].todo_servers[n]
  <2>1. s \in Servers /\ procs[s].name = n /\ {Cache, s} \in links
    BY <1>7 DEF IInv, KnownInv
  <2> QED
    BY <1>6, <1>7, <2>1
<1>10. StartingInv'
  <2> SUFFICES ASSUME Cache # 0, procs'[Cache].at = "starting server"
               PROVE  LET s == procs'[Cache].on
                      IN  /\ procs'[Cache].todo_list_name \notin DOMAIN procs'[Cache].todo_servers
                          /\ s \in Servers' => procs'[s].name = procs'[Cache].todo_list_name
                          /\ Cache \notin exiting => s \in Servers' /\ {Cache, s} \in links'
    BY DEF StartingInv
  <2> DEFINE s == procs[Cache].on
  <2>1. /\ procs[Cache].todo_list_name \notin DOMAIN procs[Cache].todo_servers
        /\ s \in Servers => procs[s].name = procs[Cache].todo_list_name
        /\ Cache \notin exiting => s \in Servers /\ {Cache, s} \in links
    BY <1>7 DEF IInv, StartingInv
  <2> QED
    BY <1>6, <1>7, <2>1
<1> QED
  BY <1>2, <1>5, <1>8, <1>9, <1>10 DEF IInv

LEMMA ViewStep ==
  ASSUME IInv, SameView(procs, procs'), Quiet
  PROVE  IInv'
<1>1. /\ DOMAIN procs' = DOMAIN procs
      /\ lastPid' = lastPid /\ links' = links /\ exiting' = exiting /\ registered' = registered
  BY DEF SameView, Quiet
<1>2. DatabaseGoesWithCache' /\ Cache' = Cache
  BY <1>1 DEF IInv, DatabaseGoesWithCache, Cache, Database
<1>3. lastPid' \in Nat /\ DOMAIN procs' \subseteq 1 .. lastPid'
  BY <1>1 DEF IInv, ProcessInv
<1>4. registered' \in [{"todo_cache", "database_server"} -> DOMAIN procs' \cup {0}]
  BY <1>1 DEF IInv, ProcessInv
<1> DEFINE qs == procs'
          added == {}
<1>5. /\ DOMAIN procs' = DOMAIN procs \cup added /\ added \cap DOMAIN procs = {}
      /\ \A p \in DOMAIN procs : procs'[p] = qs[p]
      /\ \A p \in added : /\ Fields \subseteq DOMAIN procs'[p]
                           /\ procs'[p].kind \notin {"cache", "server"}
      /\ links \subseteq links' /\ \A l \in links' \ links : l \subseteq DOMAIN procs'
  BY <1>1
<1>6. SameView(procs, qs)
  OBVIOUS
<1> HIDE DEF qs, added
<1> QED
  BY <1>1, <1>2, <1>3, <1>4, <1>5, <1>6, GrowStep

LEMMA SameStep ==
  ASSUME IInv, UNCHANGED procs, Quiet
  PROVE  IInv'
<1>1. SameView(procs, procs')
  BY DEF SameView
<1> QED
  BY <1>1, ViewStep

(***************************************************************************)
(* The end of a process.                                                   *)
(***************************************************************************)
LEMMA TerminateStep ==
  ASSUME IInv, NEW p \in DOMAIN procs, Terminate(p), lastPid' = lastPid
  PROVE  IInv'
<1>1. /\ DOMAIN procs' = DOMAIN procs \ {p}
      /\ \A q \in DOMAIN procs' : procs'[q] = procs[q]
  BY DEF Terminate
<1>2. p # 0
  BY DEF IInv, ProcessInv
<1>3. \A r \in DOMAIN registered : registered'[r] = IF registered[r] = p THEN 0 ELSE registered[r]
  BY DEF Terminate
<1>4. Cache' = (IF Cache = p THEN 0 ELSE Cache) /\ Database' = (IF Database = p THEN 0 ELSE Database)
  BY <1>3 DEF IInv, ProcessInv, Cache, Database
<1>5. \A q \in DOMAIN procs' : q \notin exiting' => q \notin exiting /\ {p, q} \notin links
  BY <1>1 DEF Terminate
<1>6. \A l \in links : p \notin l => l \in links'
  BY DEF Terminate
<1>7. ProcessInv'
  <2>1. Shaped(procs')
    BY <1>1 DEF IInv, ProcessInv, Shaped
  <2>2. registered' \in [{"todo_cache", "database_server"} -> DOMAIN procs' \cup {0}]
    BY <1>1 DEF IInv, ProcessInv, Terminate
  <2>3. \A l \in links' : l \subseteq DOMAIN procs'
    BY <1>1 DEF IInv, ProcessInv, Terminate
  <2> QED
    BY <1>1, <2>1, <2>2, <2>3 DEF IInv, ProcessInv
<1>8. CacheInv'
  BY <1>1, <1>2, <1>4 DEF IInv, ProcessInv, CacheInv, Cache
<1>9. DatabaseGoesWithCache'
  <2> SUFFICES ASSUME Database' # 0, Database' \notin exiting'
               PROVE  Cache' # 0 /\ {Cache', Database'} \in links'
    BY DEF DatabaseGoesWithCache
  <2>1. Database' = Database /\ Database # p /\ Database \in DOMAIN procs'
    BY <1>1, <1>4, <1>7 DEF IInv, ProcessInv, Database
  <2>2. Cache # 0 /\ {Cache, Database} \in links /\ {p, Database} \notin links
    BY <1>5, <2>1 DEF IInv, DatabaseGoesWithCache
  <2>3. Cache # p
    BY <2>2
  <2> QED
    BY <1>4, <1>6, <2>1, <2>2, <2>3
<1>10. Servers' = Servers \ {p}
  BY <1>1 DEF Servers
<1>11. StayingInv'
  <2> SUFFICES ASSUME NEW s \in Servers', s \notin exiting'
               PROVE  Cache' # 0 /\ {Cache', s} \in links' /\ Knows(Cache, s)'
    BY DEF StayingInv
  <2>1. s \in Servers /\ s # p /\ s \in DOMAIN procs'
    BY <1>10, <1>1 DEF Servers
  <2>2. Cache # 0 /\ {Cache, s} \in links /\ Knows(Cache, s) /\ {p, s} \notin links
    BY <1>5, <2>1 DEF IInv, StayingInv
  <2>3. Cache' = Cache /\ Cache # p
    BY <1>4, <2>2
  <2>4. Cache \in DOMAIN procs'
    BY <1>1, <2>2, <2>3 DEF IInv, ProcessInv, Cache
  <2> QED
    BY <1>1, <1>6, <2>1, <2>2, <2>3, <2>4 DEF Knows
<1>12. ASSUME Cache' # 0, Cache' \notin exiting'
       PROVE  /\ Cache' = Cache /\ Cache # 0 /\ Cache # p
              /\ Cache \notin exiting /\ procs'[Cache] = procs[Cache]
              /\ \A q : {Cache, q} \in links => q # p /\ {Cache, q} \in links'
  <2>1. Cache' = Cache /\ Cache # 0 /\ Cache # p
    BY <1>4, <1>12
  <2>2. Cache \in DOMAIN procs'
    BY <1>1, <2>1 DEF IInv, ProcessInv, Cache
  <2>3. Cache \notin exiting /\ {p, Cache} \notin links
    BY <1>5, <1>12, <2>1, <2>2
  <2>4. {p, Cache} = {Cache, p}
    OBVIOUS
  <2> QED
    BY <1>1, <1>6, <2>1, <2>2, <2>3, <2>4
<1>13. KnownInv'
  <2> SUFFICES ASSUME Cache' # 0, Cache' \notin exiting',
                      NEW n \in DOMAIN procs'[Cache'].todo_servers
               PROVE  LET s == procs'[Cache'].todo_servers[n]
                      IN  s \in Servers' /\ procs'[s].name = n /\ {Cache', s} \in links'
    BY DEF KnownInv
  <2> DEFINE s == procs[Cache].todo_servers[n]
  <2>1. s \in Servers /\ procs[s].name = n /\ {Cache, s} \in links
    BY <1>12 DEF IInv, KnownInv
  <2>2. s # p /\ {Cache, s} \in links'
    BY <1>12, <2>1
  <2>3. procs'[s] = procs[s]
    BY <1>1, <2>1, <2>2 DEF Servers
  <2> QED
    BY <1>10, <1>12, <2>1, <2>2, <2>3
<1>14. StartingInv'
  <2> SUFFICES ASSUME Cache' # 0, procs'[Cache'].at = "starting server"
               PROVE  LET s == procs'[Cache'].on
                      IN  /\ procs'[Cache'].todo_list_name \notin DOMAIN procs'[Cache'].todo_servers
                          /\ s \in Servers' => procs'[s].name = procs'[Cache'].todo_list_name
                          /\ Cache' \notin exiting' => s \in Servers' /\ {Cache', s} \in links'
    BY DEF StartingInv
  <2> DEFINE s == procs[Cache].on
  <2>1. Cache' = Cache /\ Cache # 0 /\ procs'[Cache] = procs[Cache]
    BY <1>1, <1>4, <1>7 DEF ProcessInv, Cache
  <2>2. /\ procs[Cache].todo_list_name \notin DOMAIN procs[Cache].todo_servers
        /\ s \in Servers => procs[s].name = procs[Cache].todo_list_name
        /\ Cache \notin exiting => s \in Servers /\ {Cache, s} \in links
    BY <2>1 DEF IInv, StartingInv
  <2>3. \A x \in Servers' : x \in Servers /\ procs'[x] = procs[x]
    BY <1>1, <1>10 DEF Servers
  <2>4. Cache' \notin exiting' => s \in Servers' /\ {Cache, s} \in links'
    BY <1>10, <1>12, <2>1, <2>2
  <2> QED
    BY <2>1, <2>2, <2>3, <2>4
<1> QED
  BY <1>7, <1>8, <1>9, <1>11, <1>13, <1>14 DEF IInv

(***************************************************************************)
(* A new process.                                                          *)
(***************************************************************************)
LEMMA NewPid ==
  ASSUME IInv
  PROVE  /\ Spawned \in Nat \ {0} /\ Spawned \notin DOMAIN procs
         /\ DOMAIN procs \cup {Spawned} \subseteq 1 .. Spawned
         /\ Cache # Spawned /\ Database # Spawned
         /\ 0 \notin DOMAIN procs
         /\ \A x : {x, Spawned} \notin links
<1>1. Spawned \in Nat \ {0} /\ Spawned \notin DOMAIN procs /\ 0 \notin DOMAIN procs
  BY DEF IInv, ProcessInv, Spawned
<1>4. DOMAIN procs \cup {Spawned} \subseteq 1 .. Spawned
  BY DEF IInv, ProcessInv, Spawned
<1>2. Cache # Spawned /\ Database # Spawned
  BY <1>1 DEF IInv, ProcessInv, Cache, Database
<1>3. \A x : {x, Spawned} \notin links
  BY <1>1 DEF IInv, ProcessInv
<1> QED
  BY <1>1, <1>2, <1>3, <1>4

LEMMA StartDatabaseStep ==
  ASSUME IInv, NEW c \in DOMAIN procs, StartDatabase(c)
  PROVE  IInv'
<1>1. procs[c].kind = "cache" /\ procs[c].at = "init" /\ c = Cache /\ Cache # 0
  BY NewPid DEF StartDatabase, In, IInv, CacheInv
<1>2. Shaped(procs)
  BY DEF IInv, ProcessInv
<1>3. CASE registered.database_server # 0
  <2>1. SameView(procs, procs')
    BY <1>1, <1>2, <1>3, WaitsView DEF StartDatabase, Resumes
  <2> QED
    BY <1>3, <2>1, ViewStep DEF StartDatabase
<1>4. CASE registered.database_server = 0
  <2> DEFINE qs == Waits(procs, c, "starting database", Spawned)
  <2>1. SameView(procs, qs)
    BY <1>1, <1>2, WaitsView
  <2>2. /\ procs' = With(Only(Spawned, NewDatabase(c)), qs)
        /\ lastPid' = Spawned /\ links' = links \cup {{c, Spawned}} /\ exiting' = exiting
        /\ registered' = [registered EXCEPT !.database_server = Spawned]
    BY <1>4 DEF StartDatabase, Linked
  <2>3. /\ DOMAIN procs' = DOMAIN procs \cup {Spawned}
        /\ procs'[Spawned] = NewDatabase(c)
        /\ \A p \in DOMAIN procs : procs'[p] = qs[p]
    BY <2>1, <2>2, NewPid DEF With, Only, SameView
  <2>4. Fields \subseteq DOMAIN NewDatabase(c) /\ NewDatabase(c).kind = "database"
    BY DEF NewDatabase, Process, With, Fields
  <2>5. Cache' = Cache /\ Database' = Spawned
    BY <2>2 DEF IInv, ProcessInv, Cache, Database
  <2>6. DatabaseGoesWithCache'
    BY <1>1, <2>2, <2>5 DEF DatabaseGoesWithCache
  <2>7. lastPid' \in Nat /\ DOMAIN procs' \subseteq 1 .. lastPid'
    BY <2>2, <2>3, NewPid
  <2>8. registered' \in [{"todo_cache", "database_server"} -> DOMAIN procs' \cup {0}]
    BY <2>2, <2>3 DEF IInv, ProcessInv
  <2> DEFINE added == {Spawned}
  <2>9. /\ DOMAIN procs' = DOMAIN procs \cup added /\ added \cap DOMAIN procs = {}
        /\ \A p \in added : /\ Fields \subseteq DOMAIN procs'[p]
                             /\ procs'[p].kind \notin {"cache", "server"}
    BY <2>3, <2>4, NewPid
  <2>10. links \subseteq links' /\ \A l \in links' \ links : l \subseteq DOMAIN procs'
    BY <2>2, <2>3
  <2> HIDE DEF qs, added
  <2> QED
    BY <2>1, <2>2, <2>3, <2>5, <2>6, <2>7, <2>8, <2>9, <2>10, GrowStep
<1> QED
  BY <1>3, <1>4

LEMMA DatabaseStartedStep ==
  ASSUME IInv, NEW c \in DOMAIN procs, DatabaseStarted(c)
  PROVE  IInv'
<1>1. Shaped(procs) /\ procs[c].at = "starting database"
  BY DEF IInv, ProcessInv, DatabaseStarted, In
<1>2. SameView(procs, procs')
  BY <1>1, WaitsView DEF DatabaseStarted, Resumes
<1> QED
  BY <1>2, ViewStep DEF DatabaseStarted

LEMMA ServerProcessStep ==
  ASSUME IInv, NEW c \in DOMAIN procs, ServerProcess(c)
  PROVE  IInv'
<1> DEFINE n == Message(c)
<1>1. /\ Shaped(procs) /\ c = Cache /\ Cache # 0 /\ procs[c].kind = "cache"
      /\ procs[c].at = "idle"
  BY NewPid DEF IInv, ProcessInv, CacheInv, ServerProcess, In
<1>2. CASE n \in DOMAIN procs[c].todo_servers
  <2>1. SameView(procs, procs')
    BY <1>1, <1>2, TakenView DEF ServerProcess
  <2> QED
    BY <1>2, <2>1, ViewStep DEF ServerProcess
<1>3. CASE n \notin DOMAIN procs[c].todo_servers
  <2> DEFINE taken == Taken(procs, c)
             ws == Waits(taken, c, "starting server", Spawned)
             qs == [ws EXCEPT ![c].todo_list_name = n]
  <2>1. /\ procs' = With(Only(Spawned, NewServer(c, n)), qs)
        /\ lastPid' = Spawned /\ links' = links \cup {{c, Spawned}}
        /\ exiting' = exiting /\ registered' = registered
    BY <1>3 DEF ServerProcess, Linked
  <2>2. SameView(procs, taken) /\ Shaped(taken)
    BY <1>1, TakenView, ViewShaped
  <2>3. /\ DOMAIN qs = DOMAIN procs
        /\ \A p \in DOMAIN procs :
             DOMAIN qs[p] = DOMAIN procs[p] /\ qs[p].kind = procs[p].kind
        /\ \A p \in DOMAIN procs : p # c => qs[p] = taken[p]
    <3>1. /\ DOMAIN taken = DOMAIN procs
          /\ \A p \in DOMAIN procs :
               DOMAIN taken[p] = DOMAIN procs[p] /\ taken[p].kind = procs[p].kind
          /\ Fields \cup {"todo_servers", "todo_list_name"} \subseteq DOMAIN taken[c]
      BY <1>1, <2>2 DEF SameView, Shaped
    <3>2. /\ DOMAIN ws = DOMAIN procs
          /\ \A p \in DOMAIN procs :
               DOMAIN ws[p] = DOMAIN procs[p] /\ ws[p].kind = procs[p].kind
          /\ \A p \in DOMAIN procs : p # c => ws[p] = taken[p]
      <4> HIDE DEF taken
      <4>1. c \in DOMAIN taken
        BY <3>1
      <4>2. ws = [taken EXCEPT ![c] = [@ EXCEPT !.at = "starting server", !.on = Spawned,
                                                 !.reply = NoReply]]
        BY <4>1 DEF Waits
      <4>3. DOMAIN ws = DOMAIN taken /\ \A p \in DOMAIN procs : p # c => ws[p] = taken[p]
        BY <3>1, <4>2
      <4>4. DOMAIN ws[c] = DOMAIN taken[c] /\ ws[c].kind = taken[c].kind
        BY <3>1, <4>1, <4>2 DEF Fields
      <4> QED
        BY <3>1, <4>3, <4>4
    <3> HIDE DEF ws
    <3> QED
      BY <3>2
  <2>4. /\ qs[c].at = "starting server" /\ qs[c].on = Spawned
        /\ qs[c].todo_servers = procs[c].todo_servers /\ qs[c].todo_list_name = n
    <3>1. /\ c \in DOMAIN taken /\ taken[c].todo_servers = procs[c].todo_servers
          /\ Fields \cup {"todo_servers", "todo_list_name"} \subseteq DOMAIN taken[c]
      BY <1>1, <2>2 DEF SameView, Shaped
    <3>2. /\ c \in DOMAIN ws /\ ws[c].todo_servers = procs[c].todo_servers
          /\ ws[c].at = "starting server" /\ ws[c].on = Spawned
          /\ Fields \cup {"todo_servers", "todo_list_name"} \subseteq DOMAIN ws[c]
      <4> HIDE DEF taken
      <4> QED
        BY <3>1 DEF Waits, Fields
    <3> HIDE DEF ws
    <3> QED
      BY <3>2 DEF Fields
  <2>5. /\ DOMAIN procs' = DOMAIN procs \cup {Spawned}
        /\ procs'[Spawned] = NewServer(c, n)
        /\ \A p \in DOMAIN procs : procs'[p] = qs[p]
    BY <2>1, <2>3, NewPid DEF With, Only
  <2>6. /\ Fields \cup {"name"} \subseteq DOMAIN NewServer(c, n)
        /\ NewServer(c, n).kind = "server" /\ NewServer(c, n).name = n
    BY DEF NewServer, Process, With, Fields
  <2>7. Cache' = Cache /\ Database' = Database
    BY <2>1 DEF Cache, Database
  <2> HIDE DEF n, taken, ws, qs
  <2>8. Shaped(procs')
    BY <1>1, <2>3, <2>5, <2>6 DEF Shaped
  <2>9. ProcessInv'
    <3>1. lastPid' \in Nat /\ DOMAIN procs' \subseteq 1 .. lastPid'
      BY <2>1, <2>5, NewPid
    <3>2. \A l \in links' : l \subseteq DOMAIN procs'
      BY <2>1, <2>5 DEF IInv, ProcessInv
    <3>3. registered' \in [{"todo_cache", "database_server"} -> DOMAIN procs' \cup {0}]
      BY <2>1, <2>5 DEF IInv, ProcessInv
    <3> QED
      BY <2>8, <3>1, <3>2, <3>3 DEF ProcessInv
  <2>10. CacheInv'
    BY <1>1, <2>3, <2>5, <2>6, <2>7 DEF IInv, CacheInv
  <2>11. DatabaseGoesWithCache'
    BY <2>1, <2>7 DEF IInv, DatabaseGoesWithCache
  <2>12. /\ Servers' = Servers \cup {Spawned}
         /\ \A s \in Servers : procs'[s].name = procs[s].name
    <3>1. \A p \in DOMAIN procs : procs[p].kind = "server" => procs'[p].name = procs[p].name
      <4> SUFFICES ASSUME NEW p \in DOMAIN procs, procs[p].kind = "server"
                   PROVE  procs'[p].name = procs[p].name
        OBVIOUS
      <4>1. procs'[p] = taken[p]
        BY <1>1, <2>3, <2>5
      <4> QED
        BY <2>2, <4>1 DEF SameView
    <3> QED
      BY <2>3, <2>5, <2>6, <3>1 DEF Servers
  <2>13. /\ procs'[Cache].at = "starting server" /\ procs'[Cache].on = Spawned
         /\ procs'[Cache].todo_servers = procs[Cache].todo_servers
         /\ procs'[Cache].todo_list_name = n
    BY <1>1, <2>4, <2>5
  <2>14. StayingInv'
    <3> SUFFICES ASSUME NEW s \in Servers', s \notin exiting
                 PROVE  Cache # 0 /\ {Cache, s} \in links' /\ Knows(Cache, s)'
      BY <2>1, <2>7 DEF StayingInv
    <3>1. CASE s = Spawned
      BY <1>1, <2>1, <2>7, <2>13, <3>1 DEF Knows
    <3>2. CASE s \in Servers
      <4>1. {Cache, s} \in links /\ Knows(Cache, s)
        BY <3>2 DEF IInv, StayingInv
      <4> QED
        BY <1>1, <2>1, <2>7, <2>12, <2>13, <3>2, <4>1 DEF Knows
    <3> QED
      BY <2>12, <3>1, <3>2
  <2>15. KnownInv'
    <3> SUFFICES ASSUME Cache \notin exiting, NEW m \in DOMAIN procs[Cache].todo_servers
                 PROVE  LET s == procs[Cache].todo_servers[m]
                        IN  s \in Servers' /\ procs'[s].name = m /\ {Cache, s} \in links'
      BY <2>1, <2>7, <2>13 DEF KnownInv
    <3> DEFINE s == procs[Cache].todo_servers[m]
    <3>1. s \in Servers /\ procs[s].name = m /\ {Cache, s} \in links
      BY <1>1 DEF IInv, KnownInv
    <3> QED
      BY <2>1, <2>12, <3>1
  <2>16. StartingInv'
    BY <1>1, <1>3, <2>1, <2>5, <2>6, <2>7, <2>12, <2>13 DEF StartingInv
  <2> QED
    BY <2>9, <2>10, <2>11, <2>14, <2>15, <2>16 DEF IInv
<1> QED
  BY <1>2, <1>3

LEMMA ServerStartedStep ==
  ASSUME IInv, NEW c \in DOMAIN procs, ServerStarted(c)
  PROVE  IInv'
<1> DEFINE s == procs[c].on
           n == procs[c].todo_list_name
           known == Remember(c, n, s)
           qs == Resumes(procs, c)
<1>1. /\ Shaped(procs) /\ c = Cache /\ Cache # 0 /\ procs[c].kind = "cache"
      /\ procs[c].at = "starting server"
  BY NewPid DEF IInv, ProcessInv, CacheInv, ServerStarted, In
<1>2. /\ procs' = [qs EXCEPT ![c].todo_servers = known, ![c].todo_list_name = ""]
      /\ lastPid' = lastPid /\ links' = links /\ exiting' = exiting /\ registered' = registered
  BY DEF ServerStarted, Quiet
<1>3. /\ DOMAIN procs' = DOMAIN procs
      /\ \A p \in DOMAIN procs :
           DOMAIN procs'[p] = DOMAIN procs[p] /\ procs'[p].kind = procs[p].kind
      /\ \A p \in DOMAIN procs : p # c => procs'[p] = procs[p]
  BY <1>1, <1>2 DEF Resumes, Waits, Shaped, Fields
<1>4. procs'[c].at = "idle" /\ procs'[c].todo_servers = known
  BY <1>1, <1>2 DEF Resumes, Waits, Shaped, Fields
<1>5. /\ DOMAIN known = DOMAIN procs[c].todo_servers \cup {n}
      /\ known[n] = s
      /\ \A m \in DOMAIN procs[c].todo_servers : m # n => known[m] = procs[c].todo_servers[m]
  BY DEF Remember, With, Only
<1>6. Cache' = Cache /\ Database' = Database
  BY <1>2 DEF Cache, Database
<1>7. Shaped(procs')
  BY <1>1, <1>3 DEF Shaped
<1> HIDE DEF s, n, known, qs
<1>8. ProcessInv' /\ CacheInv' /\ DatabaseGoesWithCache'
  <2>1. ProcessInv'
    BY <1>2, <1>3, <1>7 DEF IInv, ProcessInv
  <2>2. CacheInv'
    BY <1>1, <1>3, <1>6 DEF IInv, CacheInv
  <2>3. DatabaseGoesWithCache'
    BY <1>2, <1>6 DEF IInv, DatabaseGoesWithCache
  <2> QED
    BY <2>1, <2>2, <2>3
<1>9. Servers' = Servers /\ \A x \in Servers : procs'[x] = procs[x]
  BY <1>1, <1>3 DEF Servers
<1>10. /\ n \notin DOMAIN procs[c].todo_servers
       /\ s \in Servers => procs[s].name = n
       /\ Cache \notin exiting => s \in Servers /\ {Cache, s} \in links
  BY <1>1 DEF IInv, StartingInv, s, n
<1>11. KnownInv'
  <2> SUFFICES ASSUME Cache \notin exiting, NEW m \in DOMAIN known
               PROVE  known[m] \in Servers /\ procs[known[m]].name = m /\ {Cache, known[m]} \in links
    <3>1. procs'[Cache'].todo_servers = known
      BY <1>1, <1>4, <1>6
    <3>2. \A x \in Servers : x \in Servers' /\ procs'[x].name = procs[x].name
      BY <1>9
    <3> SUFFICES ASSUME Cache' \notin exiting', NEW m \in DOMAIN procs'[Cache'].todo_servers
                 PROVE  LET x == procs'[Cache'].todo_servers[m]
                        IN  x \in Servers' /\ procs'[x].name = m /\ {Cache', x} \in links'
      BY DEF KnownInv
    <3>3. Cache \notin exiting /\ m \in DOMAIN known
      BY <1>2, <1>6, <3>1
    <3>4. known[m] \in Servers /\ procs[known[m]].name = m /\ {Cache, known[m]} \in links
      BY <3>3
    <3>5. links' = links
      BY <1>2
    <3> QED
      BY <1>6, <3>1, <3>2, <3>4, <3>5
  <2>1. CASE m = n
    BY <1>5, <1>10, <2>1
  <2>2. CASE m # n
    BY <1>1, <1>5, <2>2 DEF IInv, KnownInv
  <2> QED
    BY <2>1, <2>2
<1>12. StayingInv'
  <2> SUFFICES ASSUME NEW x \in Servers, x \notin exiting
               PROVE  {Cache, x} \in links /\ procs[x].name \in DOMAIN known /\ known[procs[x].name] = x
    <3>1. procs'[Cache'].todo_servers = known
      BY <1>1, <1>4, <1>6
    <3>2. \A x \in Servers' : x \in Servers /\ procs'[x].name = procs[x].name
      BY <1>9
    <3> QED
      BY <1>1, <1>2, <1>6, <3>1, <3>2 DEF StayingInv, Knows
  <2>1. {Cache, x} \in links /\ Knows(Cache, x)
    BY DEF IInv, StayingInv
  <2>2. CASE x = s
    BY <1>5, <1>10, <2>1, <2>2
  <2>3. CASE x # s
    BY <1>1, <1>5, <1>10, <2>1, <2>3 DEF Knows, s
  <2> QED
    BY <2>2, <2>3
<1>13. StartingInv'
  BY <1>1, <1>4, <1>6 DEF StartingInv
<1> QED
  BY <1>8, <1>11, <1>12, <1>13 DEF IInv
(***************************************************************************)
(* The database starts its workers.                                        *)
(***************************************************************************)
LEMMA WorkerPids ==
  ASSUME lastPid \in Nat
  PROVE  LET n == Cardinality(WorkerIds)
         IN  /\ n \in Nat
             /\ \E f \in [WorkerIds -> lastPid + 1 .. lastPid + n] :
                  \A i, j \in WorkerIds : f[i] = f[j] => i = j
<1> DEFINE n == Cardinality(WorkerIds)
<1>1. IsFiniteSet(WorkerIds)
  <2>1. WorkerIds \in SUBSET (0 .. 2)
    BY HashAssumption DEF WorkerIds
  <2>2. \A a, b \in Int : IsFiniteSet(a .. b)
    BY FS_Interval
  <2>3. IsFiniteSet(0 .. 2)
    BY <2>2, 0 \in Int /\ 2 \in Int, Zenon
  <2> QED
    BY <2>1, <2>3, FS_Subset
<1>2. n \in Nat /\ ExistsBijection(1 .. n, WorkerIds)
  BY <1>1, FS_CardinalityType
<1> HIDE DEF n
<1>3. PICK g \in Bijection(WorkerIds, 1 .. n) : TRUE
  BY <1>2, Fun_ExistsBijSymmetric, Fun_ExistsBij
<1>4. g \in [WorkerIds -> 1 .. n] /\ \A i, j \in WorkerIds : g[i] = g[j] => i = j
  BY <1>3 DEF Bijection, Injection, IsInjective
<1> DEFINE f == [i \in WorkerIds |-> lastPid + g[i]]
<1>5. f \in [WorkerIds -> lastPid + 1 .. lastPid + n]
  BY <1>2, <1>4
<1>6. \A i, j \in WorkerIds : f[i] = f[j] => i = j
  BY <1>2, <1>4
<1> HIDE DEF f
<1> QED
  BY <1>2, <1>5, <1>6 DEF n
LEMMA StartWorkersStep ==
  ASSUME IInv, NEW d \in DOMAIN procs, StartWorkers(d)
  PROVE  IInv'
<1> DEFINE n == Cardinality(WorkerIds)
           pid == CHOOSE f \in [WorkerIds -> lastPid + 1 .. lastPid + n] :
                    \A i, j \in WorkerIds : f[i] = f[j] => i = j
           workers == {pid[i] : i \in WorkerIds}
           ready == Resumes(procs, d)
           listed == [ready EXCEPT ![d].worker_list = pid]
           qs == Replied(listed, procs[d].parent, d)
<1>1. /\ Shaped(procs) /\ lastPid \in Nat /\ DOMAIN procs \subseteq 1 .. lastPid
      /\ procs[d].kind = "database"
  BY DEF IInv, ProcessInv, StartWorkers, In
<1>2. /\ procs' = With([w \in workers |-> NewWorker(d)], qs)
      /\ lastPid' = lastPid + n /\ links' = links \cup {{d, w} : w \in workers}
      /\ exiting' = exiting /\ registered' = registered
  BY DEF StartWorkers
<1>3. n \in Nat /\ pid \in [WorkerIds -> lastPid + 1 .. lastPid + n]
  <2>1. n \in Nat /\ \E f \in [WorkerIds -> lastPid + 1 .. lastPid + n] :
                       \A i, j \in WorkerIds : f[i] = f[j] => i = j
    BY <1>1, WorkerPids
  <2> HIDE DEF n
  <2> QED
    BY <2>1
<1> HIDE DEF n, pid
<1>4. workers \subseteq lastPid + 1 .. lastPid + n
  BY <1>3
<1>5. SameView(procs, qs)
  <2>1. SameView(procs, ready)
    BY <1>1, WaitsView DEF Resumes
  <2>2. Shaped(ready) /\ d \in DOMAIN ready /\ ready[d].kind = "database"
    BY <1>1, <2>1, ViewShaped DEF SameView
  <2> HIDE DEF ready
  <2>3. SameView(ready, listed)
    <3> DEFINE r == [ready[d] EXCEPT !.worker_list = pid]
    <3>1. listed = [ready EXCEPT ![d] = r]
      OBVIOUS
    <3>2. DOMAIN r = DOMAIN ready[d] /\ r.kind = ready[d].kind
      OBVIOUS
    <3> HIDE DEF r, listed
    <3>3. SameView(ready, [ready EXCEPT ![d] = r])
      BY <2>2, <3>2, PutView
    <3> QED
      BY <3>1, <3>3
  <2> QED
    BY <1>1, <2>1, <2>3, ViewShaped, ViewTransitive, RepliedView
<1> HIDE DEF workers, qs
<1>6. workers \cap DOMAIN procs = {}
  BY <1>1, <1>3, <1>4
<1>7. /\ DOMAIN procs' = DOMAIN procs \cup workers
      /\ \A p \in DOMAIN procs : procs'[p] = qs[p]
      /\ \A p \in workers : procs'[p] = NewWorker(d)
  BY <1>2, <1>5, <1>6 DEF With, SameView
<1>8. Fields \subseteq DOMAIN NewWorker(d) /\ NewWorker(d).kind = "worker"
  BY DEF NewWorker, Process, With, Fields
<1>9. lastPid' \in Nat /\ DOMAIN procs' \subseteq 1 .. lastPid'
  <2>1. lastPid' = lastPid + n
    BY <1>2
  <2>2. \A w \in workers : w \in 1 .. lastPid + n
    BY <1>1, <1>3, <1>4
  <2>3. \A p \in DOMAIN procs : p \in 1 .. lastPid + n
    BY <1>1, <1>3
  <2> QED
    BY <1>1, <1>3, <1>7, <2>1, <2>2, <2>3
<1>10. /\ links \subseteq links'
       /\ \A l \in links' \ links : l \subseteq DOMAIN procs'
  BY <1>2, <1>7
<1>11. registered' \in [{"todo_cache", "database_server"} -> DOMAIN procs' \cup {0}]
  BY <1>2, <1>7 DEF IInv, ProcessInv
<1>12. Cache' = Cache /\ DatabaseGoesWithCache'
  BY <1>2 DEF IInv, DatabaseGoesWithCache, Cache, Database
<1>13. \A p \in workers : /\ Fields \subseteq DOMAIN procs'[p]
                           /\ procs'[p].kind \notin {"cache", "server"}
  BY <1>7, <1>8
<1> QED
  BY <1>2, <1>5, <1>6, <1>7, <1>9, <1>10, <1>11, <1>12, <1>13, GrowStep

(***************************************************************************)
(* The supervisor starts a cache, only when there is none: all servers and *)
(* the database, if there are any, have exit signals coming.               *)
(***************************************************************************)
LEMMA RestartStep ==
  ASSUME IInv, Restart
  PROVE  IInv'
<1>1. Cache = 0 /\ \A p \in DOMAIN procs : procs[p].kind # "cache"
  <2>1. Cache = 0
    BY DEF Restart, Cache
  <2> QED
    BY <2>1, NewPid DEF IInv, CacheInv
<1>2. CASE StartCache
  <2>1. /\ procs' = With(Only(Spawned, NewCache), procs)
        /\ lastPid' = Spawned /\ links' = links /\ exiting' = exiting
        /\ registered' = [registered EXCEPT !.todo_cache = Spawned]
    BY <1>2 DEF StartCache
  <2>2. /\ DOMAIN procs' = DOMAIN procs \cup {Spawned}
        /\ procs'[Spawned] = NewCache
        /\ \A p \in DOMAIN procs : procs'[p] = procs[p]
    BY <2>1, NewPid DEF With, Only
  <2>3. /\ Fields \cup {"todo_servers", "todo_list_name"} \subseteq DOMAIN NewCache
        /\ NewCache.kind = "cache" /\ NewCache.at = "init"
        /\ NewCache.todo_servers = <<>>
    BY DEF NewCache, Process, Fields, With
  <2>4. Cache' = Spawned /\ Database' = Database
    BY <2>1 DEF IInv, ProcessInv, Cache, Database
  <2>5. procs'[Cache'].at = "init" /\ DOMAIN procs'[Cache'].todo_servers = {}
    BY <2>2, <2>3, <2>4
  <2>6. ProcessInv'
    <3>1. Shaped(procs')
      BY <2>2, <2>3 DEF IInv, ProcessInv, Shaped
    <3>2. lastPid' \in Nat /\ DOMAIN procs' \subseteq 1 .. lastPid'
      BY <2>1, <2>2, NewPid
    <3>3. \A l \in links' : l \subseteq DOMAIN procs'
      BY <2>1, <2>2 DEF IInv, ProcessInv
    <3>4. registered' \in [{"todo_cache", "database_server"} -> DOMAIN procs' \cup {0}]
      BY <2>1, <2>2 DEF IInv, ProcessInv
    <3> QED
      BY <3>1, <3>2, <3>3, <3>4 DEF ProcessInv
  <2>7. CacheInv'
    BY <1>1, <2>2, <2>3, <2>4 DEF CacheInv
  <2>8. DatabaseGoesWithCache'
    BY <1>1, <2>1, <2>4 DEF IInv, DatabaseGoesWithCache
  <2>9. StayingInv'
    <3>1. Servers' = Servers
      BY <2>2, <2>3, NewPid DEF Servers
    <3>2. Servers \subseteq exiting
      BY <1>1 DEF IInv, StayingInv
    <3> QED
      BY <2>1, <3>1, <3>2 DEF StayingInv
  <2>10. KnownInv'
    BY <2>5 DEF KnownInv
  <2>11. StartingInv'
    BY <2>5 DEF StartingInv
  <2> QED
    BY <2>6, <2>7, <2>8, <2>9, <2>10, <2>11 DEF IInv
<1>3. CASE UNCHANGED <<procs, lastPid, links, exiting, registered>>
  BY <1>3, SameStep DEF Quiet
<1> QED
  BY <1>2, <1>3 DEF Restart
LEMMA KillStep ==
  ASSUME IInv, Kill
  PROVE  IInv'
<1>1. /\ procs' = procs /\ lastPid' = lastPid /\ links' = links /\ registered' = registered
      /\ exiting' = exiting \cup {Cache} /\ Cache # 0
  BY DEF Kill, Cache
<1>2. Cache' = Cache /\ Database' = Database
  BY <1>1 DEF Cache, Database
<1>3. Servers' = Servers
  BY <1>1 DEF Servers
<1>4. ProcessInv' /\ CacheInv'
  BY <1>1, <1>2 DEF IInv, ProcessInv, CacheInv
<1>5. DatabaseGoesWithCache'
  BY <1>1, <1>2 DEF IInv, DatabaseGoesWithCache
<1>6. StayingInv'
  BY <1>1, <1>2, <1>3 DEF IInv, StayingInv, Knows
<1>7. KnownInv'
  BY <1>1, <1>2 DEF KnownInv
<1>8. StartingInv'
  BY <1>1, <1>2, <1>3 DEF IInv, StartingInv
<1> QED
  BY <1>4, <1>5, <1>6, <1>7, <1>8 DEF IInv

(***************************************************************************)
(* Steps of which the invariant sees nothing, or the end of a process.     *)
(***************************************************************************)
LEMMA ChooseWorkerStep ==
  ASSUME IInv, NEW d \in DOMAIN procs, ChooseWorker(d)
  PROVE  IInv'
<1>1. Shaped(procs)
  BY DEF IInv, ProcessInv
<1>2. SameView(procs, procs')
  BY <1>1, TakenView, ViewShaped, RepliedView, ViewTransitive DEF ChooseWorker
<1> QED
  BY <1>2, ViewStep DEF ChooseWorker

LEMMA WorkerStep ==
  ASSUME IInv, NEW w \in DOMAIN procs, OpenFile(w) \/ WriteFile(w) \/ GetFile(w)
  PROVE  IInv'
<1>1. Shaped(procs) /\ procs[w].kind = "worker"
  BY DEF IInv, ProcessInv, OpenFile, WriteFile, GetFile, In
<1> DEFINE taken == Taken(procs, w)
<1>2. SameView(procs, taken)
  BY <1>1, TakenView
<1>3. Shaped(taken) /\ w \in DOMAIN taken /\ taken[w].kind = "worker"
  BY <1>1, <1>2, ViewShaped DEF SameView
<1>4. CASE OpenFile(w)
  <2> DEFINE r == [taken[w] EXCEPT !.at = "writing", !.job = <<Message(w)>>]
  <2>1. procs' = [taken EXCEPT ![w] = r]
    BY <1>4 DEF OpenFile
  <2> HIDE DEF taken
  <2>2. DOMAIN r = DOMAIN taken[w] /\ r.kind = taken[w].kind
    OBVIOUS
  <2> HIDE DEF r
  <2>3. SameView(procs, procs')
    BY <1>2, <1>3, <2>1, <2>2, PutView, ViewTransitive
  <2> QED
    BY <1>4, <2>3, ViewStep DEF OpenFile
<1>5. CASE WriteFile(w)
  <2> DEFINE r == [procs[w] EXCEPT !.at = "idle", !.job = <<>>]
  <2>1. procs' = [procs EXCEPT ![w] = r]
    BY <1>5 DEF WriteFile
  <2>2. DOMAIN r = DOMAIN procs[w] /\ r.kind = procs[w].kind
    OBVIOUS
  <2> HIDE DEF r
  <2>3. SameView(procs, procs')
    BY <1>1, <2>1, <2>2, PutView
  <2> QED
    BY <1>5, <2>3, ViewStep DEF WriteFile
<1>6. CASE GetFile(w)
  <2>1. CASE file[Message(w).key].state = "partial"
    BY <1>6, <2>1, TerminateStep DEF GetFile
  <2>2. CASE file[Message(w).key].state # "partial"
    <3>1. /\ procs' = Replied(taken, Message(w).from, file[Message(w).key].list)
          /\ Quiet
      BY <1>6, <2>2 DEF GetFile
    <3> HIDE DEF taken
    <3> QED
      BY <1>2, <1>3, <3>1, RepliedView, ViewTransitive, ViewStep
  <2> QED
    BY <2>1, <2>2
<1> QED
  BY <1>4, <1>5, <1>6

LEMMA CallDatabaseStep ==
  ASSUME IInv, NEW ps, NEW s \in DOMAIN procs, NEW at, SameView(procs, ps),
         procs[s].kind = "server", CallDatabase(ps, s, at)
  PROVE  IInv'
<1>1. CASE registered.database_server = 0
  BY <1>1, TerminateStep DEF CallDatabase
<1>2. CASE registered.database_server # 0
  <2> DEFINE db == registered.database_server
             sent == Sent(ps, db, [from |-> s, key |-> procs[s].name])
  <2>1. Quiet /\ procs' = Waits(sent, s, at, db)
    BY <1>2 DEF CallDatabase
  <2>2. Shaped(ps)
    BY ViewShaped DEF IInv, ProcessInv
  <2>3. SameView(procs, sent) /\ Shaped(sent)
    BY <2>2, SentView, ViewTransitive, ViewShaped
  <2> HIDE DEF sent, db
  <2>4. s \in DOMAIN sent /\ sent[s].kind = "server"
    BY <2>3 DEF SameView
  <2>5. SameView(procs, procs')
    BY <2>1, <2>3, <2>4, WaitsView, ViewTransitive
  <2> QED
    BY <2>1, <2>5, ViewStep
<1> QED
  BY <1>1, <1>2

LEMMA ServerStartsStep ==
  ASSUME IInv, NEW s \in DOMAIN procs, ServerInit(s) \/ ServerGet(s) \/ ServerReady(s)
  PROVE  IInv'
<1>1. Shaped(procs) /\ procs[s].kind = "server" /\ SameView(procs, procs)
  BY DEF IInv, ProcessInv, ServerInit, ServerGet, ServerReady, In, SameView
<1>2. CASE ServerInit(s)
  BY <1>1, <1>2, CallDatabaseStep DEF ServerInit
<1>3. CASE ServerGet(s)
  <2> DEFINE w == Reply(s)
             sent == Sent(procs, w, [op |-> "get", from |-> s, key |-> procs[s].name])
  <2>1. CASE ~Alive(w)
    BY <1>3, <2>1, TerminateStep DEF ServerGet
  <2>2. CASE Alive(w)
    <3>1. Quiet /\ procs' = Waits(sent, s, "getting", w)
      BY <1>3, <2>2 DEF ServerGet
    <3>2. SameView(procs, sent)
      BY <1>1, SentView
    <3> HIDE DEF sent, w
    <3>3. Shaped(sent) /\ s \in DOMAIN sent /\ sent[s].kind = "server"
      BY <1>1, <3>2, ViewShaped DEF SameView
    <3> QED
      BY <3>1, <3>2, <3>3, WaitsView, ViewTransitive, ViewStep
  <2> QED
    BY <2>1, <2>2
<1>4. CASE ServerReady(s)
  <2> DEFINE ready == Resumes(procs, s)
             r == [ready[s] EXCEPT !.list = Reply(s)]
             loaded == [ready EXCEPT ![s] = r]
  <2>1. Quiet /\ procs' = Replied(loaded, procs[s].parent, s)
    BY <1>4 DEF ServerReady
  <2>2. SameView(procs, ready)
    BY <1>1, WaitsView DEF Resumes
  <2> HIDE DEF ready
  <2>3. Shaped(ready) /\ s \in DOMAIN ready /\ ready[s].kind = "server"
    BY <1>1, <2>2, ViewShaped DEF SameView
  <2>4. DOMAIN r = DOMAIN ready[s] /\ r.kind = ready[s].kind /\ r.name = ready[s].name
    BY <2>3 DEF Shaped
  <2> HIDE DEF r
  <2>5. SameView(ready, loaded)
    BY <2>3, <2>4, PutView
  <2> HIDE DEF loaded
  <2> QED
    BY <2>1, <2>2, <2>3, <2>5, ViewShaped, ViewTransitive, RepliedView, ViewStep
<1> QED
  BY <1>2, <1>3, <1>4

LEMMA HandleCastStep ==
  ASSUME IInv, NEW s \in DOMAIN procs, HandleCast(s)
  PROVE  IInv'
<1> DEFINE raises == /\ Message(s).op = "update_entry"
                     /\ Raises(procs[s].list, Message(s).id, Message(s).sameId)
           taken == Taken(procs, s)
           r == [taken[s] EXCEPT !.list = Changed(@, Message(s))]
           changed == [taken EXCEPT ![s] = r]
<1>1. Shaped(procs) /\ procs[s].kind = "server"
  BY DEF IInv, ProcessInv, HandleCast, In
<1>2. CASE raises
  BY <1>2, TerminateStep DEF HandleCast
<1>3. CASE ~raises
  <2>1. CallDatabase(changed, s, "storing")
    BY <1>3 DEF HandleCast
  <2>2. SameView(procs, taken)
    BY <1>1, TakenView
  <2> HIDE DEF taken
  <2>3. Shaped(taken) /\ s \in DOMAIN taken /\ taken[s].kind = "server"
    BY <1>1, <2>2, ViewShaped DEF SameView
  <2>4. DOMAIN r = DOMAIN taken[s] /\ r.kind = taken[s].kind /\ r.name = taken[s].name
    BY <2>3 DEF Shaped
  <2> HIDE DEF r
  <2>5. SameView(procs, changed)
    BY <2>2, <2>3, <2>4, PutView, ViewTransitive
  <2> HIDE DEF changed
  <2> QED
    BY <1>1, <2>1, <2>5, CallDatabaseStep
<1> QED
  BY <1>2, <1>3

LEMMA ServerAnswersStep ==
  ASSUME IInv, NEW s \in DOMAIN procs, ServerStore(s) \/ HandleEntries(s)
  PROVE  IInv'
<1>1. Shaped(procs) /\ procs[s].kind = "server"
  BY DEF IInv, ProcessInv, ServerStore, HandleEntries, In
<1>2. CASE ServerStore(s)
  <2> DEFINE sent == Sent(procs, Reply(s), [op |-> "store", key |-> procs[s].name,
                                            data |-> Stored(s)])
  <2>1. Quiet /\ procs' = Resumes(sent, s)
    BY <1>2 DEF ServerStore
  <2>2. SameView(procs, sent)
    BY <1>1, SentView
  <2> HIDE DEF sent
  <2>3. Shaped(sent) /\ s \in DOMAIN sent /\ sent[s].kind = "server"
    BY <1>1, <2>2, ViewShaped DEF SameView
  <2> QED
    BY <2>1, <2>2, <2>3, WaitsView, ViewTransitive, ViewStep DEF Resumes
<1>3. CASE HandleEntries(s)
  BY <1>1, <1>3, TakenView, ViewStep DEF HandleEntries
<1> QED
  BY <1>2, <1>3

LEMMA ClientStep ==
  ASSUME IInv, NEW p, NEW m,
         Quiet, procs' = procs \/ procs' = Sent(procs, p, m)
  PROVE  IInv'
<1>1. SameView(procs, procs')
  <2>1. Shaped(procs) /\ SameView(procs, procs)
    BY DEF IInv, ProcessInv, SameView
  <2> QED
    BY <2>1, SentView
<1> QED
  BY <1>1, ViewStep

(***************************************************************************)
(* Every step keeps the invariant.                                         *)
(***************************************************************************)
LEMMA IInvStep == IInv /\ [Next]_vars => IInv'
<1> SUFFICES ASSUME IInv, [Next]_vars PROVE IInv'
  OBVIOUS
<1>1. ASSUME NEW p \in Pids, StartDatabase(p) PROVE IInv'
  BY <1>1, StartDatabaseStep DEF Pids
<1>2. ASSUME NEW p \in Pids, DatabaseStarted(p) PROVE IInv'
  BY <1>2, DatabaseStartedStep DEF Pids
<1>3. ASSUME NEW p \in Pids, ServerProcess(p) PROVE IInv'
  BY <1>3, ServerProcessStep DEF Pids
<1>4. ASSUME NEW p \in Pids, ServerStarted(p) PROVE IInv'
  BY <1>4, ServerStartedStep DEF Pids
<1>5. ASSUME NEW p \in Pids, StartWorkers(p) PROVE IInv'
  BY <1>5, StartWorkersStep DEF Pids
<1>6. ASSUME NEW p \in Pids, ChooseWorker(p) PROVE IInv'
  BY <1>6, ChooseWorkerStep DEF Pids
<1>7. ASSUME NEW p \in Pids, OpenFile(p) \/ WriteFile(p) \/ GetFile(p) PROVE IInv'
  BY <1>7, WorkerStep DEF Pids
<1>8. ASSUME NEW p \in Pids, ServerInit(p) \/ ServerGet(p) \/ ServerReady(p) PROVE IInv'
  BY <1>8, ServerStartsStep DEF Pids
<1>9. ASSUME NEW p \in Pids, HandleCast(p) PROVE IInv'
  BY <1>9, HandleCastStep DEF Pids
<1>10. ASSUME NEW p \in Pids, ServerStore(p) \/ HandleEntries(p) PROVE IInv'
  BY <1>10, ServerAnswersStep DEF Pids
<1>11. ASSUME NEW p \in Pids, CallFails(p) \/ Exit(p) PROVE IInv'
  BY <1>11, TerminateStep DEF Pids, CallFails, Exit
<1>12. CASE Restart
  BY <1>12, RestartStep
<1>13. CASE Answered \/ NotAnswered
  BY <1>13, SameStep DEF Answered, NotAnswered
<1>14. ASSUME NEW n \in budget.names, Ask(n) PROVE IInv'
  BY <1>14, ClientStep DEF Ask, Calls
<1>15. ASSUME NEW d \in Dates, ReadEntries(d) PROVE IInv'
  BY <1>15, ClientStep DEF ReadEntries, Calls
<1>16. ASSUME NEW m \in Casts, Cast(m) PROVE IInv'
  BY <1>16, ClientStep DEF Cast
<1>17. CASE Kill
  BY <1>17, KillStep
<1>18. CASE UNCHANGED vars
  BY <1>18, SameStep DEF vars, Quiet
<1>19. CASE System
  BY <1>1, <1>2, <1>3, <1>4, <1>5, <1>6, <1>7, <1>8, <1>9, <1>10, <1>11, <1>12, <1>13, <1>19
    DEF System
<1>20. CASE Environment
  BY <1>14, <1>15, <1>16, <1>17, <1>20 DEF Environment
<1> QED
  BY <1>18, <1>19, <1>20 DEF Next

LEMMA IInvHolds == Spec => []IInv
<1>1. Init => IInv
  BY IInvInit
<1>2. IInv /\ [Next]_vars => IInv'
  BY IInvStep
<1> QED
  BY <1>1, <1>2, PTL DEF Spec

LEMMA InvariantImpliesKnown == IInv => CacheKnowsServers
<1> SUFFICES ASSUME IInv PROVE CacheKnowsServers
  OBVIOUS
<1>1. Cache # 0 /\ Cache \notin exiting =>
        \A n \in DOMAIN procs[Cache].todo_servers :
          LET s == procs[Cache].todo_servers[n] IN s \in Servers /\ procs[s].name = n
  BY DEF IInv, KnownInv
<1>2. \A s \in Servers \ exiting : Cache # 0 /\ Knows(Cache, s)
  BY DEF IInv, StayingInv
<1> QED
  BY <1>1, <1>2 DEF CacheKnowsServers, Knows

\* Whatever is killed and whenever, for any number of restarts: no database
\* stays without the cache that it is linked to, although a new cache's init
\* takes an old database for its own (cache.ex and the start_link functions).
THEOREM DatabaseFollowsCache == Spec => []DatabaseGoesWithCache
<1>1. IInv => DatabaseGoesWithCache
  BY DEF IInv
<1> QED
  BY <1>1, IInvHolds, PTL

\* For any names and any number of restarts: a cache that stays hands out live
\* servers for the right list only, and every server that stays is the one the
\* cache hands out, so that no list ever has two (Todo.Cache's handle_call and
\* the links of start_link).
THEOREM ServersAreKnown == Spec => []CacheKnowsServers
<1>1. IInv => CacheKnowsServers
  BY InvariantImpliesKnown
<1> QED
  BY <1>1, IInvHolds, PTL
=============================================================================
