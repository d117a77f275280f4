# A verification project for LuaSource

LuaSource is a collection of programs in a dozen languages. Most of them
exercise one feature of a language; a few are systems with state of their own
that several threads or processes act on. This directory holds TLA+ models of
those, the TLC configurations that check them on small instances, and proofs
of their most important properties that TLAPS checks for every value of the
constants.

It covers four programs: the **socket server** of `c/network/socket_server.c`, the
**supervised to-do system** of `elixir/supervised_todo`, the three **regular
expression matchers** of `regexp`, and the **TINY compiler with its machine** of
`compiler/loucomp`. Section 1 is the inventory; sections 2 to 5 describe the models
of one program each; sections 6 to 9 are the runs, the bounds, the fairness and the
proofs; sections 10 and 11 say what is left out and what would come next.

## 1. Inventory

| component | state | operations and how they interact | what is hard | what makes it correct | modelled |
|---|---|---|---|---|---|
| **socket server**, `c/network/socket_server.c`, `epoll_api.h`, `atomic.h` | `socket_map` (type, id, fd, two write lists per slot), `alloc_id`, a pipe of commands, the event list of a batch, epoll's registrations | application threads call `socket_server_listen/start/close/send`, which post commands to a pipe; the network thread loops in `socket_server_poll`, takes commands and socket events, accepts, and posts commands to the same pipe in `thread_network` | two sides share the table with one compare-and-swap; ids outlive sockets; stale events and commands; partial writes; a thread that fills the pipe it alone empties | a slot has one holder, what is sent to a socket reaches that socket only, descriptors are neither lost nor closed twice, every message arrives without a gap, once and in order | section 2 |
| **supervised todo server**, `elixir/supervised_todo` | cache (name → server), database workers by hash, one process per todo list, files | calls and casts between mailboxes; a supervisor restarts the cache | restart between any two steps, processes that outlive their parent, casts that are lost | one live server per name, a stored list is read back | section 3 |
| **todo server without supervisor**, `elixir/todo` | the same with `start` for `start_link` | the same, without links | dead servers stay in the cache | the same | by a mutant of section 3 |
| **regular expression matchers**, `regexp/nfa.c`, `dfa0.c`, `dfa1.c` | state lists with generation marks, a lazily built DFA in a cache of bounded size | compile, step, match; the cache is thrown away when full | a cache emptied in the middle of a match | same verdict as the NFA, whatever the cache size | section 4 |
| **TINY compiler and machine**, `compiler/loucomp` | memory, registers, program; code emitter, symbol table | scan, parse, analyse, generate, execute | temporaries on a stack in data memory, back-patching | generated code computes what the source says | section 5 |
| **heap allocator**, `asm/alloc.s` | regions between `heap_begin` and `current_break` | allocate by first fit, deallocate | reuse, the break | regions tile the heap, none is handed out twice | no |
| chat program, `py/chat_program.py` | connections, names | a select loop | partial input | names and messages arrive whole | no |
| compilers in Lua, exercises, single-process servers, notes | none that outlives a call, or one process and its mailbox | | | `PROJECT.json` says why for each | no |

`PROJECT.json` lists every component with its status, and under `hazards` each
place of the code where something can go wrong that a test would hardly
reach, with the property that would show it.

## 2. The socket server and its models

Application threads and the network thread meet in two places. `socket_map` is
an array of slots that nothing guards but one atomic operation: `generate_id`
takes numbers from `alloc_id` and turns the type of a number's slot from
INVALID to RESERVE by compare-and-swap. Everything else is posted as a command
through a pipe to the network thread, which owns the sockets. An id is hashed
to its slot, so that an id that is still in someone's hands may hash to the slot
of a later socket.

| module | what it is |
|---|---|
| `SocketServer` | both kinds of threads, the table, the pipe, epoll's batches; one action per atomic step or handler |
| `SocketServerProperties` | its properties |
| `SocketServerInduction` | the inductive invariant |
| `SocketServerMC` | instances for TLC |
| `SocketServerProofs`, `DescriptorProofs` | theorems; the second on descriptors and accepted connections |
| `SlotTable` | abstract: slots are handed out to one caller at a time; the server implements it (proved), and so does `GenerateId` |
| `GenerateId`, `GenerateIdProofs` | `generate_id` by atomic operation with a wrapping `alloc_id`; it implements `SlotTable` |
| `SendStream` | abstract: what a connection promises to those who send on it |
| `SendBuffer`, `SendBufferMC` | the two write lists of a connection; they implement `SendStream` |
| `SendBufferProofs` | theorems about them |

### SocketServer

*State.* `type` and `id` are the fields of the slots, `queued` holds the ids to which
the messages in the slot's write lists were sent, `reg` is the set of slots whose
descriptor epoll knows, `openFds` counts listening and accepted descriptors,
`pipe` is the command pipe, `events` what is left of `event_list`. Each event
also carries the id its slot had when it was collected: the code has only the
pointer, the id is there to say which socket the event was for. `pc`, `tries` and
`cmd` are where each thread is, the `i` of `generate_id`, and the command it
prepares. `aborted` names the assertion that stopped the program, after which
nothing moves.

*Steps of a thread.* `generate_id` is `GenProbe` (ATOM_INC and the look at the
type), `GenCas` (the compare-and-swap; losing it is not counted, as `--i`
says), `GenOwn` (the id is written) and `GenFail` (the loop ends, and the caller
closes its descriptor). `WritePipe` is the write of
`send_engine_command`: enabled while there is room, since it blocks otherwise.

*Application calls.* `CallListen`, `CallStart`, `CallClose`, `CallSend`. A call
names an id that some call has returned, or -1 for `start`, which is what `main`
passes on when listening fails. `CallSend` looks at the slot before it posts, as
the code does, without synchronisation.

*Network thread.* `EngineWait` collects a batch. `ExecStart`, `ExecListen`,
`ExecClose` and `ExecSend` are the pipe's event with one command each: the code
reads one command per event. `AcceptConnection`, `AcceptNothing`, `ReadData`,
`ReadEof`, `ReadGone`, `SkipInvalid` and `AssertConnected` are the cases of the
switch over the slot's type. What `thread_network` does with the result of
`socket_server_poll` is part of the step: it posts a start for an accepted
connection (`GenOwn` of the network thread goes on to `write`) and a close when
the data holds a byte that equals EOF.

*Abstracted.* Payloads, addresses and error texts. What the kernel does with a
write is a choice: all, a part, or an error. The order of a batch is any order.
`send_socket` is one step; what it does to the lists is in `SendBuffer`.
`engine_add` may fail when `EngineMayFail`. The network thread is sequential, so
its handlers are single steps except where application threads can act between
two accesses of shared state, which is in `generate_id` and in the pipe.

### GenerateId

The same function one atomic operation at a time: ATOM_INC, the ATOM_AND that
masks a negative number, the look at the type, the compare-and-swap, the write
of the id. `alloc_id` is an unsigned number of `2 * IdSpace` values; those from
`IdSpace` on are the negative ints. Two history variables, `free` and `alone`,
record for a call which slots were INVALID all through it and whether
another call overlapped it; no step depends on them.

### SendBuffer

`high` and `low` are lists of buffers, each with the message, the offset of
`write_ptr` and the field `sz`. `send_socket` is `SendDirect`, `SendFails` and
`SendQueued`. `send_write_buffer` is `WriteEvent`, against a kernel that
takes `room` bytes, and `WriteFails`. The first write of a message, in `SendDirect`, may take
any part of it, as the socket is non-blocking; what is left is then buffered with the `sz` of
the whole, and the bytes written behind it are those that follow the message in memory, which the
model names by places past its end. `SendStream` says so: such a write is followed by
as many foreign bytes as it took. The constant `WriteEvents` says whether anybody
asked the engine for write events.

## 3. The supervised to-do system and its models

A supervisor starts the cache; the cache starts the database, which starts three
workers, and one server for each to-do list it is asked for. All of them are
linked to their parent, so that an exit takes the whole tree down, and the
supervisor restarts the cache only. Processes talk by calls, which wait, and casts,
which do not; the database and the cache are found by registered names. The lists
are kept in the servers' memory and stored in one file per list.

| module | what it is |
|---|---|
| `TodoList` | `Todo.List`: the entries by id |
| `TodoSystem` | every process, the links and exit signals, the registered names, the files, the supervisor, and a client |
| `TodoProperties` | its properties |
| `TodoMC` | the instance for TLC |
| `TodoProofs`, `TodoFileProofs` | theorems; the second on mailboxes and files |

*State.* `procs` maps each live pid to its kind, its parent, its mailbox, what it is
doing (`at`), whom it waits for (`on`) and the reply it was sent; a cache also has
`todo_servers`, a database its `worker_list`, a server its list, a worker the store
it is writing. Pids are numbers that are never used again. `links` are the links,
`exiting` the processes with an exit signal on its way, `registered` the two names.
`file` says of each list whether its file is absent, whole, or cut short, and what it
holds. `budget` bounds the client.

*Steps.* Each callback is one action up to the next call it waits in:
`Todo.Cache.init` is `StartDatabase` and `DatabaseStarted`, `server_process`
is `ServerProcess` and `ServerStarted`, a server's `init` is `ServerInit`,
`ServerGet` and `ServerReady`, a cast to it `HandleCast` and `ServerStore`. A
worker writes a file in two steps, `OpenFile`, which empties it, and `WriteFile`, since
`File.write!` is not atomic; `GetFile` raises on a file that was cut short.
`CallFails` is the exit of a process whose callee is gone, `Exit` the arrival of an
exit signal, `Restart` the supervisor. `Kill` is what the test does to the cache.
The client asks for a server, keeps the pid, calls and casts to it, and begins
anew when a call fails.

*Abstracted.* An entry is its date, an updater what it makes of one and whether it
changes the id, which raises. The workers are started in one step, which only the database
can see. Replies go past the mailbox, as a process that waits in a call takes
nothing else.

What exploring the model turned up, none of it against a promise of the code:
a restarted cache may find the old database's name still taken, goes on without a
database of its own, and then has none once the old one has exited, so that the next
request for a new list takes it down again and the next restart sets it right; a
store that is on its way when the tree goes down is lost, and a reply to a reader
may already have shown it; a file cut short takes the whole tree down
each time its list is asked for, which may be often enough for the supervisor to give up; two servers
of one list may be alive together for as long as the old one's exit signal is under way.

`elixir/todo` is the same program with `start` for `start_link`. The mutant
`MutLinked` of `Linked` is that program: `CacheKnowsServers` and
`DatabaseGoesWithCache` then fail.

## 4. The regular expression matchers and their models

`nfa.c`, `dfa0.c` and `dfa1.c` share a compiler (pattern to postfix to automaton)
and the state lists with generation marks. `nfa.c` swaps two lists. `dfa0.c` keeps
every list it has met as a DState in a search tree and fills in arrows from
DState to DState. `dfa1.c` does so for at most 32 DStates; a DState too many throws all of
them away, onto a free list that shares a field with the tree.

| module | what it is |
|---|---|
| `RegexpCompile` | `re2post` and `post2nfa` |
| `RegexpMatch` | the three programs from `main`'s loop over its arguments on; one action per turn of a loop |
| `NfaMatch` | abstract: follow the set of reachable states, say whether the last one matches |
| `DfaCache`, `DfaCacheProofs` | abstract: the same with a set of cached DStates and arrows that may be thrown away; theorems |
| `RegexpProperties`, `RegexpProofs` | properties of the programs' own data, the mapping onto `DfaCache`; theorems |
| `RegexpLanguage` | reference: the grammar of patterns by parse trees, and which strings a tree describes |
| `RegexpMC` | the instance for TLC, and the properties that refer to `RegexpLanguage` |

`RegexpMatch` implements `DfaCache` (`ImplementsCache`, checked and proved), and
`DfaCache` implements `NfaMatch` (proved). `pattern` and `words` are the program's
arguments, `nfa` what was compiled, `lastlist` and `listid` the generation marks,
`lists` and `clist` the two lists and which is current, `cache` the heap of DStates
with tree, free list and count, `d` the current DState.

The recursions of the code over the automaton and the tree are written as iterations: `AddStates` takes
the states one by one that `addstate` is still to be called with, in the order of
the calls (`AddState` is one of them); `TreeList` visits the tree in the order in which `freestates` leaves it on the
free list; `Search` is the loop of `dstate`. Each is a function of the number of turns, and is read off
after as many as can be needed: a call of `addstate` for every state and for both arrows
of every Split, a visit of every DState and of both its subtrees, a turn of the loop for every DState. That
these numbers suffice is part of what is proved (section 9).

`ptrcmp` of `dfa0.c` and `dfa1.c`, which is to sort a list before it is looked up, compares the
addresses of the array's elements and not the states they point to. The
outcome depends on nothing but the C library's `qsort`; `qsortKeeps` chooses
between two libraries, one that leaves a list as it is and one that reverses it. The
answers are right with either, although the same set of states may then
have several DStates.

`re2post` lets two kinds of malformed pattern through, the empty one and one that ends in
`|`, and `post2nfa` then pops a stack that has no operand; `CompileMatchesGrammar` says
that these are all. Nothing is said of the run after that.

## 5. The TINY compiler, its machine, and their models

| module | what it is |
|---|---|
| `TinyScan` | `scan.c`: characters to tokens |
| `TinyParse` | `parse.c` with its error recovery, on an explicit stack |
| `TinyGen` | symbol table, type check, code generation with back-patching |
| `TM` | `tm.c`: loading, one instruction, the commands of the prompt |
| `Tiny` | `main.c`'s passes one after the other, then the machine on the code file |
| `TinyReference` | reference: the grammar of `yacc/tiny.y` as sets, and an interpreter of trees |
| `TinyMC` | instances and properties |

The compiler's passes are functions and each is one action of `Tiny`. The machine
runs an instruction at a time (`Execute`), between commands that the user types in any
order: `go`, `step`, `clear`, the toggles, `show` and `quit`. `inputs`, `outputs` and
`stops` are history: what was read, written and how often the machine stopped since the last `clear`.

Where C leaves the effect open, the machine becomes "undefined" and nothing is
said of it any more: an arithmetic result that is no `int`, and the one location
past the end of `iMem` and `dMem` that the range checks (`>` for `>=`) let
through. The instances contain programs on both sides of those limits.

## 6. Runs

| run | question | result |
|---|---|---|
| `ss_safety` | does the table stay right in every interleaving of all calls with the network thread, engine_add failing or not | holds |
| `ss_live` | are accepted connections started, do close commands take effect | holds |
| `generate_id` | two concurrent callers through the wrap of `alloc_id` | holds |
| `sendbuffer` | every message without a gap, once and in priority order under partial and failing writes, the direct one included | holds |
| `regexp` | the three matchers on every short pattern and on selected long ones, with every string of up to three characters | holds |
| `tiny` | from the text of a program to the end of its run on the machine | holds |
| `todo` | the process tree under kills, updaters that raise and files cut short | holds |
| `ss_lists` | `assert(l->head == NULL)` of `check_write_buff_list` | violated |
| `ss_event` | the `assert` marked FIXME in the default case of `socket_server_poll` | violated |
| `ss_reserve` | the first assertion of `force_close` | violated |
| `sendbuffer_short` | the comment of `struct write_buffer` on `sz` | violated |
| `sendbuffer_idle` | the comment of `append_send_buffer_high`: the engine sends it out | violated |

`ss_safety` checks
`OneHolder` (a RESERVE slot has exactly one holder, no other slot has any),
`ListenReserved` (a listen command on its way finds its slot as it was reserved),
`RegisteredMatchesType` (epoll knows the descriptors of the running sockets and
no other), `StaleEventSafe` (an event that is acted on is for the socket it was
collected for), `FdAccounting` (each open descriptor has one owner),
`LifeCycle`, `DeadIdsStayDead` (a closed id never names a socket again) and
`DataStaysWithItsSocket` (no open socket has a message in its write lists that was sent to another id).

`StaleEventSafe` deserves a remark. A close command may free a slot whose event
is still to come, and the slot may be taken again before the event is looked at.
What saves the code is that a batch holds one event of the pipe and one event
of the pipe is one command: the new socket of the slot cannot also have been
started. If the pipe were drained in one event (the mutant `MutDrainPipe`), a new connection
would be read for an old one's event.

`DataStaysWithItsSocket` deserves one too. Between the compare-and-swap and the writing of the id a
reserved slot carries the id of the socket before, and a send to that id, posted in time, is
carried out on it: the message waits in the lists of a slot that is somebody else's. It does not
get to that socket, because `new_socket` asserts that the lists are empty. Without the assertion
(the mutant `MutNoListCheck`) it would.

`FailsOnlyWhenFull` of `generate_id` holds for a call that no other call
overlaps. It does not hold in general: concurrent callers can take the numbers
of the free slots away from each other, and both give up beside a free slot.

`regexp` checks
`VerdictsAreMembership` (a string is printed exactly when the pattern describes it, in all three programs),
`CompileMatchesGrammar` (which patterns are accepted),
`ListsFit` (no state list outgrows its array, whose size leaves `matchstate` out),
`StatesInOnePlace` (each DState is in the ordered tree once or on the free list once, `dfa1` allocates no more than `maxstates` of them, and the current one is in the tree) and
`ImplementsCache` (no arrow outlives the cache it was recorded in).

`tiny` checks
`TokensRecovered` (scanning gives back the tokens a text was written from, in three layouts),
`RejectsExactly` (the compiler rejects exactly what is not in the grammar or not well typed, also for every program with a token missing, doubled, swapped or replaced),
`StructureKept` (operators group as they should),
`CodeHasNoHoles` (back-patching fills every location once, and jumps stay inside),
`RunsFollowProgram` (what the machine reads, writes and stops with is what the interpreter says, and the variables are in their cells),
`OperandsStayApart` (pushed operands and variables never touch each other's cells) and
`RunsStop` (a `go` comes back).
Its type invariant includes that each variable has a cell of its own, and the first ones.
`RunsFollowProgram` and `OperandsStayApart` presuppose that variables and operands
fit into `dMem`, which no code checks.

`todo` checks
`CacheKnowsServers` (a cache that stays hands out live servers of the right list, and knows every server that stays, so a list never has two of those),
`DatabaseGoesWithCache` (no database outlives its cache),
`FileFollowsServer` (until something has exited, a server's list is on its way to its file behind every older one),
`Recovers` (after any exit there is a cache again, with a database or without, or the supervisor has given up) and
`CallsEnd` (no call waits for ever).

`Recovers` is weaker than one would like. A cache that is restarted before the old database has
got its exit signal finds that database registered, is answered `already_started`, and goes on
without looking (`cache.ex:5`); the database then exits, and the cache is idle, registered and without
one. This is a defect: the next request for a list that the cache does not know starts a server whose call
of the database exits, and takes the cache down with it. `todo_test.exs:15-28`, which kills the cache
and then makes one such request, may fail for it; that it always succeeds is asserted by no
run. What holds, and is checked, is that this state (`Stranded`) is
the only other outcome, and that one lost request ends it: the next cache has a
database, unless it is killed as well. `GaveUp` is the supervisor's choice of the
model when the limit of restarts is reached.

The type invariant includes that every list, in memory, under way or on disk, keeps
its ids below the next one.

What the five violations show is in `PROJECT.json` under `findings`, with the line
of the source each run contradicts. In short: a slot is given up with its
write lists as they are, and the next connection accepted in it trips
over them; a slot can be closed and reserved again between two events of a batch;
a slot is reserved before its id is written, and carries the old id meanwhile, so
that a late close of the old socket reaches `force_close` with a reserved slot;
what is left of a message after a partial direct write is buffered with the size of
the whole; and no code asks epoll for write events, so
`send_write_buffer` is never run.

## 7. Bounds

* `MAX_SOCKET = 3`: the pipe's slot and two others, so that a slot can be taken,
  given up and taken again while the other is busy, and the table can be full.
* `MaxId = 4` (3 in `ss_live`): nothing is opened once `alloc_id` has reached
  it. A call that is under way may go on for up to `MAX_SOCKET` more numbers.
  The two slots are used two to three times each.
* `PipeCap = 2`: the pipe can be full, and two commands can wait behind one
  another. The kernel's holds some thousands; with 2 every order of a command
  that waits and what happens meanwhile is there.
* `Threads = {t1}`: one application thread beside the network thread. Both run
  `generate_id`, which is where two threads race; more callers
  are in `GenerateId` (two with the full detail) and in the theorems
  (any number).
* `MAX_EVENT`, 64 in the code: 2 in `ss_safety`, so that the pipe can be crowded
  out of a batch, and 3 elsewhere, where a batch can report every slot. In
  `ss_live` the pipe is thus always reported when it holds a command, which for a full
  batch is up to the kernel's rotation of ready descriptors.
* `GenerateId`: three slots, `IdSpace = 6`, two callers: `alloc_id` wraps and both
  callers can be past the largest id together. `IdSpace` is a multiple of
  `MAX_SOCKET`, as 2^31 is of 64K.
* `SendBuffer`: seven messages of one to three bytes, any part of each in the direct write, and any `room` in
  each write event; two messages for the two comments that fail.

* `regexp`: every pattern of up to four tokens over two characters and the six
  operators, twelve longer ones that nest, reach the parenthesis limit and give one set
  of states in two orders, and every string of up to three characters. `MAXSTATES = 2`
  (32 in the code) throws the cache away in the middle of a string and again in the
  next; `MAXPAREN = 2` (100) is exceeded. `DStates = 1 .. 16` is what the mapping onto `DfaCache`
  shows of the heap; no behaviour of the instance allocates as many. The strings of one run are matched one after
  the other, so that a cache is used across strings.
* `tiny`: two operators in every shape, `sample.tiny`, nested branches and loops,
  ill-typed programs, and every one-token damage of four of them. `IADDR_SIZE = 52`
  and `DADDR_SIZE = 5` (1024) are sizes some programs just exceed, `MAXINT = 120`
  makes products and differences overflow (no comparison, whose operands are closer), `MAXTOKENLEN = 6` (40) is the
  length of the longest reserved word. Inputs are -3, 0, 3 and 100. The interpreter gives a
  program as many rounds of its loops as there are ints, which a damaged `sample.tiny` that counts
  down to the least one needs. Most programs get one command, which is
  a `go`; two get four, in every order.
* `todo`: two lists with the same worker, where their stores meet, and one
  or two of them in use. Three budgets: two calls, two casts and a kill; three calls, a cast and a
  kill; two calls, a cast and a kill with both lists. `MaxRestarts = 1` (3 in the supervisor) is
  enough for a restart, another one that was forgotten, and for giving up. How close
  restarts are is left open.

Deadlock is not checked where the program really stops: an assertion ends it,
the network thread may block for ever in a write to its own full pipe, a
connection may have sent everything, a matcher is through with its arguments, the
machine's user has quit, the client of the to-do system has used its budget up.
`generate_id` has no such end, and there TLC checks it.

## 8. Fairness

`ss_live` assumes weak fairness of the network thread, an endless loop that sleeps in
`epoll_wait` and in a write to a full pipe only, and of an application thread
inside `generate_id` or a pipe write, which it does not leave. It does not
assume that a thread ever calls anything, that a socket is ever ready, or that one event of a
batch goes before another. The properties except two ends that the code really has: a
failed assertion and the network thread blocked by the pipe that it alone empties
(`SelfBlocked`). `sendbuffer_idle` assumes that a socket with write events
enabled comes to write something; the property fails because none are enabled.

`tiny` assumes weak fairness of the machine's instructions: `tm` runs on once it was
told to go, and its user answers when it asks for a number. It assumes of nobody that he gives a command.
`todo` assumes weak fairness of the processes together (`System`): Erlang's scheduler
runs a process that can run, and exit signals arrive. The client's decisions, the kill
among them, are not fair. As each of them is bounded, what is left to happen after the last is finite and all of it happens.

## 9. Proofs

The proofs hold for every value of the constants under these assumptions, which TLC
evaluates in the runs: `ServerAssumption` (at least two slots, room
for a command and for an event, the network thread is no application thread),
`ThreadsAssumption` (the threads are finitely many, which only counting needs),
`NamesAssumption` (no thread is called "free" or "used", which only `SlotTable` needs),
`IdAssumption` (at least two ids, as many as a multiple of the slots),
`BufferAssumption` (every message has at least one byte),
`MatchAssumption` (the programs are the three there are, `maxstates` is positive, patterns and arguments
consist of characters), `DStatesAssumption` (DStates are positive numbers, as NULL is 0),
`HashAssumption` (a name is hashed to one of three workers), `RestartAssumption` (the
supervisor's limit is a number) and `BudgetAssumption` (the client asks a number of times for
names there are). `DfaCacheProofs` needs none.

**SocketServerProofs.**
`TypeCorrect`, `RegistrationCorrect`, `OwnershipCorrect`, `ListenAlwaysReserved`,
`StaleEventsAreSafe`, `LifeCycleObeyed`, `DataNeverCrossesOver`,
`DeadIdsNeverReturn`, `SlotsHandedOut`, `NewSocketNeverAborts`.
None of the properties is inductive by itself. The invariant `IInv` adds:

* `BusyHasCommand`: a thread in a call has a command; listeners prepare an L, the
  network thread never does.
* `ReservingInv` and `ListenInv`: each holder of a slot, a thread or a listen
  command on its way, finds it RESERVE, knows its id once it is written, and shares it
  with nobody. This is what the compare-and-swap buys: whoever wins it finds
  no holder, since holders keep a slot from being INVALID.
* `PipeInv`: slot and id 1 are the pipe's, and nobody has id 1 in hand, so no
  command can close the pipe. It needs that ids grow, and that a live slot's id
  hashes to the slot.
* `EventInv`: the socket of an event to come is as it was, or the batch's one
  command has been spent and the slot has got no further than PACCEPT. The step that
  needs most care is a start command, which opens a PACCEPT slot: it uses up the pipe's event, and
  `EventInv` says that while that event is there no slot of the
  batch is PACCEPT.

Two results need more than `IInv`. `OwnershipCorrect` has two halves: that
holders are unique is `ReservingInv` and `ListenInv`; that a reserved slot has a
holder at all is an invariant of its own (`HeldInv`), whose proof follows the slot
from the compare-and-swap through the thread's hands into the pipe.
`DeadIdsNeverReturn` needs `FreshInv`: no id anywhere is above `alloc_id`, and
one that `generate_id` has drawn is in nobody else's hands, so a socket
that comes to life has an id no caller has been told.

`DataNeverCrossesOver` is inductive on top of `IInv`. A send that finds an open slot finds one whose id
is its own; a slot that becomes open goes through `new_socket`, which finds its lists empty or
stops the program; and between the two no id of an open slot changes. Messages for another id can
only gather in a slot that is INVALID or RESERVE.

`SlotsHandedOut` is a refinement of `SlotTable` and needs nothing beyond `IInv`: `Owners`
maps a slot to "free" while it is INVALID, to the thread that reserved it until its socket is
made or its listen command is in the pipe, and to "used" otherwise. `ReservingInv` makes that
thread unique, so that the CHOOSE in `Owner` is determined, and `TableChange` reduces a step to
the one slot it touches. A listen command in the pipe counts as use: its thread has given the
slot away. `GenerateId` has the same refinement with ids that wrap and without the pipe.
`NewSocketNeverAborts` is the first assertion of `new_socket`; its last, on the write
lists, is the one `ss_lists` shows to fail. No run checks these two, whose content the
runs reach through `OneHolder` and `ListenReserved`.

The proof is layered: types first, then registration, then ownership, then the
pipe, then events; each layer has one lemma for the step and may use
those before it. `NextCases` splits a step into its actions once for all layers.

**GenerateIdProofs.**
`TypeCorrect`, `OwnIdStaysIntact`, `SlotTableImplemented`, `GivesUpOnlyWhenFull`.
The invariants are `IdInv`, `TryInv`, `HoldInv` and `WrittenInv`: where a
caller is determines the range of its number, what it holds, and that it holds
it alone. The refinement maps a slot to its owner: free, used, or the one caller
that is between its compare-and-swap and `new_socket`. The last theorem needs
arithmetic: a call alone visits consecutive slots, so after `MAX_SOCKET` tries it
has seen them all, also across the wrap since the slots divide the ids. `VisitInv`
says how far behind each free slot still lies, and lemmas on `%`, proved from
the definition of division, carry it over an increment.

**DescriptorProofs.** `DescriptorsAccounted`, `AcceptedIsStarted`, both on top of `IInv`.
The first counts the owners of descriptors: `SockFds`, `ThreadFds` and `PipeFds` are the
slots, threads and pipe entries that own one. `SockCount`, `ThreadCount`,
`PushCount` and `PopCount` say how each count changes when one slot, thread or
pipe entry does, all from `OneDiffers` on two finite sets that differ in one
member at most; the step is then arithmetic. That a descriptor is never counted
twice is where `IInv` comes in: a listen command that is carried out finds its slot RESERVE, which owns none.
The second follows the start command of an accepted connection: through
the network thread's hands (`PostedStart`), through the pipe (`QueuedStart`), until
it opens the connection. `AcceptsToStart`, that the network thread looks for slots
for accepted connections only, is the strengthening.

**SendBufferProofs.** `TypeCorrect`, `SizeAlwaysKept`, `LowNeverBegunHolds`, `StreamImplemented`.
The model sums sizes and joins bytes by folds over the lists. Since nothing can be proved by
an induction theorem that takes a predicate, `NatSets` proves induction for sets of numbers,
`RecursionDefines` uses it to show that a recursive function over indices is what its
equation says, and `SumOfPrefix`, `SumOfSuffix`, `FlatConcat` and their like say what the folds
return for a list that was appended to, split or advanced. The induction is over positions of a
list of any length.

* `BufferInv` is the types, `SizeIsKept`, and `LowFresh`: no buffer of the low list of
  an open connection is begun, not only the first. `LowNeverBegun` looks at the head, but the
  next buffer is the head after a write.
* `StreamInv` adds that a buffer nothing has been written of is a whole message, that only the head of
  a list can be begun, and that the low list is begun only when the high one is empty, which a
  failed write in the middle of the low list leaves behind. With it a step of the lists is a step of
  `SendStream`: a write is cut at the message it ends in, and what is left of that one is `current`.

`StreamImplemented` makes no assumption on how much the first write of a message takes. A
buffer after a short one does not end where its message does, which is why `StreamInv` speaks of
unbegun buffers only; `sendbuffer_short` shows what the comment on `sz` says of it.

**TodoProofs.** `DatabaseFollowsCache`, `ServersAreKnown`. The invariant `IInv` has six
parts: `ProcessInv` (what is alive, linked or registered was spawned), `CacheInv` (the only
cache there is is the registered one), `DatabaseGoesWithCache`, `StayingInv` (a server
without an exit signal is linked to the cache, which knows it), `KnownInv` (a cache
without an exit signal is linked to the servers it knows, which are of the right list) and
`StartingInv` (it starts a server for a name it has none for). The proof rests on three lemmas: most steps
change nothing that these parts look at (`ViewStep`); a step that
spawns one linked process keeps them (`GrowStep`); and the end of a process keeps them
because its links mark whoever depended on it (`TerminateStep`), which is where
the links earn their keep. The properties themselves are not inductive: a server is in the map and alive
because it would have taken the cache along.

**TodoFileProofs.** `TypeCorrect`, `MessagesUnderstood`, `FileFollows`, on top of `IInv`.

The first two are about mailboxes. `MessageInv` is inductive together with `IInv`: `MailInv` (each process has only messages of
its kind, what it refers to are processes of the right kind, a call in a mailbox is the
only one of a process that waits for its answer), `ClientInv` (the same for the client),
`SignalInv`, `FileTyped`, `SupervisorInv`, `BudgetInv`. A reply is a list or a pid only by what the caller waits
in, so types alone are not inductive: they need that nobody is answered twice or while he waits
for something else. `Acts` says what a step does to the processes in general: one moves on, one gets a
message, one an answer, one is new. `StepMailed` is the proof for all such steps, and one lemma per callback (`ServerGetActs`,
`HandleCastActs`, ...) shows that the callback is one.

`FileFollows` says that a stored list is read back. `FileInv` is what it needs, as long as nothing has exited:

* `OneDatabase` and `OnlyCacheExits`: nobody but the cache is marked, and one database serves all.
* `WorkInv`: all that is queued for a worker is about names hashed to it, and a store
  is for a list that has a server. A get in the queue behind a store would read the
  file before it: there is none, since `SoleServer` (from `StayingInv`) makes the server that asks the only one
  of its name.
* `ServerInv`: where a server is in its three calls, and for one that is idle `Lag`: its list is
  what the file will hold once the worker has done all it has queued. The property looks at the newest
  store only, which is not inductive: when that is taken from the queue,
  the file must become what it says.
* `PartialInv`: a file is cut short only while its worker writes it.

**DfaCacheProofs.** `CacheIsSound`, `CacheImplementsMatch`. Every recorded arrow leads to
a cached DState that stands for the states one step on. Throwing the cache away keeps this
because the new DState has no arrows and no arrow into it is recorded: the code sets `nextp` to NULL
for exactly that reason. The theorem does not mention lists, trees or the order of states;
that the C programs are instances of it is what the next module proves.

**RegexpProofs.** `TypesHold`, `ListsAlwaysFit`, `EveryStateInOnePlace`,
`MatchersImplementCache`, `BoundedMatchersImplementCache`, `MatchersAnswerAlike`: for every set of characters,
pattern, nesting limit, `maxstates` and command line, in each of the three programs, and whichever way `qsort` leaves a
list. There are two inductive invariants, and a third conjunct each for the bound and for `nfa.c`.

* `Typed` is the type invariant with what the steps need of the data. `Automaton` says of a compiled pattern that
  it has a state beside the matching one and that its arrows lead to its states, which is proved
  of `re2post` and `post2nfa` token by token: a dangling arrow on the stack belongs to a state, and a
  fragment begins at one. `StateList` says that a list holds each state at most once and no Split, and at
  most one state if the automaton has no Split. That is why `ListsFit` holds although `nstate` does
  not count the matching state: either there is a Split, which no list
  holds, or no list has more than one member. The marks make it true: `Marks` keeps every `lastlist` at or below `listid`, so a
  state that the current list does not hold yet is never taken for one that it does.
* `Kept` adds that the heap is laid out as `Stored` says: a set T of DStates is a search tree
  (`Tree`: each has its subtrees below it, disjoint, ordered by `listcmp`), a sequence F without repetitions is threaded through
  the field `left` (`Threaded`), and T and F together are the heap, each DState in one of them. `ArrowsIn` says that
  an arrow from T stays in T. The two structures share the field `left` and exchange members in one step, so neither can be kept without the
  other. The steps of `dstate` have one lemma each: a search that finds nothing
  ends where the list belongs (`SearchEnds`, on subtrees that get smaller),
  hanging a DState there keeps the order, `freecache` puts the tree in front of the free list (`FreeCacheStored`), `allocdstate` takes
  its head. `Outcome` sums up the three ways through `dstate`: found, new,
  new in an empty cache. That the recursive functions `TreeList`, `FreeChain` and `Cached` are T and F is
  proved once (`TreeListIs`, `FreeChainIs`, `CachedIs`), and `StatesInOnePlace` follows.
* `Bounded` is the bound on the heap of `dfa1`: with fewer than `maxstates` DStates in the tree either one is free or not all
  are allocated, which needs both halves of `Stored`.

The refinement has a lemma for each action. What they need of the lists is `AddedIsClosure`: the members of a
list that `addstate` built are the closure of where it was begun. The loop is followed with `Reaching`: a state on the way or marked
is reachable; every state reached is marked or is still to be visited; a list holds the marked states that are no Splits.
`OutcomeIsCacheStep` then turns the `Outcome` of a `dstate` into what `DfaCache` does with that set. A DState found by `listcmp` is for the same list, so for the same
set; the converse fails (two orders of a set, see section 4) and is not needed.

`MatchersImplementCache` takes all positive numbers for `DStates`, as `dfa0` allocates without a bound;
`BoundedMatchersImplementCache` needs `maxstates` of them, for `nfa.c` and `dfa1.c`. `MatchersAnswerAlike` puts `CacheImplementsMatch` behind the
first: `DStates` appears in its hypothesis only because the mapping of the cache needs a
range, and its conclusion, `NfaMatch`, speaks of no DStates.

**Model-checked only.** Liveness under fairness (`AcceptedOpens`, `CloseTakesEffect`,
`BufferedIsSent`, `RunsStop`, `Recovers`, `CallsEnd`) is beyond the prover. What fails in a run
that expects a violation is not proved either. `VerdictsAreMembership` and `CompileMatchesGrammar` compare the matchers
with a grammar by induction over parse trees, and `NfaMatch` with the language of a pattern would need the same; the
compiler of TINY, its machine's module and their reference are written with RECURSIVE operators over
trees and programs, for which the prover has no SMT backend. So the properties of `tiny` are for TLC only.
Every other property of the passing runs is a theorem.

## 10. Not modelled

*Socket server.* `socket_server_release` is reached by nobody, as `thread_network` does not return;
`raw_bind` makes one descriptor and has no state; errors of the pipe itself and
the growth of the read buffer change nothing a property speaks of. `kqueue_api.h` is
the same engine for another system. The types CONNECTING, HALFCLOSE and BIND
are never assigned. Memory effects beyond atomicity (the code reads `type` and
`id` unsynchronised) are modelled as interleavings of single accesses of an
`int`, which the platforms of `epoll_api.h` and `kqueue_api.h` do in one
access.

*To-do system.* The five-second timeout of a call (a process that is alive
answers), errors of the disk, and a shutdown of the supervisor from outside.

*Matchers.* A literal `.`, which `re2post` passes on as its own operator; bytes of 128 and more, which index
an array by a `char`'s sign; the fixed sizes of `buf` and `stack`.

*TINY.* Listing and trace output, line numbers and file names; the syntax of
a hand-written code file and of the prompt's lines; characters beyond those
the instances are written with; the `lex` and `yacc` variants, whose grammar is the reference.

*Others.* The allocator of `asm/alloc.s`, the chat program, and the single-process programs of the
inventory, each for the reason `PROJECT.json` gives.

## 11. Plan

1. *Matchers*: that `Re2post` keeps the structure of a pattern, as far as it can be stated without induction over trees.
2. *Machine*: type correctness of `TM` for all sizes, which needs no recursion.
3. *Allocator*: regions between `heap_begin` and the break; that they tile the heap and
   none is handed out twice, checked and proved.
4. *Chat program*: its select loop, the third concurrent program of the repository.
