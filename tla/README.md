# A verification project for Tribeway

TLA+ models of Tribeway, a distributed game server in Go, checked with TLC and, as to every
safety property, proved with TLAPS. Paths below are relative to the repository's `src/`.

## 1. The system

A deployment is several *servers* (gateway, login, lobby, game, chat, friend, mail, GM,
center), each a process built from the same components. Clients speak a framed TCP protocol
to a gateway; servers find each other through etcd, call each other over a home-made RPC,
publish through NSQ, and share MongoDB and Redis.

| Component | State it keeps | Operations | What makes it correct | Module |
|---|---|---|---|---|
| Actor runtime `internal/actor/actor.go` | registry of actors, a mailbox, a loop and counters per actor | `SpawnActor`, `Tell`, `Shutdown`, `GetStats` | registered = running, one loop each; messages handled in order, at most once, never after `Stop`; no call hangs | `ActorSystem` |
| RPC client and breaker `internal/rpc/rpc.go` | connection, map of callbacks, breaker | `Connect`, `Call`, `Disconnect`, response loop | every call gets its own answer or none; no leaked callback; every call returns; the breaker follows the outcomes | `RpcClient` |
| RPC connection pool (same file) | channel of idle clients, counter | `Get`, `Put`, `Close` | one owner per client; the counter is right; `Get` returns | `RpcPool` |
| RPC server (same file), TCP server `internal/network` | connections, accept loop | `Start`, accept, handle, `Stop` | limit kept; `Stop` waits for all | `ServerLifecycle` |
| Lifecycle `internal/server/server.go`, `component_*.go`, `system_service.go` | status, components, load loop | construct, `Start`, `Stop`, remote shutdown | what is started is stopped once, in order, behind the requests that use it; `Stop` ends | `ServerLifecycle` |
| Registry and discovery `internal/discovery/etcd.go` | leases, keys, own services, cache | `Register`, `UpdateLoad`, `Unregister`, `Watch`, `GetService` | a live node is found, a dead one is forgotten; the cache follows | `ServiceRegistry` |
| Gateway and sessions `gateway_server.go`, `login_server.go`, `database/redis.go` | the user of a connection, session, online and account keys | login, register, logout, validate, refresh | a session is its user's; a dead session stays dead; the online flag goes | `Sessions` |
| Lobby rooms `lobby_server.go`, `database/mongodb.go` | room documents, next room id | `CreateRoom`, `JoinRoom`, `LeaveRoom` | list and count agree; leaving leaves; no overfull room; nobody loses a seat to others | `LobbyRooms` |
| Games `game_server.go` | games in memory, records | `StartGame`, `EndGame` | a game ends once and its record says how | `Games` |
| Card rooms `gameplay/gameplay.go` | rooms, deck, hands, events | create, join, leave, `ProcessAction` | cards add up | `CardRooms` |
| Mail `mail_server.go` | mail documents | send, read, claim, delete | rewards can be claimed, and once | `Mailbox` |
| Friends `friend_server.go` | rows per direction | add, accept, delete | friendship is mutual | `Friends` |
| Bans, GM commands `gm_server.go` | ban records, log | ban, unban, others only logged | one active ban | `Bans` |
| Center `center_server.go`, receivers in `system_service.go` | orders | shutdown, restart, broadcast | an order stops one life of a node | `Center` |
| Message queue `mq/nsq.go` | producers, consumers, handlers | publish, subscribe, close | an acknowledged command is carried out where it has a handler | `MessageQueue` |
| Migrations `database/migrations.go`, `tools/migrate` | version records | up, down | records tell the schema | `Migrations` |
| Object pools `pool/object_pool.go` | free objects | get, put | exclusive, and clean | `ObjectPool` |
| Hot reload `hotreload/hot_reload.go` | files, modules | register, watch, reload | the configuration follows the file | `HotReload` |
| Redis lock, idempotency, audit; security; chat; configuration, logging, monitoring, i18n; generated code, scripts, plugins, examples | - | - | see section 6 | - |

Interactions: the gateway calls the login server through a pool of RPC clients; `BaseServer`
owns the TCP server, RPC server, actor system, queue, registry and databases and stops them
in that order; the registry's watch callbacks feed the discovery cache which the gateway
asks for a login server; the servers share rooms, sessions and mails only through the
databases, so what they do to one document interleaves freely. Orders of the center reach a
node through the queue and end in the node's own `Stop`.

The hard behaviours, each listed at its line under `hazards` in `PROJECT.json`, are: waits
under locks (actor stop, RPC write, registry update), state checked under a lock and used
after it (RPC running check, pool size, room checks), late answers and retries, documents
read and later written back whole, restarts that forget counters kept in memory, and
multi-step writes of which one fails.

## 2. Modules

| Module | Models | Proved in |
|---|---|---|
| `ActorContract` | what an actor promises (abstract) | |
| `ActorSystem` | `internal/actor/actor.go` | `ActorSystemProofs` |
| `RpcContract` | what a connection promises (abstract) | |
| `RpcClient` | `RPCClient`, `CircuitBreaker`, `RPCServer.handleConnection` | `RpcClientProofs` |
| `RpcPool` | `RPCConnectionPool` and its use by the gateway | `RpcPoolProofs` |
| `ServerLifecycle` | one process: construction, `Start`, `Stop`, listeners, load loop, remote shutdown | `ServerLifecycleProofs` |
| `ServiceRegistry` | etcd's leases and keys, the registries of several servers, the discovery cache of another | `ServiceRegistryProofs` |
| `Sessions` | gateway connections, login server, Redis and account keys | `SessionsProofs` |
| `LobbyRooms` | `LobbyService` and `RoomRepository` | `LobbyRoomsProofs` |
| `Mailbox`, `Games`, `Friends`, `Bans` | a service each with its MongoDB repository | in `ServicesProofs` |
| `Center` | `CenterService` and the nodes that receive its orders | in `ServicesProofs` |
| `CardRooms` | `GameplayManager`, `GameRoom`, the card module | in `ServicesProofs` |
| `MessageQueue` | `NSQManager` over several nsqd | in `ServicesProofs` |
| `Migrations`, `ObjectPool`, `HotReload` | the packages of these names | in `ServicesProofs` |
| `Services` | the ten parts of the five rows above, beside each other | `ServicesProofs` |
| `MCActorSystem`, `MCRpcClient` | instances for TLC whose constants are functions | |

Definitions whose comment begins with "Mutant" are deliberately wrong variants of the
definition that follows them; each run's properties are tested against one of them. They
are not used by any specification.

### ActorSystem

Threads are the goroutines that call; each step is one critical section, one wait or one
channel operation, with the thread's place in `pc`. A Go `RWMutex` is two variables, the
writer that has announced itself and the set of readers: an announced writer keeps new
readers out, which is what makes `Stop` behind a blocked `Tell` interesting. The system's
lock and every actor's lock are modelled, and `Shutdown` holds both while it waits for
blocked senders and for the loop. `idleLoops` and `hand` count loop goroutines rather than
assume one, so that "one loop per actor" is something to show. `accepted` and `handled` are
history. The timer of `Tell` can only win against a full mailbox, because a parked sender is
given the slot that a receive frees.

Left out: `Tell(nil)`, which the loop drops uncounted and no caller sends; handlers that call
back into the actor system (the three shipped `OnReceive` do not, and one that did could
deadlock with its own `Stop`); `Start` and `Stop` called directly on an actor, which only
the system does; the statistics' values, `GetActorCount` and `ListActors`.

### RpcClient

One connection with both ends. The mutex is a variable because it is held across the write
of a request; every other critical section is one step that needs it free. The two directions
of the stream are queues of frames bounded by `WireSize`: a write into a full one blocks
until it has room or its deadline passes. A deadline may leave part of a frame (`Torn`) on
the stream. The server completes it with what is sent behind it, which may take in several whole
frames and end where one ends, so that the next read finds a header again, or in the middle of
one, whose rest is then torn. What was swallowed is never executed; what came out has the bytes
of a header in its middle, does not parse and is answered under id 0, or has no possible length
and closes the connection. So the contract is not that all requests are executed: those that are,
are executed in the order sent, at most once, and answered to their own caller. Clocks are nondeterminism: a call times out, a read times out, the
breaker's open interval passes whenever the timer is armed. `sent`, `verdicts` and `outcome`
are history. A call's ending (select, then lock and delete its callback) is one step, because
between the two nobody else can see what the call does. `CallTimeout` and `TakeAnswer` may
both be enabled, as in Go's `select`.

Left out: connecting a client a second time (nothing does) and marshalling errors of the
arguments. The server's `Start` and `Stop` are in `ServerLifecycle`.

### RpcPool

The pool's channel is a sequence, its counter an integer, and `isRunning` a set of live
clients from which any may drop at any time (its response loop ended). `Get` is four steps:
the non-blocking receive, the read of the counter, the dial, the increment. `Close` is taken
when no user has a client, which is what the gateway does: `Stop` closes the pools after
`BaseServer.Stop` has waited for the TCP handlers. A `Get` after `Close` would dereference
nil; only the late TCP server of `ServerLifecycle` could do it. A dial that fails and a user whose call fails are both included.

### LobbyRooms

One room is one document, one repository call one atomic operation, and a request is a read
followed by one or two writes with nothing held in between. A handler is a goroutine serving
one RPC connection, which the RPC server does one request at a time: `Handlers` with one
element is a lobby with one connection, with two a lobby with two. The code has no guard between
the connections; `raced` is the set of rooms on which two requests have worked at a time, which
the properties need to say what remains true of them. Any repository call may
fail; `Restart` forgets the requests under way and sets `nextRoomID` back (1000 in the code,
1 in the model). Requests refused without touching a document are not steps. `Status` is left
out: no code sets it to anything but 0.

### ServerLifecycle

Threads are the main goroutine and the goroutines of accepted remote shutdowns; `pc` is where
one is, `lock` who holds `bs.mutex`, which `Stop` holds to its end. `comp` is the state of a
component, `stopAt` the stopper that runs: `StopBegin`, `StopWait` and `StopEnd` of one
component are the three points between which requests of others still come. The connections
of a listener are counted: waiting for a frame (`idle`) or handling one (`busy`). The
registry appears as its mutex and as "is the node in the map", which is what makes
`UpdateLoad` (the mutex held, then asked for again) and `Unregister` hang. `late` records that
the gateway's TCP server was started although the server had been shut down by then
(`GatewayServer.Start` starts it after `BaseServer.Start` has returned); it is the exception
in two invariants. The stop order is the code's: listeners first, databases last.

### ServiceRegistry

A key hangs on a lease; a lease belongs to one life of a process and outlives it. Actions are
the calls to etcd, each of which may fail; `LoseLease` and `Regrant` are the keep-alive
channel closing and the new lease, under which the code does not put the key again (`lost`).
The third process' cache is written by `GetService` (`FillRead`, `FillStore`), by the ticker
and by callbacks in goroutines of their own, which are counted by the list they carry, so that
they overtake each other freely.

### Sessions

A step is one access to Redis or MongoDB. `pc` is per connection, `call` the calls the login
server executes, which go on when the gateway has given up on them (`LoginTimeout`). Calls that
do not come through the gateway (`DirectCall`: register, refresh, validate, logout) overlap
with them. Keys have a time to live in ticks of `Tick`: two for a session, one for the online
flag, which keeps the order of 2 h and 30 min. `stored` keeps the last value of a key that is
gone, `left` says whether it is there.

### Services and its parts

Ten parts that share no state are composed in `Services`: the variable `part` chooses which of
them runs, the others rest in an initial state, so one run explores each in turn. Since no
step of one reads or writes what another has, their interleavings show nothing more. Each
part has its own `Init`, `Next`, type invariant and one invariant:

* `Mailbox`, `Games`, `Friends`, `Bans`: calls are goroutines of the RPC server; one repository
  call is one step, any of them may fail, a crash forgets the calls and sets the counters in
  memory back. Documents get a number of their own (`uid`, `game`, `id`) beside the
  `mail_id` or `game_id` the code filters by, which is not unique after a restart. `ClaimRewards`
  only marks the mail: handing the rewards out is a TODO in the code (`mail_server.go:321`), so
  nothing here says that anybody gets them. `GetGameState` changes nothing and its answer has no
  winner; it is left out.
* `Center`: an order is published once and copied to the channel of its node; the process that
  handles it starts a `Stop` and confirms. A process has a number of lives. There is one nsqd here, so
  the copy that a failover of the publisher leaves on a second one is in `MessageQueue` only.
* `CardRooms`: a draw is eight steps of which only some hold the room's mutex; the deck and the
  hands have none. So one draw may read the deck between another's read and cut, and one may store
  a hand over what another has stored since it was read; and as the hands are a Go map, two that use
  it at once, one of them to write, may end the process (`MapRace`).
* `MessageQueue`: nsqd is external: `kept`, `copies` and `attempts` are what it promises (at
  least once, a copy per channel, an error of `Publish` may hide a success). Handlers are looked up
  by the command: one without, as `restart`, which the center sends and `RegisterCommonServices` does
  not register, is finished without being run.
* `Migrations`: a process may be cut off between a function and its record, and may overlap with
  another.
* `ObjectPool`: `Get` and `Put` are steps around one channel; `resets` says whether the pool's
  objects can be reset, which those of the connection pool cannot.
* `HotReload`: one file, written or replaced at any time; the loop's event, stat and read are
  steps, of which the last two may fail. Two writes with one modification time are left out.

History variables record the circumstances under which an invariant is known not to hold, so
that it can be stated for the rest. They are part of what the run tells: `Reused` (a mail's id
is used again after a restart, and a call that checked one mail then marks or deletes the other),
`doubled` (two claims checked a mail before either marked it, and both are told a success),
`unrecorded` (a game's record failed or came after its end), `uneven` (an acceptance nobody asked
for inserts a row, as does one cut off half-way; a deletion removes one row of any status),
`raced` (two bans overlap and insert two records; in the lobby, two requests work on a room),
`cutOff` (an order's confirmation is lost and it stops the next life), `atOnce` (two draws read the
deck at once and deal one card twice), `crossed` (two draws of a player write the hand at once and
one card is lost from it), `overlapped` (two migration processes), `late` and `lost` above. What
such a variable excepts is a failure the code really has and no property here catches; where that is
the whole of a hazard, `hazards` in `PROJECT.json` says so and names no property.

## 3. Runs

| Run | Instance | Shows | Distinct states |
|---|---|---|---|
| `actor_system` | 2 actors, 3 threads with 2+1+1 calls, mailbox 1 | `TypeOK`, `RegistryIsTruth`, `CountersAddUp`, `ImplementsContract`, `CallsReturn` | 78 thousand |
| `rpc_client` | 2 callers, one with a retry, threshold 2, wire 2 | `TypeOK`, `CallbacksTrackCalls`, `BreakerCounts`, `ImplementsContract` | 3.8 million |
| `rpc_liveness` | 2 callers, one attempt each | `CallsReturn` | 177 thousand |
| `rpc_pool` | pool of 1, 3 users, 2 uses each, 4 dials | `TypeOK`, `OneOwner`, `CreatedCounts`, `UsersReturn` | 313 thousand |
| `lobby` | 2 handlers, 3 users, rooms of 2, 2 rooms, 5 requests, 2 faults | `TypeOK`, `RoomConsistent`, `OthersKeepTheirSeat` | 5.1 million |
| `lobby_leave` | 1 handler, no faults | **violates** `LeftMeansOut` | |
| `lobby_overfull` | 2 handlers, no faults | **violates** `NeverOverfull` | |
| `lifecycle` | a gateway's six components, 2 remote shutdowns, 1 connection per source, 3 frames | `TypeOK`, `HandlersAreServed`, `StoppedIsQuiet`, `StopEnds` | 145 thousand |
| `lifecycle_stop` | 1 remote shutdown, 1 frame | **violates** `StopReturns` | |
| `registry` | 2 nodes with 2 leases each, 1 fault, 1 callback per list | `TypeOK`, `OnlyLeaseLossHides`, `CacheFollows`, `DeadAreForgotten` | 813 thousand |
| `sessions` | 1 connection, 2 calls at a time, 2 users of whom 1 is registered, 2 tokens, 2 direct calls, 1 fault | `TypeOK`, `OwnSessions`, `DeadStayDead`, `GoneGoOffline` | 1.0 million |
| `services` | ten parts, mostly 2 callers, 1 fault and 1 restart each | `TypeOK` and an invariant per part | 2.0 million |

Why the bounds suffice:

* `actor_system`: one thread can spawn and then tell or shut down while two others tell,
  spawn, shut down or read statistics; a mailbox of one is full after one message, so blocked
  senders, timeouts against a stopping actor, a stop and a second start with a message left
  over, and two actors stopped under one shutdown all occur.
* `rpc_client`: three requests, so a late answer of a first attempt can meet a retry and a
  request of the other caller; threshold 2 lets the breaker open, be probed, and be closed by
  a call that began before; `WireSize` 2 lets a torn frame be followed by a whole one, so that a
  request is swallowed and a later one executed, and with three requests the client's direction is
  full. The circle of a blocked write, an undelivered response, and a server blocked in its answer at
  once is out of reach, but each of its edges occurs: in this run a write blocked under the lock with
  the response loop waiting for it, in `rpc_liveness`, whose `WireSize` is 1, also an answer blocked
  on a full stream.
* `rpc_liveness`: two requests suffice for one write to block behind the other.
* `rpc_pool`: with a pool of one, three users overshoot by two, the channel is full on return,
  clients die in every place, and the waiting branch is taken. Four dials allow every client to
  be replaced.
* `lobby`: rooms of two with three users make "full", "owner alone" and "owner with others"
  occur; two rooms, so that an id in use is met again after a restart; two faults, so that a
  failed call can be followed by a restart. Two handlers and five requests that read a room are a
  room with two players, one that joins and leaves again, and an owner's `LeaveRoom` across both.

* `lifecycle`: two remote shutdowns and a signal meet each other in every order, before, during
  and after `Start`; three frames let a request, a message and a shutdown be in progress at a
  time. More connections only add to counters that no guard compares but the limit of one,
  which a second client meets. MongoDB, which a gateway does not have, is left to the stop
  order; `HandlersAreServed` covers it through the same rule as Redis.
* `registry`: two leases a node are a restart whose old lease still lives; one fault is a crash,
  a lost lease or a failed call; a callback per list suffices for an old list to be stored after
  each newer one.
* `sessions`: two tokens and two calls let a login overlap with another user's registration, a
  refresh or a logout, with one failing access. One connection is reused by the next client,
  another user perhaps. Two connections of one user, whose online flag they share, are not in
  this instance: with them the flag can be cleared by either, which no property forbids. With
  `Conns = {c1, c2}`, `MaxDirect = 1` and `MaxFaults = 0` the same properties hold (1.6 million
  states, too slow beside the others).
* `services`: two callers are enough for every pair of overlapping calls; two mails or games let
  an id be used again after the restart; three versions with one that cannot be undone let a
  `Down` stop half-way; two nsqd let failover choose the other; the pool of two with three
  goroutines and four objects can overshoot, overflow and wait. The callers, nodes, users and
  goroutines of the parts are symmetric.

Deadlock is not checked: callers are never obliged to call again, so every model may stop; a process may stay down, a client may stay away.

**Findings.** `lobby_leave`: an owner who leaves a room in which others play is removed and
then written back, with the count, by the update that transfers the ownership; the reply says
it left. It needs no concurrency. `lobby_overfull`: two joins that read the room before either
writes exceed `MaxPlayers` (in the trace the same user is seated twice). `lifecycle_stop`: `ETCDRegistry.UpdateLoad`
calls `Register` with the mutex held that `Register` locks. The load loop blocks at its first
tick, and a `Stop` after that never returns; so `UpdateTime` is never refreshed either, and the
center takes every node for stale after a while.

**Fairness.** Weak fairness of each goroutine's next step: the Go scheduler runs what can
run; armed timers fire; handlers, dials and RPC methods return. Nobody is obliged to start a
call, a shutdown or a disconnect. Weak fairness is enough for locks because the number of
calls is bounded and Go's mutexes hand over to waiters in order once these starve.
In `ServerLifecycle` handlers return and a connection that is idle ends at its read
deadline (`frame.go`), which is what `Stop` waits for; nobody has to send or to signal. In
`ServiceRegistry` etcd ends leases that nobody keeps alive, and the ticker's read succeeds
again and again; nothing is assumed of the servers. In `Sessions` a handler concludes its
message (its calls have timeouts) and time passes in Redis; calls of the login server, clients
and the heartbeat may stop. `Services` checks safety only, and assumes none.

## 4. Proofs

Every safety property that a passing run checks - invariants, action properties, refinements - is
also a theorem, for every value of the constants. Each proof rests on an inductive invariant,
`IInv`: it holds initially, each step keeps it, and it implies the properties. The proof modules define it at their head, with a lemma per operation or per
part. The assumptions on the constants are the named `ASSUME`s of the modules; TLC evaluates them
in each run. They say that the bounds are numbers, that special values ("nobody") are not ordinary
ones, that sets which the code holds in memory and the invariants count are finite, and what follows.

### ActorSystem

For every set of actors and threads, every capacity and every number of calls
(`ConstantAssumption`: at least one actor, `NoThread` not a thread, a positive capacity):

* `Invariance`: `Spec => []IInv`. `IInv` is `TypeOK` and five named parts. `RegistryIsTruth`
  is not inductive: it says nothing while the system's lock is held, and it rests on how far
  the holder has come (`RegistryInv`), on who holds which lock (`SysLockInv`,
  `ActorLockInv`: a writer past its wait has no readers, a reader's actor runs) and on the
  loop (`LoopInv`: none or one, none outside Start to the end of Stop's wait). `QueueInv` ties
  the histories to the mailbox: accepted is handled, then in hand, then waiting. There is one
  lemma per part, and in each one step per action.
* `TypeCorrect`, and `RegistryTruth` (`RegistryIsTruth`).
* `CountersAlwaysAddUp` (`CountersAddUp`): the sum over senders is inductive beside `IInv` when it
  is stated of what was accepted (`Counted`): `TellSend` adds its thread to the senders as it adds
  to `accepted`, `TellSent` takes it away as it counts. That the senders are finitely many is part
  of it, so it needs no assumption about the threads. `QueueInv` turns accepted into handled, in
  hand and waiting.
* `Refinement`: `Spec => ImplementsContract`, by `IInv` and a case per action; sending is
  `Accept`, receiving `Take`, `StopCancel` `BeginClose`, `StopJoin` `EndClose`, and the rest
  stutter. The part of `QueueInv` about the mailbox's head is what makes `Receive` a `Take`.
* `NoDeadlock`: the safety half of `CallsReturn`, for any number of threads. `WaitsFor` says whose
  lock a thread waits for; it only ever points to a thread that is further along the order of the
  locks (`LockOrder`), so nobody waits in a circle. `CanMove` and `LoopCanMove` write out the guards
  of `Progress` and `LoopStep`; while a call is under way one of them holds (`SomebodyCanMove`).
  The argument frees the locks from the last of the order to the first. `Shutdown` waits for more
  than locks, for the receive loop: `JoinCancels`, which is inductive beside `IInv` because no
  thread can start the actor meanwhile, says that loop has been told to end.

### RpcClient

For every finite set of callers, every number of calls and attempts, every threshold and stream size:

* `Invariance`. `CallbacksTrackCalls` is not inductive: that an id is in the map once rests on ids
  being given once (`FreshOK`), and that there are enough of them on counting the attempts begun
  (`CountOK`; `MaxId` is the number of attempts there can be). `MutexOK`, `LoopOK` and `CallsOK` say
  what a caller's place means for the mutex, the loop and the map.
* `TypeCorrect`; `CallsAreTracked` (`CallbacksTrackCalls`); `FailuresAreCounted` (`BreakerCounts`).
* `Implements`: `Spec => ImplementsContract`. It takes what each frame of the stream stands for. The
  whole frames in the stream are requests sent after all that were executed, in the order sent,
  whatever is torn between them or was swallowed (`FramesOK`, `StreamOK`), which makes the server's
  read an execution in order; each whole response on the wire, read or in a channel is the verdict on
  the request of its id (`AnswersOK`), which makes a caller's return an answer of its own.
* `CallsAdvance`: what `CallsReturn` rests on, without the scheduler. `Rank` is a natural number,
  positive while a call is under way: seven for each attempt the options still allow, and the stage
  of this one. A step of the call lowers it and no step of anybody raises it (`Advance`). And a
  call, or the response loop that `Disconnect` waits for, can go on unless another caller holds the
  mutex to write, and that caller can (`NobodyIsStuck`): there is room in the stream, or the socket
  is closed, or the deadline passes. `Disconnect` waits only for a loop that was started (`JoinsLoop`).

### RpcPool

For every finite set of users, every pool size and every number of dials and uses:

* `Invariance`: `Spec => []IInv`. Two parts are added to the invariants of the run. `HoldInv`: a
  user has a client exactly in certain places, no client is newer than the last dial, a closed
  pool is empty and without users. `DropInv`: a client that is about to be taken off the counter
  has been disconnected. Without the first a dial could hand out a client somebody has, without
  the second `Drop` could leave a running client with nobody.
* `TypeCorrect`, `ExclusiveOwnership` (`OneOwner`): most steps leave the channel alone and take
  from users only clients that no longer run, which is the lemma `OwnerKept`; `Take`, `Dial`,
  `Offer` and `Close` are argued element by element.
* `CounterRight` (`CreatedCounts`): a step of a user moves it between places that count and places
  that may dial (`Moves`), and the counter follows (`Balance`). Only `Miss` lets one more user dial:
  it has found the channel empty, so the counter is the number of users with a client, and these
  and the dialling ones are different users.
* `GetsAdvance`: what `UsersReturn` rests on. `Get` starts again over a client that died, so a stage
  alone is no rank. `Left` is the set of clients that are to come, idle or with a user; no step
  enlarges it, and a step of a user brings it further or takes a client out of `Left`: the dead
  client that `Check` forgets is nowhere else, which is `OneOwner`. So a `Get` starts again at most
  as often as there are clients, whatever the others do.

### LobbyRooms

All of it is for any set of handlers, users and rooms, and any number of faults and restarts.

* `TypesHold`, `TypeCorrect`: the one thing types need is that an owner who hands the room over has
  somebody to hand it to (`Busy`).
* `Invariance`, `RoomsAreConsistent` (`RoomConsistent`), `SeatsAreKept` (the action property
  `OthersKeepTheirSeat`). `InStep` is the heart: in a room that is not `raced`, what a handler has read
  is still so when it writes, up to what it has itself written before. In a raced room nothing of the
  kind holds, and the seats rest on `Concluded` alone: what a handler made of the room it read. From it
  `SeatsAreKept` follows step by step: a join only adds, a removal only takes its own user, and a
  deletion or write-back of a stale copy can only cost the seats which that copy does not hold, or
  miscounts (`TakesSeat`). So a seat is not safe from others, and the theorem says from what it is not.
* What `$pull` does to a list (`NotUser`, a recursive function on the sequence) is proved for every
  list: it removes the user and nobody else, and shortens a list without repetition by one. This is
  an induction over data, argued through a least counterexample: the library's
  `NatLessThanWellFounded` and `WFMin` take relations and not operators, so these provers can use them.

### ServerLifecycle

For every set of options a server can have (`OptionsOfTheServers`: RPC, NSQ and etcd are always
there, `server.go`), any number of shutdown goroutines, connections and frames:

* `Invariance`. A handler that works is far from the thread that stops the server. So the
  invariant says how far the stop has come (`OrderOK`: what the stopper has passed, is at, and has
  ahead), who may stop anything (`MutexOK`: the holder of the lock, or a constructor that failed),
  that a source which does not serve is empty unless it is being stopped (`SourcesOK`), and what
  main has not reached yet (`NotYetOK`, `BuiltOK`, `RolesOK`).
* `TypeCorrect`; `ServedAlways` (`HandlersAreServed`); `StoppedMeansQuiet` (`StoppedIsQuiet`).

### ServiceRegistry and Sessions

* `Invariance`, `TypeCorrect`, `RegisteredAreFound` (`OnlyLeaseLossHides`), for any number of nodes,
  leases, callbacks and faults. Added are: who is in its registry's map runs, who hangs in
  `UpdateLoad` is open, who runs has a lease.
* `Invariance`, `TypeCorrect`, `SessionsAreOwn` (`OwnSessions`) and `DeadStayDeadAlways` (the action
  property `DeadStayDead`), for any number of connections, users, tokens, calls and faults. The
  invariant says which steps a call of each operation goes through and on whose behalf (`Shape`),
  whose its old and new tokens are in each (`Proper`), that no two calls are about to store one
  token (`Distinct`), and that a session is stored under the user it was signed for (`Signed`).

### Services

Each part has an inductive invariant of its own, its lemmas, and one that it does not notice steps
which leave its variables alone; the last section of `ServicesProofs` takes `IInv` as the conjunction
and uses `TurnOfAPart`: a step is one of a part, and the others rest. Since the lemmas of a part do
not look at `part`, they hold of the parts in any interleaving. What each invariant adds:

| Theorem | Property | What makes it inductive |
|---|---|---|
| `RewardsAreClaimedOnce` | `RewardsClaimedOnce` | a claimed mail is marked (`MailsClaimed`); who is about to mark one that is claimed checked it together with the call that claimed it (`Opened`, `ClaimsApart`), and who is about to delete one with rewards has found them claimed |
| `RecordsTell` | `RecordsTellGames` | a game in memory is over if and only if there is a verdict on it (`VerdictsOfGames`) |
| `FriendsAreMutual` | `FriendsOfEachOther` | rows plus acceptances under way are equal in both directions (`Owed`), and a half-done deletion has left none behind it (`HalfDeleted`) |
| `BansAreSingle` | `OneActiveBan` | who is about to insert has found none (`FoundNone`); the log counts what is done or will be logged |
| `StopsComeOnce` | `OrdersStopOnce` | an order that is due or has stopped a node is confirmed (`OnceHandled`) |
| `CardsAreKept` | `CardsAddUp` | no card is in two places (`OnePlace`), the card of a draw is still the first when it cuts (`OneDraw`), the hand a draw has read is still the hand when it stores it, unless the player's draws crossed (`OneStore`), and what a hand holds was drawn (`HandsKnown`) |
| `CommandsReachNodes` | `CommandsAreRun` | a node with a consumer has the handlers of all registered commands (`HandlersFirst`), a copy is of a message that is kept (`CopiesKept`), and so is what was run (`RanAreKept`) |
| `RecordsFollowSchema` | `RecordsMatchSchema` | the one process that runs knows what is recorded (`GoesUp`, `GoesDown`) |
| `ObjectsHaveOneHolder` | `ObjectsAreExclusive` | idle objects are made, and clean if they can be reset; the counter stays below the limit by the users that create |
| `ConfigIsCurrent` | `ConfigFollowsFile` | who has noted the last version has loaded it, is about to, or could not (`UpToDate`) |

`TypeCorrect` proves the type invariants of all ten. Where counts appear (`Owed`, `BanLogsTold`,
`EveryCard`, the pool's counter) the callers or goroutines are finite sets, by assumption. TLC has
checked this `IInv` as an invariant of the instance of `services` too.

### Only model-checked

* Everything about liveness: `CallsReturn` (twice), `UsersReturn`, `StopEnds`, `CacheFollows`,
  `DeadAreForgotten`, `GoneGoOffline`. TLAPS does not reason about fairness and `ENABLED` here. What
  is proved of the first three is `NoDeadlock`, `CallsAdvance` and `GetsAdvance`: the step from
  there to "returns" is the fairness that the models state, and stays with TLC.
* The three violated properties, which are counterexamples and not theorems.

No module uses a `RECURSIVE` operator.

## 5. What is left

1. For `StopEnds` and the liveness of registry and sessions, the steps that TLAPS can reach, as
   `NoDeadlock`, `CallsAdvance` and `GetsAdvance` are for the calls of actors, RPC and pool.
2. The failures that are only excepted so far (section 2), each as a run that shows it, where a
   comment or a test of the repository says that it does not occur.
3. A larger `sessions` instance with two connections of one user, if the code gives the online
   flag an owner.

## 6. Not modelled

* Redis lock, idempotency and audit repositories, `GameRoomCache`: nothing in the repository calls
  them, so there is no use of them to model.
* Security manager: only the enhanced server creates one, and refuses every session for the empty
  address it passes; what remains is cryptography.
* Chat server: its methods answer without doing anything.
* Parts of modelled files that no reachable state enters: `PlayerAction` (needs a status nothing
  sets), `play_card`, `RejectFriend`, `CleanExpiredBans`, `DeferredPublish`, `Unsubscribe`, the
  TCP server's `SendToUser`; and those without a state: lists, status calls, load balancers.
* Configuration, logging, monitoring, i18n: no protocol. Generated code, tools (but the migration
  tool), scripts, plugins, examples.
