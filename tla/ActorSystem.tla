---------------------------- MODULE ActorSystem ----------------------------
(***************************************************************************)
(* The actor runtime of internal/actor/actor.go: ActorSystem (a registry   *)
(* behind one RWMutex) and BaseActor (a bounded mailbox, a receive loop and *)
(* an RWMutex of its own that Tell holds for reading while it waits for    *)
(* room in the mailbox, and that Start and Stop hold for writing, Stop     *)
(* while it waits for the loop to end).                                    *)
(*                                                                         *)
(* Threads are the goroutines of the server that call the system.  Every   *)
(* step is one critical section, one wait, or one channel operation.  A Go *)
(* RWMutex is two variables: the writer that has announced itself (it      *)
(* keeps new readers out) and the set of readers; the writer is in when    *)
(* the readers are gone.                                                   *)
(***************************************************************************)
EXTENDS Integers, Sequences, FiniteSets

CONSTANTS
  Actors,    \* the actor objects, each with its own id
  Threads,   \* the calling goroutines
  NoThread,  \* "nobody holds the lock for writing"
  Capacity,  \* NewBaseActor's mailboxSize
  MaxCalls   \* bound: how many calls each thread makes into the system

ASSUME ConstantAssumption ==
  /\ Actors # {}
  /\ NoThread \notin Threads
  /\ Capacity \in Nat \ {0}
  /\ MaxCalls \in [Threads -> Nat]

(* A message is named by the Tell that sends it: the caller's n-th call.   *)
Messages == UNION {{t} \X (1..MaxCalls[t]) : t \in Threads}

Idle      == "idle"
TellPC    == {"lookup", "rlock", "send", "sent"}
SpawnPC   == {"spawn", "spawn_wait", "start", "start_wait", "started"}
DownPC    == {"shutdown", "shutdown_wait", "stop_next", "stop_wait", "stop_join"}
StatsPC   == {"stats", "stats_read"}
PC        == {Idle} \cup TellPC \cup SpawnPC \cup DownPC \cup StatsPC

VARIABLES
  registry,   \* sys.actors
  sysWriter,  \* sys.mutex: the announced writer
  sysReaders, \* sys.mutex: the readers
  writer,     \* a.mutex of every actor: the announced writer
  readers,    \* a.mutex of every actor: the readers
  running,    \* a.running
  cancelled,  \* a.ctx is done
  mailbox,    \* a.mailbox
  idleLoops,  \* goroutines of the actor waiting in run's select
  hand,       \* messages inside OnReceive, one per busy goroutine
  enqueued,   \* a.messagesEnqueued
  pc, target, todo, calls,  \* per thread: where it is, its actor, actors left, calls made
  accepted, handled         \* history: messages in order of send and of completion

lockVars   == <<sysWriter, sysReaders, writer, readers>>
actorVars  == <<running, cancelled, mailbox, idleLoops, hand, enqueued>>
histVars   == <<accepted, handled>>
threadVars == <<pc, target, todo, calls>>
vars == <<registry, lockVars, actorVars, threadVars, histVars>>

Init ==
  /\ registry = {} /\ sysWriter = NoThread /\ sysReaders = {}
  /\ writer    = [a \in Actors |-> NoThread]
  /\ readers   = [a \in Actors |-> {}]
  /\ running   = [a \in Actors |-> FALSE]
  /\ cancelled = [a \in Actors |-> FALSE]
  /\ mailbox   = [a \in Actors |-> <<>>]
  /\ idleLoops = [a \in Actors |-> 0]
  /\ hand      = [a \in Actors |-> {}]
  /\ enqueued  = [a \in Actors |-> 0]
  /\ pc     = [t \in Threads |-> Idle]
  /\ target = [t \in Threads |-> CHOOSE a \in Actors : TRUE]
  /\ todo   = [t \in Threads |-> {}]
  /\ calls  = [t \in Threads |-> 0]
  /\ accepted = [a \in Actors |-> <<>>]
  /\ handled  = [a \in Actors |-> <<>>]

At(t, l)    == pc[t] = l
Goto(t, l)  == pc' = [pc EXCEPT ![t] = l]

-----------------------------------------------------------------------------
(* A thread enters the system: Tell, SpawnActor, Shutdown or GetStats.     *)

Call(t) ==
  /\ At(t, Idle)
  /\ calls[t] < MaxCalls[t]
  /\ calls' = [calls EXCEPT ![t] = @ + 1]
  /\ \/ \E a \in Actors, l \in {"lookup", "spawn"} :
          Goto(t, l) /\ target' = [target EXCEPT ![t] = a]
     \/ \E l \in {"shutdown", "stats"} : Goto(t, l) /\ UNCHANGED target
  /\ UNCHANGED <<registry, lockVars, actorVars, histVars, todo>>

(* ActorSystem.Tell, first half: GetActor under the system's read lock,    *)
(* released before the actor is used.                                      *)
Lookup(t) ==
  /\ At(t, "lookup")
  /\ sysWriter = NoThread
  /\ Goto(t, IF target[t] \in registry THEN "rlock" ELSE Idle)
  /\ UNCHANGED <<registry, lockVars, actorVars, histVars, target, todo, calls>>

(* BaseActor.Tell takes the actor's read lock; a stopped actor refuses.    *)
TellRLock(t) ==
  LET a == target[t] IN
  /\ At(t, "rlock")
  /\ writer[a] = NoThread
  /\ IF running[a]
       THEN Goto(t, "send") /\ readers' = [readers EXCEPT ![a] = @ \cup {t}]
       ELSE Goto(t, Idle) /\ UNCHANGED readers
  /\ UNCHANGED <<registry, sysWriter, sysReaders, writer, actorVars, histVars,
                 target, todo, calls>>

(* Mutant: an unbounded mailbox.                                           *)
TellSendUnbounded(t) ==
  LET a == target[t]  m == <<t, calls[t]>> IN
  /\ At(t, "send")
  /\ mailbox'  = [mailbox EXCEPT ![a] = Append(@, m)]
  /\ accepted' = [accepted EXCEPT ![a] = Append(@, m)]
  /\ Goto(t, "sent")
  /\ UNCHANGED <<registry, lockVars, running, cancelled, idleLoops, hand, enqueued,
                 handled, target, todo, calls>>

TellSend(t) ==
  LET a == target[t]  m == <<t, calls[t]>> IN
  /\ At(t, "send")
  /\ Len(mailbox[a]) < Capacity
  /\ mailbox'  = [mailbox EXCEPT ![a] = Append(@, m)]
  /\ accepted' = [accepted EXCEPT ![a] = Append(@, m)]
  /\ Goto(t, "sent")
  /\ UNCHANGED <<registry, lockVars, running, cancelled, idleLoops, hand, enqueued,
                 handled, target, todo, calls>>

(* The counter follows the send, then the deferred unlock.                 *)
TellSent(t) ==
  LET a == target[t] IN
  /\ At(t, "sent")
  /\ enqueued' = [enqueued EXCEPT ![a] = @ + 1]
  /\ readers'  = [readers EXCEPT ![a] = @ \ {t}]
  /\ Goto(t, Idle)
  /\ UNCHANGED <<registry, sysWriter, sysReaders, writer, running, cancelled, mailbox,
                 idleLoops, hand, histVars, target, todo, calls>>

(* Mutant: the message is counted though it was not taken.                 *)
TellTimeoutCounts(t) ==
  LET a == target[t] IN
  /\ At(t, "send")
  /\ Len(mailbox[a]) = Capacity
  /\ enqueued' = [enqueued EXCEPT ![a] = @ + 1]
  /\ readers' = [readers EXCEPT ![a] = @ \ {t}]
  /\ Goto(t, Idle)
  /\ UNCHANGED <<registry, sysWriter, sysReaders, writer, running, cancelled, mailbox,
                 idleLoops, hand, histVars, target, todo, calls>>

(* Mutant: this return does not unlock.                                    *)
TellTimeoutKeepsLock(t) ==
  /\ At(t, "send")
  /\ Len(mailbox[target[t]]) = Capacity
  /\ Goto(t, Idle)
  /\ UNCHANGED <<registry, lockVars, actorVars, histVars, target, todo, calls>>

(* Five seconds without room: "mailbox full".  A parked sender is handed   *)
(* the slot a receive frees, so the timer wins only against a full mailbox.*)
TellTimeout(t) ==
  LET a == target[t] IN
  /\ At(t, "send")
  /\ Len(mailbox[a]) = Capacity
  /\ readers' = [readers EXCEPT ![a] = @ \ {t}]
  /\ Goto(t, Idle)
  /\ UNCHANGED <<registry, sysWriter, sysReaders, writer, actorVars, histVars,
                 target, todo, calls>>

-----------------------------------------------------------------------------
(* SpawnActor: the system's lock, then Start under the actor's.            *)

SysLock(t) ==
  /\ sysWriter = NoThread
  /\ sysWriter' = t
  /\ \/ At(t, "spawn") /\ Goto(t, "spawn_wait")
     \/ At(t, "shutdown") /\ Goto(t, "shutdown_wait")
  /\ UNCHANGED <<registry, sysReaders, writer, readers, actorVars, histVars,
                 target, todo, calls>>

(* Mutant: the actor is registered before it is started.                   *)
SpawnCheckRegisters(t) ==
  /\ At(t, "spawn_wait")
  /\ sysReaders = {}
  /\ IF target[t] \in registry
       THEN Goto(t, Idle) /\ sysWriter' = NoThread /\ UNCHANGED registry
       ELSE Goto(t, "start") /\ registry' = registry \cup {target[t]} /\ UNCHANGED sysWriter
  /\ UNCHANGED <<sysReaders, writer, readers, actorVars, histVars, target, todo, calls>>

SpawnCheck(t) ==
  /\ At(t, "spawn_wait")
  /\ sysReaders = {}
  /\ IF target[t] \in registry
       THEN Goto(t, Idle) /\ sysWriter' = NoThread
       ELSE Goto(t, "start") /\ UNCHANGED sysWriter
  /\ UNCHANGED <<registry, sysReaders, writer, readers, actorVars, histVars,
                 target, todo, calls>>

StartLock(t) ==
  LET a == target[t] IN
  /\ At(t, "start")
  /\ writer[a] = NoThread
  /\ writer' = [writer EXCEPT ![a] = t]
  /\ Goto(t, "start_wait")
  /\ UNCHANGED <<registry, sysWriter, sysReaders, readers, actorVars, histVars,
                 target, todo, calls>>

(* Start: refused while running, or OnStart fails and the new context is   *)
(* cancelled; SpawnActor then returns the error without registering.       *)
StartFail(t) ==
  LET a == target[t] IN
  /\ At(t, "start_wait")
  /\ readers[a] = {}
  /\ cancelled' = IF running[a] THEN cancelled ELSE [cancelled EXCEPT ![a] = TRUE]
  /\ writer' = [writer EXCEPT ![a] = NoThread]
  /\ sysWriter' = NoThread
  /\ Goto(t, Idle)
  /\ UNCHANGED <<registry, sysReaders, readers, running, mailbox, idleLoops, hand,
                 enqueued, histVars, target, todo, calls>>

StartRun(t) ==
  LET a == target[t] IN
  /\ At(t, "start_wait")
  /\ readers[a] = {}
  /\ ~running[a]
  /\ running'   = [running EXCEPT ![a] = TRUE]
  /\ cancelled' = [cancelled EXCEPT ![a] = FALSE]
  /\ idleLoops' = [idleLoops EXCEPT ![a] = @ + 1]
  /\ writer'    = [writer EXCEPT ![a] = NoThread]
  /\ Goto(t, "started")
  /\ UNCHANGED <<registry, sysWriter, sysReaders, readers, mailbox, hand, enqueued,
                 histVars, target, todo, calls>>

SpawnRegister(t) ==
  /\ At(t, "started")
  /\ registry' = registry \cup {target[t]}
  /\ sysWriter' = NoThread
  /\ Goto(t, Idle)
  /\ UNCHANGED <<sysReaders, writer, readers, actorVars, histVars, target, todo, calls>>

-----------------------------------------------------------------------------
(* Shutdown: Stop on every registered actor under the system's lock.       *)

ShutdownBegin(t) ==
  /\ At(t, "shutdown_wait")
  /\ sysReaders = {}
  /\ todo' = [todo EXCEPT ![t] = registry]
  /\ Goto(t, "stop_next")
  /\ UNCHANGED <<registry, lockVars, actorVars, histVars, target, calls>>

StopLock(t) ==
  /\ At(t, "stop_next")
  /\ \E a \in todo[t] :
       /\ writer[a] = NoThread
       /\ writer' = [writer EXCEPT ![a] = t]
       /\ target' = [target EXCEPT ![t] = a]
       /\ todo'   = [todo EXCEPT ![t] = @ \ {a}]
  /\ Goto(t, "stop_wait")
  /\ UNCHANGED <<registry, sysWriter, sysReaders, readers, actorVars, histVars, calls>>

StopCancel(t) ==
  LET a == target[t] IN
  /\ At(t, "stop_wait")
  /\ readers[a] = {}
  /\ IF running[a]
       THEN /\ running'   = [running EXCEPT ![a] = FALSE]
            /\ cancelled' = [cancelled EXCEPT ![a] = TRUE]
            /\ Goto(t, "stop_join")
            /\ UNCHANGED writer
       ELSE /\ writer' = [writer EXCEPT ![a] = NoThread]
            /\ Goto(t, "stop_next")
            /\ UNCHANGED <<running, cancelled>>
  /\ UNCHANGED <<registry, sysWriter, sysReaders, readers, mailbox, idleLoops, hand,
                 enqueued, histVars, target, todo, calls>>

(* Mutant: Stop does not wait for the loop.                                *)
StopWithoutJoin(t) ==
  LET a == target[t] IN
  /\ At(t, "stop_join")
  /\ writer' = [writer EXCEPT ![a] = NoThread]
  /\ Goto(t, "stop_next")
  /\ UNCHANGED <<registry, sysWriter, sysReaders, readers, actorVars, histVars,
                 target, todo, calls>>

(* wg.Wait, then OnStop (an error is only logged) and the deferred unlock. *)
StopJoin(t) ==
  LET a == target[t] IN
  /\ At(t, "stop_join")
  /\ idleLoops[a] = 0 /\ hand[a] = {}
  /\ writer' = [writer EXCEPT ![a] = NoThread]
  /\ Goto(t, "stop_next")
  /\ UNCHANGED <<registry, sysWriter, sysReaders, readers, actorVars, histVars,
                 target, todo, calls>>

ShutdownEnd(t) ==
  /\ At(t, "stop_next")
  /\ todo[t] = {}
  /\ registry' = {}
  /\ sysWriter' = NoThread
  /\ Goto(t, Idle)
  /\ UNCHANGED <<sysReaders, writer, readers, actorVars, histVars, target, todo, calls>>

-----------------------------------------------------------------------------
(* GetStats: the system's read lock around every actor's.                  *)

StatsRLock(t) ==
  /\ At(t, "stats")
  /\ sysWriter = NoThread
  /\ sysReaders' = sysReaders \cup {t}
  /\ todo' = [todo EXCEPT ![t] = registry]
  /\ Goto(t, "stats_read")
  /\ UNCHANGED <<registry, sysWriter, writer, readers, actorVars, histVars, target, calls>>

StatsRead(t) ==
  /\ At(t, "stats_read")
  /\ \E a \in todo[t] :
       /\ writer[a] = NoThread
       /\ todo' = [todo EXCEPT ![t] = @ \ {a}]
  /\ UNCHANGED <<registry, lockVars, actorVars, histVars, pc, target, calls>>

StatsEnd(t) ==
  /\ At(t, "stats_read")
  /\ todo[t] = {}
  /\ sysReaders' = sysReaders \ {t}
  /\ Goto(t, Idle)
  /\ UNCHANGED <<registry, sysWriter, writer, readers, actorVars, histVars,
                 target, todo, calls>>

-----------------------------------------------------------------------------
(* BaseActor.run.  Its select takes either ready case, so a cancelled loop *)
(* may still receive.                                                      *)

Receive(a) ==
  /\ idleLoops[a] > 0
  /\ mailbox[a] # <<>>
  /\ idleLoops' = [idleLoops EXCEPT ![a] = @ - 1]
  /\ hand'      = [hand EXCEPT ![a] = @ \cup {Head(mailbox[a])}]
  /\ mailbox'   = [mailbox EXCEPT ![a] = Tail(@)]
  /\ UNCHANGED <<registry, lockVars, running, cancelled, enqueued, histVars, threadVars>>

(* OnReceive returns; with or without an error the message is done.        *)
Handled(a, m) ==
  /\ m \in hand[a]
  /\ hand'      = [hand EXCEPT ![a] = @ \ {m}]
  /\ idleLoops' = [idleLoops EXCEPT ![a] = @ + 1]
  /\ handled'   = [handled EXCEPT ![a] = Append(@, m)]
  /\ UNCHANGED <<registry, lockVars, running, cancelled, mailbox, enqueued, accepted, threadVars>>

LoopExit(a) ==
  /\ idleLoops[a] > 0
  /\ cancelled[a]
  /\ idleLoops' = [idleLoops EXCEPT ![a] = @ - 1]
  /\ UNCHANGED <<registry, lockVars, running, cancelled, mailbox, hand, enqueued, histVars, threadVars>>

-----------------------------------------------------------------------------
TellStep(t)     == Lookup(t) \/ TellRLock(t) \/ TellSend(t) \/ TellSent(t) \/ TellTimeout(t)
SpawnStep(t)    == SpawnCheck(t) \/ StartLock(t) \/ StartFail(t) \/ StartRun(t) \/ SpawnRegister(t)
ShutdownStep(t) == ShutdownBegin(t) \/ StopLock(t) \/ StopCancel(t) \/ StopJoin(t) \/ ShutdownEnd(t)
StatsStep(t)    == StatsRLock(t) \/ StatsRead(t) \/ StatsEnd(t)
Progress(t)     == TellStep(t) \/ SysLock(t) \/ SpawnStep(t) \/ ShutdownStep(t) \/ StatsStep(t)
LoopStep(a)     == Receive(a) \/ LoopExit(a) \/ \E m \in hand[a] : Handled(a, m)

Next ==
  \/ \E t \in Threads : Call(t) \/ Progress(t)
  \/ \E a \in Actors : LoopStep(a)

Spec == Init /\ [][Next]_vars

(* The Go scheduler runs every runnable goroutine; a handler returns.  No  *)
(* thread is obliged to make a call.                                       *)
Fairness ==
  /\ \A t \in Threads : WF_vars(Progress(t))
  /\ \A a \in Actors : WF_vars(LoopStep(a))

FairSpec == Spec /\ Fairness

-----------------------------------------------------------------------------
(* Types of the variables, and the mailbox's capacity.                    *)
LockTypeOK ==
  /\ sysWriter \in Threads \cup {NoThread}
  /\ sysReaders \in SUBSET Threads
  /\ writer    \in [Actors -> Threads \cup {NoThread}]
  /\ readers   \in [Actors -> SUBSET Threads]

ActorTypeOK ==
  /\ registry  \in SUBSET Actors
  /\ running   \in [Actors -> BOOLEAN]
  /\ cancelled \in [Actors -> BOOLEAN]
  /\ idleLoops \in [Actors -> Nat]
  /\ enqueued  \in [Actors -> Nat]

QueueTypeOK ==
  /\ mailbox   \in [Actors -> Seq(Messages)]
  /\ \A a \in Actors : Len(mailbox[a]) <= Capacity
  /\ hand      \in [Actors -> SUBSET Messages]
  /\ accepted  \in [Actors -> Seq(Messages)]
  /\ handled   \in [Actors -> Seq(Messages)]

ThreadTypeOK ==
  /\ pc        \in [Threads -> PC]
  /\ target    \in [Threads -> Actors]
  /\ todo      \in [Threads -> SUBSET Actors]
  /\ calls     \in [Threads -> Nat]
  /\ \A t \in Threads : calls[t] <= MaxCalls[t] /\ (~At(t, Idle) => calls[t] > 0)

TypeOK == LockTypeOK /\ ActorTypeOK /\ QueueTypeOK /\ ThreadTypeOK

(* The registry tells the truth whenever nobody holds the system's lock for *)
(* writing: an actor is registered exactly when it is running, a running    *)
(* actor has exactly one receive loop with a live context, and an actor     *)
(* that is not running has no loop and nothing in hand (SpawnActor's checks *)
(* and its order of Start and insert, Shutdown's wg.Wait and final reset).  *)
RegistryIsTruth ==
  sysWriter = NoThread =>
    \A a \in Actors :
      /\ a \in registry <=> running[a]
      /\ running[a] => ~cancelled[a] /\ idleLoops[a] + Cardinality(hand[a]) = 1
      /\ ~running[a] => idleLoops[a] = 0 /\ hand[a] = {}

(* The counters GetStats reports add up: what was counted as enqueued, plus *)
(* the senders between their send and their increment, is what was handled, *)
(* is in hand, or waits in the mailbox - across stops and restarts.         *)
CountersAddUp ==
  \A a \in Actors :
    enqueued[a] + Cardinality({t \in Threads : At(t, "sent") /\ target[t] = a})
      = Len(handled[a]) + Cardinality(hand[a]) + Len(mailbox[a])

(* Every actor implements the contract: closed until Start and again when  *)
(* Stop's wg.Wait is over, closing while Stop waits for the loop.          *)
Joining(a) == writer[a] # NoThread /\ pc[writer[a]] = "stop_join"

Phase == [a \in Actors |->
            IF running[a] THEN "open" ELSE IF Joining(a) THEN "closing" ELSE "closed"]

Contract == INSTANCE ActorContract WITH phase <- Phase, inHand <- hand

(* The runtime refines ActorContract: one message at a time per actor, in   *)
(* the order accepted, nothing handled once Stop returned, nothing accepted *)
(* by a stopped actor, nothing lost or repeated over a restart (BaseActor's *)
(* Tell, run, Start and Stop and the two locks).                            *)
ImplementsContract == Contract!Spec

(* Every call into the system returns: Tell through its five-second timeout, *)
(* Shutdown though it waits for blocked senders and for the loops while it   *)
(* holds both locks, and whoever waits for those locks after it.             *)
CallsReturn == \A t \in Threads : ~At(t, Idle) ~> At(t, Idle)

-----------------------------------------------------------------------------
(* The inductive invariant behind the safety properties, part by part.     *)

SysHeld  == (SpawnPC \ {"spawn"}) \cup (DownPC \ {"shutdown"})
Stopping == {"stop_next", "stop_wait", "stop_join"}

(* Who holds the system's lock is who is at a step that needs it.          *)
SysLockInv ==
  /\ \A t \in Threads : pc[t] \in SysHeld <=> sysWriter = t
  /\ \A t \in Threads : t \in sysReaders <=> pc[t] = "stats_read"

(* The same for an actor's lock; a writer past its wait excludes readers,  *)
(* and whoever holds it for reading holds a running actor.                 *)
ActorLockInv ==
  /\ \A a \in Actors, t \in Threads :
       writer[a] = t <=> pc[t] \in {"start_wait", "stop_wait", "stop_join"} /\ target[t] = a
  /\ \A a \in Actors, t \in Threads :
       t \in readers[a] <=> pc[t] \in {"send", "sent"} /\ target[t] = a
  /\ \A a \in Actors : Joining(a) => readers[a] = {}
  /\ \A a \in Actors : readers[a] # {} => running[a]

(* An actor's receive loop: none, one waiting, or one with one message; it *)
(* exists from Start until the end of Stop's wait.                         *)
NoLoop(a)  == idleLoops[a] = 0 /\ hand[a] = {}
OneLoop(a) == \/ idleLoops[a] = 1 /\ hand[a] = {}
              \/ idleLoops[a] = 0 /\ \E m \in Messages : hand[a] = {m}

LoopOK(a) ==
  /\ NoLoop(a) \/ OneLoop(a)
  /\ running[a] => OneLoop(a) /\ ~cancelled[a]
  /\ ~running[a] /\ ~Joining(a) => NoLoop(a)

LoopInv == \A a \in Actors : LoopOK(a)

(* How far SpawnActor or Shutdown has brought registry and running apart.  *)
RegistryInv ==
  /\ sysWriter = NoThread \/ pc[sysWriter] \in {"spawn_wait", "start", "start_wait", "shutdown_wait"} =>
       \A a \in Actors : a \in registry <=> running[a]
  /\ \A t \in Threads :
       /\ pc[t] = "started" =>
            \A a \in Actors : running[a] <=> a \in registry \cup {target[t]}
       /\ pc[t] \in Stopping =>
            \A a \in Actors : running[a] <=>
              a \in todo[t] \/ (pc[t] = "stop_wait" /\ target[t] = a)
       /\ pc[t] = "stop_wait" => target[t] \notin todo[t]

(* A message in the mailbox was accepted and is neither in hand nor done:  *)
(* accepted is handled, then hand, then mailbox.                           *)
Taken(a) == IF hand[a] = {} THEN Len(handled[a]) ELSE Len(handled[a]) + 1

QueueOK(a) ==
  /\ Len(accepted[a]) = Taken(a) + Len(mailbox[a])
  /\ \A i \in 1..Len(handled[a]) : handled[a][i] = accepted[a][i]
  /\ hand[a] # {} => hand[a] = {accepted[a][Taken(a)]}
  /\ \A i \in 1..Len(mailbox[a]) : mailbox[a][i] = accepted[a][Taken(a) + i]

QueueInv == \A a \in Actors : QueueOK(a)

IInv == TypeOK /\ SysLockInv /\ ActorLockInv /\ LoopInv /\ RegistryInv /\ QueueInv
=============================================================================
