-------------------------- MODULE ServerLifecycle --------------------------
(***************************************************************************)
(* One server process: BaseServer of internal/server (server.go,           *)
(* component_*.go, system_service.go), the gateway's Start and Stop around  *)
(* it, the TCP and the RPC server it owns, its NSQ consumer, its load loop  *)
(* and the remote shutdown.  A component is a name with a state; the        *)
(* connections of a server are counted, not named.  The registry is here   *)
(* only its mutex and whether the node is in its map (see ServiceRegistry). *)
(***************************************************************************)
EXTENDS Integers, Sequences, FiniteSets, SequencesExt

CONSTANTS
  Options,   \* the components this type of server enables
  Remotes,   \* bound: goroutines of accepted shutdown requests
  MaxConns,  \* connections a server has at once (the TCP server's maxConns)
  MaxOps     \* bound: frames and messages read

(* Every type of server has the RPC server, the consumer and the registry. *)
ASSUME OptionsOfTheServers ==
  /\ Options \subseteq {"tcp", "rpc", "actor", "nsq", "registry", "redis", "mongo"}
  /\ {"rpc", "nsq", "registry"} \subseteq Options
ASSUME RemotesAreOthers == Remotes \cap {"main", "none"} = {}
ASSUME BoundsAreNumbers == MaxConns \in Nat \ {0} /\ MaxOps \in Nat

InitOrder  == <<"actor", "redis", "mongo", "nsq", "registry", "rpc">>
StopOrder  == <<"tcp", "rpc", "actor", "nsq", "registry", "redis", "mongo">>
Components == Range(StopOrder)
Listeners  == {"tcp", "rpc"}
Sources    == {"tcp", "rpc", "nsq"}       \* where requests come from
Updaters   == {"load", "rpc", "nsq"}      \* who calls the registry's UpdateLoad
Threads    == {"main"} \cup Remotes
NoThread   == "none"

VARIABLES
  status, lock, ctxDone,    \* bs.status, who holds bs.mutex, bs.ctx
  pc,                       \* main and the shutdown goroutines
  comp, stopAt,             \* the components; index of the stopper that runs
  loadLoop,                 \* the load loop of bs.wg
  running, accept,          \* per listener: s.running and the accept loop
  idle, busy, ops,          \* per source: handlers waiting and working; reads so far
  regLock, registered, upd, \* the registry's mutex, its entry, UpdateLoad calls
  late, poolsClosed         \* TCP was started by a server not running; the gateway's pools

vars == <<status, lock, ctxDone, pc, comp, stopAt, loadLoop, running, accept,
          idle, busy, ops, regLock, registered, upd, late, poolsClosed>>
serverVars   == <<status, lock, ctxDone, pc, comp, stopAt, late, poolsClosed>>
listenVars   == <<running, accept, idle, busy, ops>>
registryVars == <<regLock, registered, upd>>

Init ==
  /\ status = "initializing" /\ lock = NoThread /\ ctxDone = FALSE
  /\ pc = [t \in Threads |-> IF t = "main" THEN "build" ELSE "none"]
  /\ comp = [c \in Components |-> "none"] /\ stopAt = 1
  /\ loadLoop = "none"
  /\ running = [s \in Listeners |-> FALSE] /\ accept = [s \in Listeners |-> "off"]
  /\ idle = [s \in Sources |-> 0] /\ busy = [s \in Sources |-> 0] /\ ops = 0
  /\ regLock = NoThread /\ registered = FALSE /\ upd = [u \in Updaters |-> "no"]
  /\ late = FALSE /\ poolsClosed = FALSE

Alive        == pc["main"] # "exit"
At(t, l)     == Alive /\ pc[t] = l
Goto(t, l)   == pc' = [pc EXCEPT ![t] = l]
ToBuild      == {i \in 1..Len(InitOrder) : InitOrder[i] \in Options /\ comp[InitOrder[i]] = "none"}

-----------------------------------------------------------------------------
(* Construction.  initComponents in order; a failure stops what there is,  *)
(* without the lock, and the process ends.                                 *)
InitComponent ==
  /\ At("main", "build")
  /\ \E i \in ToBuild :
       /\ \A j \in ToBuild : i <= j
       /\ \/ comp' = [comp EXCEPT ![InitOrder[i]] = "up"] /\ UNCHANGED <<pc, ctxDone>>
          \/ Goto("main", "drain") /\ ctxDone' = TRUE /\ UNCHANGED comp
  /\ UNCHANGED <<status, lock, stopAt, loadLoop, late, poolsClosed, listenVars, registryVars>>

(* The rest of the constructor: the gateway's TCP server, the subscription *)
(* to system messages, then services and actors, which may fail.           *)
Wire ==
  /\ At("main", "build") /\ ToBuild = {}
  /\ comp' = [comp EXCEPT !["tcp"] = IF "tcp" \in Options THEN "up" ELSE @]
  /\ idle' = [idle EXCEPT !["nsq"] = IF "nsq" \in Options THEN 1 ELSE @]
  /\ Goto("main", "wired")
  /\ UNCHANGED <<status, lock, ctxDone, stopAt, loadLoop, running, accept, busy, ops,
                 registryVars, late, poolsClosed>>

ConstructorEnds ==
  /\ At("main", "wired")
  /\ \/ Goto("main", "start") /\ UNCHANGED ctxDone
     \/ Goto("main", "drain") /\ ctxDone' = TRUE
  /\ UNCHANGED <<status, lock, comp, stopAt, loadLoop, late, poolsClosed, listenVars, registryVars>>

-----------------------------------------------------------------------------
(* Start, by main, with bs.mutex from the first step to the last.          *)
StartLock ==
  /\ At("main", "start") /\ lock = NoThread
  /\ lock' = "main" /\ Goto("main", "rpc")
  /\ UNCHANGED <<status, ctxDone, comp, stopAt, loadLoop, late, poolsClosed, listenVars, registryVars>>

(* A server that cannot listen, or register below, rolls back.             *)
StartRpc ==
  /\ At("main", "rpc")
  /\ \/ /\ running' = [running EXCEPT !["rpc"] = TRUE]
        /\ accept' = [accept EXCEPT !["rpc"] = "accept"]
        /\ Goto("main", "register") /\ UNCHANGED ctxDone
     \/ Goto("main", "drain") /\ ctxDone' = TRUE /\ UNCHANGED <<running, accept>>
  /\ UNCHANGED <<status, lock, comp, stopAt, loadLoop, idle, busy, ops, registryVars, late, poolsClosed>>

StartRegister ==
  /\ At("main", "register") /\ regLock = NoThread
  /\ \/ /\ registered' = TRUE /\ loadLoop' = "wait"
        /\ status' = "running" /\ lock' = NoThread
        /\ Goto("main", IF "tcp" \in Options THEN "tcp" ELSE "await")
        /\ UNCHANGED ctxDone
     \/ /\ Goto("main", "drain") /\ ctxDone' = TRUE
        /\ UNCHANGED <<registered, loadLoop, status, lock>>
  /\ UNCHANGED <<comp, stopAt, regLock, upd, late, poolsClosed, listenVars>>

(* GatewayServer.Start, after BaseServer.Start has returned.               *)
StartTcp ==
  /\ At("main", "tcp")
  /\ \/ /\ running' = [running EXCEPT !["tcp"] = TRUE]
        /\ accept' = [accept EXCEPT !["tcp"] = "accept"]
        /\ late' = (status # "running")
        /\ Goto("main", "await")
     \/ Goto("main", "stop") /\ UNCHANGED <<running, accept, late>>
  /\ UNCHANGED <<status, lock, ctxDone, comp, stopAt, loadLoop, idle, busy, ops, registryVars, poolsClosed>>

(* main.go waits for a signal and then stops the server.                   *)
Signal ==
  /\ At("main", "await") /\ Goto("main", "stop")
  /\ UNCHANGED <<status, lock, ctxDone, comp, stopAt, loadLoop, late, poolsClosed, listenVars, registryVars>>

-----------------------------------------------------------------------------
(* Where a thread goes when its Stop returns: the gateway's main closes    *)
(* the pools first.                                                        *)
Returned(t) == Goto(t, IF t = "main" THEN "pools" ELSE "done")

(* BaseServer.Stop: only a running server is stopped.                      *)
StopLock(t) ==
  /\ At(t, "stop") /\ lock = NoThread
  /\ IF status = "running"
       THEN lock' = t /\ status' = "stopping" /\ ctxDone' = TRUE /\ Goto(t, "drain")
       ELSE Returned(t) /\ UNCHANGED <<lock, status, ctxDone>>
  /\ UNCHANGED <<comp, stopAt, loadLoop, late, poolsClosed, listenVars, registryVars>>

Stopping(t, c) == At(t, "drain") /\ stopAt <= Len(StopOrder) /\ StopOrder[stopAt] = c
NextStopper    == stopAt' = stopAt + 1

(* A component that is missing, or a server not listening, is passed over. *)
StopNothing(t, c) ==
  /\ Stopping(t, c)
  /\ comp[c] = "none" \/ (c \in Listeners /\ comp[c] = "up" /\ ~running[c])
  /\ NextStopper
  /\ UNCHANGED <<status, lock, ctxDone, pc, comp, loadLoop, late, poolsClosed, listenVars, registryVars>>

(* A server's listener is closed, the NSQ consumer takes no more messages; *)
(* the TCP server also closes its connections, which only shows in Read.   *)
StopBegin(t, c) ==
  /\ Stopping(t, c) /\ comp[c] = "up"
  /\ c \in Listeners => running[c]
  /\ comp' = [comp EXCEPT ![c] = "stopping"]
  /\ running' = IF c \in Listeners THEN [running EXCEPT ![c] = FALSE] ELSE running
  /\ idle' = IF c = "nsq" THEN [idle EXCEPT ![c] = 0] ELSE idle
  /\ UNCHANGED <<status, lock, ctxDone, pc, stopAt, loadLoop, accept, busy, ops,
                 registryVars, late, poolsClosed>>

Drained(c) ==
  /\ idle[c] = 0 /\ busy[c] = 0
  /\ c \in Listeners => accept[c] = "off"
  /\ c \in Updaters => upd[c] = "no"

(* Mutant: nobody waits for the handlers.                                  *)
StopEndAtOnce(t, c) ==
  /\ Stopping(t, c) /\ comp[c] = "stopping"
  /\ c = "registry" => regLock = NoThread
  /\ comp' = [comp EXCEPT ![c] = "stopped"]
  /\ registered' = (registered /\ c # "registry")
  /\ NextStopper
  /\ UNCHANGED <<status, lock, ctxDone, pc, loadLoop, regLock, upd, late, poolsClosed, listenVars>>

(* The wait for its goroutines (wg.Wait, <-consumer.StopChan), or the      *)
(* component's own Close; the registry's Unregister needs its mutex.       *)
StopEnd(t, c) ==
  /\ Stopping(t, c) /\ comp[c] = "stopping"
  /\ c \in Sources => Drained(c)
  /\ c = "registry" => regLock = NoThread
  /\ comp' = [comp EXCEPT ![c] = "stopped"]
  /\ registered' = (registered /\ c # "registry")
  /\ NextStopper
  /\ UNCHANGED <<status, lock, ctxDone, pc, loadLoop, regLock, upd, late, poolsClosed, listenVars>>

(* Mutant: the base server does not wait for its load loop.                *)
StopJoinAtOnce(t) ==
  /\ At(t, "drain") /\ stopAt > Len(StopOrder)
  /\ IF lock = t
       THEN status' = "stopped" /\ lock' = NoThread
       ELSE UNCHANGED <<status, lock>>
  /\ IF lock = t /\ status = "stopping" THEN Returned(t) ELSE Goto(t, "exit")
  /\ UNCHANGED <<ctxDone, comp, stopAt, loadLoop, late, poolsClosed, listenVars, registryVars>>

(* bs.wg.Wait(), and the unlock.  A rollback ends the process.             *)
StopJoin(t) ==
  /\ At(t, "drain") /\ stopAt > Len(StopOrder)
  /\ loadLoop \in {"none", "ended"}
  /\ IF lock = t
       THEN status' = "stopped" /\ lock' = NoThread
       ELSE UNCHANGED <<status, lock>>
  /\ IF lock = t /\ status = "stopping" THEN Returned(t) ELSE Goto(t, "exit")
  /\ UNCHANGED <<ctxDone, comp, stopAt, loadLoop, late, poolsClosed, listenVars, registryVars>>

(* GatewayMessageHandler.Close, whatever BaseServer.Stop did; main returns.*)
ClosePools ==
  /\ At("main", "pools") /\ ~poolsClosed
  /\ poolsClosed' = TRUE
  /\ UNCHANGED <<status, lock, ctxDone, pc, comp, stopAt, loadLoop, late, listenVars, registryVars>>

Exit ==
  /\ At("main", "pools") /\ poolsClosed
  /\ Goto("main", "exit")
  /\ UNCHANGED <<status, lock, ctxDone, comp, stopAt, loadLoop, late, poolsClosed, listenVars, registryVars>>

-----------------------------------------------------------------------------
(* Accept loops and connection handlers.  The TCP server closes at once    *)
(* what exceeds its limit; for the RPC server the limit is a bound.        *)
InUpdate(s) == s \in Updaters /\ upd[s] # "no"
Conns(s)    == idle[s] + busy[s] + (IF InUpdate(s) THEN 1 ELSE 0)

(* Mutant: the limit is off by one.                                        *)
AcceptOneMore(s) ==
  /\ Alive /\ accept[s] = "accept" /\ running[s]
  /\ Conns(s) <= MaxConns
  /\ accept' = [accept EXCEPT ![s] = "got"]
  /\ UNCHANGED <<serverVars, loadLoop, running, idle, busy, ops, registryVars>>

Accept(s) ==
  /\ Alive /\ accept[s] = "accept" /\ running[s]
  /\ Conns(s) < MaxConns
  /\ accept' = [accept EXCEPT ![s] = "got"]
  /\ UNCHANGED <<serverVars, loadLoop, running, idle, busy, ops, registryVars>>

(* A handler that starts when the server has stopped leaves at once.       *)
Install(s) ==
  /\ Alive /\ accept[s] = "got"
  /\ accept' = [accept EXCEPT ![s] = "accept"]
  /\ idle' = [idle EXCEPT ![s] = IF running[s] THEN @ + 1 ELSE @]
  /\ UNCHANGED <<serverVars, loadLoop, running, busy, ops, registryVars>>

AcceptEnd(s) ==
  /\ Alive /\ accept[s] = "accept" /\ ~running[s]
  /\ accept' = [accept EXCEPT ![s] = "off"]
  /\ UNCHANGED <<serverVars, loadLoop, running, idle, busy, ops, registryVars>>

(* A frame or message arrives.  Stop has closed the TCP connections; on an *)
(* RPC connection a last request may still be read.                        *)
Read(s) ==
  /\ Alive /\ idle[s] > 0 /\ ops < MaxOps
  /\ s = "tcp" => running[s]
  /\ idle' = [idle EXCEPT ![s] = @ - 1] /\ busy' = [busy EXCEPT ![s] = @ + 1]
  /\ ops' = ops + 1
  /\ UNCHANGED <<serverVars, loadLoop, running, accept, registryVars>>

(* The handler returns, and reads on if its server still runs.             *)
Serves(s) == IF s = "nsq" THEN comp[s] = "up" ELSE running[s]
Done(s) ==
  /\ Alive /\ busy[s] > 0
  /\ busy' = [busy EXCEPT ![s] = @ - 1]
  /\ idle' = [idle EXCEPT ![s] = IF Serves(s) THEN @ + 1 ELSE @]
  /\ UNCHANGED <<serverVars, loadLoop, running, accept, ops, registryVars>>

(* A connection ends: closed by either side, or nothing read in time.      *)
Leave(s) ==
  /\ Alive /\ idle[s] > 0
  /\ idle' = [idle EXCEPT ![s] = @ - 1]
  /\ UNCHANGED <<serverVars, loadLoop, running, accept, busy, ops, registryVars>>

(* SystemService.Shutdown and HandleShutdown: Stop in a goroutine of its   *)
(* own, a second later.                                                    *)
Shutdown(s, r) ==
  /\ Alive /\ s \in {"rpc", "nsq"} /\ busy[s] > 0
  /\ pc[r] = "none" /\ Goto(r, "stop")
  /\ UNCHANGED <<status, lock, ctxDone, comp, stopAt, late, poolsClosed, loadLoop, listenVars, registryVars>>

-----------------------------------------------------------------------------
(* The load loop, and UpdateLoad as it and two handlers call it.           *)
LoadTick ==
  /\ Alive /\ loadLoop = "wait" /\ upd["load"] = "no" /\ ops < MaxOps
  /\ upd' = [upd EXCEPT !["load"] = "want"] /\ ops' = ops + 1
  /\ UNCHANGED <<serverVars, loadLoop, running, accept, idle, busy, regLock, registered>>

(* Mutant: the loop does not listen to the context.                        *)
LoadEndLate ==
  /\ Alive /\ loadLoop = "wait" /\ upd["load"] = "no" /\ status = "stopped"
  /\ loadLoop' = "ended"
  /\ UNCHANGED <<serverVars, listenVars, registryVars>>

LoadEnd ==
  /\ Alive /\ loadLoop = "wait" /\ upd["load"] = "no" /\ ctxDone
  /\ loadLoop' = "ended"
  /\ UNCHANGED <<serverVars, listenVars, registryVars>>

(* The RPC and the NSQ request of that name.                               *)
RequestUpdate(s) ==
  /\ Alive /\ s \in {"rpc", "nsq"} /\ busy[s] > 0 /\ "registry" \in Options
  /\ upd[s] = "no" /\ upd' = [upd EXCEPT ![s] = "want"]
  /\ busy' = [busy EXCEPT ![s] = @ - 1]
  /\ UNCHANGED <<serverVars, loadLoop, running, accept, idle, ops, regLock, registered>>

(* UpdateLoad locks, and for a node in the map calls Register, which locks *)
(* again: the caller keeps the mutex and never returns.                    *)
UpdateLoad(u) ==
  /\ Alive /\ upd[u] = "want" /\ regLock = NoThread
  /\ IF registered
       THEN regLock' = u /\ upd' = [upd EXCEPT ![u] = "stuck"] /\ UNCHANGED busy
       ELSE /\ upd' = [upd EXCEPT ![u] = "no"] /\ UNCHANGED regLock
            /\ busy' = IF u \in Sources THEN [busy EXCEPT ![u] = @ + 1] ELSE busy
  /\ UNCHANGED <<serverVars, loadLoop, running, accept, idle, ops, registered>>

-----------------------------------------------------------------------------
StopStep(t) ==
  \/ StopLock(t) \/ StopJoin(t)
  \/ \E c \in Components : StopNothing(t, c) \/ StopBegin(t, c) \/ StopEnd(t, c)

MainStep ==
  \/ InitComponent \/ Wire \/ ConstructorEnds \/ StartLock \/ StartRpc \/ StartRegister
  \/ StartTcp \/ ClosePools \/ Exit

Next ==
  \/ MainStep \/ Signal \/ LoadTick \/ LoadEnd
  \/ \E t \in Threads : StopStep(t)
  \/ \E s \in Listeners : Accept(s) \/ Install(s) \/ AcceptEnd(s) \/ Leave(s)
  \/ \E s \in Sources : Read(s) \/ Done(s) \/ RequestUpdate(s)
  \/ \E s \in Sources, r \in Remotes : Shutdown(s, r)
  \/ \E u \in Updaters : UpdateLoad(u)

Spec == Init /\ [][Next]_vars

(* Goroutines run, handlers return, idle reads end by their deadline.      *)
(* Nobody has to send, to tick or to signal.                               *)
Fairness ==
  /\ WF_vars(MainStep) /\ WF_vars(LoadEnd)
  /\ \A t \in Threads : WF_vars(StopStep(t))
  /\ \A s \in Listeners : WF_vars(Install(s)) /\ WF_vars(AcceptEnd(s)) /\ WF_vars(Leave(s))
  /\ \A s \in Sources : WF_vars(Done(s))
  /\ \A u \in Updaters : WF_vars(UpdateLoad(u))

FairSpec == Spec /\ Fairness

-----------------------------------------------------------------------------
(* Types of the variables; a server has no more connections than allowed.  *)
TypeOK ==
  /\ status \in {"initializing", "running", "stopping", "stopped"}
  /\ lock \in Threads \cup {NoThread} /\ ctxDone \in BOOLEAN
  /\ pc \in [Threads -> {"none", "build", "wired", "start", "rpc", "register", "tcp", "await",
                         "stop", "drain", "pools", "done", "exit"}]
  /\ comp \in [Components -> {"none", "up", "stopping", "stopped"}]
  /\ stopAt \in 1..(Len(StopOrder) + 1)
  /\ loadLoop \in {"none", "wait", "ended"}
  /\ running \in [Listeners -> BOOLEAN] /\ accept \in [Listeners -> {"off", "accept", "got"}]
  /\ idle \in [Sources -> 0..MaxConns] /\ busy \in [Sources -> 0..MaxConns]
  /\ \A s \in Sources : Conns(s) <= MaxConns
  /\ regLock \in Updaters \cup {NoThread} /\ registered \in BOOLEAN
  /\ upd \in [Updaters -> {"no", "want", "stuck"}]
  /\ ops \in 0..MaxOps /\ late \in BOOLEAN /\ poolsClosed \in BOOLEAN

Working(s) == busy[s] > 0 \/ InUpdate(s)

(* While a request is handled, what its handler uses is still there: the   *)
(* databases and the registry for any, the login pools for one of the TCP  *)
(* server.  This is what the order of componentStoppers and their waits    *)
(* are for.  A TCP server started behind a finished shutdown is the one    *)
(* exception (late).                                                       *)
HandlersAreServed ==
  /\ \A s \in Sources : Alive /\ Working(s) /\ ~(s = "tcp" /\ late) =>
       \A c \in {"redis", "mongo", "registry"} \cap Options : comp[c] = "up"
  /\ Alive /\ Working("tcp") /\ poolsClosed => late

(* A server that says it is stopped has no goroutine of its own left, and  *)
(* has stopped each component that it had, but for a late TCP server       *)
(* (Stop; Start's rollback).                                               *)
StoppedIsQuiet ==
  status = "stopped" =>
    /\ loadLoop # "wait" /\ lock = NoThread
    /\ \A s \in Sources : (s = "tcp" /\ late) \/ Drained(s)
    /\ \A c \in Options \ Listeners : comp[c] = "stopped"

(* Stop ends unless somebody has asked the registry to update the load,    *)
(* in which case it hangs in Unregister or waits for the handler, and with *)
(* it everybody else who wants to stop the server.                         *)
StopEnds == status = "stopping" ~> (status = "stopped" \/ ~Alive \/ regLock # NoThread)

(* Stop's comment says that it waits for all goroutines to end, and it     *)
(* logs that the server stopped.                                           *)
StopReturns == status = "stopping" ~> (status = "stopped" \/ ~Alive)
=============================================================================
