-------------------------------- MODULE Center --------------------------------
(***************************************************************************)
(* internal/server/center_server.go and, at the other end of the message   *)
(* queue, HandleShutdown of internal/server/system_service.go: orders that *)
(* CenterService sends to the nodes it finds in the registry, and the      *)
(* lives of the processes that receive them.  The nodes are of one type.   *)
(* A node is listed with the time it registered, which nothing refreshes   *)
(* (UpdateLoad never returns); the key goes with its lease or its node.    *)
(* The queue is one nsqd; MessageQueue has the rest.  GetServiceList,      *)
(* GetClusterStatus and the health checks only read and are left out.      *)
(***************************************************************************)
EXTENDS Integers, FiniteSets

CONSTANTS
  CenterCallers,   \* bound: calls of CenterService in execution at a time
  ClusterNodes,    \* nodes that the center commands
  MaxOrders,       \* bound: orders sent
  MaxLives,        \* bound: starts of each node's process
  MaxCenterFaults  \* bound: failed sends and confirmations

(* The bounds of a run are numbers.                                        *)
ASSUME CenterBounds == MaxOrders \in Nat /\ MaxLives \in Nat /\ MaxCenterFaults \in Nat

VARIABLES
  proc,      \* the process of a node and the Stops that HandleShutdown began
  life,      \* how often it was started
  listed,    \* etcd: how old its key's UpdateTime is, or NotListed
  orders,    \* history: the orders sent, to which node, with which command
  copy,      \* nsqd: where each order is in its node's channel
  order,     \* the calls of CenterService
  stops,     \* history: the lives that an order has stopped
  cutOff,    \* history: orders handled whose confirmation was lost
  centerFaults

centerVars == <<proc, life, listed, orders, copy, order, stops, cutOff, centerFaults>>

NotListed == -1
Fresh     == 0    \* up to a minute
Ageing    == 1    \* up to two
Stale     == 2
NoOrder   == [at |-> "idle"]

CenterInit ==
  /\ proc = [n \in ClusterNodes |-> [at |-> "off", due |-> {}]]
  /\ life = [n \in ClusterNodes |-> 0]
  /\ listed = [n \in ClusterNodes |-> NotListed]
  /\ orders = {} /\ copy = [o \in 1..MaxOrders |-> "none"]
  /\ order = [c \in CenterCallers |-> NoOrder]
  /\ stops = {} /\ cutOff = {} /\ centerFaults = 0

Running(n) == proc[n].at # "off"
CenterFault == centerFaults < MaxCenterFaults /\ centerFaults' = centerFaults + 1
ProcGoes(n, at) == proc' = [proc EXCEPT ![n].at = at]

-----------------------------------------------------------------------------
(* A node: the constructor subscribes, Start registers and sets "running". *)
NodeStarts(n) ==
  /\ proc[n].at = "off" /\ life[n] < MaxLives
  /\ life' = [life EXCEPT ![n] = @ + 1] /\ ProcGoes(n, "initializing")
  /\ UNCHANGED <<listed, orders, copy, order, stops, cutOff, centerFaults>>
NodeRegisters(n) ==
  /\ proc[n].at = "initializing" /\ ProcGoes(n, "running")
  /\ listed' = [listed EXCEPT ![n] = Fresh]
  /\ UNCHANGED <<life, orders, copy, order, stops, cutOff, centerFaults>>
Unlisted(n) ==
  /\ listed[n] # NotListed /\ listed' = [listed EXCEPT ![n] = NotListed]
  /\ UNCHANGED <<proc, life, orders, copy, order, stops, cutOff, centerFaults>>

(* The process ends, wherever it is; nsqd delivers again what it had not   *)
(* confirmed.                                                              *)
NodeEnds(n) ==
  /\ Running(n) /\ proc' = [proc EXCEPT ![n] = [at |-> "off", due |-> {}]]
  /\ copy' = [o \in DOMAIN copy |->
       IF copy[o] = "busy" /\ \E x \in orders : x.id = o /\ x.node = n
       THEN "waiting" ELSE copy[o]]
  /\ UNCHANGED <<life, listed, orders, order, stops, cutOff, centerFaults>>

TakeOrder(n) ==
  /\ Running(n)
  /\ \E x \in orders :
       x.node = n /\ copy[x.id] = "waiting" /\ copy' = [copy EXCEPT ![x.id] = "busy"]
  /\ UNCHANGED <<proc, life, listed, orders, order, stops, cutOff, centerFaults>>

(* Mutant: the server is stopped by the handler itself, which then waits   *)
(* for the consumer that waits for it.                                     *)
HandleInline(n) ==
  /\ \E x \in orders :
       /\ x.node = n /\ copy[x.id] = "busy" /\ x.command = "shutdown"
       /\ proc[n].at = "running" /\ ProcGoes(n, "stopping")
       /\ stops' = stops \cup {[order |-> x.id, life |-> life[n]]}
  /\ UNCHANGED <<life, listed, orders, copy, order, cutOff, centerFaults>>

(* HandleShutdown leaves Stop to a goroutine, so that the order is         *)
(* confirmed first; "restart" has no handler and is confirmed as well.     *)
HandleOrder(n) ==
  /\ \E x \in orders :
       /\ x.node = n /\ copy[x.id] = "busy"
       /\ proc' = [proc EXCEPT ![n].due =
            IF x.command = "shutdown" THEN @ \cup {x.id} ELSE @]
       /\ \/ copy' = [copy EXCEPT ![x.id] = "done"] /\ UNCHANGED <<cutOff, centerFaults>>
          \/ /\ CenterFault /\ cutOff' = cutOff \cup {x.id}
             /\ copy' = [copy EXCEPT ![x.id] = "waiting"]
  /\ UNCHANGED <<life, listed, orders, order, stops>>

(* A second later: Stop does nothing unless the server is running.         *)
StopDue(n) ==
  /\ \E o \in proc[n].due :
       /\ proc' = [proc EXCEPT ![n] =
            [at |-> IF @.at = "running" THEN "stopping" ELSE @.at, due |-> @.due \ {o}]]
       /\ stops' = IF proc[n].at = "running"
                   THEN stops \cup {[order |-> o, life |-> life[n]]} ELSE stops
  /\ UNCHANGED <<life, listed, orders, copy, order, cutOff, centerFaults>>

-----------------------------------------------------------------------------
(* ShutdownService and RestartService, by id or by type, and a             *)
(* BroadcastMessage of type "shutdown" to a service type: the nodes that   *)
(* are listed now, none of which is an error to the caller.                *)
FindTargets(c, request, wanted) ==
  LET found == {n \in wanted : listed[n] # NotListed} IN
  /\ order[c] = NoOrder /\ found # {}
  /\ order' = [order EXCEPT ![c] =
       [at |-> "send", request |-> request,
        left |-> {[node |-> n, age |-> listed[n]] : n \in found}]]
  /\ UNCHANGED <<proc, life, listed, orders, copy, stops, cutOff, centerFaults>>

MaxAge(request)  == IF request = "broadcast" THEN Fresh ELSE Ageing
Command(request) == IF request = "restart" THEN "restart" ELSE "shutdown"

(* SendToNode, when the entry is not too old now; its error is ignored and *)
(* the order may or may not be in the queue.                               *)
Posts(n, command) ==
  LET o == Cardinality(orders) + 1 IN
  /\ o <= MaxOrders
  /\ orders' = orders \cup {[id |-> o, node |-> n, command |-> command]}
  /\ copy' = [copy EXCEPT ![o] = "waiting"]
SendToNode(c) ==
  /\ order[c].at = "send"
  /\ \E t \in order[c].left :
       LET rest == order[c].left \ {t} IN
       /\ order' = [order EXCEPT ![c] =
            IF rest = {} THEN NoOrder ELSE [@ EXCEPT !.left = rest]]
       /\ \/ /\ t.age <= MaxAge(order[c].request)
             /\ \/ Posts(t.node, Command(order[c].request)) /\ UNCHANGED centerFaults
                \/ CenterFault /\ UNCHANGED <<orders, copy>>
          \/ /\ t.age > MaxAge(order[c].request)
             /\ UNCHANGED <<orders, copy, centerFaults>>
  /\ UNCHANGED <<proc, life, listed, stops, cutOff>>

Older(age) == IF age \in {NotListed, Stale} THEN age ELSE age + 1
CenterTick ==
  /\ listed' = [n \in ClusterNodes |-> Older(listed[n])]
  /\ order' = [c \in CenterCallers |->
       IF order[c] = NoOrder THEN NoOrder
       ELSE [order[c] EXCEPT !.left = {[t EXCEPT !.age = Older(@)] : t \in @}]]
  /\ UNCHANGED <<proc, life, orders, copy, stops, cutOff, centerFaults>>

CenterNext ==
  \/ \E n \in ClusterNodes :
       \/ NodeStarts(n) \/ NodeRegisters(n) \/ Unlisted(n) \/ NodeEnds(n)
       \/ TakeOrder(n) \/ HandleOrder(n) \/ StopDue(n)
  \/ \E c \in CenterCallers :
       \/ \E request \in {"shutdown", "restart", "broadcast"},
             wanted \in {{n} : n \in ClusterNodes} \cup {ClusterNodes} :
            FindTargets(c, request, wanted)
       \/ SendToNode(c)
  \/ CenterTick

-----------------------------------------------------------------------------
CenterTypeOK ==
  /\ \A n \in ClusterNodes :
       /\ proc[n].at \in {"off", "initializing", "running", "stopping"}
       /\ proc[n].due \subseteq 1..MaxOrders
       /\ life[n] \in 0..MaxLives /\ listed[n] \in NotListed..Stale
  /\ orders \subseteq [id : 1..MaxOrders, node : ClusterNodes,
                       command : {"shutdown", "restart"}]
  /\ copy \in [1..MaxOrders -> {"none", "waiting", "busy", "done"}]
  /\ stops \subseteq [order : 1..MaxOrders, life : 1..MaxLives]
  /\ cutOff \subseteq 1..MaxOrders
  /\ \A c \in CenterCallers : order[c].at \in {"idle", "send"}
  /\ centerFaults \in 0..MaxCenterFaults

(* An order is for one life of its node.  The process that an order has    *)
(* stopped may be started again and is not stopped a second time by it,    *)
(* although the queue keeps an order until it is confirmed and across      *)
(* restarts (HandleShutdown returns before Stop closes the consumer) -     *)
(* unless the confirmation is lost.  It may well be a later life than the  *)
(* one listed: nothing compares the order's time with the node's start.    *)
OrdersStopOnce ==
  \A s, t \in stops : s.order = t.order /\ s.order \notin cutOff => s = t
=============================================================================
