---------------------------- MODULE MessageQueue ----------------------------
(***************************************************************************)
(* internal/mq/nsq.go: the NSQ managers of some nodes, the system messages *)
(* they publish over several nsqd and the handlers they subscribe, one     *)
(* channel per node.  nsqd is external, seen through the client library: a *)
(* topic copies every message to each of its channels, a channel outlives  *)
(* its consumer, a copy is delivered again until a handler returns nil or  *)
(* the attempts are used up, and a publisher may get an error for a        *)
(* message that was kept.  A consumer handles one message at a time.       *)
(* Game and chat messages take the same path with other handlers.  A       *)
(* message is a command; one of those RegisterCommonServices registers a   *)
(* handler for stands for all four, and another one for those that have    *)
(* no handler, such as the "restart" that the center sends.                *)
(***************************************************************************)
EXTENDS Integers, FiniteSets

CONSTANTS
  QueueNodes,      \* nodes; a node's channel has its name
  QueuePublishers, \* bound: calls of Publish in execution at a time
  NsqdCount,       \* NSQDAddresses; producers[0] is the main one
  MaxMessages,     \* bound: messages published
  MaxAttempts,     \* how often the client library delivers a copy
  MaxQueueFaults,  \* bound: failed operations of nsqd, nsqlookupd or handlers
  MaxQueueStarts,  \* bound: starts of a node's process after the first
  Everyone,        \* SystemMessage.Target of a broadcast, ""
  Commands,        \* SystemMessage.Command
  Registered       \* the commands that have a handler

Nsqds    == 1..NsqdCount
Messages == 1..MaxMessages

(* At least one nsqd, as nsq.go asks; the bounds are numbers.              *)
ASSUME QueueBounds == /\ NsqdCount \in Nat \ {0} /\ MaxMessages \in Nat /\ MaxAttempts \in Nat
                      /\ MaxQueueFaults \in Nat /\ MaxQueueStarts \in Nat
                      /\ Registered \subseteq Commands /\ Commands # {}

VARIABLES
  balanced, failover, \* NSQConfig.LoadBalancing, FailoverEnabled
  target, command, \* SystemMessage.Target and .Command of each message
  qnode,      \* the life of a node's manager and its currentProducer
  handlers,   \* SystemMessageHandler.handlers: a node's commands
  channels,   \* nsqd: the channels of the topic
  linked,     \* the nsqd a node's consumer is connected to
  kept,       \* nsqd: the messages taken in
  copies,     \* nsqd: each channel's copy of each message
  attempts,   \* nsqd: how often a copy was delivered
  sending,    \* the calls of Publish
  acked,      \* history: the messages whose Publish returned nil
  ran,        \* history: the messages a node's handler has carried out
  qFaults, qStarts

qConfig   == <<balanced, failover>>
headers   == <<target, command>>
nsqd      == <<channels, kept, copies, attempts>>
queueVars == <<qConfig, headers, qnode, handlers, nsqd, linked, sending, acked,
               ran, qFaults, qStarts>>

NoSending == [at |-> 0]
NewManager == [at |-> "new", current |-> 0]

QueueInit ==
  /\ balanced \in BOOLEAN /\ failover \in BOOLEAN
  /\ target = [m \in Messages |-> Everyone]
  /\ command = [m \in Messages |-> CHOOSE x \in Commands : TRUE]
  /\ qnode = [n \in QueueNodes |-> NewManager]
  /\ handlers = [n \in QueueNodes |-> {}]
  /\ channels = [d \in Nsqds |-> {}] /\ linked = [n \in QueueNodes |-> {}]
  /\ kept = [d \in Nsqds |-> {}]
  /\ copies = [d \in Nsqds |-> [n \in QueueNodes |-> [m \in Messages |-> "none"]]]
  /\ attempts = [d \in Nsqds |-> [n \in QueueNodes |-> [m \in Messages |-> 0]]]
  /\ sending = [p \in QueuePublishers |-> NoSending]
  /\ acked = {} /\ ran = [n \in QueueNodes |-> {}]
  /\ qFaults = 0 /\ qStarts = 0

QueueFault == qFaults < MaxQueueFaults /\ qFaults' = qFaults + 1
Turns(n, at) == qnode' = [qnode EXCEPT ![n].at = at]
Marks(d, n, m, state) == copies' = [copies EXCEPT ![d][n][m] = state]
Messaged == UNION {kept[d] : d \in Nsqds} \cup
            {sending[p].msg : p \in {q \in QueuePublishers :
                                       sending[q].at # 0}}

-----------------------------------------------------------------------------
(* A node: RegisterCommonServices registers the handlers, then subscribes. *)
RegisterHandlers(n) ==
  /\ qnode[n].at = "new" /\ handlers[n] = {}
  /\ handlers' = [handlers EXCEPT ![n] = Registered]
  /\ UNCHANGED <<qConfig, headers, qnode, nsqd, linked, sending, acked, ran,
                 qFaults, qStarts>>

(* Mutant: the node may subscribe before it registers its handlers.        *)
SubscribeFirst(n) ==
  /\ qnode[n].at = "new" /\ Turns(n, "open")
  /\ UNCHANGED <<qConfig, headers, handlers, nsqd, linked, sending, acked, ran,
                 qFaults, qStarts>>

(* Subscribe; when no nsqlookupd answers the node's constructor fails and  *)
(* closes the manager.                                                     *)
Subscribe(n) ==
  /\ qnode[n].at = "new" /\ handlers[n] = Registered
  /\ \/ Turns(n, "open") /\ UNCHANGED qFaults
     \/ Turns(n, "closed") /\ QueueFault
  /\ UNCHANGED <<qConfig, headers, handlers, nsqd, linked, sending, acked, ran,
                 qStarts>>

(* The consumer finds an nsqd and its channel there: a topic without       *)
(* channels has held its messages back for the first one.                  *)
Link(n, d) ==
  /\ qnode[n].at = "open" /\ d \notin linked[n]
  /\ linked' = [linked EXCEPT ![n] = @ \cup {d}]
  /\ channels' = [channels EXCEPT ![d] = @ \cup {n}]
  /\ copies' = [copies EXCEPT ![d][n] =
       [m \in Messages |-> IF channels[d] = {} /\ m \in kept[d]
                           THEN "waiting" ELSE @[m]]]
  /\ UNCHANGED <<qConfig, headers, qnode, handlers, kept, attempts, sending,
                 acked, ran, qFaults, qStarts>>

Busy(n) == {c \in Nsqds \X Messages : copies[c[1]][n][c[2]] = "busy"}

(* Mutant: a consumer takes further messages while it handles one.         *)
TakeMore(n, d, m) ==
  /\ qnode[n].at = "open" /\ d \in linked[n]
  /\ copies[d][n][m] = "waiting" /\ attempts[d][n][m] < MaxAttempts
  /\ Marks(d, n, m, "busy")
  /\ attempts' = [attempts EXCEPT ![d][n][m] = @ + 1]
  /\ UNCHANGED <<qConfig, headers, qnode, handlers, channels, kept, linked,
                 sending, acked, ran, qFaults, qStarts>>

(* The client library finishes a copy it has delivered MaxAttempts times.  *)
Take(n, d, m) ==
  /\ qnode[n].at = "open" /\ d \in linked[n] /\ Busy(n) = {}
  /\ copies[d][n][m] = "waiting"
  /\ \/ /\ attempts[d][n][m] < MaxAttempts /\ Marks(d, n, m, "busy")
        /\ attempts' = [attempts EXCEPT ![d][n][m] = @ + 1]
     \/ /\ attempts[d][n][m] = MaxAttempts /\ Marks(d, n, m, "dropped")
        /\ UNCHANGED attempts
  /\ UNCHANGED <<qConfig, headers, qnode, handlers, channels, kept, linked,
                 sending, acked, ran, qFaults, qStarts>>

(* SystemMessageHandler.HandleMessage: a message for another node, or a    *)
(* command without a handler, counts as handled.  After an error the copy  *)
(* is delivered again.                                                     *)
HandleMessage(n, d, m) ==
  /\ qnode[n].at \in {"open", "closing"} /\ copies[d][n][m] = "busy"
  /\ \/ /\ target[m] \notin {Everyone, n} \/ command[m] \notin handlers[n]
        /\ Marks(d, n, m, "done") /\ UNCHANGED <<ran, qFaults>>
     \/ /\ target[m] \in {Everyone, n} /\ command[m] \in handlers[n]
        /\ \/ /\ ran' = [ran EXCEPT ![n] = @ \cup {m}]
              /\ Marks(d, n, m, "done") /\ UNCHANGED qFaults
           \/ Marks(d, n, m, "waiting") /\ QueueFault /\ UNCHANGED ran
  /\ UNCHANGED <<qConfig, headers, qnode, handlers, channels, kept, attempts,
                 linked, sending, acked, qStarts>>

(* Close and Unsubscribe hold the mutex from Stop to StopChan, which the   *)
(* library closes when the handler is done or after 30 s; what was not     *)
(* finished by then is delivered again.  Close stops the main producer.    *)
CloseQueue(n) ==
  /\ qnode[n].at = "open" /\ Turns(n, "closing")
  /\ UNCHANGED <<qConfig, headers, handlers, nsqd, linked, sending, acked, ran,
                 qFaults, qStarts>>
GivenBack(n) ==
  [d \in Nsqds |-> [copies[d] EXCEPT ![n] =
    [m \in Messages |-> IF @[m] = "busy" THEN "waiting" ELSE @[m]]]]
StopChan(n) ==
  /\ qnode[n].at = "closing" /\ Turns(n, "closed")
  /\ copies' = GivenBack(n) /\ linked' = [linked EXCEPT ![n] = {}]
  /\ UNCHANGED <<qConfig, headers, handlers, channels, kept, attempts, sending,
                 acked, ran, qFaults, qStarts>>

(* The process ends, crashed or stopped, and starts again.                 *)
QueueRestart(n) ==
  /\ qStarts < MaxQueueStarts /\ qStarts' = qStarts + 1
  /\ qnode' = [qnode EXCEPT ![n] = NewManager]
  /\ handlers' = [handlers EXCEPT ![n] = {}]
  /\ copies' = GivenBack(n) /\ linked' = [linked EXCEPT ![n] = {}]
  /\ sending' = [p \in QueuePublishers |->
       IF sending[p].at # 0 /\ sending[p].by = n THEN NoSending
       ELSE sending[p]]
  /\ UNCHANGED <<qConfig, headers, channels, kept, attempts, acked, ran,
                 qFaults>>

-----------------------------------------------------------------------------
(* Publish: publishWithLoadBalancing picks the next producer under the     *)
(* mutex, which Close holds while it waits; otherwise the main producer.   *)
Publish(p, n, m, t, x) ==
  /\ sending[p].at = 0 /\ qnode[n].at # "new" /\ m \notin Messaged
  /\ \A k \in Messages : k < m => k \in Messaged
  /\ target' = [target EXCEPT ![m] = t] /\ command' = [command EXCEPT ![m] = x]
  /\ \/ /\ balanced /\ NsqdCount > 1 /\ qnode[n].at # "closing"
        /\ qnode' = [qnode EXCEPT ![n].current = (@ + 1) % NsqdCount]
        /\ sending' = [sending EXCEPT ![p] =
             [at |-> qnode[n].current + 1, msg |-> m, by |-> n, failed |-> {}]]
     \/ /\ ~(balanced /\ NsqdCount > 1)
        /\ sending' = [sending EXCEPT ![p] =
             [at |-> 1, msg |-> m, by |-> n, failed |-> {}]]
        /\ UNCHANGED qnode
  /\ UNCHANGED <<qConfig, handlers, nsqd, linked, acked, ran, qFaults, qStarts>>

(* nsqd d takes m in and copies it to the channels it has.                 *)
Keep(d, m) ==
  /\ kept' = [kept EXCEPT ![d] = @ \cup {m}]
  /\ copies' = [copies EXCEPT ![d] = [n \in QueueNodes |->
       IF n \in channels[d] THEN [@[n] EXCEPT ![m] = "waiting"] ELSE @[n]]]

Finish(p) == sending' = [sending EXCEPT ![p] = NoSending]

(* producer.Publish returned nil.                                          *)
Sent(p) ==
  LET d == sending[p].at  m == sending[p].msg IN
  /\ d # 0
  /\ ~(d = 1 /\ qnode[sending[p].by].at = "closed")
  /\ Keep(d, m) /\ acked' = acked \cup {m} /\ Finish(p)
  /\ UNCHANGED <<qConfig, headers, qnode, handlers, channels, attempts, linked,
                 ran, qFaults, qStarts>>

(* It returned an error, whether nsqd has the message or not; with         *)
(* failover the other producers are tried in order.                        *)
SendFails(p) ==
  LET d == sending[p].at  m == sending[p].msg
      failed == sending[p].failed \cup {d}
      others == IF balanced /\ failover THEN Nsqds \ failed ELSE {}
  IN
  /\ d # 0
  /\ \/ /\ d = 1 /\ qnode[sending[p].by].at = "closed"
        /\ UNCHANGED <<kept, copies, qFaults>>
     \/ QueueFault /\ (Keep(d, m) \/ UNCHANGED <<kept, copies>>)
  /\ IF others = {} THEN Finish(p)
     ELSE sending' = [sending EXCEPT ![p].failed = failed,
            ![p].at = CHOOSE k \in others : \A j \in others : k <= j]
  /\ UNCHANGED <<qConfig, headers, qnode, handlers, channels, attempts, linked,
                 acked, ran, qStarts>>

QueueNext ==
  \/ \E n \in QueueNodes :
       \/ RegisterHandlers(n) \/ Subscribe(n) \/ CloseQueue(n) \/ StopChan(n)
       \/ QueueRestart(n)
       \/ \E d \in Nsqds : Link(n, d)
       \/ \E d \in Nsqds, m \in Messages : Take(n, d, m) \/ HandleMessage(n, d, m)
  \/ \E p \in QueuePublishers :
       \/ \E n \in QueueNodes, m \in Messages,
             t \in QueueNodes \cup {Everyone}, x \in Commands : Publish(p, n, m, t, x)
       \/ Sent(p) \/ SendFails(p)

-----------------------------------------------------------------------------
QueueTypeOK ==
  /\ balanced \in BOOLEAN /\ failover \in BOOLEAN
  /\ target \in [Messages -> QueueNodes \cup {Everyone}] /\ command \in [Messages -> Commands]
  /\ qnode \in [QueueNodes -> [at : {"new", "open", "closing", "closed"},
                               current : 0..(NsqdCount - 1)]]
  /\ handlers \in [QueueNodes -> {{}, Registered}] /\ acked \subseteq Messages
  /\ \A d \in Nsqds, n \in QueueNodes, m \in Messages :
       /\ copies[d][n][m] \in {"none", "waiting", "busy", "done", "dropped"}
       /\ copies[d][n][m] # "none" => m \in kept[d] /\ n \in channels[d]
       /\ attempts[d][n][m] \in 0..MaxAttempts
  /\ \A n \in QueueNodes : Cardinality(Busy(n)) <= 1
  /\ qFaults \in 0..MaxQueueFaults /\ qStarts \in 0..MaxQueueStarts

(* A published command is not lost on its way to the code that carries it  *)
(* out: a message whose Publish returned nil was taken in by some nsqd,    *)
(* and a node that is addressed finishes its copy of a command that nodes  *)
(* register a handler for only after a handler has carried it out - across *)
(* load balancing and failover (which may duplicate it), failing handlers, *)
(* crashes and Close (SubscribeSystemMessages comes after the handlers are *)
(* registered).  Other commands are finished everywhere without being      *)
(* carried out, and nobody is told: nothing runs but what is registered.   *)
CommandsAreRun ==
  /\ \A m \in acked : \E d \in Nsqds : m \in kept[d]
  /\ \A d \in Nsqds, n \in QueueNodes, m \in Messages :
       copies[d][n][m] = "done" /\ target[m] \in {Everyone, n} /\ command[m] \in Registered
         => m \in ran[n]
  /\ \A n \in QueueNodes : \A m \in ran[n] : command[m] \in Registered
=============================================================================
