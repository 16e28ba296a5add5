----------------------------- MODULE RpcClient -----------------------------
(***************************************************************************)
(* One connection of internal/rpc/rpc.go, both ends: an RPCClient that     *)
(* several goroutines share (its map of callbacks, its mutex, its response *)
(* loop, its circuit breaker, Disconnect) and the RPCServer goroutine that *)
(* serves the connection, one request after the other.                     *)
(*                                                                         *)
(* The mutex is held across the write of a request, so it is a variable;   *)
(* every other critical section is one step that needs it free.  The two   *)
(* directions of the TCP stream are bounded queues of frames: a write into *)
(* a full one blocks until it has room or its deadline passes, and a       *)
(* deadline may leave part of a frame behind.  Clocks are nondeterminism:  *)
(* a timer may fire whenever it is armed.                                  *)
(***************************************************************************)
EXTENDS Integers, Sequences, FiniteSets

CONSTANTS
  Callers,    \* the goroutines that call
  Nobody,     \* neither a caller nor a frame
  Attempts,   \* CallOptions.Retries + 1 of each caller's calls
  MaxCalls,   \* bound: the calls each caller makes
  Threshold,  \* the breaker's failureThreshold
  WireSize    \* bound: frames the stream buffers hold in each direction

ASSUME ConstantAssumption ==
  /\ IsFiniteSet(Callers) /\ Nobody \notin Callers
  /\ Attempts \in [Callers -> Nat \ {0}]
  /\ MaxCalls \in [Callers -> Nat]
  /\ Threshold \in Nat \ {0}
  /\ WireSize \in Nat \ {0}

Results == {"ok", "error"}
Lost    == "lost"
Unknown == "unknown"
Torn    == 0           \* part of a frame on the wire; also the id of the answer to it
Empty   == <<>>        \* a channel that holds nothing
NilResponse == <<Torn, Lost>>   \* the nil that a closed connection sends

VARIABLES
  running, mutex, requestID,   \* RPCClient; mutex is its holder
  callbacks,   \* [request ids -> the caller whose channel is in c.callbacks]
  slot,        \* each caller's callback channel, capacity one
  breaker, failures, cooled,   \* CircuitBreaker; cooled: now is after openUntil
  pc, calls, attempt, id,      \* per caller; id is its current request
  loop, response,              \* responseLoop and the response it has read
  disconnect,                  \* the goroutine that disconnects
  toServer, toClient, open,    \* the stream, and whether the client's end is open
  handler, current,            \* the server's goroutine and its request
  sent, verdicts, outcome      \* history

breakerVars == <<breaker, failures, cooled>>
callerVars  == <<pc, calls, attempt, id>>
serverVars  == <<handler, current>>
wireVars    == <<toServer, toClient>>
loopVars    == <<loop, response>>
histVars    == <<sent, verdicts, outcome>>
mapVars     == <<requestID, callbacks, slot>>
vars == <<running, mutex, mapVars, breakerVars, callerVars, loopVars, disconnect,
          wireVars, open, serverVars, histVars>>

(* Bound: every attempt of every call may take an id.                      *)
AllAttempts == UNION {{c} \X ((1..MaxCalls[c]) \X (1..Attempts[c])) : c \in Callers}
MaxId == Cardinality(AllAttempts)
Ids   == 1..MaxId

Idle == "idle"

Init ==
  /\ running = FALSE /\ mutex = Nobody /\ requestID = 0
  /\ callbacks = [i \in Ids |-> Nobody]
  /\ slot = [c \in Callers |-> Empty]
  /\ breaker = "closed" /\ failures = 0 /\ cooled = FALSE
  /\ pc = [c \in Callers |-> Idle]
  /\ calls = [c \in Callers |-> 0]
  /\ attempt = [c \in Callers |-> 0]
  /\ id = [c \in Callers |-> 0]
  /\ loop = "off" /\ response = <<>>
  /\ disconnect = Idle
  /\ toServer = <<>> /\ toClient = <<>> /\ open = FALSE
  /\ handler = "none" /\ current = Torn
  /\ sent = <<>> /\ verdicts = <<>>
  /\ outcome = [i \in Ids |-> Unknown]

At(c, l)   == pc[c] = l
Goto(c, l) == pc' = [pc EXCEPT ![c] = l]
Unlocked   == mutex = Nobody

-----------------------------------------------------------------------------
(* Connection and its end on the client's side.                            *)

(* A dial that fails changes nothing and may be tried again.               *)
Connect ==
  /\ loop = "off"
  /\ running' = TRUE /\ open' = TRUE
  /\ loop' = "read" /\ handler' = "read"
  /\ UNCHANGED <<mutex, mapVars, breakerVars, callerVars, response, disconnect, wireVars,
                 current, histVars>>

(* Everyone in the map is sent nil, unless the channel holds an answer.    *)
NotifyAll ==
  /\ slot' = [c \in Callers |->
       IF (\E i \in Ids : callbacks[i] = c) /\ slot[c] = Empty THEN NilResponse ELSE slot[c]]
  /\ callbacks' = [i \in Ids |-> Nobody]

Disconnect ==
  /\ disconnect = Idle
  /\ Unlocked
  /\ IF running
       THEN running' = FALSE /\ NotifyAll /\ disconnect' = "close"
       ELSE disconnect' = "done" /\ UNCHANGED <<running, slot, callbacks>>
  /\ UNCHANGED <<mutex, requestID, breakerVars, callerVars, loopVars, wireVars, open,
                 serverVars, histVars>>

(* The socket is closed after the lock is released.                        *)
DisconnectClose ==
  /\ disconnect = "close"
  /\ open' = FALSE
  /\ disconnect' = "join"
  /\ UNCHANGED <<running, mutex, mapVars, breakerVars, callerVars, loopVars, wireVars,
                 serverVars, histVars>>

DisconnectJoin ==
  /\ disconnect = "join"
  /\ loop = "done"
  /\ disconnect' = "done"
  /\ UNCHANGED <<running, mutex, mapVars, breakerVars, callerVars, loopVars, wireVars, open,
                 serverVars, histVars>>

-----------------------------------------------------------------------------
(* CallWithOptions and the circuit breaker.                                *)

Begin(c) ==
  /\ At(c, Idle)
  /\ calls[c] < MaxCalls[c]
  /\ calls' = [calls EXCEPT ![c] = @ + 1]
  /\ attempt' = [attempt EXCEPT ![c] = 1]
  /\ Goto(c, "allow")
  /\ UNCHANGED <<running, mutex, mapVars, breakerVars, id, loopVars, disconnect, wireVars,
                 open, serverVars, histVars>>

Allow(c) ==
  /\ At(c, "allow")
  /\ IF breaker = "open" /\ cooled
       THEN breaker' = "half_open" /\ Goto(c, "check")
       ELSE Goto(c, IF breaker = "open" THEN Idle ELSE "check") /\ UNCHANGED breaker
  /\ UNCHANGED <<running, mutex, mapVars, failures, cooled, calls, attempt, id, loopVars,
                 disconnect, wireVars, open, serverVars, histVars>>

(* Mutant: the failures are not forgotten.                                 *)
RecordSuccessKeepsFailures(c) ==
  /\ At(c, "succeeded")
  /\ breaker' = "closed"
  /\ Goto(c, Idle)
  /\ UNCHANGED <<running, mutex, mapVars, failures, cooled, calls, attempt, id, loopVars,
                 disconnect, wireVars, open, serverVars, histVars>>

RecordSuccess(c) ==
  /\ At(c, "succeeded")
  /\ breaker' = "closed" /\ failures' = 0
  /\ Goto(c, Idle)
  /\ UNCHANGED <<running, mutex, mapVars, cooled, calls, attempt, id, loopVars, disconnect,
                 wireVars, open, serverVars, histVars>>

(* Mutant: one attempt too many.                                           *)
RecordFailureRetriesOnceMore(c) ==
  /\ At(c, "failed")
  /\ failures' = failures + 1
  /\ IF failures' >= Threshold
       THEN breaker' = "open" /\ cooled' = FALSE
       ELSE UNCHANGED <<breaker, cooled>>
  /\ IF attempt[c] <= Attempts[c]
       THEN attempt' = [attempt EXCEPT ![c] = @ + 1] /\ Goto(c, "allow")
       ELSE Goto(c, Idle) /\ UNCHANGED attempt
  /\ UNCHANGED <<running, mutex, mapVars, calls, id, loopVars, disconnect, wireVars, open,
                 serverVars, histVars>>

(* An application error counts like a broken connection.                   *)
RecordFailure(c) ==
  /\ At(c, "failed")
  /\ failures' = failures + 1
  /\ IF failures' >= Threshold
       THEN breaker' = "open" /\ cooled' = FALSE
       ELSE UNCHANGED <<breaker, cooled>>
  /\ IF attempt[c] < Attempts[c]
       THEN attempt' = [attempt EXCEPT ![c] = @ + 1] /\ Goto(c, "allow")
       ELSE Goto(c, Idle) /\ UNCHANGED attempt
  /\ UNCHANGED <<running, mutex, mapVars, calls, id, loopVars, disconnect, wireVars, open,
                 serverVars, histVars>>

(* The clock passes openUntil.                                             *)
CoolDown ==
  /\ breaker = "open" /\ ~cooled
  /\ cooled' = TRUE
  /\ UNCHANGED <<running, mutex, mapVars, breaker, failures, callerVars, loopVars, disconnect,
                 wireVars, open, serverVars, histVars>>

-----------------------------------------------------------------------------
(* callOnce.                                                               *)

CheckRunning(c) ==
  /\ At(c, "check")
  /\ Unlocked
  /\ Goto(c, IF running THEN "register" ELSE "failed")
  /\ UNCHANGED <<running, mutex, mapVars, breakerVars, calls, attempt, id, loopVars,
                 disconnect, wireVars, open, serverVars, histVars>>

(* Mutant: an id that is read and raised, but not in one atomic operation. *)
RegisterRacingId(c) ==
  /\ At(c, "register")
  /\ Unlocked
  /\ requestID' \in {requestID, requestID + 1}
  /\ id' = [id EXCEPT ![c] = requestID + 1]
  /\ callbacks' = [callbacks EXCEPT ![requestID + 1] = c]
  /\ slot' = [slot EXCEPT ![c] = Empty]
  /\ Goto(c, "lock")
  /\ UNCHANGED <<running, mutex, breakerVars, calls, attempt, loopVars, disconnect, wireVars,
                 open, serverVars, histVars>>

(* A new id and a new channel; running is not looked at again.             *)
Register(c) ==
  /\ At(c, "register")
  /\ Unlocked
  /\ requestID' = requestID + 1
  /\ id' = [id EXCEPT ![c] = requestID']
  /\ callbacks' = [callbacks EXCEPT ![requestID'] = c]
  /\ slot' = [slot EXCEPT ![c] = Empty]
  /\ Goto(c, "lock")
  /\ UNCHANGED <<running, mutex, breakerVars, calls, attempt, loopVars, disconnect, wireVars,
                 open, serverVars, histVars>>

WriteLock(c) ==
  /\ At(c, "lock")
  /\ Unlocked
  /\ mutex' = c
  /\ Goto(c, "write")
  /\ UNCHANGED <<running, mapVars, breakerVars, calls, attempt, id, loopVars, disconnect,
                 wireVars, open, serverVars, histVars>>

(* Bytes written to a peer that is gone may still be taken by the kernel.  *)
Write(c) ==
  /\ At(c, "write")
  /\ open
  /\ Len(toServer) < WireSize
  /\ toServer' = Append(toServer, id[c])
  /\ sent' = Append(sent, id[c])
  /\ mutex' = Nobody
  /\ Goto(c, "wait")
  /\ UNCHANGED <<running, mapVars, breakerVars, calls, attempt, id, loopVars, disconnect,
                 toClient, open, serverVars, verdicts, outcome>>

(* How a call ends: its callback is deleted.  Nothing the call does between *)
(* what ended it and this critical section is seen by anyone else, so the  *)
(* two are one step.                                                       *)
Conclude(c, told) ==
  /\ callbacks' = [callbacks EXCEPT ![id[c]] = Nobody]
  /\ outcome' = [outcome EXCEPT ![id[c]] = told]
  /\ Goto(c, IF told = "ok" THEN "succeeded" ELSE "failed")

(* Mutant: the error path does not unlock.                                 *)
WriteFailKeepsLock(c) ==
  /\ At(c, "write")
  /\ Conclude(c, Lost)
  /\ UNCHANGED <<running, mutex, requestID, slot, breakerVars, calls, attempt, id, loopVars,
                 disconnect, wireVars, open, serverVars, sent, verdicts>>

(* A socket that is closed, a peer that is gone, or the write deadline: the *)
(* buffers are full, or have less room than a long frame needs, and then a  *)
(* part of the frame stays on the wire.                                     *)
WriteFail(c) ==
  /\ At(c, "write")
  /\ \/ UNCHANGED toServer
     \/ open /\ handler # "closed" /\ toServer' = Append(toServer, Torn)
  /\ mutex' = Nobody
  /\ Conclude(c, Lost)
  /\ UNCHANGED <<running, requestID, slot, breakerVars, calls, attempt, id, loopVars,
                 disconnect, toClient, open, serverVars, sent, verdicts>>

(* The select on the callback channel and the timer.                       *)
TakeAnswer(c) ==
  /\ At(c, "wait")
  /\ slot[c] # Empty
  /\ Unlocked
  /\ Conclude(c, slot[c][2])
  /\ slot' = [slot EXCEPT ![c] = Empty]
  /\ UNCHANGED <<running, mutex, requestID, breakerVars, calls, attempt, id,
                 loopVars, disconnect, wireVars, open, serverVars, sent, verdicts>>

(* Mutant: a timeout leaves its callback in the map.                       *)
CallTimeoutKeepsCallback(c) ==
  /\ At(c, "wait")
  /\ outcome' = [outcome EXCEPT ![id[c]] = Lost]
  /\ Goto(c, "failed")
  /\ UNCHANGED <<running, mutex, mapVars, breakerVars, calls, attempt, id, loopVars,
                 disconnect, wireVars, open, serverVars, sent, verdicts>>

CallTimeout(c) ==
  /\ At(c, "wait")
  /\ Unlocked
  /\ Conclude(c, Lost)
  /\ UNCHANGED <<running, mutex, requestID, slot, breakerVars, calls, attempt, id, loopVars,
                 disconnect, wireVars, open, serverVars, sent, verdicts>>

-----------------------------------------------------------------------------
(* responseLoop.                                                           *)

LoopRead ==
  /\ loop = "read"
  /\ open /\ toClient # <<>>
  /\ response' = Head(toClient)
  /\ toClient' = Tail(toClient)
  /\ loop' = "deliver"
  /\ UNCHANGED <<running, mutex, mapVars, breakerVars, callerVars, disconnect, toServer, open,
                 serverVars, histVars>>

(* The socket closed here, the end of the stream, or readTimeout.          *)
LoopReadError ==
  /\ loop = "read"
  /\ loop' = "exit"
  /\ UNCHANGED <<running, mutex, mapVars, breakerVars, callerVars, response, disconnect,
                 wireVars, open, serverVars, histVars>>

(* The response goes by its id, to a channel with room or to nobody.       *)
Deliver ==
  /\ loop = "deliver"
  /\ Unlocked
  /\ LET i == response[1] IN
       slot' = [c \in Callers |->
         IF i \in Ids /\ callbacks[i] = c /\ slot[c] = Empty THEN response ELSE slot[c]]
  /\ response' = <<>>
  /\ loop' = IF running THEN "read" ELSE "exit"
  /\ UNCHANGED <<running, mutex, requestID, callbacks, breakerVars, callerVars, disconnect,
                 wireVars, open, serverVars, histVars>>

(* Mutant: after a disconnect the cleanup returns before wg.Done.          *)
LoopExitForgetsDone ==
  /\ loop = "exit"
  /\ Unlocked
  /\ running
  /\ running' = FALSE /\ open' = FALSE /\ NotifyAll
  /\ loop' = "done"
  /\ UNCHANGED <<mutex, requestID, breakerVars, callerVars, response, disconnect, wireVars,
                 serverVars, histVars>>

(* The deferred cleanup; who did not disconnect is disconnected by it.     *)
LoopExit ==
  /\ loop = "exit"
  /\ Unlocked
  /\ IF running THEN running' = FALSE /\ open' = FALSE /\ NotifyAll
                ELSE UNCHANGED <<running, open, slot, callbacks>>
  /\ loop' = "done"
  /\ UNCHANGED <<mutex, requestID, breakerVars, callerVars, response, disconnect, wireVars,
                 serverVars, histVars>>

-----------------------------------------------------------------------------
(* RPCServer.handleConnection.                                             *)

ServerRead ==
  /\ handler = "read"
  /\ toServer # <<>> /\ Head(toServer) # Torn
  /\ current' = Head(toServer)
  /\ toServer' = Tail(toServer)
  /\ handler' = "call"
  /\ UNCHANGED <<running, mutex, mapVars, breakerVars, callerVars, loopVars, disconnect,
                 toClient, open, histVars>>

(* A partial frame is completed with the bytes behind it, up to the end of *)
(* some later frame, where the next read finds a header again, or to the   *)
(* middle of one, whose rest is then torn.  What comes out has the bytes   *)
(* of a header in its middle, so it is no request: it is answered under id *)
(* 0, and what it swallowed is never executed.  (A header made of such     *)
(* bytes may also be refused, which ends the connection: ServerClose.)     *)
ServerReadTorn ==
  /\ handler = "read"
  /\ toServer # <<>> /\ Head(toServer) = Torn
  /\ current' = Torn
  /\ \E last \in 2..Len(toServer) :
       LET rest == SubSeq(toServer, last + 1, Len(toServer)) IN
         toServer' \in {rest, <<Torn>> \o rest}
  /\ handler' = "reply_error"
  /\ UNCHANGED <<running, mutex, mapVars, breakerVars, callerVars, loopVars, disconnect,
                 toClient, open, histVars>>

(* The method runs; it is also an error when no such method exists.        *)
Execute ==
  /\ handler = "call"
  /\ \E v \in Results :
       /\ verdicts' = Append(verdicts, <<current, v>>)
       /\ handler' = IF v = "ok" THEN "reply_ok" ELSE "reply_error"
  /\ UNCHANGED <<running, mutex, mapVars, breakerVars, callerVars, loopVars, disconnect,
                 wireVars, open, current, sent, outcome>>

Reply ==
  /\ handler \in {"reply_ok", "reply_error"}
  /\ Len(toClient) < WireSize
  /\ toClient' = Append(toClient, <<current, IF handler = "reply_ok" THEN "ok" ELSE "error">>)
  /\ handler' = "read"
  /\ UNCHANGED <<running, mutex, mapVars, breakerVars, callerVars, loopVars, disconnect,
                 toServer, open, current, histVars>>

(* A read that ends in an error or its timeout, or a write that does.      *)
ServerClose ==
  /\ \/ handler = "read"
     \/ handler \in {"reply_ok", "reply_error"} /\ (~open \/ Len(toClient) >= WireSize)
  /\ handler' = "closed"
  /\ UNCHANGED <<running, mutex, mapVars, breakerVars, callerVars, loopVars, disconnect,
                 wireVars, open, current, histVars>>

-----------------------------------------------------------------------------
CallStep(c) ==
  \/ Allow(c) \/ CheckRunning(c) \/ Register(c) \/ WriteLock(c) \/ Write(c) \/ WriteFail(c)
  \/ TakeAnswer(c) \/ CallTimeout(c) \/ RecordSuccess(c) \/ RecordFailure(c)
LoopStep       == LoopRead \/ LoopReadError \/ Deliver \/ LoopExit
DisconnectStep == DisconnectClose \/ DisconnectJoin
ServerStep     == ServerRead \/ ServerReadTorn \/ Execute \/ Reply \/ ServerClose

Next ==
  \/ \E c \in Callers : Begin(c) \/ CallStep(c)
  \/ LoopStep \/ Disconnect \/ DisconnectStep \/ ServerStep
  \/ Connect \/ CoolDown

Spec == Init /\ [][Next]_vars

(* Runnable goroutines run, armed timers fire, a method returns.  Nobody   *)
(* is obliged to call, to connect or to disconnect, and the breaker's clock *)
(* helps no one.                                                           *)
Fairness ==
  /\ \A c \in Callers : WF_vars(CallStep(c))
  /\ WF_vars(LoopStep) /\ WF_vars(DisconnectStep) /\ WF_vars(ServerStep)

FairSpec == Spec /\ Fairness

-----------------------------------------------------------------------------
(* Types of the variables, and the number of attempts the options allow.   *)
Responses == (Ids \cup {Torn}) \X Results
CallPC == {Idle, "allow", "check", "register", "lock", "write", "wait", "succeeded", "failed"}

TypeOK ==
  /\ running \in BOOLEAN /\ mutex \in Callers \cup {Nobody}
  /\ requestID \in 0..MaxId
  /\ callbacks \in [Ids -> Callers \cup {Nobody}]
  /\ slot \in [Callers -> {Empty, NilResponse} \cup Responses]
  /\ breaker \in {"closed", "open", "half_open"} /\ failures \in Nat /\ cooled \in BOOLEAN
  /\ pc \in [Callers -> CallPC]
  /\ calls \in [Callers -> Nat] /\ attempt \in [Callers -> Nat]
  /\ \A c \in Callers : calls[c] <= MaxCalls[c] /\ attempt[c] <= Attempts[c]
  /\ id \in [Callers -> 0..MaxId]
  /\ loop \in {"off", "read", "deliver", "exit", "done"}
  /\ response \in Responses \cup {<<>>}
  /\ disconnect \in {Idle, "close", "join", "done"}
  /\ toServer \in Seq(Ids \cup {Torn}) /\ toClient \in Seq(Responses)
  /\ open \in BOOLEAN
  /\ handler \in {"none", "read", "call", "reply_ok", "reply_error", "closed"}
  /\ current \in Ids \cup {Torn}
  /\ sent \in Seq(Ids) /\ verdicts \in Seq(Ids \X Results)
  /\ outcome \in [Ids -> Results \cup {Unknown, Lost}]

(* The client keeps track of its calls: a callback in the map belongs to a *)
(* call that is still under way, so none is left behind by a timeout, a    *)
(* failed write or a disconnect; and while the client runs, a call that    *)
(* waits is in the map or has its answer, so none is forgotten (callOnce's *)
(* three deletes, Disconnect, and responseLoop's cleanup).                 *)
InFlight(c) == pc[c] \in {"lock", "write", "wait"}

CallbacksTrackCalls ==
  /\ \A i \in Ids : callbacks[i] # Nobody => InFlight(callbacks[i]) /\ id[callbacks[i]] = i
  /\ running => \A c \in Callers :
       At(c, "wait") => callbacks[id[c]] = c \/ slot[c] # Empty

(* The breaker remembers: it is closed exactly while the failures recorded *)
(* since the last success are fewer than the threshold, whatever calls     *)
(* were under way when it opened or was probed (Allow, RecordSuccess and   *)
(* RecordFailure).                                                         *)
BreakerCounts == breaker = "closed" <=> failures < Threshold

(* The connection as a whole refines RpcContract: every call is answered   *)
(* at most once and by its own response, late answers go to nobody, and    *)
(* the server executes each request at most once and in the order sent,    *)
(* even when a write deadline left half a frame on the wire and the server *)
(* swallowed frames with it before it found the next header (callOnce,     *)
(* responseLoop, handleConnection, ReadFrameWithOptions).                  *)
Contract == INSTANCE RpcContract WITH Verdicts <- Results
ImplementsContract == Contract!Spec

(* Every call returns, though requests are written under the client's lock *)
(* and the response loop needs that lock to make room in the stream: the   *)
(* deadlines break the circle (CallWithOptions, callOnce).  So does        *)
(* Disconnect, which waits for the response loop (its wg.Wait and          *)
(* responseLoop's deferred cleanup).                                       *)
CallsReturn ==
  /\ \A c \in Callers : ~At(c, Idle) ~> At(c, Idle)
  /\ disconnect = "close" ~> disconnect = "done"
=============================================================================
