--------------------------- MODULE RpcClientProofs ---------------------------
(***************************************************************************)
(* What holds of one RPC connection with any number of callers, calls,     *)
(* retries and any size of the stream: types, the client's book of its     *)
(* calls, the breaker's count, and that the two ends together implement    *)
(* RpcContract.                                                            *)
(*                                                                         *)
(* That a caller is answered by its own response and that requests are     *)
(* executed in the order sent are both about the stream, so the invariant  *)
(* says what every frame in it stands for: the whole frames that the server *)
(* can still read are requests sent after every request executed, in the   *)
(* order sent (StreamOK), and every response that is under way, read or    *)
(* delivered is the verdict on the request whose id it bears (AnswersOK).  *)
(***************************************************************************)
EXTENDS RpcClient, FiniteSetTheorems, SequenceTheorems, TLAPS

(* The attempts that have taken an id.                                     *)
Registering(c) == pc[c] \in {"allow", "check", "register"}
Used == {t \in AllAttempts :
           \/ t[2][1] < calls[t[1]]
           \/ /\ t[2][1] = calls[t[1]]
              /\ \/ pc[t[1]] = Idle
                 \/ t[2][2] < attempt[t[1]]
                 \/ t[2][2] = attempt[t[1]] /\ ~Registering(t[1])}

CountOK ==
  /\ requestID <= Cardinality(Used)
  /\ \A c \in Callers : pc[c] # Idle => calls[c] >= 1 /\ attempt[c] >= 1

(* A request id belongs to one call, and none is used before it was given. *)
FreshOK ==
  /\ \A c \in Callers : id[c] <= requestID
  /\ \A c, d \in Callers : id[c] = id[d] /\ id[c] # 0 => c = d
  /\ \A c \in Callers : InFlight(c) => id[c] # 0 /\ outcome[id[c]] = Unknown
  /\ \A i \in Ids : i > requestID => outcome[i] = Unknown /\ callbacks[i] = Nobody
  /\ \A k \in 1..Len(sent) : sent[k] <= requestID
  /\ \A c \in Callers : pc[c] \in {"lock", "write"} => \A k \in 1..Len(sent) : sent[k] # id[c]

(* The mutex is held by who writes.                                        *)
MutexOK == \A c \in Callers : mutex = c <=> pc[c] = "write"

(* Nothing is under way before the client has connected.                   *)
LoopOK ==
  /\ running => loop # "off"
  /\ loop = "off" => /\ handler = "none"
                     /\ \A c \in Callers : pc[c] \in {Idle, "allow", "check", "failed"}
  /\ loop = "deliver" => response \in Responses

(* CallbacksTrackCalls, for a call that has taken its id.                  *)
CallsOK ==
  /\ \A i \in Ids : callbacks[i] # Nobody => InFlight(callbacks[i]) /\ id[callbacks[i]] = i
  /\ running => \A c \in Callers : InFlight(c) => callbacks[id[c]] = c \/ slot[c] # Empty

(* A response is what the server made of its request.                      *)
Answer(r) == \E m \in 1..Len(verdicts) : verdicts[m] = r

(* Places in the order of sending.                                         *)
InSent(i)     == \E p \in 1..Len(sent) : sent[p] = i
Earlier(i, j) == \A p, q \in 1..Len(sent) : sent[p] = i /\ sent[q] = j => p < q
Due(i)        == InSent(i) /\ \A m \in 1..Len(verdicts) : Earlier(verdicts[m][1], i)

(* Whatever torn frames swallow, the frames between them are still to be   *)
(* executed, in the order sent.                                            *)
FramesOK ==
  /\ \A k \in 1..Len(toServer) : toServer[k] # Torn => Due(toServer[k])
  /\ \A k, l \in 1..Len(toServer) :
       k < l /\ toServer[k] # Torn /\ toServer[l] # Torn => Earlier(toServer[k], toServer[l])

StreamOK ==
  /\ FramesOK
  /\ \A m \in 1..Len(verdicts) : InSent(verdicts[m][1])
  /\ handler = "call" =>
       /\ Due(current)
       /\ \A k \in 1..Len(toServer) : toServer[k] # Torn => Earlier(current, toServer[k])
  /\ handler \in {"reply_ok", "reply_error"} /\ current # Torn =>
       Answer(<<current, IF handler = "reply_ok" THEN "ok" ELSE "error">>)

AnswersOK ==
  /\ \A k \in 1..Len(toClient) : toClient[k][1] # Torn => Answer(toClient[k])
  /\ loop = "deliver" /\ response[1] # Torn => Answer(response)
  /\ \A c \in Callers : slot[c] \in {Empty, NilResponse} \/ (slot[c][1] = id[c] /\ Answer(slot[c]))

IInv ==
  /\ TypeOK /\ CountOK /\ FreshOK /\ MutexOK /\ LoopOK /\ CallsOK /\ StreamOK /\ AnswersOK
  /\ BreakerCounts

-----------------------------------------------------------------------------
(***************************************************************************)
(* There are finitely many attempts, so the ids are the numbers up to one. *)
(***************************************************************************)
LEMMA AttemptsAreFinite == IsFiniteSet(AllAttempts) /\ MaxId \in Nat
<1>. DEFINE Of(c)  == {c} \X ((1..MaxCalls[c]) \X (1..Attempts[c]))
            Each   == [c \in Callers |-> Of(c)]
            Groups == {Of(c) : c \in Callers}
<1>1. \A c \in Callers : IsFiniteSet(Of(c))
  <2>. TAKE c \in Callers
  <2>1. MaxCalls[c] \in Int /\ Attempts[c] \in Int /\ 1 \in Int
    BY ConstantAssumption
  <2>2. IsFiniteSet(1..MaxCalls[c]) /\ IsFiniteSet(1..Attempts[c])
    BY <2>1, FS_Interval
  <2>3. IsFiniteSet((1..MaxCalls[c]) \X (1..Attempts[c]))
    BY <2>2, FS_Product
  <2>4. IsFiniteSet({c})
    BY FS_Singleton
  <2>. QED  BY <2>3, <2>4, FS_Product
<1>2. Each \in Surjection(Callers, Groups)
  BY DEF Surjection
<1>3. IsFiniteSet(Groups)
  <2>. HIDE DEF Each, Groups, Of
  <2>. QED  BY <1>2, ConstantAssumption, FS_Surjection
<1>4. \A G \in Groups : IsFiniteSet(G)
  BY <1>1
<1>5. AllAttempts = UNION Groups
  BY DEF AllAttempts
<1>6. IsFiniteSet(UNION Groups)
  <2>. HIDE DEF Groups
  <2>. QED  BY <1>3, <1>4, FS_UNION
<1>7. IsFiniteSet(AllAttempts)
  BY <1>5, <1>6
<1>. QED  BY <1>7, FS_CardinalityType DEF MaxId

(***************************************************************************)
(* What the ids are.                                                       *)
(***************************************************************************)
LEMMA IdsArePositive ==
  /\ \A i : i \in Ids <=> i \in Nat /\ i >= 1 /\ i <= MaxId
  /\ Torn \notin Ids /\ Torn = 0
BY AttemptsAreFinite DEF Ids, Torn

(***************************************************************************)
(* The initial state.                                                      *)
(***************************************************************************)
LEMMA Starts == Init => IInv
<1>. SUFFICES ASSUME Init PROVE IInv
  OBVIOUS
<1>. USE IdsArePositive, AttemptsAreFinite DEF Init
<1>1. TypeOK
  <2>1. /\ callbacks \in [Ids -> Callers \cup {Nobody}] /\ slot \in [Callers -> {Empty, NilResponse} \cup Responses]
        /\ pc \in [Callers -> CallPC] /\ calls \in [Callers -> Nat] /\ attempt \in [Callers -> Nat]
        /\ id \in [Callers -> 0..MaxId] /\ outcome \in [Ids -> Results \cup {Unknown, Lost}]
    BY DEF CallPC, Idle
  <2>2. \A c \in Callers : calls[c] <= MaxCalls[c] /\ attempt[c] <= Attempts[c]
    BY ConstantAssumption
  <2>3. /\ toServer \in Seq(Ids \cup {Torn}) /\ toClient \in Seq(Responses)
        /\ sent \in Seq(Ids) /\ verdicts \in Seq(Ids \X Results)
    BY EmptySeq
  <2>4. requestID \in 0..MaxId /\ current \in Ids \cup {Torn}
    OBVIOUS
  <2>5. response \in Responses \cup {<<>>} /\ failures \in Nat
    OBVIOUS
  <2>6. running \in BOOLEAN /\ cooled \in BOOLEAN /\ open \in BOOLEAN
    OBVIOUS
  <2>7. /\ mutex \in Callers \cup {Nobody} /\ loop \in {"off", "read", "deliver", "exit", "done"}
        /\ breaker \in {"closed", "open", "half_open"} /\ disconnect \in {Idle, "close", "join", "done"}
        /\ handler \in {"none", "read", "call", "reply_ok", "reply_error", "closed"}
    OBVIOUS
  <2>. HIDE DEF Init
  <2>. QED  BY <2>1, <2>2, <2>3, <2>4, <2>5, <2>6, <2>7 DEF TypeOK
<1>2. CountOK
  <2>1. Used \in SUBSET AllAttempts
    BY DEF Used
  <2>2. Cardinality(Used) \in Nat
    BY <2>1, FS_Subset, FS_CardinalityType
  <2>. QED  BY <2>2 DEF CountOK, Idle
<1>3. FreshOK /\ MutexOK /\ LoopOK /\ CallsOK
  BY ConstantAssumption DEF FreshOK, MutexOK, LoopOK, CallsOK, InFlight, Idle
<1>4. StreamOK /\ AnswersOK
  BY DEF StreamOK, AnswersOK, FramesOK, Empty
<1>5. BreakerCounts
  BY ConstantAssumption DEF BreakerCounts
<1>. QED  BY <1>1, <1>2, <1>3, <1>4, <1>5 DEF IInv

-----------------------------------------------------------------------------
(***************************************************************************)
(* The ids that are given are no more than the attempts that took one.     *)
(***************************************************************************)
LEMMA UsedGrows ==
  ASSUME Used \subseteq Used', requestID' = requestID, CountOK, TypeOK
  PROVE  requestID' <= Cardinality(Used')
<1>1. IsFiniteSet(Used')
  BY AttemptsAreFinite, FS_Subset DEF Used
<1>2. Cardinality(Used) <= Cardinality(Used') /\ Cardinality(Used) \in Nat /\ Cardinality(Used') \in Nat
  <2>1. IsFiniteSet(Used)
    BY <1>1, FS_Subset
  <2>. QED  BY <1>1, <2>1, FS_Subset, FS_CardinalityType
<1>3. requestID \in Nat /\ requestID <= Cardinality(Used)
  BY AttemptsAreFinite DEF TypeOK, CountOK
<1>. QED  BY <1>2, <1>3

(***************************************************************************)
(* An attempt is a caller, a call and a try.                               *)
(***************************************************************************)
LEMMA AttemptsAreTriples ==
  ASSUME NEW t \in AllAttempts
  PROVE  /\ t[1] \in Callers /\ t[2][1] \in 1..MaxCalls[t[1]] /\ t[2][2] \in 1..Attempts[t[1]]
         /\ t = <<t[1], <<t[2][1], t[2][2]>>>>
<1>1. PICK c \in Callers : t \in {c} \X ((1..MaxCalls[c]) \X (1..Attempts[c]))
  BY DEF AllAttempts
<1>. QED  BY <1>1

(***************************************************************************)
(* A step within an attempt takes back no id.                              *)
(***************************************************************************)
LEMMA StepKeepsCount ==
  ASSUME TypeOK, CountOK, NEW c \in Callers, NEW l,
         requestID' = requestID, calls' = calls, attempt' = attempt,
         pc[c] # Idle, pc' = [pc EXCEPT ![c] = l],
         l \in {"allow", "check", "register"} => Registering(c)
  PROVE  CountOK'
<1>1. pc'[c] = l /\ \A d \in Callers \ {c} : pc'[d] = pc[d]
  BY DEF TypeOK
<1>2. Used \subseteq Used'
  <2>. SUFFICES ASSUME NEW t \in Used  PROVE t \in Used'
    OBVIOUS
  <2>1. t \in AllAttempts /\ t[1] \in Callers
    BY AttemptsAreTriples DEF Used
  <2>2. CASE t[1] = c
    BY <1>1, <2>1, <2>2 DEF Used, Registering
  <2>3. CASE t[1] # c
    BY <1>1, <2>1, <2>3 DEF Used, Registering
  <2>. QED  BY <2>2, <2>3
<1>3. \A d \in Callers : pc'[d] # Idle => calls'[d] >= 1 /\ attempt'[d] >= 1
  BY <1>1 DEF CountOK
<1>. QED  BY <1>2, <1>3, UsedGrows DEF CountOK

(***************************************************************************)
(* A call begins: all its attempts are ahead.                              *)
(***************************************************************************)
LEMMA BeginKeepsCount ==
  ASSUME TypeOK, CountOK, NEW c \in Callers, Begin(c)
  PROVE  CountOK'
<1>1. /\ pc[c] = Idle /\ pc' = [pc EXCEPT ![c] = "allow"] /\ requestID' = requestID
      /\ calls' = [calls EXCEPT ![c] = calls[c] + 1] /\ attempt' = [attempt EXCEPT ![c] = 1]
      /\ calls[c] \in Nat
  BY DEF Begin, At, Goto, mapVars, TypeOK
<1>2. /\ pc'[c] = "allow" /\ calls'[c] = calls[c] + 1 /\ attempt'[c] = 1
      /\ \A d \in Callers \ {c} : pc'[d] = pc[d] /\ calls'[d] = calls[d] /\ attempt'[d] = attempt[d]
  BY <1>1 DEF TypeOK
<1>3. Used \subseteq Used'
  <2>. SUFFICES ASSUME NEW t \in Used  PROVE t \in Used'
    OBVIOUS
  <2>1. t \in AllAttempts /\ t[1] \in Callers /\ t[2][1] \in Int
    BY AttemptsAreTriples DEF Used
  <2>2. CASE t[1] = c
    <3>1. t[2][1] < calls[c] \/ t[2][1] = calls[c]
      BY <2>2 DEF Used
    <3>2. t[2][1] < calls'[t[1]]
      BY <1>1, <1>2, <2>1, <2>2, <3>1
    <3>. QED  BY <2>1, <3>2 DEF Used
  <2>3. CASE t[1] # c
    BY <1>2, <2>1, <2>3 DEF Used, Registering
  <2>. QED  BY <2>2, <2>3
<1>4. \A d \in Callers : pc'[d] # Idle => calls'[d] >= 1 /\ attempt'[d] >= 1
  BY <1>1, <1>2 DEF CountOK
<1>. QED  BY <1>1, <1>3, <1>4, UsedGrows DEF CountOK

(***************************************************************************)
(* A failed attempt is followed by the next, or by the end of the call.    *)
(***************************************************************************)
LEMMA FailureKeepsCount ==
  ASSUME TypeOK, CountOK, NEW c \in Callers, RecordFailure(c)
  PROVE  CountOK'
<1>1. pc[c] = "failed" /\ requestID' = requestID /\ calls' = calls
  BY DEF RecordFailure, At, mapVars
<1>2. CASE attempt[c] < Attempts[c]
  <2>1. pc' = [pc EXCEPT ![c] = "allow"] /\ attempt' = [attempt EXCEPT ![c] = attempt[c] + 1]
        /\ attempt[c] \in Nat
    BY <1>2 DEF RecordFailure, Goto, TypeOK
  <2>2. /\ pc'[c] = "allow" /\ attempt'[c] = attempt[c] + 1
        /\ \A d \in Callers \ {c} : pc'[d] = pc[d] /\ attempt'[d] = attempt[d]
    BY <2>1 DEF TypeOK
  <2>3. Used \subseteq Used'
    <3>. SUFFICES ASSUME NEW t \in Used  PROVE t \in Used'
      OBVIOUS
    <3>1. t \in AllAttempts /\ t[1] \in Callers /\ t[2][2] \in Int
      BY AttemptsAreTriples DEF Used
    <3>2. CASE t[1] = c
      <4>1. t[2][1] < calls[c] \/ (t[2][1] = calls[c] /\ t[2][2] < attempt[c] + 1)
        BY <1>1, <2>1, <3>1, <3>2 DEF Used, Idle
      <4>. QED  BY <1>1, <2>2, <3>1, <3>2, <4>1 DEF Used
    <3>3. CASE t[1] # c
      BY <1>1, <2>2, <3>1, <3>3 DEF Used, Registering
    <3>. QED  BY <3>2, <3>3
  <2>4. \A d \in Callers : pc'[d] # Idle => calls'[d] >= 1 /\ attempt'[d] >= 1
    BY <1>1, <2>1, <2>2 DEF CountOK, Idle
  <2>. QED  BY <1>1, <2>3, <2>4, UsedGrows DEF CountOK
<1>3. CASE ~(attempt[c] < Attempts[c])
  <2>1. pc' = [pc EXCEPT ![c] = Idle] /\ attempt' = attempt
    BY <1>3 DEF RecordFailure, Goto
  <2>. QED  BY <1>1, <2>1, StepKeepsCount DEF Idle
<1>. QED  BY <1>2, <1>3

(***************************************************************************)
(* An attempt takes an id: there was one left.                             *)
(***************************************************************************)
LEMMA RegisterKeepsCount ==
  ASSUME TypeOK, CountOK, NEW c \in Callers, Register(c)
  PROVE  CountOK' /\ requestID + 1 \in Ids
<1>1. /\ pc[c] = "register" /\ pc' = [pc EXCEPT ![c] = "lock"] /\ requestID' = requestID + 1
      /\ calls' = calls /\ attempt' = attempt
  BY DEF Register, At, Goto
<1>2. pc'[c] = "lock" /\ \A d \in Callers \ {c} : pc'[d] = pc[d]
  BY <1>1 DEF TypeOK
<1>. DEFINE a == <<c, <<calls[c], attempt[c]>>>>
<1>3. a \in AllAttempts
  <2>1. calls[c] \in 1..MaxCalls[c] /\ attempt[c] \in 1..Attempts[c]
    <3>1. calls[c] \in Nat /\ attempt[c] \in Nat /\ MaxCalls[c] \in Nat /\ Attempts[c] \in Nat
      BY ConstantAssumption DEF TypeOK
    <3>2. calls[c] >= 1 /\ attempt[c] >= 1
      BY <1>1 DEF CountOK, Idle
    <3>. QED  BY <3>1, <3>2 DEF TypeOK
  <2>2. a \in {c} \X ((1..MaxCalls[c]) \X (1..Attempts[c]))
    BY <2>1
  <2>. QED  BY <2>2 DEF AllAttempts
<1>4. a \notin Used
  <2>1. calls[c] \in Nat /\ attempt[c] \in Nat
    BY DEF TypeOK
  <2>. QED  BY <1>1, <2>1 DEF Used, Idle, Registering
<1>5. Used \cup {a} \subseteq Used'
  <2>1. a \in Used'
    BY <1>1, <1>2, <1>3 DEF Used, Registering
  <2>2. ASSUME NEW t \in Used  PROVE t \in Used'
    <3>1. t \in AllAttempts /\ t[1] \in Callers
      BY AttemptsAreTriples DEF Used
    <3>2. CASE t[1] = c
      BY <1>1, <1>2, <3>1, <3>2 DEF Used, Registering, Idle
    <3>3. CASE t[1] # c
      BY <1>1, <1>2, <3>1, <3>3 DEF Used, Registering
    <3>. QED  BY <3>2, <3>3
  <2>. QED  BY <2>1, <2>2
<1>. HIDE DEF a
<1>6. Used' \in SUBSET AllAttempts /\ IsFiniteSet(Used') /\ Cardinality(Used') <= MaxId
  BY AttemptsAreFinite, FS_Subset DEF Used, MaxId
<1>7. IsFiniteSet(Used \cup {a}) /\ IsFiniteSet(Used) /\ Cardinality(Used \cup {a}) <= Cardinality(Used')
  <2>1. IsFiniteSet(Used \cup {a}) /\ Cardinality(Used \cup {a}) <= Cardinality(Used')
    BY <1>5, <1>6, FS_Subset
  <2>. QED  BY <2>1, FS_Subset
<1>8. Cardinality(Used \cup {a}) = Cardinality(Used) + 1
  BY <1>4, <1>7, FS_AddElement
<1>9. requestID + 1 <= Cardinality(Used')
  <2>1. requestID \in Nat /\ requestID <= Cardinality(Used)
    BY AttemptsAreFinite DEF TypeOK, CountOK
  <2>2. Cardinality(Used) \in Nat /\ Cardinality(Used') \in Nat
    BY <1>6, <1>7, FS_CardinalityType
  <2>. QED  BY <1>7, <1>8, <2>1, <2>2
<1>10. requestID + 1 \in Ids
  <2>1. requestID \in Nat /\ Cardinality(Used') \in Nat /\ MaxId \in Nat
    BY <1>6, AttemptsAreFinite, FS_CardinalityType DEF TypeOK
  <2>. QED  BY <1>6, <1>9, <2>1, IdsArePositive
<1>11. \A d \in Callers : pc'[d] # Idle => calls'[d] >= 1 /\ attempt'[d] >= 1
  BY <1>1, <1>2 DEF CountOK, Idle
<1>. QED  BY <1>1, <1>9, <1>10, <1>11 DEF CountOK

(***************************************************************************)
(* The ids that are given, in every step.                                  *)
(***************************************************************************)
LEMMA KeepsCount ==
  ASSUME IInv, [Next]_vars
  PROVE  CountOK'
<1>1. LoopRead \/ LoopReadError \/ Deliver \/ LoopExit \/ Disconnect \/ DisconnectClose \/
     DisconnectJoin \/ ServerRead \/ ServerReadTorn \/ Execute \/ Reply \/ ServerClose \/
     Connect \/ CoolDown \/ UNCHANGED vars
        => UNCHANGED <<requestID, calls, attempt, pc>>
  BY DEF LoopRead, LoopReadError, Deliver, LoopExit, Disconnect, DisconnectClose, DisconnectJoin,
         ServerRead, ServerReadTorn, Execute, Reply, ServerClose, Connect, CoolDown, vars,
         NotifyAll, breakerVars, callerVars, serverVars, wireVars, loopVars, histVars, mapVars
<1>2. ASSUME UNCHANGED <<requestID, calls, attempt, pc>>  PROVE CountOK'
  BY <1>2 DEF IInv, CountOK, Used, Registering
<1>3. ASSUME NEW c \in Callers, Begin(c)  PROVE CountOK'
  BY <1>3, BeginKeepsCount DEF IInv
<1>4. ASSUME NEW c \in Callers, Allow(c)  PROVE CountOK'
  BY <1>4, StepKeepsCount DEF Allow, At, Goto, Registering, Idle, mapVars, callerVars, IInv
<1>5. ASSUME NEW c \in Callers, RecordSuccess(c)  PROVE CountOK'
  BY <1>5, StepKeepsCount DEF RecordSuccess, At, Goto, Registering, Idle, mapVars, callerVars, IInv
<1>6. ASSUME NEW c \in Callers, CheckRunning(c)  PROVE CountOK'
  BY <1>6, StepKeepsCount DEF CheckRunning, At, Goto, Registering, Idle, mapVars, callerVars, IInv
<1>7. ASSUME NEW c \in Callers, WriteLock(c)  PROVE CountOK'
  BY <1>7, StepKeepsCount DEF WriteLock, At, Goto, Registering, Idle, mapVars, callerVars, IInv
<1>8. ASSUME NEW c \in Callers, Write(c)  PROVE CountOK'
  BY <1>8, StepKeepsCount DEF Write, At, Goto, Registering, Idle, mapVars, callerVars, IInv
<1>9. ASSUME NEW c \in Callers, WriteFail(c)  PROVE CountOK'
  BY <1>9, StepKeepsCount DEF WriteFail, At, Goto, Registering, Idle, mapVars, callerVars, IInv,
       Conclude
<1>10. ASSUME NEW c \in Callers, TakeAnswer(c)  PROVE CountOK'
  BY <1>10, StepKeepsCount DEF TakeAnswer, At, Goto, Registering, Idle, mapVars, callerVars, IInv,
       Conclude
<1>11. ASSUME NEW c \in Callers, CallTimeout(c)  PROVE CountOK'
  BY <1>11, StepKeepsCount DEF CallTimeout, At, Goto, Registering, Idle, mapVars, callerVars, IInv,
       Conclude
<1>12. ASSUME NEW c \in Callers, RecordFailure(c)  PROVE CountOK'
  BY <1>12, FailureKeepsCount DEF IInv
<1>13. ASSUME NEW c \in Callers, Register(c)  PROVE CountOK'
  BY <1>13, RegisterKeepsCount DEF IInv
<1>. QED  BY <1>1, <1>2, <1>3, <1>4, <1>5, <1>6, <1>7, <1>8, <1>9, <1>10, <1>11, <1>12, <1>13
     DEF Next, CallStep, LoopStep, DisconnectStep, ServerStep

(***************************************************************************)
(* The holder of the mutex, in every step.                                 *)
(***************************************************************************)
LEMMA KeepsMutex ==
  ASSUME IInv, [Next]_vars
  PROVE  MutexOK'
<1>1. LoopRead \/ LoopReadError \/ Deliver \/ LoopExit \/ Disconnect \/ DisconnectClose \/
     DisconnectJoin \/ ServerRead \/ ServerReadTorn \/ Execute \/ Reply \/ ServerClose \/
     Connect \/ CoolDown \/ UNCHANGED vars
        => UNCHANGED <<mutex, pc>>
  BY DEF LoopRead, LoopReadError, Deliver, LoopExit, Disconnect, DisconnectClose, DisconnectJoin,
         ServerRead, ServerReadTorn, Execute, Reply, ServerClose, Connect, CoolDown, vars,
         NotifyAll, breakerVars, callerVars, serverVars, wireVars, loopVars, histVars, mapVars
<1>2. ASSUME UNCHANGED <<mutex, pc>>  PROVE MutexOK'
  BY <1>2 DEF IInv, MutexOK
<1>3. ASSUME NEW c \in Callers, Begin(c)  PROVE MutexOK'
  BY <1>3, ConstantAssumption DEF Begin, At, Goto, Unlocked, IInv, MutexOK, TypeOK, Idle
<1>4. ASSUME NEW c \in Callers, Allow(c)  PROVE MutexOK'
  BY <1>4, ConstantAssumption DEF Allow, At, Goto, Unlocked, IInv, MutexOK, TypeOK, Idle
<1>5. ASSUME NEW c \in Callers, RecordSuccess(c)  PROVE MutexOK'
  BY <1>5, ConstantAssumption DEF RecordSuccess, At, Goto, Unlocked, IInv, MutexOK, TypeOK, Idle
<1>6. ASSUME NEW c \in Callers, RecordFailure(c)  PROVE MutexOK'
  BY <1>6, ConstantAssumption DEF RecordFailure, At, Goto, Unlocked, IInv, MutexOK, TypeOK, Idle
<1>7. ASSUME NEW c \in Callers, CheckRunning(c)  PROVE MutexOK'
  BY <1>7, ConstantAssumption DEF CheckRunning, At, Goto, Unlocked, IInv, MutexOK, TypeOK
<1>8. ASSUME NEW c \in Callers, Register(c)  PROVE MutexOK'
  BY <1>8, ConstantAssumption DEF Register, At, Goto, Unlocked, IInv, MutexOK, TypeOK
<1>9. ASSUME NEW c \in Callers, WriteLock(c)  PROVE MutexOK'
  BY <1>9, ConstantAssumption DEF WriteLock, At, Goto, Unlocked, IInv, MutexOK, TypeOK
<1>10. ASSUME NEW c \in Callers, Write(c)  PROVE MutexOK'
  BY <1>10, ConstantAssumption DEF Write, At, Goto, Unlocked, IInv, MutexOK, TypeOK
<1>11. ASSUME NEW c \in Callers, WriteFail(c)  PROVE MutexOK'
  BY <1>11, ConstantAssumption DEF WriteFail, At, Goto, Unlocked, IInv, MutexOK, TypeOK, Conclude
<1>12. ASSUME NEW c \in Callers, TakeAnswer(c)  PROVE MutexOK'
  BY <1>12, ConstantAssumption DEF TakeAnswer, At, Goto, Unlocked, IInv, MutexOK, TypeOK, Conclude
<1>13. ASSUME NEW c \in Callers, CallTimeout(c)  PROVE MutexOK'
  BY <1>13, ConstantAssumption DEF CallTimeout, At, Goto, Unlocked, IInv, MutexOK, TypeOK, Conclude
<1>. QED  BY <1>1, <1>2, <1>3, <1>4, <1>5, <1>6, <1>7, <1>8, <1>9, <1>10, <1>11, <1>12, <1>13
     DEF Next, CallStep, LoopStep, DisconnectStep, ServerStep

(***************************************************************************)
(* What is not under way before the client has connected, in every step.   *)
(***************************************************************************)
LEMMA KeepsLoop ==
  ASSUME IInv, [Next]_vars
  PROVE  LoopOK'
<1>1. DisconnectClose \/ DisconnectJoin \/ CoolDown \/ UNCHANGED vars
        => UNCHANGED <<running, loop, handler, response, pc>>
  BY DEF DisconnectClose, DisconnectJoin, CoolDown, vars, breakerVars, callerVars, serverVars,
         wireVars, loopVars, histVars, mapVars
<1>2. ASSUME UNCHANGED <<running, loop, handler, response, pc>>  PROVE LoopOK'
  BY <1>2 DEF IInv, LoopOK
<1>3. ASSUME NEW c \in Callers, Begin(c)  PROVE LoopOK'
  BY <1>3 DEF Begin, At, Goto, IInv, LoopOK, TypeOK, callerVars, loopVars, serverVars, Idle
<1>4. ASSUME NEW c \in Callers, Allow(c)  PROVE LoopOK'
  BY <1>4 DEF Allow, At, Goto, IInv, LoopOK, TypeOK, callerVars, loopVars, serverVars, Idle
<1>5. ASSUME NEW c \in Callers, RecordSuccess(c)  PROVE LoopOK'
  BY <1>5 DEF RecordSuccess, At, Goto, IInv, LoopOK, TypeOK, callerVars, loopVars, serverVars, Idle
<1>6. ASSUME NEW c \in Callers, RecordFailure(c)  PROVE LoopOK'
  BY <1>6 DEF RecordFailure, At, Goto, IInv, LoopOK, TypeOK, callerVars, loopVars, serverVars, Idle
<1>7. ASSUME NEW c \in Callers, CheckRunning(c)  PROVE LoopOK'
  BY <1>7 DEF CheckRunning, At, Goto, IInv, LoopOK, TypeOK, callerVars, loopVars, serverVars
<1>8. ASSUME LoopReadError  PROVE LoopOK'
  BY <1>8 DEF LoopReadError, At, Goto, IInv, LoopOK, TypeOK, callerVars, loopVars, serverVars
<1>9. ASSUME Deliver  PROVE LoopOK'
  BY <1>9 DEF Deliver, At, Goto, IInv, LoopOK, TypeOK, callerVars, loopVars, serverVars
<1>10. ASSUME LoopExit  PROVE LoopOK'
  BY <1>10 DEF LoopExit, At, Goto, IInv, LoopOK, TypeOK, callerVars, loopVars, serverVars
<1>11. ASSUME Disconnect  PROVE LoopOK'
  BY <1>11 DEF Disconnect, At, Goto, IInv, LoopOK, TypeOK, callerVars, loopVars, serverVars
<1>12. ASSUME ServerRead  PROVE LoopOK'
  BY <1>12 DEF ServerRead, At, Goto, IInv, LoopOK, TypeOK, callerVars, loopVars, serverVars
<1>13. ASSUME ServerReadTorn  PROVE LoopOK'
  BY <1>13 DEF ServerReadTorn, At, Goto, IInv, LoopOK, TypeOK, callerVars, loopVars, serverVars
<1>14. ASSUME Execute  PROVE LoopOK'
  BY <1>14 DEF Execute, At, Goto, IInv, LoopOK, TypeOK, callerVars, loopVars, serverVars
<1>15. ASSUME Reply  PROVE LoopOK'
  BY <1>15 DEF Reply, At, Goto, IInv, LoopOK, TypeOK, callerVars, loopVars, serverVars
<1>16. ASSUME ServerClose  PROVE LoopOK'
  BY <1>16 DEF ServerClose, At, Goto, IInv, LoopOK, TypeOK, callerVars, loopVars, serverVars
<1>17. ASSUME Connect  PROVE LoopOK'
  BY <1>17 DEF Connect, At, Goto, IInv, LoopOK, TypeOK, callerVars, loopVars, serverVars
<1>18. ASSUME NEW c \in Callers, Register(c)  PROVE LoopOK'
  <2>1. pc[c] \in {"register", "lock", "write", "wait"} /\ UNCHANGED <<running, loop, handler, response>>
    BY <1>18 DEF Register, At, loopVars, serverVars
  <2>2. loop # "off"
    BY <2>1 DEF IInv, LoopOK, Idle
  <2>. QED  BY <2>1, <2>2 DEF IInv, LoopOK
<1>19. ASSUME NEW c \in Callers, WriteLock(c)  PROVE LoopOK'
  <2>1. pc[c] \in {"register", "lock", "write", "wait"} /\ UNCHANGED <<running, loop, handler, response>>
    BY <1>19 DEF WriteLock, At, loopVars, serverVars
  <2>2. loop # "off"
    BY <2>1 DEF IInv, LoopOK, Idle
  <2>. QED  BY <2>1, <2>2 DEF IInv, LoopOK
<1>20. ASSUME NEW c \in Callers, Write(c)  PROVE LoopOK'
  <2>1. pc[c] \in {"register", "lock", "write", "wait"} /\ UNCHANGED <<running, loop, handler, response>>
    BY <1>20 DEF Write, At, loopVars, serverVars
  <2>2. loop # "off"
    BY <2>1 DEF IInv, LoopOK, Idle
  <2>. QED  BY <2>1, <2>2 DEF IInv, LoopOK
<1>21. ASSUME NEW c \in Callers, WriteFail(c)  PROVE LoopOK'
  <2>1. pc[c] \in {"register", "lock", "write", "wait"} /\ UNCHANGED <<running, loop, handler, response>>
    BY <1>21 DEF WriteFail, At, loopVars, serverVars
  <2>2. loop # "off"
    BY <2>1 DEF IInv, LoopOK, Idle
  <2>. QED  BY <2>1, <2>2 DEF IInv, LoopOK
<1>22. ASSUME NEW c \in Callers, TakeAnswer(c)  PROVE LoopOK'
  <2>1. pc[c] \in {"register", "lock", "write", "wait"} /\ UNCHANGED <<running, loop, handler, response>>
    BY <1>22 DEF TakeAnswer, At, loopVars, serverVars
  <2>2. loop # "off"
    BY <2>1 DEF IInv, LoopOK, Idle
  <2>. QED  BY <2>1, <2>2 DEF IInv, LoopOK
<1>23. ASSUME NEW c \in Callers, CallTimeout(c)  PROVE LoopOK'
  <2>1. pc[c] \in {"register", "lock", "write", "wait"} /\ UNCHANGED <<running, loop, handler, response>>
    BY <1>23 DEF CallTimeout, At, loopVars, serverVars
  <2>2. loop # "off"
    BY <2>1 DEF IInv, LoopOK, Idle
  <2>. QED  BY <2>1, <2>2 DEF IInv, LoopOK
<1>24. ASSUME LoopRead  PROVE LoopOK'
  <2>1. toClient # <<>> /\ response' = Head(toClient) /\ toClient \in Seq(Responses) /\ loop' = "deliver"
    BY <1>24 DEF LoopRead, IInv, TypeOK
  <2>2. response' \in Responses
    BY <2>1, HeadTailProperties
  <2>. QED  BY <1>24, <2>1, <2>2 DEF LoopOK, IInv, LoopRead
<1>. QED  BY <1>1, <1>2, <1>3, <1>4, <1>5, <1>6, <1>7, <1>8, <1>9, <1>10, <1>11, <1>12, <1>13,
             <1>14, <1>15, <1>16, <1>17, <1>18, <1>19, <1>20, <1>21, <1>22, <1>23, <1>24
     DEF Next, CallStep, LoopStep, DisconnectStep, ServerStep

(***************************************************************************)
(* The breaker's count, in every step.                                     *)
(***************************************************************************)
LEMMA KeepsBreaker ==
  ASSUME IInv, [Next]_vars
  PROVE  BreakerCounts'
<1>1. \A c \in Callers :
        Begin(c) \/ CheckRunning(c) \/ Register(c) \/ WriteLock(c) \/
        Write(c) \/ WriteFail(c) \/ TakeAnswer(c) \/ CallTimeout(c)
        => UNCHANGED <<breaker, failures>>
  BY DEF Begin, CheckRunning, Register, WriteLock, Write, WriteFail, TakeAnswer, CallTimeout,
         Conclude, breakerVars, callerVars, serverVars, wireVars, loopVars, histVars, mapVars
<1>2. LoopRead \/ LoopReadError \/ Deliver \/ LoopExit \/ Disconnect \/ DisconnectClose \/
     DisconnectJoin \/ ServerRead \/ ServerReadTorn \/ Execute \/ Reply \/ ServerClose \/
     Connect \/ CoolDown \/ UNCHANGED vars
        => UNCHANGED <<breaker, failures>>
  BY DEF LoopRead, LoopReadError, Deliver, LoopExit, Disconnect, DisconnectClose, DisconnectJoin,
         ServerRead, ServerReadTorn, Execute, Reply, ServerClose, Connect, CoolDown, vars,
         NotifyAll, breakerVars, callerVars, serverVars, wireVars, loopVars, histVars, mapVars
<1>3. ASSUME UNCHANGED <<breaker, failures>>  PROVE BreakerCounts'
  BY <1>3 DEF IInv, BreakerCounts
<1>4. ASSUME NEW c \in Callers, Allow(c)  PROVE BreakerCounts'
  BY <1>4, ConstantAssumption DEF Allow, IInv, TypeOK, BreakerCounts
<1>5. ASSUME NEW c \in Callers, RecordSuccess(c)  PROVE BreakerCounts'
  BY <1>5, ConstantAssumption DEF RecordSuccess, IInv, TypeOK, BreakerCounts
<1>6. ASSUME NEW c \in Callers, RecordFailure(c)  PROVE BreakerCounts'
  BY <1>6, ConstantAssumption DEF RecordFailure, IInv, TypeOK, BreakerCounts
<1>. QED  BY <1>1, <1>2, <1>3, <1>4, <1>5, <1>6
     DEF Next, CallStep, LoopStep, DisconnectStep, ServerStep

(***************************************************************************)
(* A call under way has an id that is an id.                               *)
(***************************************************************************)
LEMMA InFlightHasId ==
  ASSUME TypeOK, FreshOK, NEW c \in Callers, InFlight(c)
  PROVE  id[c] \in Ids
<1>1. id[c] \in 0..MaxId /\ id[c] # 0
  BY DEF TypeOK, FreshOK
<1>. QED  BY <1>1, IdsArePositive, AttemptsAreFinite

(***************************************************************************)
(* A call ends: nobody else has its id.                                    *)
(***************************************************************************)
LEMMA ConcludeKeepsBook ==
  ASSUME TypeOK, FreshOK, CallsOK, NEW c \in Callers, NEW told, Conclude(c, told), InFlight(c),
         UNCHANGED <<running, id, requestID, sent>>,
         \A d \in Callers \ {c} : slot'[d] = slot[d]
  PROVE  CallsOK' /\ FreshOK'
<1>. DEFINE i == id[c]
<1>1. i \in Ids
  BY InFlightHasId
<1>2. /\ ~InFlight(c)' /\ ~(pc'[c] \in {"lock", "write"})
      /\ \A d \in Callers \ {c} : pc'[d] = pc[d] /\ InFlight(d)' = InFlight(d)
  BY DEF Conclude, Goto, TypeOK, InFlight
<1>3. /\ callbacks'[i] = Nobody /\ outcome'[i] = told
      /\ \A j \in Ids \ {i} : callbacks'[j] = callbacks[j] /\ outcome'[j] = outcome[j]
  BY <1>1 DEF Conclude, TypeOK
<1>4. \A d \in Callers \ {c} : InFlight(d) => id[d] \in Ids \ {i}
  BY <1>1, InFlightHasId DEF FreshOK
<1>5. i <= requestID
  BY DEF FreshOK
<1>6. CallsOK'
  <2>1. ASSUME NEW j \in Ids, callbacks'[j] # Nobody
        PROVE  (InFlight(callbacks[j]) /\ id[callbacks[j]] = j)'
    <3>1. j # i /\ callbacks'[j] = callbacks[j]
      BY <1>3, <2>1
    <3>2. InFlight(callbacks[j]) /\ id[callbacks[j]] = j /\ callbacks[j] \in Callers
      BY <2>1, <3>1 DEF CallsOK, TypeOK
    <3>3. callbacks[j] # c
      BY <3>1, <3>2
    <3>. QED  BY <1>2, <3>1, <3>2, <3>3 DEF InFlight
  <2>2. ASSUME NEW d \in Callers, running', InFlight(d)'  PROVE callbacks'[id'[d]] = d \/ slot'[d] # Empty
    <3>1. d # c /\ InFlight(d)
      BY <1>2, <2>2
    <3>2. callbacks[id[d]] = d \/ slot[d] # Empty
      BY <2>2, <3>1 DEF CallsOK
    <3>. QED  BY <1>3, <1>4, <3>1, <3>2
  <2>. QED  BY <2>1, <2>2 DEF CallsOK
<1>7. FreshOK'
  <2>1. \A d \in Callers : InFlight(d)' => id'[d] # 0 /\ outcome'[id'[d]] = Unknown
    BY <1>2, <1>3, <1>4 DEF FreshOK
  <2>2. \A j \in Ids : j > requestID' => outcome'[j] = Unknown /\ callbacks'[j] = Nobody
    <3>1. requestID \in Int /\ i \in Int
      BY <1>1, IdsArePositive, AttemptsAreFinite DEF TypeOK
    <3>2. \A j \in Ids : j > requestID => j # i
      BY <1>5, <3>1, IdsArePositive
    <3>. QED  BY <1>3, <3>2 DEF FreshOK
  <2>3. \A d \in Callers : pc'[d] \in {"lock", "write"} => \A k \in 1..Len(sent') : sent'[k] # id'[d]
    BY <1>2 DEF FreshOK
  <2>. QED  BY <2>1, <2>2, <2>3 DEF FreshOK
<1>. QED  BY <1>6, <1>7

(***************************************************************************)
(* A call takes an id that nobody has had.                                 *)
(***************************************************************************)
LEMMA RegisterKeepsBook ==
  ASSUME TypeOK, CountOK, FreshOK, CallsOK, NEW c \in Callers, Register(c)
  PROVE  CallsOK' /\ FreshOK'
<1>. DEFINE i == requestID + 1
<1>1. i \in Ids /\ requestID \in Nat
  BY RegisterKeepsCount, AttemptsAreFinite DEF TypeOK
<1>2. /\ requestID' = i /\ id' = [id EXCEPT ![c] = i] /\ callbacks' = [callbacks EXCEPT ![i] = c]
      /\ slot' = [slot EXCEPT ![c] = Empty] /\ pc' = [pc EXCEPT ![c] = "lock"]
      /\ UNCHANGED <<running, sent, outcome>> /\ pc[c] = "register"
  BY DEF Register, At, Goto, histVars
<1>. HIDE DEF i
<1>3. /\ id'[c] = i /\ pc'[c] = "lock" /\ InFlight(c)' /\ ~InFlight(c)
      /\ \A d \in Callers \ {c} : /\ id'[d] = id[d] /\ pc'[d] = pc[d] /\ slot'[d] = slot[d]
                                  /\ InFlight(d)' = InFlight(d)
  BY <1>2 DEF TypeOK, InFlight
<1>4. callbacks'[i] = c /\ \A j \in Ids \ {i} : callbacks'[j] = callbacks[j]
  BY <1>1, <1>2 DEF TypeOK
<1>5. /\ \A d \in Callers : id[d] # i /\ id[d] \in Nat /\ id[d] <= i
      /\ \A k \in 1..Len(sent) : sent[k] # i /\ sent[k] <= i
  <2>1. \A d \in Callers : id[d] \in Nat
    BY AttemptsAreFinite DEF TypeOK
  <2>2. \A k \in 1..Len(sent) : sent[k] \in Nat
    BY ElementOfSeq, IdsArePositive DEF TypeOK
  <2>. QED  BY <1>1, <2>1, <2>2 DEF FreshOK, i
<1>6. CallsOK'
  <2>1. ASSUME NEW j \in Ids, callbacks'[j] # Nobody
        PROVE  (InFlight(callbacks[j]) /\ id[callbacks[j]] = j)'
    <3>1. CASE j = i
      BY <1>3, <1>4, <3>1 DEF InFlight
    <3>2. CASE j # i
      <4>1. callbacks'[j] = callbacks[j] /\ callbacks[j] \in Callers
        BY <1>4, <2>1, <3>2 DEF TypeOK
      <4>2. InFlight(callbacks[j]) /\ id[callbacks[j]] = j
        BY <2>1, <4>1 DEF CallsOK
      <4>3. callbacks[j] # c
        BY <1>3, <4>2
      <4>. QED  BY <1>3, <4>1, <4>2, <4>3 DEF InFlight
    <3>. QED  BY <3>1, <3>2
  <2>2. ASSUME NEW d \in Callers, running', InFlight(d)'  PROVE callbacks'[id'[d]] = d \/ slot'[d] # Empty
    <3>1. CASE d = c
      BY <1>3, <1>4, <3>1
    <3>2. CASE d # c
      <4>1. InFlight(d) /\ id'[d] = id[d] /\ slot'[d] = slot[d]
        BY <1>3, <2>2, <3>2
      <4>2. callbacks[id[d]] = d \/ slot[d] # Empty
        BY <1>2, <2>2, <4>1 DEF CallsOK
      <4>3. id[d] \in Ids \ {i}
        BY <1>5, <4>1, InFlightHasId
      <4>. QED  BY <1>4, <4>1, <4>2, <4>3
    <3>. QED  BY <3>1, <3>2
  <2>. QED  BY <2>1, <2>2 DEF CallsOK
<1>7. FreshOK'
  <2>1. \A d \in Callers : id'[d] <= requestID'
    BY <1>1, <1>2, <1>3, <1>5, IdsArePositive
  <2>2. \A d, e \in Callers : id'[d] = id'[e] /\ id'[d] # 0 => d = e
    BY <1>3, <1>5 DEF FreshOK
  <2>3. \A d \in Callers : InFlight(d)' => id'[d] # 0 /\ outcome'[id'[d]] = Unknown
    <3>1. i # 0 /\ outcome[i] = Unknown
      BY <1>1, IdsArePositive DEF FreshOK, i
    <3>. QED  BY <1>2, <1>3, <3>1 DEF FreshOK
  <2>4. \A j \in Ids : j > requestID' => outcome'[j] = Unknown /\ callbacks'[j] = Nobody
    <3>1. \A j \in Ids : j > i => j > requestID /\ j # i
      BY <1>1, IdsArePositive DEF i
    <3>. QED  BY <1>2, <1>4, <3>1 DEF FreshOK
  <2>5. \A k \in 1..Len(sent') : sent'[k] <= requestID'
    BY <1>2, <1>5
  <2>6. \A d \in Callers : pc'[d] \in {"lock", "write"} => \A k \in 1..Len(sent') : sent'[k] # id'[d]
    BY <1>2, <1>3, <1>5 DEF FreshOK
  <2>. QED  BY <2>1, <2>2, <2>3, <2>4, <2>5, <2>6 DEF FreshOK
<1>. QED  BY <1>6, <1>7

(***************************************************************************)
(* Steps of a caller that has no request under way, before and after.      *)
(***************************************************************************)
LEMMA IdleKeepsBook ==
  ASSUME TypeOK, FreshOK, CallsOK, NEW c \in Callers, NEW l,
         pc' = [pc EXCEPT ![c] = l], InFlight(c) <=> l \in {"lock", "write", "wait"},
         l \in {"lock", "write"} => pc[c] \in {"lock", "write"},
         UNCHANGED <<running, id, requestID, sent, outcome, callbacks, slot>>
  PROVE  CallsOK' /\ FreshOK'
<1>1. pc'[c] = l /\ \A d \in Callers \ {c} : pc'[d] = pc[d]
  BY DEF TypeOK
<1>2. \A d \in Callers : InFlight(d)' = InFlight(d)
  BY <1>1 DEF InFlight
<1>3. \A d \in Callers : pc'[d] \in {"lock", "write"} => pc[d] \in {"lock", "write"}
  BY <1>1
<1>4. CallsOK'
  BY <1>2 DEF CallsOK, TypeOK
<1>5. FreshOK'
  BY <1>2, <1>3 DEF FreshOK
<1>. QED  BY <1>4, <1>5

(***************************************************************************)
(* A request is written: its id was not on the wire before.                *)
(***************************************************************************)
LEMMA WriteKeepsBook ==
  ASSUME TypeOK, FreshOK, CallsOK, MutexOK, NEW c \in Callers, Write(c)
  PROVE  CallsOK' /\ FreshOK'
<1>1. /\ pc[c] = "write" /\ pc' = [pc EXCEPT ![c] = "wait"] /\ sent' = Append(sent, id[c])
      /\ UNCHANGED <<running, id, requestID, outcome, callbacks, slot>>
  BY DEF Write, At, Goto, mapVars
<1>2. pc'[c] = "wait" /\ \A d \in Callers \ {c} : pc'[d] = pc[d]
  BY <1>1 DEF TypeOK
<1>3. \A d \in Callers : InFlight(d)' = InFlight(d)
  BY <1>1, <1>2 DEF InFlight
<1>4. id[c] \in Ids /\ sent \in Seq(Ids)
  BY <1>1, InFlightHasId DEF InFlight, TypeOK
<1>5. \A k \in 1..Len(sent') : (k \in 1..Len(sent) /\ sent'[k] = sent[k]) \/ sent'[k] = id[c]
  BY <1>1, <1>4, AppendProperties
<1>6. CallsOK'
  BY <1>1, <1>3 DEF CallsOK, TypeOK
<1>7. FreshOK'
  <2>1. \A d \in Callers : pc'[d] \in {"lock", "write"} => d # c /\ pc[d] \in {"lock", "write"} /\ id[d] # id[c]
    <3>. SUFFICES ASSUME NEW d \in Callers, pc'[d] \in {"lock", "write"}
                  PROVE  d # c /\ pc[d] \in {"lock", "write"} /\ id[d] # id[c]
      OBVIOUS
    <3>1. d # c /\ pc[d] \in {"lock", "write"}
      BY <1>2
    <3>2. id[c] # 0
      BY <1>4, IdsArePositive
    <3>. QED  BY <3>1, <3>2 DEF FreshOK
  <2>2. \A d \in Callers : pc'[d] \in {"lock", "write"} => \A k \in 1..Len(sent') : sent'[k] # id'[d]
    BY <1>1, <1>5, <2>1 DEF FreshOK
  <2>3. \A k \in 1..Len(sent') : sent'[k] <= requestID'
    BY <1>1, <1>5 DEF FreshOK
  <2>4. \A d \in Callers : InFlight(d)' => id'[d] # 0 /\ outcome'[id'[d]] = Unknown
    BY <1>1, <1>3 DEF FreshOK
  <2>. QED  BY <1>1, <2>2, <2>3, <2>4 DEF FreshOK
<1>. QED  BY <1>6, <1>7

(***************************************************************************)
(* The callbacks are all told that the connection is lost.                 *)
(***************************************************************************)
LEMMA NotifyKeepsBook ==
  ASSUME TypeOK, FreshOK, CallsOK, NotifyAll, ~running',
         UNCHANGED <<pc, id, requestID, sent, outcome>>
  PROVE  CallsOK' /\ FreshOK'
<1>1. \A i \in Ids : callbacks'[i] = Nobody
  BY DEF NotifyAll
<1>2. CallsOK'
  BY <1>1 DEF CallsOK
<1>3. FreshOK'
  BY <1>1 DEF FreshOK, InFlight
<1>. QED  BY <1>2, <1>3

(***************************************************************************)
(* The client's book of its calls, in every step.                          *)
(***************************************************************************)
LEMMA KeepsBook ==
  ASSUME IInv, [Next]_vars
  PROVE  CallsOK' /\ FreshOK'
<1>1. LoopRead \/ LoopReadError \/ DisconnectClose \/ DisconnectJoin \/ ServerRead \/
     ServerReadTorn \/ Execute \/ Reply \/ ServerClose \/ CoolDown \/ UNCHANGED vars
        => UNCHANGED <<callbacks, pc, id, running, slot, requestID, outcome, sent>>
  BY DEF LoopRead, LoopReadError, DisconnectClose, DisconnectJoin, ServerRead, ServerReadTorn,
         Execute, Reply, ServerClose, CoolDown, vars, breakerVars, callerVars, serverVars,
         wireVars, loopVars, histVars, mapVars
<1>2. ASSUME UNCHANGED <<callbacks, pc, id, running, slot, requestID, outcome, sent>>  PROVE CallsOK' /\ FreshOK'
  BY <1>2 DEF IInv, CallsOK, FreshOK, InFlight
<1>3. ASSUME NEW c \in Callers, Begin(c)  PROVE CallsOK' /\ FreshOK'
  <2>1. UNCHANGED <<running, id, requestID, sent, outcome, callbacks, slot>>
    BY <1>3 DEF Begin, mapVars, histVars
  <2>2. PICK l \in CallPC : /\ pc' = [pc EXCEPT ![c] = l]
                            /\ pc[c] \in {"lock", "write", "wait"} <=> l \in {"lock", "write", "wait"}
                            /\ l \in {"lock", "write"} => pc[c] \in {"lock", "write"}
    BY <1>3 DEF Begin, At, Goto, Idle, CallPC
  <2>3. InFlight(c) <=> l \in {"lock", "write", "wait"}
    BY <2>2 DEF InFlight
  <2>. QED  BY <2>1, <2>2, <2>3, IdleKeepsBook DEF IInv
<1>4. ASSUME NEW c \in Callers, Allow(c)  PROVE CallsOK' /\ FreshOK'
  <2>1. UNCHANGED <<running, id, requestID, sent, outcome, callbacks, slot>>
    BY <1>4 DEF Allow, mapVars, histVars
  <2>2. PICK l \in CallPC : /\ pc' = [pc EXCEPT ![c] = l]
                            /\ pc[c] \in {"lock", "write", "wait"} <=> l \in {"lock", "write", "wait"}
                            /\ l \in {"lock", "write"} => pc[c] \in {"lock", "write"}
    BY <1>4 DEF Allow, At, Goto, Idle, CallPC
  <2>3. InFlight(c) <=> l \in {"lock", "write", "wait"}
    BY <2>2 DEF InFlight
  <2>. QED  BY <2>1, <2>2, <2>3, IdleKeepsBook DEF IInv
<1>5. ASSUME NEW c \in Callers, RecordSuccess(c)  PROVE CallsOK' /\ FreshOK'
  <2>1. UNCHANGED <<running, id, requestID, sent, outcome, callbacks, slot>>
    BY <1>5 DEF RecordSuccess, mapVars, histVars
  <2>2. PICK l \in CallPC : /\ pc' = [pc EXCEPT ![c] = l]
                            /\ pc[c] \in {"lock", "write", "wait"} <=> l \in {"lock", "write", "wait"}
                            /\ l \in {"lock", "write"} => pc[c] \in {"lock", "write"}
    BY <1>5 DEF RecordSuccess, At, Goto, Idle, CallPC
  <2>3. InFlight(c) <=> l \in {"lock", "write", "wait"}
    BY <2>2 DEF InFlight
  <2>. QED  BY <2>1, <2>2, <2>3, IdleKeepsBook DEF IInv
<1>6. ASSUME NEW c \in Callers, RecordFailure(c)  PROVE CallsOK' /\ FreshOK'
  <2>1. UNCHANGED <<running, id, requestID, sent, outcome, callbacks, slot>>
    BY <1>6 DEF RecordFailure, mapVars, histVars
  <2>2. PICK l \in CallPC : /\ pc' = [pc EXCEPT ![c] = l]
                            /\ pc[c] \in {"lock", "write", "wait"} <=> l \in {"lock", "write", "wait"}
                            /\ l \in {"lock", "write"} => pc[c] \in {"lock", "write"}
    BY <1>6 DEF RecordFailure, At, Goto, Idle, CallPC
  <2>3. InFlight(c) <=> l \in {"lock", "write", "wait"}
    BY <2>2 DEF InFlight
  <2>. QED  BY <2>1, <2>2, <2>3, IdleKeepsBook DEF IInv
<1>7. ASSUME NEW c \in Callers, CheckRunning(c)  PROVE CallsOK' /\ FreshOK'
  <2>1. UNCHANGED <<running, id, requestID, sent, outcome, callbacks, slot>>
    BY <1>7 DEF CheckRunning, mapVars, histVars
  <2>2. PICK l \in CallPC : /\ pc' = [pc EXCEPT ![c] = l]
                            /\ pc[c] \in {"lock", "write", "wait"} <=> l \in {"lock", "write", "wait"}
                            /\ l \in {"lock", "write"} => pc[c] \in {"lock", "write"}
    BY <1>7 DEF CheckRunning, At, Goto, Idle, CallPC
  <2>3. InFlight(c) <=> l \in {"lock", "write", "wait"}
    BY <2>2 DEF InFlight
  <2>. QED  BY <2>1, <2>2, <2>3, IdleKeepsBook DEF IInv
<1>8. ASSUME NEW c \in Callers, WriteLock(c)  PROVE CallsOK' /\ FreshOK'
  <2>1. UNCHANGED <<running, id, requestID, sent, outcome, callbacks, slot>>
    BY <1>8 DEF WriteLock, mapVars, histVars
  <2>2. PICK l \in CallPC : /\ pc' = [pc EXCEPT ![c] = l]
                            /\ pc[c] \in {"lock", "write", "wait"} <=> l \in {"lock", "write", "wait"}
                            /\ l \in {"lock", "write"} => pc[c] \in {"lock", "write"}
    BY <1>8 DEF WriteLock, At, Goto, Idle, CallPC
  <2>3. InFlight(c) <=> l \in {"lock", "write", "wait"}
    BY <2>2 DEF InFlight
  <2>. QED  BY <2>1, <2>2, <2>3, IdleKeepsBook DEF IInv
<1>9. ASSUME NEW c \in Callers, Register(c)  PROVE CallsOK' /\ FreshOK'
  BY <1>9, RegisterKeepsBook DEF IInv
<1>10. ASSUME NEW c \in Callers, Write(c)  PROVE CallsOK' /\ FreshOK'
  BY <1>10, WriteKeepsBook DEF IInv
<1>11. ASSUME NEW c \in Callers, WriteFail(c)  PROVE CallsOK' /\ FreshOK'
  BY <1>11, ConcludeKeepsBook DEF WriteFail, At, InFlight, IInv
<1>12. ASSUME NEW c \in Callers, TakeAnswer(c)  PROVE CallsOK' /\ FreshOK'
  <2>1. UNCHANGED <<running, id, requestID, sent>> /\ Conclude(c, slot[c][2]) /\ InFlight(c)
    BY <1>12 DEF TakeAnswer, At, InFlight
  <2>2. \A d \in Callers \ {c} : slot'[d] = slot[d]
    BY <1>12 DEF TakeAnswer, IInv, TypeOK
  <2>. QED  BY <2>1, <2>2, ConcludeKeepsBook DEF IInv
<1>13. ASSUME NEW c \in Callers, CallTimeout(c)  PROVE CallsOK' /\ FreshOK'
  BY <1>13, ConcludeKeepsBook DEF CallTimeout, At, InFlight, IInv
<1>14. ASSUME Deliver  PROVE CallsOK' /\ FreshOK'
  <2>1. UNCHANGED <<running, callbacks, pc, id, requestID, outcome, sent>>
    BY <1>14 DEF Deliver, callerVars, histVars
  <2>2. response # Empty
    <3>1. response \in Responses
      BY <1>14 DEF Deliver, IInv, LoopOK
    <3>. QED  BY <3>1 DEF Responses, Empty
  <2>3. \A c \in Callers : slot[c] # Empty => slot'[c] # Empty
    BY <1>14, <2>2 DEF Deliver
  <2>. QED  BY <2>1, <2>3 DEF IInv, CallsOK, FreshOK, InFlight
<1>15. ASSUME LoopExit  PROVE CallsOK' /\ FreshOK'
  <2>1. UNCHANGED <<pc, id, requestID, sent, outcome>>
    BY <1>15 DEF LoopExit, callerVars, histVars
  <2>2. CASE running
    BY <1>15, <2>1, <2>2, NotifyKeepsBook DEF LoopExit, IInv
  <2>3. CASE ~running
    <3>1. UNCHANGED <<running, callbacks, slot>>
      BY <1>15, <2>3 DEF LoopExit
    <3>. QED  BY <2>1, <3>1 DEF IInv, CallsOK, FreshOK, InFlight
  <2>. QED  BY <2>2, <2>3
<1>16. ASSUME Disconnect  PROVE CallsOK' /\ FreshOK'
  <2>1. UNCHANGED <<pc, id, requestID, sent, outcome>>
    BY <1>16 DEF Disconnect, callerVars, histVars
  <2>2. CASE running
    BY <1>16, <2>1, <2>2, NotifyKeepsBook DEF Disconnect, IInv
  <2>3. CASE ~running
    <3>1. UNCHANGED <<running, callbacks, slot>>
      BY <1>16, <2>3 DEF Disconnect
    <3>. QED  BY <2>1, <3>1 DEF IInv, CallsOK, FreshOK, InFlight
  <2>. QED  BY <2>2, <2>3
<1>17. ASSUME Connect  PROVE CallsOK' /\ FreshOK'
  <2>1. UNCHANGED <<callbacks, slot, pc, id, requestID, outcome, sent>> /\ loop = "off"
    BY <1>17 DEF Connect, callerVars, histVars, mapVars
  <2>2. \A c \in Callers : ~InFlight(c)
    BY <2>1 DEF IInv, LoopOK, InFlight, Idle
  <2>. QED  BY <2>1, <2>2 DEF IInv, CallsOK, FreshOK, InFlight
<1>. QED  BY <1>1, <1>2, <1>3, <1>4, <1>5, <1>6, <1>7, <1>8, <1>9, <1>10, <1>11, <1>12, <1>13,
             <1>14, <1>15, <1>16, <1>17
     DEF Next, CallStep, LoopStep, DisconnectStep, ServerStep

(* The types in three parts: what the library keeps for all callers, what   *)
(* each caller keeps, and the connection with both its ends.               *)
ClientTypes ==
  /\ running \in BOOLEAN /\ mutex \in Callers \cup {Nobody}
  /\ requestID \in 0..MaxId
  /\ callbacks \in [Ids -> Callers \cup {Nobody}]
  /\ slot \in [Callers -> {Empty, NilResponse} \cup Responses]
  /\ breaker \in {"closed", "open", "half_open"} /\ failures \in Nat /\ cooled \in BOOLEAN

CallerTypes ==
  /\ pc \in [Callers -> CallPC]
  /\ calls \in [Callers -> Nat] /\ attempt \in [Callers -> Nat]
  /\ \A c \in Callers : calls[c] <= MaxCalls[c] /\ attempt[c] <= Attempts[c]
  /\ id \in [Callers -> 0..MaxId]

WireTypes ==
  /\ loop \in {"off", "read", "deliver", "exit", "done"}
  /\ response \in Responses \cup {<<>>}
  /\ disconnect \in {Idle, "close", "join", "done"}
  /\ toServer \in Seq(Ids \cup {Torn}) /\ toClient \in Seq(Responses)
  /\ open \in BOOLEAN
  /\ handler \in {"none", "read", "call", "reply_ok", "reply_error", "closed"}
  /\ current \in Ids \cup {Torn}
  /\ sent \in Seq(Ids) /\ verdicts \in Seq(Ids \X Results)
  /\ outcome \in [Ids -> Results \cup {Unknown, Lost}]

(* The three parts are the types, and each reads only its own variables.   *)
LEMMA TypeParts ==
  /\ TypeOK <=> ClientTypes /\ CallerTypes /\ WireTypes
  /\ TypeOK' <=> ClientTypes' /\ CallerTypes' /\ WireTypes'
  BY Zenon DEF TypeOK, ClientTypes, CallerTypes, WireTypes

LEMMA ClientTypesStay ==
  ASSUME ClientTypes, UNCHANGED <<running, mutex, mapVars, breakerVars>>
  PROVE  ClientTypes'
<1>1. UNCHANGED <<running, mutex, requestID, callbacks, slot, breaker, failures, cooled>>
  BY DEF mapVars, breakerVars
<1>. QED  BY <1>1, Zenon DEF ClientTypes

LEMMA CallerTypesStay ==
  ASSUME CallerTypes, UNCHANGED callerVars
  PROVE  CallerTypes'
<1>1. UNCHANGED <<pc, calls, attempt, id>>
  BY DEF callerVars
<1>. QED  BY <1>1, Zenon DEF CallerTypes

LEMMA WireTypesStay ==
  ASSUME WireTypes, UNCHANGED <<loopVars, disconnect, wireVars, open, serverVars, histVars>>
  PROVE  WireTypes'
<1>1. UNCHANGED <<loop, response, disconnect, toServer, toClient, open, handler, current, sent,
                  verdicts, outcome>>
  BY DEF loopVars, wireVars, serverVars, histVars
<1>. QED  BY <1>1, Zenon DEF WireTypes

(***************************************************************************)
(* What a torn frame leaves of the stream: the frames from some place on,  *)
(* and perhaps a torn one before them.                                     *)
(***************************************************************************)
LEMMA SwallowedFrames ==
  ASSUME toServer \in Seq(Ids \cup {Torn}), ServerReadTorn
  PROVE  /\ toServer' \in Seq(Ids \cup {Torn})
         /\ \E d \in Nat : \A k \in 1..Len(toServer') :
              \/ toServer'[k] = Torn
              \/ k + d \in 1..Len(toServer) /\ toServer'[k] = toServer[k + d]
<1>. DEFINE n == Len(toServer)
            F == Ids \cup {Torn}
            Rest(l) == SubSeq(toServer, l + 1, n)
<1>1. n \in Nat
  BY LenProperties
<1>2. PICK last \in 2..n : toServer' \in {Rest(last), <<Torn>> \o Rest(last)}
  BY DEF ServerReadTorn
<1>3. last \in Nat /\ last <= n
  BY <1>1, <1>2
<1>4. /\ Rest(last) \in Seq(F) /\ Len(Rest(last)) = n - last
      /\ \A k \in 1..(n - last) : Rest(last)[k] = toServer[k + last]
  <2>1. \A i \in (last + 1)..n : toServer[i] \in F
    <3>1. \A i \in 1..n : toServer[i] \in F
      BY ElementOfSeq
    <3>. QED  BY <1>1, <1>3, <3>1
  <2>2. last + 1 \in 1..(n + 1) /\ n \in (last + 1 - 1)..n
    BY <1>1, <1>2, <1>3
  <2>3. Rest(last) \in Seq(F)
    BY <1>1, <1>3, <2>1, <2>2, SubSeqProperties
  <2>4. Len(Rest(last)) = (IF last + 1 <= n THEN n - (last + 1) + 1 ELSE 0)
    BY <1>1, <1>3, <2>1, <2>2, SubSeqProperties
  <2>5. Len(Rest(last)) = n - last
    BY <1>1, <1>3, <2>4
  <2>6. \A i \in 1..(n - (last + 1) + 1) : Rest(last)[i] = toServer[last + 1 + i - 1]
    BY <1>1, <1>3, <2>1, <2>2, SubSeqProperties
  <2>7. ASSUME NEW k \in 1..(n - last)  PROVE Rest(last)[k] = toServer[k + last]
    <3>1. k \in 1..(n - (last + 1) + 1) /\ last + 1 + k - 1 = k + last
      BY <1>1, <1>3
    <3>. QED  BY <2>6, <3>1
  <2>. QED  BY <2>3, <2>5, <2>7
<1>5. \A k \in 1..(n - last) : k + last \in 1..n
  BY <1>1, <1>3
<1>. HIDE DEF n, F, Rest
<1>6. CASE toServer' = Rest(last)
  <2>1. \A k \in 1..Len(toServer') : k + last \in 1..n /\ toServer'[k] = toServer[k + last]
    BY <1>4, <1>5, <1>6
  <2>. QED  BY <1>3, <1>4, <1>6, <2>1 DEF n, F
<1>7. CASE toServer' = <<Torn>> \o Rest(last)
  <2>1. <<Torn>> \in Seq(F) /\ Len(<<Torn>>) = 1 /\ <<Torn>>[1] = Torn
    BY DEF F
  <2>2. toServer' \in Seq(F) /\ Len(toServer') = 1 + (n - last)
    BY <1>4, <1>7, <2>1, ConcatProperties
  <2>3. \A k \in 1..Len(toServer') :
          toServer'[k] = IF k <= 1 THEN Torn ELSE Rest(last)[k - 1]
    <3>1. \A k \in 1..(Len(<<Torn>>) + Len(Rest(last))) :
            (<<Torn>> \o Rest(last))[k]
              = IF k <= Len(<<Torn>>) THEN <<Torn>>[k] ELSE Rest(last)[k - Len(<<Torn>>)]
      BY <1>4, <2>1, ConcatProperties
    <3>2. ASSUME NEW k \in 1..Len(toServer')
          PROVE  toServer'[k] = IF k <= 1 THEN Torn ELSE Rest(last)[k - 1]
      <4>1. k \in 1..(Len(<<Torn>>) + Len(Rest(last)))
        BY <1>4, <2>1, <2>2
      <4>2. toServer'[k] = IF k <= 1 THEN <<Torn>>[k] ELSE Rest(last)[k - 1]
        BY <1>7, <2>1, <3>1, <4>1
      <4>3. k <= 1 => k = 1
        BY <1>1, <1>3, <2>2
      <4>. QED  BY <2>1, <4>2, <4>3
    <3>. QED  BY <3>2
  <2>4. last - 1 \in Nat
    BY <1>1, <1>2
  <2>5. ASSUME NEW k \in 1..Len(toServer'), toServer'[k] # Torn
        PROVE  k + (last - 1) \in 1..n /\ toServer'[k] = toServer[k + (last - 1)]
    <3>1. ~(k <= 1) /\ toServer'[k] = Rest(last)[k - 1]
      BY <2>3, <2>5
    <3>2. k - 1 \in 1..(n - last) /\ (k - 1) + last = k + (last - 1)
      BY <1>1, <1>3, <2>2, <3>1
    <3>. QED  BY <1>4, <1>5, <3>1, <3>2
  <2>. QED  BY <2>2, <2>4, <2>5 DEF n, F
<1>. QED  BY <1>2, <1>6, <1>7

(***************************************************************************)
(* What is executed is a request that was sent.                            *)
(***************************************************************************)
LEMMA CallsAreRequests ==
  ASSUME IInv, handler = "call"
  PROVE  current \in Ids
<1>1. PICK p \in 1..Len(sent) : sent[p] = current
  BY DEF IInv, StreamOK, Due, InSent
<1>2. sent \in Seq(Ids)
  BY DEF IInv, TypeOK
<1>. QED  BY <1>1, <1>2, ElementOfSeq

(***************************************************************************)
(* The types, in every step.                                               *)
(***************************************************************************)
LEMMA KeepsTypes ==
  ASSUME IInv, [Next]_vars
  PROVE  TypeOK'
<1>0. TypeOK
  BY DEF IInv
<1>. USE <1>0
<1>1. UNCHANGED vars
        => UNCHANGED <<vars>>
  BY DEF vars, breakerVars, callerVars, serverVars, wireVars, loopVars, histVars, mapVars
<1>2. ASSUME UNCHANGED <<vars>>  PROVE TypeOK'
  BY <1>2 DEF vars, TypeOK, At, Goto, breakerVars, callerVars, serverVars, wireVars, loopVars,
       histVars, mapVars, Responses, CallPC
<1>3. ASSUME NEW c \in Callers, Begin(c)  PROVE TypeOK'
  <2>0. /\ pc \in [Callers -> CallPC] /\ calls \in [Callers -> Nat] /\ attempt \in [Callers -> Nat]
        /\ \A d \in Callers : calls[d] <= MaxCalls[d] /\ attempt[d] <= Attempts[d]
    BY DEF TypeOK
  <2>1. pc' \in [Callers -> CallPC] /\ calls' \in [Callers -> Nat] /\ attempt' \in [Callers -> Nat]
    BY <1>3, <2>0 DEF Begin, Goto, CallPC
  <2>2. ASSUME NEW d \in Callers  PROVE calls'[d] <= MaxCalls[d] /\ attempt'[d] <= Attempts[d]
    <3>1. MaxCalls[d] \in Nat /\ Attempts[d] \in Nat \ {0}
      BY ConstantAssumption
    <3>2. /\ calls'[d] = IF d = c THEN calls[d] + 1 ELSE calls[d]
          /\ attempt'[d] = IF d = c THEN 1 ELSE attempt[d]
          /\ calls[c] < MaxCalls[c]
      BY <1>3, <2>0 DEF Begin
    <3>3. calls[d] \in Nat /\ calls[d] <= MaxCalls[d] /\ attempt[d] <= Attempts[d]
      BY <2>0
    <3>. QED  BY <3>1, <3>2, <3>3
  <2>3. UNCHANGED <<running, mutex, mapVars, breakerVars, id, loopVars, disconnect, wireVars,
                    open, serverVars, histVars>>
    BY <1>3 DEF Begin
  <2>4. ClientTypes' /\ WireTypes'
    BY <2>3, TypeParts, ClientTypesStay, WireTypesStay
  <2>5. id' \in [Callers -> 0..MaxId]
    BY <2>3 DEF TypeOK
  <2>6. CallerTypes'
    BY <2>1, <2>2, <2>5 DEF CallerTypes
  <2>. QED  BY <2>4, <2>6, TypeParts
<1>4. ASSUME NEW c \in Callers, Allow(c)  PROVE TypeOK'
  <2>1. pc' \in [Callers -> CallPC]
    BY <1>4 DEF Allow, Goto, CallPC, TypeOK
  <2>2. breaker' \in {"closed", "open", "half_open"}
    BY <1>4 DEF Allow, TypeOK
  <2>. QED  BY <1>4, <2>1, <2>2 DEF Allow, TypeOK, At, breakerVars, callerVars, serverVars,
       wireVars, loopVars, histVars, mapVars
<1>5. ASSUME NEW c \in Callers, RecordSuccess(c)  PROVE TypeOK'
  BY <1>5 DEF RecordSuccess, CallPC, TypeOK, At, Goto, breakerVars, callerVars, serverVars,
       wireVars, loopVars, histVars, mapVars
<1>6. ASSUME NEW c \in Callers, RecordFailure(c)  PROVE TypeOK'
  <2>1. /\ pc \in [Callers -> CallPC] /\ attempt \in [Callers -> Nat] /\ Attempts \in [Callers -> Nat]
        /\ \A d \in Callers : attempt[d] <= Attempts[d]
        /\ breaker \in {"closed", "open", "half_open"} /\ failures \in Nat /\ cooled \in BOOLEAN
    BY ConstantAssumption DEF TypeOK
  <2>2. /\ pc' \in [Callers -> CallPC] /\ attempt' \in [Callers -> Nat]
        /\ \A d \in Callers : attempt'[d] <= Attempts[d]
    <3>1. CASE attempt[c] < Attempts[c]
      <4>1. pc' = [pc EXCEPT ![c] = "allow"] /\ attempt' = [attempt EXCEPT ![c] = attempt[c] + 1]
        BY <1>6, <3>1 DEF RecordFailure, Goto
      <4>2. attempt[c] \in Nat /\ Attempts[c] \in Nat
        BY <2>1
      <4>. HIDE <1>0
      <4>3. attempt' \in [Callers -> Nat] /\ \A d \in Callers : attempt'[d] <= Attempts[d]
        BY <2>1, <3>1, <4>1, <4>2
      <4>. QED  BY <2>1, <4>1, <4>3 DEF CallPC
    <3>2. CASE ~(attempt[c] < Attempts[c])
      <4>1. pc' = [pc EXCEPT ![c] = Idle] /\ attempt' = attempt
        BY <1>6, <3>2 DEF RecordFailure, Goto
      <4>. QED  BY <2>1, <4>1 DEF CallPC
    <3>. QED  BY <3>1, <3>2
  <2>3. /\ failures' = failures + 1
        /\ ((breaker' = "open" /\ cooled' = FALSE) \/ (breaker' = breaker /\ cooled' = cooled))
    BY <1>6 DEF RecordFailure
  <2>4. failures' \in Nat
    BY <2>1, <2>3
  <2>5. breaker' \in {"closed", "open", "half_open"} /\ cooled' \in BOOLEAN
    BY <2>1, <2>3
  <2>. QED  BY <1>6, <2>2, <2>4, <2>5 DEF RecordFailure, TypeOK, At, breakerVars, callerVars,
       serverVars, wireVars, loopVars, histVars, mapVars
<1>7. ASSUME NEW c \in Callers, CheckRunning(c)  PROVE TypeOK'
  BY <1>7 DEF CheckRunning, CallPC, TypeOK, At, Goto, breakerVars, callerVars, serverVars,
       wireVars, loopVars, histVars, mapVars
<1>8. ASSUME NEW c \in Callers, Register(c)  PROVE TypeOK'
  <2>1. requestID + 1 \in Ids /\ requestID + 1 \in 0..MaxId
    BY <1>8, RegisterKeepsCount, IdsArePositive, AttemptsAreFinite DEF IInv
  <2>. QED  BY <1>8, <2>1 DEF Register, CallPC, TypeOK, At, Goto, breakerVars, callerVars,
       serverVars, wireVars, loopVars, histVars, mapVars
<1>9. ASSUME NEW c \in Callers, WriteLock(c)  PROVE TypeOK'
  BY <1>9 DEF WriteLock, CallPC, TypeOK, At, Goto, breakerVars, callerVars, serverVars, wireVars,
       loopVars, histVars, mapVars
<1>10. ASSUME NEW c \in Callers, Write(c)  PROVE TypeOK'
  <2>1. id[c] \in Ids
    BY <1>10, InFlightHasId DEF Write, At, InFlight, IInv
  <2>2. Append(toServer, id[c]) \in Seq(Ids \cup {Torn}) /\ Append(sent, id[c]) \in Seq(Ids)
    BY <2>1, AppendProperties DEF TypeOK
  <2>. QED  BY <1>10, <2>2 DEF Write, CallPC, TypeOK, At, Goto, breakerVars, callerVars,
       serverVars, wireVars, loopVars, histVars, mapVars
<1>11. ASSUME NEW c \in Callers, WriteFail(c)  PROVE TypeOK'
  <2>1. id[c] \in Ids
    BY <1>11, InFlightHasId DEF WriteFail, At, InFlight, IInv
  <2>2. Append(toServer, Torn) \in Seq(Ids \cup {Torn})
    BY AppendProperties DEF TypeOK
  <2>3. toServer' \in Seq(Ids \cup {Torn})
    BY <1>11, <2>2 DEF WriteFail, TypeOK
  <2>4. /\ pc' \in [Callers -> CallPC] /\ callbacks' \in [Ids -> Callers \cup {Nobody}]
        /\ outcome' \in [Ids -> Results \cup {Unknown, Lost}]
    BY <1>11, <2>1 DEF WriteFail, Conclude, Goto, CallPC, TypeOK
  <2>. QED  BY <1>11, <2>3, <2>4 DEF WriteFail, TypeOK, At, Goto, breakerVars, callerVars,
       serverVars, wireVars, loopVars, histVars, mapVars
<1>12. ASSUME NEW c \in Callers, TakeAnswer(c)  PROVE TypeOK'
  <2>1. id[c] \in Ids
    BY <1>12, InFlightHasId DEF TakeAnswer, At, InFlight, IInv
  <2>2. slot[c][2] \in Results \cup {Lost}
    BY <1>12 DEF TakeAnswer, TypeOK, Responses, NilResponse
  <2>3. /\ callbacks' \in [Ids -> Callers \cup {Nobody}]
        /\ outcome' \in [Ids -> Results \cup {Unknown, Lost}]
    BY <1>12, <2>1, <2>2 DEF TakeAnswer, Conclude, TypeOK
  <2>4. pc' \in [Callers -> CallPC] /\ slot' \in [Callers -> {Empty, NilResponse} \cup Responses]
    BY <1>12 DEF TakeAnswer, Conclude, Goto, CallPC, TypeOK
  <2>5. UNCHANGED <<running, mutex, requestID, breakerVars, calls, attempt, id,
                    loopVars, disconnect, wireVars, open, serverVars, sent, verdicts>>
    BY <1>12 DEF TakeAnswer
  <2>6. ClientTypes /\ CallerTypes /\ WireTypes
    BY TypeParts
  <2>7. ClientTypes'
    BY <2>3, <2>4, <2>5, <2>6 DEF ClientTypes, breakerVars
  <2>8. CallerTypes'
    BY <2>4, <2>5, <2>6 DEF CallerTypes
  <2>9. WireTypes'
    BY <2>3, <2>5, <2>6 DEF WireTypes, serverVars, wireVars, loopVars
  <2>. QED  BY <2>7, <2>8, <2>9, TypeParts
<1>13. ASSUME NEW c \in Callers, CallTimeout(c)  PROVE TypeOK'
  <2>1. id[c] \in Ids
    BY <1>13, InFlightHasId DEF CallTimeout, At, InFlight, IInv
  <2>. QED  BY <1>13, <2>1 DEF CallTimeout, Conclude, CallPC, TypeOK, At, Goto, breakerVars,
       callerVars, serverVars, wireVars, loopVars, histVars, mapVars
<1>14. ASSUME LoopRead  PROVE TypeOK'
  <2>1. Head(toClient) \in Responses /\ Tail(toClient) \in Seq(Responses)
    BY <1>14, HeadTailProperties DEF LoopRead, TypeOK
  <2>. QED  BY <1>14, <2>1 DEF LoopRead, TypeOK, At, Goto, breakerVars, callerVars, serverVars,
       wireVars, loopVars, histVars, mapVars
<1>15. ASSUME LoopReadError  PROVE TypeOK'
  BY <1>15 DEF LoopReadError, TypeOK, At, Goto, breakerVars, callerVars, serverVars, wireVars,
       loopVars, histVars, mapVars
<1>16. ASSUME Deliver  PROVE TypeOK'
  <2>1. response \in Responses
    BY <1>16 DEF Deliver, IInv, LoopOK
  <2>2. slot' \in [Callers -> {Empty, NilResponse} \cup Responses]
    BY <1>16, <2>1 DEF Deliver, TypeOK
  <2>. QED  BY <1>16, <2>2 DEF Deliver, TypeOK, At, Goto, breakerVars, callerVars, serverVars,
       wireVars, loopVars, histVars, mapVars
<1>17. ASSUME LoopExit  PROVE TypeOK'
  <2>1. slot' \in [Callers -> {Empty, NilResponse} \cup Responses]
    BY <1>17 DEF LoopExit, NotifyAll, TypeOK
  <2>2. callbacks' \in [Ids -> Callers \cup {Nobody}]
    BY <1>17 DEF LoopExit, NotifyAll, TypeOK
  <2>3. running' \in BOOLEAN /\ open' \in BOOLEAN
    BY <1>17 DEF LoopExit, TypeOK
  <2>. QED  BY <1>17, <2>1, <2>2, <2>3 DEF LoopExit, TypeOK, At, Goto, breakerVars, callerVars,
       serverVars, wireVars, loopVars, histVars, mapVars
<1>18. ASSUME Disconnect  PROVE TypeOK'
  <2>1. slot' \in [Callers -> {Empty, NilResponse} \cup Responses]
    BY <1>18 DEF Disconnect, NotifyAll, TypeOK
  <2>2. callbacks' \in [Ids -> Callers \cup {Nobody}]
    BY <1>18 DEF Disconnect, NotifyAll, TypeOK
  <2>3. running' \in BOOLEAN /\ open' \in BOOLEAN
    BY <1>18 DEF Disconnect, TypeOK
  <2>. QED  BY <1>18, <2>1, <2>2, <2>3 DEF Disconnect, TypeOK, At, Goto, breakerVars, callerVars,
       serverVars, wireVars, loopVars, histVars, mapVars
<1>19. ASSUME DisconnectClose  PROVE TypeOK'
  <2>1. open' = FALSE /\ disconnect' = "join"
    BY <1>19 DEF DisconnectClose
  <2>2. UNCHANGED <<running, mutex, mapVars, breakerVars, callerVars, loopVars, wireVars,
                    serverVars, histVars>>
    BY <1>19 DEF DisconnectClose
  <2>3. ClientTypes' /\ CallerTypes'
    BY <2>2, TypeParts, ClientTypesStay, CallerTypesStay
  <2>4. WireTypes
    BY TypeParts
  <2>5. WireTypes'
    <3>1. UNCHANGED <<loop, response, toServer, toClient, handler, current, sent, verdicts, outcome>>
      BY <2>2 DEF serverVars, wireVars, loopVars, histVars
    <3>. QED  BY <2>1, <2>4, <3>1 DEF WireTypes
  <2>. QED  BY <2>3, <2>5, TypeParts
<1>20. ASSUME DisconnectJoin  PROVE TypeOK'
  <2>1. disconnect' = "done"
    BY <1>20 DEF DisconnectJoin
  <2>2. UNCHANGED <<running, mutex, mapVars, breakerVars, callerVars, loopVars, wireVars, open,
                    serverVars, histVars>>
    BY <1>20 DEF DisconnectJoin
  <2>3. ClientTypes' /\ CallerTypes'
    BY <2>2, TypeParts, ClientTypesStay, CallerTypesStay
  <2>4. WireTypes
    BY TypeParts
  <2>5. WireTypes'
    <3>1. UNCHANGED <<loop, response, toServer, toClient, open, handler, current, sent, verdicts, outcome>>
      BY <2>2 DEF serverVars, wireVars, loopVars, histVars
    <3>. QED  BY <2>1, <2>4, <3>1 DEF WireTypes
  <2>. QED  BY <2>3, <2>5, TypeParts
<1>21. ASSUME ServerRead  PROVE TypeOK'
  <2>1. Head(toServer) \in Ids \cup {Torn} /\ Tail(toServer) \in Seq(Ids \cup {Torn})
    BY <1>21, HeadTailProperties DEF ServerRead, TypeOK
  <2>. QED  BY <1>21, <2>1 DEF ServerRead, TypeOK, At, Goto, breakerVars, callerVars, serverVars,
       wireVars, loopVars, histVars, mapVars
<1>22. ASSUME ServerReadTorn  PROVE TypeOK'
  <2>1. toServer' \in Seq(Ids \cup {Torn})
    BY <1>22, SwallowedFrames DEF TypeOK
  <2>2. toServer' \in Seq(Ids \cup {Torn}) /\ current' = Torn /\ handler' = "reply_error"
    BY <1>22, <2>1 DEF ServerReadTorn
  <2>3. UNCHANGED <<running, mutex, mapVars, breakerVars, callerVars, loopVars, disconnect,
                    toClient, open, histVars>>
    BY <1>22 DEF ServerReadTorn
  <2>. QED  BY <2>2, <2>3 DEF TypeOK, breakerVars, callerVars, loopVars, histVars, mapVars
<1>23. ASSUME Execute  PROVE TypeOK'
  <2>1. PICK v \in Results : verdicts' = Append(verdicts, <<current, v>>) /\ handler' \in {"reply_ok", "reply_error"}
    BY <1>23 DEF Execute
  <2>2. verdicts' \in Seq(Ids \X Results)
    <3>1. current \in Ids /\ verdicts \in Seq(Ids \X Results)
      BY <1>23, CallsAreRequests DEF Execute, TypeOK
    <3>. QED  BY <2>1, <3>1, AppendProperties
  <2>. QED  BY <1>23, <2>1, <2>2 DEF Execute, TypeOK, At, Goto, breakerVars, callerVars,
       serverVars, wireVars, loopVars, histVars, mapVars
<1>24. ASSUME Reply  PROVE TypeOK'
  <2>1. Append(toClient, <<current, IF handler = "reply_ok" THEN "ok" ELSE "error">>) \in Seq(Responses)
    <3>1. <<current, IF handler = "reply_ok" THEN "ok" ELSE "error">> \in Responses
      BY DEF TypeOK, Responses, Results
    <3>. QED  BY <3>1, AppendProperties DEF TypeOK
  <2>. QED  BY <1>24, <2>1 DEF Reply, TypeOK, At, Goto, breakerVars, callerVars, serverVars,
       wireVars, loopVars, histVars, mapVars
<1>25. ASSUME ServerClose  PROVE TypeOK'
  BY <1>25 DEF ServerClose, TypeOK, At, Goto, breakerVars, callerVars, serverVars, wireVars,
       loopVars, histVars, mapVars
<1>26. ASSUME Connect  PROVE TypeOK'
  BY <1>26 DEF Connect, TypeOK, At, Goto, breakerVars, callerVars, serverVars, wireVars, loopVars,
       histVars, mapVars
<1>27. ASSUME CoolDown  PROVE TypeOK'
  BY <1>27 DEF CoolDown, TypeOK, At, Goto, breakerVars, callerVars, serverVars, wireVars, loopVars,
       histVars, mapVars
<1>. QED  BY <1>1, <1>2, <1>3, <1>4, <1>5, <1>6, <1>7, <1>8, <1>9, <1>10, <1>11, <1>12, <1>13,
             <1>14, <1>15, <1>16, <1>17, <1>18, <1>19, <1>20, <1>21, <1>22, <1>23, <1>24, <1>25,
             <1>26, <1>27
     DEF Next, CallStep, LoopStep, DisconnectStep, ServerStep

(***************************************************************************)
(* The types that the proofs about the stream use.                         *)
(***************************************************************************)
LEMMA StreamTypes ==
  ASSUME TypeOK
  PROVE  /\ toServer \in Seq(Ids \cup {Torn}) /\ Len(toServer) \in Nat
         /\ sent \in Seq(Ids) /\ Len(sent) \in Nat
         /\ verdicts \in Seq(Ids \X Results) /\ Len(verdicts) \in Nat
         /\ toClient \in Seq(Responses) /\ Len(toClient) \in Nat
<1>1. /\ toServer \in Seq(Ids \cup {Torn}) /\ sent \in Seq(Ids) /\ verdicts \in Seq(Ids \X Results)
      /\ toClient \in Seq(Responses)
  BY DEF TypeOK
<1>. QED  BY <1>1, LenProperties

(***************************************************************************)
(* A sequence and one more element.                                        *)
(***************************************************************************)
LEMMA Longer ==
  ASSUME NEW S, NEW s \in Seq(S), NEW e \in S, NEW t, t = Append(s, e)
  PROVE  /\ Len(s) \in Nat /\ Len(t) = Len(s) + 1 /\ t[Len(s) + 1] = e
         /\ \A k \in 1..Len(s) : t[k] = s[k]
BY AppendProperties, LenProperties

(***************************************************************************)
(* The rest of a sequence.                                                 *)
(***************************************************************************)
LEMMA Shorter ==
  ASSUME NEW S, NEW s \in Seq(S), s # <<>>, NEW t, t = Tail(s)
  PROVE  /\ Len(s) \in Nat /\ Len(s) >= 1 /\ Len(t) = Len(s) - 1 /\ Head(s) = s[1] /\ Head(s) \in S
         /\ \A k \in 1..Len(t) : t[k] = s[k + 1]
<1>1. Len(s) \in Nat /\ Len(s) >= 1
  <2>1. Len(s) \in Nat
    BY LenProperties
  <2>2. Len(s) # 0
    BY EmptySeq
  <2>. QED  BY <2>1, <2>2
<1>2. /\ Len(t) = Len(s) - 1 /\ Head(s) \in S
      /\ \A k \in 1..Len(t) : t[k] = s[k + 1]
  BY HeadTailProperties
<1>. QED  BY <1>1, <1>2

(***************************************************************************)
(* A request written for the first time comes after all that were sent, and *)
(* changes nobody's place.                                                 *)
(***************************************************************************)
LEMMA SentLast ==
  ASSUME sent \in Seq(Ids), NEW x \in Ids, sent' = Append(sent, x),
         \A p \in 1..Len(sent) : sent[p] # x
  PROVE  /\ InSent(x)'
         /\ \A i : InSent(i) => InSent(i)' /\ Earlier(i, x)'
         /\ \A i, j : InSent(i) /\ InSent(j) /\ Earlier(i, j) => Earlier(i, j)'
<1>. DEFINE n == Len(sent)
<1>1. n \in Nat /\ Len(sent') = n + 1 /\ sent'[n + 1] = x /\ \A p \in 1..n : sent'[p] = sent[p]
  BY Longer
<1>2. \A p \in 1..n : sent[p] # x
  OBVIOUS
<1>3. ASSUME NEW i, InSent(i)
      PROVE  i # x /\ \A p \in 1..(n + 1) : sent'[p] = i => p \in 1..n /\ sent[p] = i
  <2>1. i # x
    BY <1>2, <1>3 DEF InSent
  <2>2. ASSUME NEW p \in 1..(n + 1), sent'[p] = i  PROVE p \in 1..n /\ sent[p] = i
    <3>1. p # n + 1
      BY <1>1, <2>1, <2>2
    <3>2. p \in 1..n
      BY <1>1, <3>1
    <3>. QED  BY <1>1, <2>2, <3>2
  <2>. QED  BY <2>1, <2>2
<1>4. \A q \in 1..(n + 1) : sent'[q] = x => q = n + 1
  <2>1. ASSUME NEW q \in 1..(n + 1), sent'[q] = x, q # n + 1  PROVE FALSE
    <3>1. q \in 1..n
      BY <1>1, <2>1
    <3>. QED  BY <1>1, <1>2, <2>1, <3>1
  <2>. QED  BY <2>1
<1>. HIDE DEF n
<1>5. InSent(x)'
  <2>1. n + 1 \in 1..Len(sent')
    BY <1>1
  <2>. QED  BY <1>1, <2>1 DEF InSent
<1>6. ASSUME NEW i, InSent(i)  PROVE InSent(i)'
  <2>1. PICK p \in 1..n : sent[p] = i
    BY <1>6 DEF InSent, n
  <2>2. p \in 1..Len(sent')
    BY <1>1, <2>1
  <2>. QED  BY <1>1, <2>1, <2>2 DEF InSent
<1>7. ASSUME NEW i, InSent(i)  PROVE Earlier(i, x)'
  <2>1. ASSUME NEW p \in 1..(n + 1), NEW q \in 1..(n + 1), sent'[p] = i, sent'[q] = x  PROVE p < q
    <3>1. p \in 1..n /\ q = n + 1
      BY <1>3, <1>4, <1>7, <2>1
    <3>. QED  BY <1>1, <3>1
  <2>. QED  BY <1>1, <2>1 DEF Earlier
<1>8. ASSUME NEW i, NEW j, InSent(i), InSent(j), Earlier(i, j)  PROVE Earlier(i, j)'
  <2>1. ASSUME NEW p \in 1..(n + 1), NEW q \in 1..(n + 1), sent'[p] = i, sent'[q] = j  PROVE p < q
    <3>1. p \in 1..n /\ q \in 1..n /\ sent[p] = i /\ sent[q] = j
      BY <1>3, <1>8, <2>1
    <3>. QED  BY <1>8, <3>1 DEF Earlier, n
  <2>. QED  BY <1>1, <2>1 DEF Earlier
<1>. QED  BY <1>5, <1>6, <1>7, <1>8

(***************************************************************************)
(* Frames that are left of the stream, some replaced by torn ones, are     *)
(* still due and in order.                                                 *)
(***************************************************************************)
LEMMA FewerFrames ==
  ASSUME TypeOK, FramesOK, toServer' \in Seq(Ids \cup {Torn}),
         UNCHANGED <<sent, verdicts>>, NEW d \in Nat,
         \A k \in 1..Len(toServer') :
            \/ toServer'[k] = Torn
            \/ k + d \in 1..Len(toServer) /\ toServer'[k] = toServer[k + d]
  PROVE  FramesOK'
<1>1. \A i : (Due(i) => Due(i)') /\ \A j : Earlier(i, j) => Earlier(i, j)'
  BY DEF Due, InSent, Earlier
<1>2. ASSUME NEW k \in 1..Len(toServer'), toServer'[k] # Torn  PROVE Due(toServer'[k])
  BY <1>2 DEF FramesOK
<1>3. ASSUME NEW k \in 1..Len(toServer'), NEW l \in 1..Len(toServer'), k < l,
             toServer'[k] # Torn, toServer'[l] # Torn
      PROVE  Earlier(toServer'[k], toServer'[l])
  <2>1. Len(toServer') \in Nat
    BY LenProperties
  <2>2. k + d < l + d
    BY <1>3, <2>1
  <2>3. /\ k + d \in 1..Len(toServer) /\ toServer'[k] = toServer[k + d]
        /\ l + d \in 1..Len(toServer) /\ toServer'[l] = toServer[l + d]
    BY <1>3
  <2>. QED  BY <1>3, <2>2, <2>3 DEF FramesOK
<1>4. /\ \A k \in 1..Len(toServer') : toServer'[k] # Torn => Due(toServer'[k])
      /\ \A k, l \in 1..Len(toServer') :
           k < l /\ toServer'[k] # Torn /\ toServer'[l] # Torn => Earlier(toServer'[k], toServer'[l])
  BY <1>2, <1>3
<1>5. ASSUME NEW k \in 1..Len(toServer'), toServer'[k] # Torn  PROVE Due(toServer[k])'
  <2>1. Due(toServer'[k])
    BY <1>4, <1>5
  <2>. QED  BY <2>1 DEF Due, InSent, Earlier
<1>6. ASSUME NEW k \in 1..Len(toServer'), NEW l \in 1..Len(toServer'), k < l,
             toServer'[k] # Torn, toServer'[l] # Torn
      PROVE  Earlier(toServer[k], toServer[l])'
  <2>1. Earlier(toServer'[k], toServer'[l])
    BY <1>4, <1>6
  <2>. QED  BY <2>1 DEF Earlier
<1>. QED  BY <1>5, <1>6 DEF FramesOK

(***************************************************************************)
(* So a step that only takes frames away, or tears them, keeps the stream. *)
(***************************************************************************)
LEMMA FewerFramesKeepStream ==
  ASSUME TypeOK, StreamOK, toServer' \in Seq(Ids \cup {Torn}),
         UNCHANGED <<sent, verdicts, current>>, handler' \in {handler, "read", "closed"},
         \A k \in 1..Len(toServer') :
            toServer'[k] = Torn \/ (k \in 1..Len(toServer) /\ toServer'[k] = toServer[k])
  PROVE  StreamOK'
<1>1. 0 \in Nat /\ \A k \in 1..Len(toServer') : k + 0 = k
  BY LenProperties
<1>2. FramesOK /\ UNCHANGED <<sent, verdicts>>
  BY DEF StreamOK
<1>3. FramesOK'
  BY <1>1, <1>2, FewerFrames
<1>4. (\A m \in 1..Len(verdicts) : InSent(verdicts[m][1]))'
  BY DEF StreamOK, InSent
<1>5. ASSUME handler' = "call"
      PROVE  /\ Due(current)'
             /\ (\A k \in 1..Len(toServer) : toServer[k] # Torn => Earlier(current, toServer[k]))'
  <2>1. Due(current) /\ \A k \in 1..Len(toServer) : toServer[k] # Torn => Earlier(current, toServer[k])
    BY <1>5 DEF StreamOK
  <2>2. Due(current)'
    BY <2>1 DEF Due, InSent, Earlier
  <2>3. ASSUME NEW k \in 1..Len(toServer'), toServer'[k] # Torn  PROVE Earlier(current, toServer[k])'
    <3>1. k \in 1..Len(toServer) /\ toServer'[k] = toServer[k]
      BY <2>3
    <3>2. Earlier(current, toServer[k])
      BY <2>1, <2>3, <3>1
    <3>. QED  BY <3>1, <3>2 DEF Earlier
  <2>. QED  BY <2>2, <2>3
<1>6. (handler \in {"reply_ok", "reply_error"} /\ current # Torn =>
          Answer(<<current, IF handler = "reply_ok" THEN "ok" ELSE "error">>))'
  BY DEF StreamOK, Answer
<1>. QED  BY <1>3, <1>4, <1>5, <1>6 DEF StreamOK

(***************************************************************************)
(* A request is written behind those that the server has yet to read.      *)
(***************************************************************************)
LEMMA WriteKeepsStream ==
  ASSUME IInv, NEW c \in Callers, Write(c)
  PROVE  StreamOK'
<1>1. TypeOK /\ StreamOK /\ FramesOK
  BY DEF IInv, StreamOK
<1>2. PICK x \in Ids : x = id[c]
  BY InFlightHasId DEF Write, At, InFlight, IInv
<1>3. /\ toServer' = Append(toServer, x) /\ sent' = Append(sent, x)
      /\ UNCHANGED <<verdicts, handler, current>>
  BY <1>2 DEF Write, serverVars
<1>. DEFINE n == Len(toServer)
<1>4. n \in Nat /\ Len(toServer') = n + 1 /\ toServer'[n + 1] = x /\ \A k \in 1..n : toServer'[k] = toServer[k]
  <2>1. x \in Ids \cup {Torn} /\ toServer \in Seq(Ids \cup {Torn})
    BY <1>1, <1>2, StreamTypes
  <2>. QED  BY <1>3, <2>1, Longer
<1>. HIDE DEF n
<1>5. /\ InSent(x)'
      /\ \A i : InSent(i) => InSent(i)' /\ Earlier(i, x)'
      /\ \A i, j : InSent(i) /\ InSent(j) /\ Earlier(i, j) => Earlier(i, j)'
  <2>1. \A p \in 1..Len(sent) : sent[p] # x
    BY <1>2 DEF IInv, FreshOK, Write, At
  <2>2. sent \in Seq(Ids)
    BY <1>1, StreamTypes
  <2>. QED  BY <1>2, <1>3, <2>1, <2>2, SentLast
<1>6. \A m \in 1..Len(verdicts) : InSent(verdicts[m][1])
  BY <1>1 DEF StreamOK
<1>7. ASSUME NEW y, Due(y)  PROVE Due(y)' /\ InSent(y)
  <2>1. InSent(y) /\ InSent(y)'
    BY <1>5, <1>7 DEF Due
  <2>2. ASSUME NEW m \in 1..Len(verdicts)  PROVE Earlier(verdicts[m][1], y)'
    <3>1. PICK z : z = verdicts[m][1]
      OBVIOUS
    <3>2. InSent(z) /\ Earlier(z, y)
      BY <1>6, <1>7, <3>1 DEF Due
    <3>3. Earlier(z, y)'
      BY <1>5, <2>1, <3>2
    <3>. QED  BY <1>3, <3>1, <3>3 DEF Earlier
  <2>. QED  BY <1>3, <2>1, <2>2 DEF Due
<1>8. Due(x)'
  <2>1. ASSUME NEW m \in 1..Len(verdicts)  PROVE Earlier(verdicts[m][1], x)'
    <3>1. PICK z : z = verdicts[m][1]
      OBVIOUS
    <3>2. Earlier(z, x)'
      BY <1>5, <1>6, <3>1
    <3>. QED  BY <1>3, <3>1, <3>2 DEF Earlier
  <2>. QED  BY <1>3, <1>5, <2>1 DEF Due
<1>9. ASSUME NEW k \in 1..(n + 1), toServer'[k] # Torn  PROVE Due(toServer[k])'
  <2>1. PICK y : y = toServer'[k]
    OBVIOUS
  <2>2. Due(y)'
    <3>1. CASE k \in 1..n
      <4>1. y = toServer[k] /\ y # Torn
        BY <1>4, <1>9, <2>1, <3>1
      <4>2. Due(y)
        BY <1>1, <3>1, <4>1 DEF FramesOK, n
      <4>. QED  BY <1>7, <4>2
    <3>2. CASE k = n + 1
      <4>1. y = x
        BY <1>4, <2>1, <3>2
      <4>. QED  BY <1>8, <4>1
    <3>. QED  BY <1>4, <3>1, <3>2
  <2>. QED  BY <2>1, <2>2 DEF Due, InSent, Earlier
<1>10. ASSUME NEW k \in 1..(n + 1), NEW l \in 1..(n + 1), k < l, toServer'[k] # Torn, toServer'[l] # Torn
       PROVE  Earlier(toServer[k], toServer[l])'
  <2>1. PICK y : y = toServer'[k]
    OBVIOUS
  <2>2. PICK z : z = toServer'[l]
    OBVIOUS
  <2>3. k \in 1..n
    BY <1>4, <1>10
  <2>4. y = toServer[k] /\ y # Torn
    BY <1>4, <1>10, <2>1, <2>3
  <2>5. Due(y)
    BY <1>1, <2>3, <2>4 DEF FramesOK, n
  <2>6. Earlier(y, z)'
    <3>1. CASE l \in 1..n
      <4>1. z = toServer[l] /\ z # Torn
        BY <1>4, <1>10, <2>2, <3>1
      <4>2. Due(z) /\ Earlier(y, z)
        BY <1>1, <1>10, <2>3, <2>4, <3>1, <4>1 DEF FramesOK, n
      <4>3. InSent(y) /\ InSent(z)
        BY <1>7, <2>5, <4>2
      <4>. QED  BY <1>5, <4>2, <4>3
    <3>2. CASE l = n + 1
      <4>1. z = x
        BY <1>4, <2>2, <3>2
      <4>2. InSent(y)
        BY <1>7, <2>5
      <4>. QED  BY <1>5, <4>1, <4>2
    <3>. QED  BY <1>4, <3>1, <3>2
  <2>. QED  BY <2>1, <2>2, <2>6 DEF Earlier
<1>11. FramesOK'
  BY <1>4, <1>9, <1>10 DEF FramesOK
<1>12. (\A m \in 1..Len(verdicts) : InSent(verdicts[m][1]))'
  <2>1. ASSUME NEW m \in 1..Len(verdicts)  PROVE InSent(verdicts[m][1])'
    <3>1. PICK z : z = verdicts[m][1]
      OBVIOUS
    <3>2. InSent(z)'
      BY <1>5, <1>6, <3>1
    <3>. QED  BY <1>3, <3>1, <3>2 DEF InSent
  <2>. QED  BY <1>3, <2>1
<1>13. ASSUME handler = "call"
       PROVE  /\ Due(current)'
              /\ (\A k \in 1..Len(toServer) : toServer[k] # Torn => Earlier(current, toServer[k]))'
  <2>1. PICK y : y = current
    OBVIOUS
  <2>2. Due(y) /\ \A k \in 1..n : toServer[k] # Torn => Earlier(y, toServer[k])
    BY <1>1, <1>13, <2>1 DEF StreamOK, n
  <2>3. Due(y)' /\ InSent(y)
    BY <1>7, <2>2
  <2>4. ASSUME NEW k \in 1..(n + 1), toServer'[k] # Torn  PROVE Earlier(current, toServer[k])'
    <3>1. PICK z : z = toServer'[k]
      OBVIOUS
    <3>2. Earlier(y, z)'
      <4>1. CASE k \in 1..n
        <5>1. z = toServer[k] /\ z # Torn
          BY <1>4, <2>4, <3>1, <4>1
        <5>2. Due(z) /\ Earlier(y, z)
          BY <1>1, <2>2, <4>1, <5>1 DEF FramesOK, n
        <5>3. InSent(z)
          BY <1>7, <5>2
        <5>. QED  BY <1>5, <2>3, <5>2, <5>3
      <4>2. CASE k = n + 1
        <5>1. z = x
          BY <1>4, <3>1, <4>2
        <5>. QED  BY <1>5, <2>3, <5>1
      <4>. QED  BY <1>4, <4>1, <4>2
    <3>. QED  BY <1>3, <2>1, <3>1, <3>2 DEF Earlier
  <2>5. Due(current)'
    BY <1>3, <2>1, <2>3 DEF Due, InSent, Earlier
  <2>. QED  BY <1>4, <2>4, <2>5
<1>14. (handler \in {"reply_ok", "reply_error"} /\ current # Torn =>
          Answer(<<current, IF handler = "reply_ok" THEN "ok" ELSE "error">>))'
  BY <1>1, <1>3 DEF StreamOK, Answer
<1>. QED  BY <1>3, <1>11, <1>12, <1>13, <1>14 DEF StreamOK

(***************************************************************************)
(* A write that fails may leave part of a frame, which is no request.      *)
(***************************************************************************)
LEMMA WriteFailKeepsStream ==
  ASSUME IInv, NEW c \in Callers, WriteFail(c)
  PROVE  StreamOK'
<1>1. TypeOK /\ StreamOK /\ FramesOK
  BY DEF IInv, StreamOK
<1>2. UNCHANGED <<sent, verdicts, handler, current>>
  BY DEF WriteFail, serverVars
<1>3. /\ toServer' \in Seq(Ids \cup {Torn})
      /\ \A k \in 1..Len(toServer') :
           toServer'[k] = Torn \/ (k \in 1..Len(toServer) /\ toServer'[k] = toServer[k])
  <2>1. toServer \in Seq(Ids \cup {Torn}) /\ Torn \in Ids \cup {Torn} /\ Len(toServer) \in Nat
    BY <1>1, StreamTypes
  <2>2. CASE UNCHANGED toServer
    BY <2>1, <2>2
  <2>3. CASE toServer' = Append(toServer, Torn)
    <3>1. toServer' \in Seq(Ids \cup {Torn})
      BY <2>1, <2>3, AppendProperties
    <3>2. /\ Len(toServer') = Len(toServer) + 1 /\ toServer'[Len(toServer) + 1] = Torn
          /\ \A k \in 1..Len(toServer) : toServer'[k] = toServer[k]
      BY <2>1, <2>3, Longer
    <3>. QED  BY <2>1, <3>1, <3>2
  <2>. QED  BY <2>2, <2>3 DEF WriteFail
<1>. QED  BY <1>1, <1>2, <1>3, FewerFramesKeepStream

(***************************************************************************)
(* The request that the server reads comes before those behind it.         *)
(***************************************************************************)
LEMMA ServerReadKeepsStream ==
  ASSUME IInv, ServerRead
  PROVE  StreamOK'
<1>1. TypeOK /\ StreamOK /\ FramesOK
  BY DEF IInv, StreamOK
<1>2. /\ toServer # <<>> /\ Head(toServer) # Torn /\ toServer' = Tail(toServer)
      /\ handler = "read" /\ handler' = "call" /\ current' = Head(toServer)
      /\ UNCHANGED <<sent, verdicts>>
  BY DEF ServerRead, histVars
<1>. DEFINE n == Len(toServer)
<1>3. /\ n \in Nat /\ n >= 1 /\ Len(toServer') = n - 1 /\ Head(toServer) = toServer[1]
      /\ \A k \in 1..(n - 1) : toServer'[k] = toServer[k + 1]
  <2>1. toServer \in Seq(Ids \cup {Torn})
    BY <1>1, StreamTypes
  <2>. QED  BY <1>2, <2>1, Shorter
<1>. HIDE DEF n
<1>4. \A k \in 1..Len(toServer') : k + 1 \in 1..n /\ toServer'[k] = toServer[k + 1]
  BY <1>3
<1>5. FramesOK'
  <2>1. toServer' \in Seq(Ids \cup {Torn})
    BY <1>1, <1>2, StreamTypes, HeadTailProperties
  <2>2. 1 \in Nat
    OBVIOUS
  <2>. QED  BY <1>1, <1>2, <1>4, <2>1, <2>2, FewerFrames DEF n
<1>6. PICK y : y = toServer[1] /\ y = current' /\ y # Torn
  BY <1>2, <1>3
<1>7. 1 \in 1..n
  BY <1>3
<1>8. Due(y) /\ \A l \in 1..n : 1 < l /\ toServer[l] # Torn => Earlier(y, toServer[l])
  BY <1>1, <1>6, <1>7 DEF FramesOK, n
<1>9. Due(current)'
  BY <1>2, <1>6, <1>8 DEF Due, InSent, Earlier
<1>10. ASSUME NEW k \in 1..Len(toServer'), toServer'[k] # Torn  PROVE Earlier(current, toServer[k])'
  <2>1. k + 1 \in 1..n /\ toServer'[k] = toServer[k + 1] /\ 1 < k + 1
    BY <1>3, <1>4
  <2>2. Earlier(y, toServer[k + 1])
    BY <1>8, <1>10, <2>1
  <2>. QED  BY <1>2, <1>6, <2>1, <2>2 DEF Earlier
<1>11. (\A m \in 1..Len(verdicts) : InSent(verdicts[m][1]))'
  BY <1>1, <1>2 DEF StreamOK, InSent
<1>. QED  BY <1>2, <1>5, <1>9, <1>10, <1>11 DEF StreamOK

(***************************************************************************)
(* A torn frame swallows frames behind it, and those left are in order.    *)
(***************************************************************************)
LEMMA ServerReadTornKeepsStream ==
  ASSUME IInv, ServerReadTorn
  PROVE  StreamOK'
<1>1. TypeOK /\ StreamOK /\ FramesOK
  BY DEF IInv, StreamOK
<1>2. /\ handler' = "reply_error" /\ current' = Torn
      /\ UNCHANGED <<sent, verdicts>>
  BY DEF ServerReadTorn, histVars
<1>3. toServer \in Seq(Ids \cup {Torn})
  BY <1>1, StreamTypes
<1>4. /\ toServer' \in Seq(Ids \cup {Torn})
      /\ \E d \in Nat : \A k \in 1..Len(toServer') :
           \/ toServer'[k] = Torn
           \/ k + d \in 1..Len(toServer) /\ toServer'[k] = toServer[k + d]
  BY <1>3, SwallowedFrames
<1>5. PICK d \in Nat : \A k \in 1..Len(toServer') :
           \/ toServer'[k] = Torn
           \/ k + d \in 1..Len(toServer) /\ toServer'[k] = toServer[k + d]
  BY <1>4
<1>6. FramesOK'
  BY <1>1, <1>2, <1>4, <1>5, FewerFrames
<1>7. (\A m \in 1..Len(verdicts) : InSent(verdicts[m][1]))'
  BY <1>1, <1>2 DEF StreamOK, InSent
<1>. QED  BY <1>2, <1>6, <1>7 DEF StreamOK

(***************************************************************************)
(* What was answered stays so when one more request is executed.           *)
(***************************************************************************)
LEMMA ExecuteAppends ==
  ASSUME IInv, Execute
  PROVE  /\ \A r : Answer(r) => Answer(r)'
         /\ Answer(<<current, IF handler = "reply_ok" THEN "ok" ELSE "error">>)'
         /\ Len(verdicts) \in Nat /\ Len(verdicts') = Len(verdicts) + 1
         /\ verdicts'[Len(verdicts) + 1][1] = current
         /\ \A m \in 1..Len(verdicts) : verdicts'[m] = verdicts[m]
<1>1. PICK v \in Results : /\ verdicts' = Append(verdicts, <<current, v>>)
                          /\ handler' = IF v = "ok" THEN "reply_ok" ELSE "reply_error"
  BY DEF Execute
<1>2. handler = "call" /\ current' = current
  BY DEF Execute
<1>3. current \in Ids
  BY <1>2, CallsAreRequests
<1>4. verdicts \in Seq(Ids \X Results) /\ <<current, v>> \in Ids \X Results
  BY <1>3 DEF IInv, TypeOK
<1>5. /\ Len(verdicts) \in Nat /\ Len(verdicts') = Len(verdicts) + 1
      /\ verdicts'[Len(verdicts) + 1] = <<current, v>>
      /\ \A m \in 1..Len(verdicts) : verdicts'[m] = verdicts[m]
  BY <1>1, <1>4, Longer
<1>6. ASSUME NEW r, Answer(r)  PROVE Answer(r)'
  <2>1. PICK m \in 1..Len(verdicts) : verdicts[m] = r
    BY <1>6 DEF Answer
  <2>2. m \in 1..Len(verdicts') /\ verdicts'[m] = r
    BY <1>5, <2>1
  <2>. QED  BY <2>2 DEF Answer
<1>7. v = IF handler' = "reply_ok" THEN "ok" ELSE "error"
  BY <1>1 DEF Results
<1>8. Len(verdicts) + 1 \in 1..Len(verdicts')
  BY <1>5
<1>9. PICK r : r = <<current, v>>
  OBVIOUS
<1>10. Answer(r)'
  BY <1>5, <1>8, <1>9 DEF Answer
<1>11. r = <<current', IF handler' = "reply_ok" THEN "ok" ELSE "error">>
  BY <1>2, <1>7, <1>9
<1>12. Answer(<<current, IF handler = "reply_ok" THEN "ok" ELSE "error">>)'
  BY <1>10, <1>11 DEF Answer
<1>. QED  BY <1>2, <1>5, <1>6, <1>12

(***************************************************************************)
(* Execution of a request that is due.                                     *)
(***************************************************************************)
LEMMA ExecuteKeepsStream ==
  ASSUME IInv, Execute
  PROVE  StreamOK'
<1>1. TypeOK /\ StreamOK /\ FramesOK
  BY DEF IInv, StreamOK
<1>2. handler = "call" /\ UNCHANGED <<toServer, sent, current>> /\ handler' # "call"
  BY DEF Execute, wireVars
<1>3. /\ Len(verdicts) \in Nat /\ Len(verdicts') = Len(verdicts) + 1
      /\ verdicts'[Len(verdicts) + 1][1] = current
      /\ \A m \in 1..Len(verdicts) : verdicts'[m] = verdicts[m]
      /\ Answer(<<current, IF handler = "reply_ok" THEN "ok" ELSE "error">>)'
  BY ExecuteAppends
<1>4. /\ Due(current)
      /\ \A k \in 1..Len(toServer) : toServer[k] # Torn => Earlier(current, toServer[k])
      /\ \A m \in 1..Len(verdicts) : InSent(verdicts[m][1])
  BY <1>1, <1>2 DEF StreamOK
<1>5. ASSUME NEW m \in 1..Len(verdicts')
      PROVE  (m \in 1..Len(verdicts) /\ verdicts'[m] = verdicts[m]) \/ verdicts'[m][1] = current
  <2>1. m \in 1..Len(verdicts) \/ m = Len(verdicts) + 1
    BY <1>3
  <2>. QED  BY <1>3, <2>1
<1>6. ASSUME NEW y, Due(y), Earlier(current, y)  PROVE Due(y)'
  <2>1. ASSUME NEW m \in 1..Len(verdicts')  PROVE Earlier(verdicts[m][1], y)'
    <3>1. PICK z : z = verdicts'[m][1]
      OBVIOUS
    <3>2. Earlier(z, y)
      BY <1>5, <1>6, <3>1 DEF Due
    <3>. QED  BY <1>2, <3>1, <3>2 DEF Earlier
  <2>. QED  BY <1>2, <1>6, <2>1 DEF Due, InSent
<1>7. ASSUME NEW k \in 1..Len(toServer), toServer[k] # Torn  PROVE Due(toServer[k])'
  <2>1. PICK y : y = toServer[k]
    OBVIOUS
  <2>2. Due(y) /\ Earlier(current, y)
    BY <1>1, <1>4, <1>7, <2>1 DEF FramesOK
  <2>3. Due(y)'
    BY <1>6, <2>2
  <2>. QED  BY <1>2, <2>1, <2>3 DEF Due, InSent, Earlier
<1>8. FramesOK'
  BY <1>1, <1>2, <1>7 DEF FramesOK, Earlier
<1>9. ASSUME NEW m \in 1..Len(verdicts')  PROVE InSent(verdicts[m][1])'
  <2>1. PICK z : z = verdicts'[m][1]
    OBVIOUS
  <2>2. InSent(z)
    BY <1>4, <1>5, <2>1 DEF Due
  <2>. QED  BY <1>2, <2>1, <2>2 DEF InSent
<1>. QED  BY <1>2, <1>3, <1>8, <1>9 DEF StreamOK

(***************************************************************************)
(* What the frames under way to the server stand for, in every step.       *)
(***************************************************************************)
LEMMA KeepsStream ==
  ASSUME IInv, [Next]_vars
  PROVE  StreamOK'
<1>1. \A c \in Callers :
        Begin(c) \/ Allow(c) \/ RecordSuccess(c) \/ RecordFailure(c) \/
        CheckRunning(c) \/ Register(c) \/ WriteLock(c) \/ TakeAnswer(c) \/ CallTimeout(c)
        => UNCHANGED <<toServer, sent, verdicts, handler, current>>
  BY DEF Begin, Allow, RecordSuccess, RecordFailure, CheckRunning, Register, WriteLock, TakeAnswer,
         CallTimeout, Conclude, breakerVars, callerVars, serverVars, wireVars, loopVars, histVars,
         mapVars
<1>2. LoopRead \/ LoopReadError \/ Deliver \/ LoopExit \/ Disconnect \/ DisconnectClose \/
     DisconnectJoin \/ CoolDown \/ UNCHANGED vars
        => UNCHANGED <<toServer, sent, verdicts, handler, current>>
  BY DEF LoopRead, LoopReadError, Deliver, LoopExit, Disconnect, DisconnectClose, DisconnectJoin,
         CoolDown, vars, NotifyAll, breakerVars, callerVars, serverVars, wireVars, loopVars,
         histVars, mapVars
<1>same. /\ TypeOK /\ StreamOK /\ toServer \in Seq(Ids \cup {Torn})
         /\ \A k \in 1..Len(toServer) : k \in 1..Len(toServer)
  BY StreamTypes DEF IInv
<1>3. ASSUME UNCHANGED <<toServer, sent, verdicts, handler, current>>  PROVE StreamOK'
  BY <1>3, <1>same, FewerFramesKeepStream
<1>4. ASSUME NEW c \in Callers, Write(c)  PROVE StreamOK'
  BY <1>4, WriteKeepsStream
<1>5. ASSUME NEW c \in Callers, WriteFail(c)  PROVE StreamOK'
  BY <1>5, WriteFailKeepsStream
<1>6. ASSUME ServerRead  PROVE StreamOK'
  BY <1>6, ServerReadKeepsStream
<1>7. ASSUME ServerReadTorn  PROVE StreamOK'
  BY <1>7, ServerReadTornKeepsStream
<1>8. ASSUME Execute  PROVE StreamOK'
  BY <1>8, ExecuteKeepsStream
<1>9. ASSUME Reply  PROVE StreamOK'
  <2>1. UNCHANGED <<toServer, sent, verdicts, current>> /\ handler' = "read"
    BY <1>9 DEF Reply, histVars
  <2>. QED  BY <2>1, <1>same, FewerFramesKeepStream
<1>10. ASSUME ServerClose  PROVE StreamOK'
  <2>1. UNCHANGED <<toServer, sent, verdicts, current>> /\ handler' = "closed"
    BY <1>10 DEF ServerClose, histVars, wireVars
  <2>. QED  BY <2>1, <1>same, FewerFramesKeepStream
<1>11. ASSUME Connect  PROVE StreamOK'
  <2>1. UNCHANGED <<toServer, sent, verdicts, current>> /\ handler' = "read"
    BY <1>11 DEF Connect, histVars, wireVars
  <2>. QED  BY <2>1, <1>same, FewerFramesKeepStream
<1>. QED  BY <1>1, <1>2, <1>3, <1>4, <1>5, <1>6, <1>7, <1>8, <1>9, <1>10, <1>11
     DEF Next, CallStep, LoopStep, DisconnectStep, ServerStep

(* What a step may not do to the history.                                  *)
StillAnswered == \A r : Answer(r) => Answer(r)'

(***************************************************************************)
(* What has been answered stays answered, in every step.                   *)
(***************************************************************************)
LEMMA AnswersStay ==
  ASSUME IInv, [Next]_vars
  PROVE  StillAnswered
<1>1. \A c \in Callers :
        Begin(c) \/ Allow(c) \/ RecordSuccess(c) \/ RecordFailure(c) \/
        CheckRunning(c) \/ Register(c) \/ WriteLock(c) \/ WriteFail(c) \/ TakeAnswer(c) \/
        CallTimeout(c)
        => UNCHANGED <<sent, verdicts>>
  BY DEF Begin, Allow, RecordSuccess, RecordFailure, CheckRunning, Register, WriteLock, WriteFail,
         TakeAnswer, CallTimeout, Conclude, breakerVars, callerVars, serverVars, wireVars,
         loopVars, histVars, mapVars
<1>2. LoopRead \/ LoopReadError \/ Deliver \/ LoopExit \/ Disconnect \/ DisconnectClose \/
     DisconnectJoin \/ ServerRead \/ ServerReadTorn \/ Reply \/ ServerClose \/ Connect \/
     CoolDown \/ UNCHANGED vars
        => UNCHANGED <<sent, verdicts>>
  BY DEF LoopRead, LoopReadError, Deliver, LoopExit, Disconnect, DisconnectClose, DisconnectJoin,
         ServerRead, ServerReadTorn, Reply, ServerClose, Connect, CoolDown, vars, NotifyAll,
         breakerVars, callerVars, serverVars, wireVars, loopVars, histVars, mapVars
<1>3. ASSUME UNCHANGED <<sent, verdicts>>  PROVE StillAnswered
  BY <1>3 DEF Answer, StillAnswered
<1>4. ASSUME NEW c \in Callers, Write(c)  PROVE StillAnswered
  BY <1>4 DEF Write, Answer, StillAnswered
<1>5. ASSUME Execute  PROVE StillAnswered
  BY <1>5, ExecuteAppends DEF StillAnswered
<1>. QED  BY <1>1, <1>2, <1>3, <1>4, <1>5
     DEF Next, CallStep, LoopStep, DisconnectStep, ServerStep

(***************************************************************************)
(* Whose answers the responses are, in every step.                         *)
(***************************************************************************)
LEMMA KeepsAnswers ==
  ASSUME IInv, [Next]_vars
  PROVE  AnswersOK'
<1>old. AnswersOK
  BY DEF IInv
<1>grow. \A r : Answer(r) => \E m \in 1..Len(verdicts') : verdicts'[m] = r
  BY AnswersStay DEF StillAnswered, Answer
<1>types. TypeOK
  BY DEF IInv
<1>1. \A c \in Callers :
        Begin(c) \/ Allow(c) \/ RecordSuccess(c) \/ RecordFailure(c) \/
        CheckRunning(c) \/ WriteLock(c) \/ Write(c) \/ WriteFail(c) \/ CallTimeout(c)
        => UNCHANGED <<toClient, loop, response, slot, id>>
  BY DEF Begin, Allow, RecordSuccess, RecordFailure, CheckRunning, WriteLock, Write, WriteFail,
         CallTimeout, Conclude, breakerVars, callerVars, serverVars, wireVars, loopVars, histVars,
         mapVars
<1>2. DisconnectClose \/ DisconnectJoin \/ ServerRead \/ ServerReadTorn \/ Execute \/
     ServerClose \/ CoolDown \/ UNCHANGED vars
        => UNCHANGED <<toClient, loop, response, slot, id>>
  BY DEF DisconnectClose, DisconnectJoin, ServerRead, ServerReadTorn, Execute, ServerClose,
         CoolDown, vars, breakerVars, callerVars, serverVars, wireVars, loopVars, histVars, mapVars
<1>wire. ASSUME UNCHANGED toClient
         PROVE  (\A k \in 1..Len(toClient) : toClient[k][1] # Torn => Answer(toClient[k]))'
  <2>1. ASSUME NEW k \in 1..Len(toClient'), toClient'[k][1] # Torn  PROVE Answer(toClient[k])'
    <3>1. Answer(toClient[k])
      BY <1>old, <1>wire, <2>1 DEF AnswersOK
    <3>. QED  BY <1>grow, <1>wire, <3>1 DEF Answer
  <2>. QED  BY <2>1
<1>hand. ASSUME loop' # "deliver" \/ UNCHANGED <<loop, response>>
         PROVE  (loop = "deliver" /\ response[1] # Torn => Answer(response))'
  <2>1. SUFFICES ASSUME loop' = "deliver", response'[1] # Torn  PROVE Answer(response)'
    OBVIOUS
  <2>2. Answer(response) /\ response' = response
    BY <1>old, <1>hand, <2>1 DEF AnswersOK
  <2>. QED  BY <1>grow, <2>2 DEF Answer
<1>slot. ASSUME NEW c \in Callers,
                slot'[c] \in {Empty, NilResponse} \/ (slot'[c] = slot[c] /\ id'[c] = id[c])
         PROVE  (slot[c] \in {Empty, NilResponse} \/ (slot[c][1] = id[c] /\ Answer(slot[c])))'
  <2>1. SUFFICES ASSUME ~(slot'[c] \in {Empty, NilResponse})
                 PROVE  slot'[c][1] = id'[c] /\ Answer(slot[c])'
    OBVIOUS
  <2>2. slot'[c] = slot[c] /\ id'[c] = id[c] /\ slot[c][1] = id[c] /\ Answer(slot[c])
    BY <1>old, <1>slot, <2>1 DEF AnswersOK
  <2>. QED  BY <1>grow, <2>2 DEF Answer
<1>3. ASSUME UNCHANGED <<toClient, loop, response, slot, id>>  PROVE AnswersOK'
  BY <1>3, <1>wire, <1>hand, <1>slot DEF AnswersOK
<1>4. ASSUME NEW c \in Callers, Register(c)  PROVE AnswersOK'
  <2>1. UNCHANGED <<toClient, loop, response>>
    BY <1>4 DEF Register, wireVars, loopVars
  <2>2. slot'[c] = Empty /\ \A d \in Callers \ {c} : slot'[d] = slot[d] /\ id'[d] = id[d]
    BY <1>4, <1>types DEF Register, TypeOK
  <2>. QED  BY <1>wire, <1>hand, <1>slot, <2>1, <2>2 DEF AnswersOK
<1>5. ASSUME NEW c \in Callers, TakeAnswer(c)  PROVE AnswersOK'
  <2>1. UNCHANGED <<toClient, loop, response, id>>
    BY <1>5 DEF TakeAnswer, wireVars, loopVars
  <2>2. slot'[c] = Empty /\ \A d \in Callers \ {c} : slot'[d] = slot[d]
    BY <1>5, <1>types DEF TakeAnswer, TypeOK
  <2>. QED  BY <1>wire, <1>hand, <1>slot, <2>1, <2>2 DEF AnswersOK
<1>6. ASSUME LoopRead  PROVE AnswersOK'
  <2>1. UNCHANGED <<slot, id>> /\ toClient # <<>> /\ response' = Head(toClient) /\ toClient' = Tail(toClient)
    BY <1>6 DEF LoopRead, mapVars, callerVars
  <2>2. toClient \in Seq(Responses)
    BY <1>types, StreamTypes
  <2>3. /\ Len(toClient) \in Nat /\ Len(toClient) >= 1 /\ Len(toClient') = Len(toClient) - 1
        /\ Head(toClient) = toClient[1] /\ \A k \in 1..Len(toClient') : toClient'[k] = toClient[k + 1]
    BY <2>1, <2>2, Shorter
  <2>4. response'[1] # Torn => Answer(response)'
    <3>1. 1 \in 1..Len(toClient)
      BY <2>3
    <3>2. response' = toClient[1] /\ (toClient[1][1] # Torn => Answer(toClient[1]))
      BY <1>old, <2>1, <2>3, <3>1 DEF AnswersOK
    <3>. QED  BY <1>grow, <3>2 DEF Answer
  <2>5. ASSUME NEW k \in 1..Len(toClient'), toClient'[k][1] # Torn  PROVE Answer(toClient[k])'
    <3>1. k + 1 \in 1..Len(toClient) /\ toClient'[k] = toClient[k + 1]
      BY <2>3
    <3>2. Answer(toClient[k + 1])
      BY <1>old, <2>5, <3>1 DEF AnswersOK
    <3>. QED  BY <1>grow, <3>1, <3>2 DEF Answer
  <2>6. \A c \in Callers : (slot[c] \in {Empty, NilResponse} \/ (slot[c][1] = id[c] /\ Answer(slot[c])))'
    BY <1>slot, <2>1
  <2>. QED  BY <2>4, <2>5, <2>6 DEF AnswersOK
<1>7. ASSUME LoopReadError  PROVE AnswersOK'
  <2>1. UNCHANGED <<toClient, slot, id>> /\ loop' = "exit"
    BY <1>7 DEF LoopReadError, wireVars, mapVars, callerVars
  <2>. QED  BY <1>wire, <1>hand, <1>slot, <2>1 DEF AnswersOK
<1>8. ASSUME Deliver  PROVE AnswersOK'
  <2>1. UNCHANGED <<toClient, id>> /\ loop' # "deliver" /\ loop = "deliver"
    BY <1>8 DEF Deliver, wireVars, callerVars
  <2>2. ASSUME NEW c \in Callers
        PROVE  (slot[c] \in {Empty, NilResponse} \/ (slot[c][1] = id[c] /\ Answer(slot[c])))'
    <3>1. CASE slot'[c] = slot[c]
      BY <1>slot, <2>1, <3>1
    <3>2. CASE response[1] \in Ids /\ callbacks[response[1]] = c /\ slot'[c] = response
      <4>1. id[c] = response[1] /\ response[1] # Torn
        BY <3>2, ConstantAssumption, IdsArePositive DEF IInv, CallsOK
      <4>2. Answer(response)
        BY <1>old, <2>1, <4>1 DEF AnswersOK
      <4>. QED  BY <1>grow, <2>1, <3>2, <4>1, <4>2 DEF Answer
    <3>. QED  BY <1>8, <3>1, <3>2 DEF Deliver
  <2>. QED  BY <1>wire, <1>hand, <2>1, <2>2 DEF AnswersOK
<1>9. ASSUME LoopExit  PROVE AnswersOK'
  <2>1. UNCHANGED <<toClient, id>> /\ (loop' # "deliver" \/ UNCHANGED <<loop, response>>)
    BY <1>9 DEF LoopExit, wireVars, callerVars, loopVars
  <2>2. \A c \in Callers : slot'[c] \in {slot[c], NilResponse}
    BY <1>9 DEF LoopExit, NotifyAll
  <2>. QED  BY <1>wire, <1>hand, <1>slot, <2>1, <2>2 DEF AnswersOK
<1>10. ASSUME Disconnect  PROVE AnswersOK'
  <2>1. UNCHANGED <<toClient, id>> /\ (loop' # "deliver" \/ UNCHANGED <<loop, response>>)
    BY <1>10 DEF Disconnect, wireVars, callerVars, loopVars
  <2>2. \A c \in Callers : slot'[c] \in {slot[c], NilResponse}
    BY <1>10 DEF Disconnect, NotifyAll
  <2>. QED  BY <1>wire, <1>hand, <1>slot, <2>1, <2>2 DEF AnswersOK
<1>11. ASSUME Reply  PROVE AnswersOK'
  <2>. DEFINE r == <<current, IF handler = "reply_ok" THEN "ok" ELSE "error">>
  <2>1. UNCHANGED <<slot, id, loop, response>> /\ toClient' = Append(toClient, r)
    BY <1>11 DEF Reply, mapVars, callerVars, loopVars
  <2>2. r \in Responses
    BY <1>types DEF TypeOK, Responses, Results
  <2>3. /\ Len(toClient) \in Nat /\ Len(toClient') = Len(toClient) + 1 /\ toClient'[Len(toClient) + 1] = r
        /\ \A k \in 1..Len(toClient) : toClient'[k] = toClient[k]
    <3>1. toClient \in Seq(Responses)
      BY <1>types, StreamTypes
    <3>. QED  BY <2>1, <2>2, <3>1, Longer
  <2>4. current # Torn => Answer(r)
    <3>1. SUFFICES ASSUME current # Torn  PROVE Answer(r)
      OBVIOUS
    <3>. QED  BY <1>11, <3>1 DEF Reply, IInv, StreamOK
  <2>5. ASSUME NEW k \in 1..Len(toClient'), toClient'[k][1] # Torn  PROVE Answer(toClient[k])'
    <3>1. CASE k \in 1..Len(toClient)
      <4>1. toClient'[k] = toClient[k] /\ Answer(toClient[k])
        BY <1>old, <2>3, <2>5, <3>1 DEF AnswersOK
      <4>. QED  BY <1>grow, <4>1 DEF Answer
    <3>2. CASE k = Len(toClient) + 1
      <4>1. toClient'[k] = r /\ r[1] = current
        BY <2>3, <3>2
      <4>2. Answer(r)
        BY <2>4, <2>5, <4>1
      <4>. HIDE DEF r
      <4>. QED  BY <1>grow, <4>1, <4>2 DEF Answer
    <3>. QED  BY <2>3, <3>1, <3>2
  <2>. QED  BY <1>hand, <1>slot, <2>1, <2>5 DEF AnswersOK
<1>12. ASSUME Connect  PROVE AnswersOK'
  <2>1. UNCHANGED <<toClient, slot, id>> /\ loop' = "read"
    BY <1>12 DEF Connect, wireVars, mapVars, callerVars
  <2>. QED  BY <1>wire, <1>hand, <1>slot, <2>1 DEF AnswersOK
<1>. QED  BY <1>1, <1>2, <1>3, <1>4, <1>5, <1>6, <1>7, <1>8, <1>9, <1>10, <1>11, <1>12
     DEF Next, CallStep, LoopStep, DisconnectStep, ServerStep

-----------------------------------------------------------------------------
(* What the contract makes of a step.                                      *)
ContractStep == Contract!Next \/ UNCHANGED <<sent, verdicts, outcome>>

(***************************************************************************)
(* A step of the connection is one of the contract, or none.               *)
(***************************************************************************)
LEMMA Refines ==
  ASSUME IInv, [Next]_vars
  PROVE  ContractStep
<1>1. \A c \in Callers :
        Begin(c) \/ Allow(c) \/ RecordSuccess(c) \/ RecordFailure(c) \/
        CheckRunning(c) \/ Register(c) \/ WriteLock(c)
        => UNCHANGED <<sent, verdicts, outcome>>
  BY DEF Begin, Allow, RecordSuccess, RecordFailure, CheckRunning, Register, WriteLock,
         breakerVars, callerVars, serverVars, wireVars, loopVars, histVars, mapVars
<1>2. LoopRead \/ LoopReadError \/ Deliver \/ LoopExit \/ Disconnect \/ DisconnectClose \/
     DisconnectJoin \/ ServerRead \/ ServerReadTorn \/ Reply \/ ServerClose \/ Connect \/
     CoolDown \/ UNCHANGED vars
        => UNCHANGED <<sent, verdicts, outcome>>
  BY DEF LoopRead, LoopReadError, Deliver, LoopExit, Disconnect, DisconnectClose, DisconnectJoin,
         ServerRead, ServerReadTorn, Reply, ServerClose, Connect, CoolDown, vars, NotifyAll,
         breakerVars, callerVars, serverVars, wireVars, loopVars, histVars, mapVars
<1>3. ASSUME UNCHANGED <<sent, verdicts, outcome>>  PROVE ContractStep
  BY <1>3 DEF ContractStep
<1>4. ASSUME NEW c \in Callers, Write(c)  PROVE ContractStep
  <2>1. id[c] \in Ids /\ outcome[id[c]] = Unknown
    BY <1>4, InFlightHasId DEF Write, At, InFlight, IInv, FreshOK
  <2>2. sent' = Append(sent, id[c]) /\ UNCHANGED <<verdicts, outcome>>
    BY <1>4 DEF Write
  <2>3. \A k \in 1..Len(sent) : sent[k] # id[c]
    BY <1>4 DEF Write, At, IInv, FreshOK
  <2>4. Contract!Send(id[c])
    BY <2>1, <2>2, <2>3 DEF Contract!Send
  <2>. QED  BY <2>1, <2>4 DEF Contract!Next, ContractStep
<1>5. ASSUME NEW c \in Callers, WriteFail(c)  PROVE ContractStep
  <2>1. id[c] \in Ids /\ outcome[id[c]] = Unknown
    BY <1>5, InFlightHasId DEF WriteFail, At, InFlight, IInv, FreshOK
  <2>2. UNCHANGED <<sent, verdicts>> /\ outcome' = [outcome EXCEPT ![id[c]] = Lost]
    BY <1>5 DEF WriteFail, Conclude
  <2>3. Contract!GiveUp(id[c])
    BY <2>1, <2>2 DEF Contract!GiveUp
  <2>. QED  BY <2>1, <2>3 DEF Contract!Next, ContractStep
<1>6. ASSUME NEW c \in Callers, CallTimeout(c)  PROVE ContractStep
  <2>1. id[c] \in Ids /\ outcome[id[c]] = Unknown
    BY <1>6, InFlightHasId DEF CallTimeout, At, InFlight, IInv, FreshOK
  <2>2. UNCHANGED <<sent, verdicts>> /\ outcome' = [outcome EXCEPT ![id[c]] = Lost]
    BY <1>6 DEF CallTimeout, Conclude
  <2>3. Contract!GiveUp(id[c])
    BY <2>1, <2>2 DEF Contract!GiveUp
  <2>. QED  BY <2>1, <2>3 DEF Contract!Next, ContractStep
<1>7. ASSUME NEW c \in Callers, TakeAnswer(c)  PROVE ContractStep
  <2>1. id[c] \in Ids /\ outcome[id[c]] = Unknown
    BY <1>7, InFlightHasId DEF TakeAnswer, At, InFlight, IInv, FreshOK
  <2>2. /\ UNCHANGED <<sent, verdicts>> /\ outcome' = [outcome EXCEPT ![id[c]] = slot[c][2]]
        /\ slot[c] # Empty
    BY <1>7 DEF TakeAnswer, Conclude
  <2>3. CASE slot[c] = NilResponse
    <3>1. outcome' = [outcome EXCEPT ![id[c]] = Lost]
      BY <2>2, <2>3 DEF NilResponse
    <3>2. Contract!GiveUp(id[c])
      BY <2>1, <2>2, <3>1 DEF Contract!GiveUp
    <3>. QED  BY <2>1, <3>2 DEF Contract!Next, ContractStep
  <2>4. CASE slot[c] # NilResponse
    <3>1. slot[c][1] = id[c] /\ Answer(slot[c])
      BY <2>2, <2>4 DEF IInv, AnswersOK
    <3>2. PICK m \in 1..Len(verdicts) : verdicts[m][1] = id[c] /\ verdicts[m][2] = slot[c][2]
      BY <3>1 DEF Answer
    <3>3. Contract!Answer(id[c])
      BY <2>1, <2>2, <3>2 DEF Contract!Answer
    <3>. QED  BY <2>1, <3>3 DEF Contract!Next, ContractStep
  <2>. QED  BY <2>3, <2>4
<1>8. ASSUME Execute  PROVE ContractStep
  <2>1. PICK v \in Results : verdicts' = Append(verdicts, <<current, v>>)
    BY <1>8 DEF Execute
  <2>2. UNCHANGED <<sent, outcome>> /\ Due(current)
    BY <1>8 DEF Execute, IInv, StreamOK
  <2>3. PICK p \in 1..Len(sent) : sent[p] = current
    BY <2>2 DEF Due, InSent
  <2>4. Contract!Execute(p, v)
    <3>1. ASSUME NEW m \in 1..Len(verdicts), NEW l \in p..Len(sent), verdicts[m][1] = sent[l]
          PROVE  FALSE
      <4>1. Len(sent) \in Nat
        BY StreamTypes DEF IInv
      <4>2. l \in 1..Len(sent) /\ ~(l < p)
        BY <2>3, <4>1
      <4>3. Earlier(verdicts[m][1], current)
        BY <2>2 DEF Due
      <4>. QED  BY <2>3, <3>1, <4>2, <4>3 DEF Earlier
    <3>. QED  BY <2>1, <2>2, <2>3, <3>1 DEF Contract!Execute
  <2>. QED  BY <2>1, <2>3, <2>4 DEF Contract!Next, ContractStep
<1>. QED  BY <1>1, <1>2, <1>3, <1>4, <1>5, <1>6, <1>7, <1>8
     DEF Next, CallStep, LoopStep, DisconnectStep, ServerStep

(***************************************************************************)
(* The invariant holds in every reachable state, with any number of callers, *)
(* calls, retries and frames.                                              *)
(***************************************************************************)
THEOREM Invariance == Spec => []IInv
<1>1. IInv /\ [Next]_vars => IInv'
  <2>. SUFFICES ASSUME IInv, [Next]_vars  PROVE IInv'
    OBVIOUS
  <2>1. TypeOK'
    BY KeepsTypes
  <2>2. CountOK'
    BY KeepsCount
  <2>3. CallsOK' /\ FreshOK'
    BY KeepsBook
  <2>4. MutexOK'
    BY KeepsMutex
  <2>5. LoopOK'
    BY KeepsLoop
  <2>6. StreamOK'
    BY KeepsStream
  <2>7. AnswersOK'
    BY KeepsAnswers
  <2>8. BreakerCounts'
    BY KeepsBreaker
  <2>. QED  BY <2>1, <2>2, <2>3, <2>4, <2>5, <2>6, <2>7, <2>8 DEF IInv
<1>. QED  BY Starts, <1>1, PTL DEF Spec

(***************************************************************************)
(* Type correctness, for every reachable state.                            *)
(***************************************************************************)
THEOREM TypeCorrect == Spec => []TypeOK
<1>1. IInv => TypeOK
  BY DEF IInv
<1>. QED  BY Invariance, <1>1, PTL

(***************************************************************************)
(* The client keeps track of its calls: callOnce's three deletes, Disconnect *)
(* and responseLoop's cleanup leave no callback behind and forget no caller. *)
(***************************************************************************)
THEOREM CallsAreTracked == Spec => []CallbacksTrackCalls
<1>1. IInv => CallbacksTrackCalls
  BY DEF IInv, CallsOK, CallbacksTrackCalls, At, InFlight
<1>. QED  BY Invariance, <1>1, PTL

(***************************************************************************)
(* The breaker is closed exactly while the failures since the last success are *)
(* fewer than its threshold (Allow, RecordSuccess, RecordFailure).         *)
(***************************************************************************)
THEOREM FailuresAreCounted == Spec => []BreakerCounts
<1>1. IInv => BreakerCounts
  BY DEF IInv
<1>. QED  BY Invariance, <1>1, PTL

(***************************************************************************)
(* The two ends of the connection implement the contract: a request is executed *)
(* at most once, in the order sent, and a call is answered at most once, with *)
(* what the server made of that very request (callOnce, responseLoop,      *)
(* handleConnection).                                                      *)
(***************************************************************************)
THEOREM Implements == Spec => ImplementsContract
<1>1. Init => Contract!Init
  BY DEF Init, Contract!Init
<1>2. IInv /\ [Next]_vars => [Contract!Next]_(Contract!vars)
  BY Refines DEF ContractStep, Contract!vars
<1>. QED  BY Invariance, <1>1, <1>2, PTL DEF Spec, ImplementsContract, Contract!Spec
-----------------------------------------------------------------------------
(***************************************************************************)
(* Why calls return.  Rank is how many steps of its own a call has left at *)
(* most: the attempts that the options still allow, and how far this one   *)
(* has come.  CanStep and LoopCanStep are the guards of CallStep and       *)
(* LoopStep.                                                               *)
(***************************************************************************)
Stage(l) ==
  CASE l = "allow"    -> 7
    [] l = "check"    -> 6
    [] l = "register" -> 5
    [] l = "lock"     -> 4
    [] l = "write"    -> 3
    [] l = "wait"     -> 2
    [] l \in {"succeeded", "failed"} -> 1
    [] OTHER -> 0

Rank(c) == IF pc[c] = Idle THEN 0 ELSE 7 * (Attempts[c] - attempt[c]) + Stage(pc[c])

CanStep(c) ==
  \/ pc[c] \in {"allow", "write", "succeeded", "failed"}
  \/ pc[c] \in {"check", "register", "lock", "wait"} /\ mutex = Nobody

LoopCanStep ==
  \/ loop = "read"
  \/ loop \in {"deliver", "exit"} /\ mutex = Nobody

RankIsNat == \A c \in Callers : Rank(c) \in Nat /\ (pc[c] # Idle => Rank(c) > 0)

Advance ==
  \A c \in Callers : /\ CallStep(c) => Rank(c)' < Rank(c)
                     /\ pc[c] # Idle => Rank(c)' <= Rank(c)

(***************************************************************************)
(* Nobody waits for more than the one caller that is writing: a call, and  *)
(* the response loop that Disconnect waits for, can go on, or the holder   *)
(* of the mutex can.                                                       *)
(***************************************************************************)
NobodyIsStuck ==
  /\ \A c \in Callers : pc[c] # Idle => CanStep(c) \/ (mutex \in Callers /\ CanStep(mutex))
  /\ disconnect = "join" => loop = "done" \/ LoopCanStep \/ (mutex \in Callers /\ CanStep(mutex))

JoinsLoop == disconnect \in {"close", "join"} => loop # "off"

(***************************************************************************)
(* Disconnect only ever waits for a loop that was started.                 *)
(***************************************************************************)
LEMMA KeepsJoinsLoop ==
  ASSUME IInv, JoinsLoop, [Next]_vars
  PROVE  JoinsLoop'
<1>1. running => loop # "off"
  BY DEF IInv, LoopOK
<1>. USE DEF JoinsLoop
<1>2. ASSUME NEW c \in Callers, Begin(c) \/ CallStep(c)  PROVE JoinsLoop'
  BY <1>2 DEF Begin, CallStep, Allow, CheckRunning, Register, WriteLock, Write, WriteFail,
              TakeAnswer, CallTimeout, RecordSuccess, RecordFailure, loopVars
<1>3. CASE LoopStep
  BY <1>3 DEF LoopStep, LoopRead, LoopReadError, Deliver, LoopExit
<1>4. CASE Disconnect
  BY <1>1, <1>4 DEF Disconnect, loopVars
<1>5. CASE DisconnectStep
  BY <1>5 DEF DisconnectStep, DisconnectClose, DisconnectJoin, loopVars
<1>6. CASE ServerStep
  BY <1>6 DEF ServerStep, ServerRead, ServerReadTorn, Execute, Reply, ServerClose, loopVars
<1>7. CASE Connect
  BY <1>7 DEF Connect
<1>8. CASE CoolDown
  BY <1>8 DEF CoolDown, loopVars
<1>9. CASE UNCHANGED vars
  BY <1>9 DEF vars, loopVars
<1>. HIDE DEF JoinsLoop
<1>. QED  BY <1>2, <1>3, <1>4, <1>5, <1>6, <1>7, <1>8, <1>9 DEF Next

(***************************************************************************)
(* The rank is a number, and zero only when no call is under way.          *)
(***************************************************************************)
LEMMA RanksAreNat == TypeOK => RankIsNat
<1>. SUFFICES ASSUME TypeOK, NEW c \in Callers
              PROVE  Rank(c) \in Nat /\ (pc[c] # Idle => Rank(c) > 0)
  BY DEF RankIsNat
<1>1. PICK n \in Nat, k \in Nat : n = Attempts[c] /\ k = attempt[c] /\ k <= n
  BY ConstantAssumption DEF TypeOK
<1>2. pc[c] \in CallPC
  BY DEF TypeOK
<1>3. Stage(pc[c]) \in Nat /\ (pc[c] # Idle => Stage(pc[c]) > 0)
  BY <1>2 DEF CallPC, Stage, Idle
<1>4. PICK s \in Nat : s = Stage(pc[c]) /\ (pc[c] # Idle => s > 0)
  BY <1>3
<1>. QED  BY <1>1, <1>4 DEF Rank

(***************************************************************************)
(* Whoever stays where it is keeps its rank.                               *)
(***************************************************************************)
LEMMA SameRank ==
  \A d \in Callers : pc'[d] = pc[d] /\ attempt'[d] = attempt[d] => Rank(d)' = Rank(d)
<1>. SUFFICES ASSUME NEW d \in Callers, pc'[d] = pc[d], attempt'[d] = attempt[d]
              PROVE  Rank(d)' = Rank(d)
  OBVIOUS
<1>1. Stage(pc[d])' = Stage(pc[d])
  BY Zenon DEF Stage
<1>. QED  BY <1>1, Zenon DEF Rank

(***************************************************************************)
(* A step of a call lowers its rank: it comes further in its attempt, or   *)
(* begins one of those that are left.                                      *)
(***************************************************************************)
LEMMA OwnStepAdvances ==
  ASSUME IInv, NEW c \in Callers, CallStep(c)
  PROVE  /\ Rank(c)' \in Nat /\ Rank(c)' < Rank(c)
         /\ \A d \in Callers : d # c => Rank(d)' = Rank(d)
<1>1. /\ pc \in [Callers -> CallPC] /\ attempt \in [Callers -> Nat]
      /\ Attempts[c] \in Nat /\ attempt[c] \in Nat /\ attempt[c] <= Attempts[c]
  BY ConstantAssumption DEF IInv, TypeOK
<1>. DEFINE Further(l) == /\ pc' = [pc EXCEPT ![c] = l]
                          /\ UNCHANGED attempt
                          /\ pc[c] # Idle /\ Stage(l) < Stage(pc[c])
                          /\ Stage(l) \in Nat /\ Stage(pc[c]) \in Nat
            Again == /\ pc' = [pc EXCEPT ![c] = "allow"] /\ pc[c] = "failed"
                     /\ attempt' = [attempt EXCEPT ![c] = attempt[c] + 1]
                     /\ attempt[c] < Attempts[c]
<1>2. (\E l \in CallPC : Further(l)) \/ Again
  <2>1. CASE Allow(c)
    <3>1. PICK l \in {Idle, "check"} : pc[c] = "allow" /\ pc' = [pc EXCEPT ![c] = l] /\ UNCHANGED attempt
      BY <2>1 DEF Allow, At, Goto
    <3>2. l \in CallPC /\ Further(l)
      BY <3>1 DEF Stage, CallPC, Idle
    <3>. HIDE DEF Further, Again
    <3>. QED  BY <3>2
  <2>2. CASE CheckRunning(c)
    <3>1. PICK l \in {"register", "failed"} : pc[c] = "check" /\ pc' = [pc EXCEPT ![c] = l] /\ UNCHANGED attempt
      BY <2>2 DEF CheckRunning, At, Goto
    <3>2. l \in CallPC /\ Further(l)
      BY <3>1 DEF Stage, CallPC, Idle
    <3>. HIDE DEF Further, Again
    <3>. QED  BY <3>2
  <2>3. CASE Register(c)
    BY <2>3 DEF Register, At, Goto, Stage, CallPC, Idle
  <2>4. CASE WriteLock(c)
    BY <2>4 DEF WriteLock, At, Goto, Stage, CallPC, Idle
  <2>5. CASE Write(c)
    BY <2>5 DEF Write, At, Goto, Stage, CallPC, Idle
  <2>6. CASE WriteFail(c)
    <3>1. pc[c] = "write" /\ pc' = [pc EXCEPT ![c] = "failed"] /\ UNCHANGED attempt
      BY <2>6 DEF WriteFail, Conclude, Lost, At, Goto
    <3>2. "failed" \in CallPC /\ Further("failed")
      BY <3>1 DEF Stage, CallPC, Idle
    <3>. HIDE DEF Further, Again
    <3>. QED  BY <3>2
  <2>7. CASE TakeAnswer(c)
    <3>1. PICK l \in {"succeeded", "failed"} : pc[c] = "wait" /\ pc' = [pc EXCEPT ![c] = l] /\ UNCHANGED attempt
      BY <2>7 DEF TakeAnswer, Conclude, At, Goto
    <3>2. l \in CallPC /\ Further(l)
      BY <3>1 DEF Stage, CallPC, Idle
    <3>. HIDE DEF Further, Again
    <3>. QED  BY <3>2
  <2>8. CASE CallTimeout(c)
    BY <2>8 DEF CallTimeout, Conclude, Lost, At, Goto, Stage, CallPC, Idle
  <2>9. CASE RecordSuccess(c)
    BY <2>9 DEF RecordSuccess, At, Goto, Stage, CallPC, Idle
  <2>10. CASE RecordFailure(c)
    BY <2>10 DEF RecordFailure, At, Goto, Stage, CallPC, Idle
  <2>. HIDE DEF Further, Again
  <2>. QED  BY <2>1, <2>2, <2>3, <2>4, <2>5, <2>6, <2>7, <2>8, <2>9, <2>10 DEF CallStep
<1>3. ASSUME NEW l \in CallPC, Further(l)
      PROVE  /\ Rank(c)' \in Nat /\ Rank(c)' < Rank(c)
             /\ \A d \in Callers : d # c => Rank(d)' = Rank(d)
  <2>1. pc'[c] = l /\ attempt'[c] = attempt[c]
    BY <1>1, <1>3
  <2>2. PICK s \in Nat, r \in Nat : s = Stage(l) /\ r = Stage(pc[c]) /\ s < r
    BY <1>3
  <2>3. PICK k \in Nat : k = 7 * (Attempts[c] - attempt[c])
    BY <1>1
  <2>4. Rank(c) = k + r /\ Rank(c)' \in {0, k + s}
    BY <1>3, <2>1, <2>2, <2>3 DEF Rank
  <2>5. Rank(c)' \in Nat /\ Rank(c)' < Rank(c)
    BY <2>2, <2>3, <2>4
  <2>6. \A d \in Callers : d # c => pc'[d] = pc[d] /\ attempt'[d] = attempt[d]
    BY <1>1, <1>3
  <2>7. \A d \in Callers : d # c => Rank(d)' = Rank(d)
    BY <2>6, SameRank
  <2>. QED  BY <2>5, <2>7
<1>4. ASSUME Again
      PROVE  /\ Rank(c)' \in Nat /\ Rank(c)' < Rank(c)
             /\ \A d \in Callers : d # c => Rank(d)' = Rank(d)
  <2>1. /\ pc'[c] = "allow" /\ pc[c] = "failed"
        /\ attempt'[c] = attempt[c] + 1
    BY <1>1, <1>4
  <2>2. Rank(c) = 7 * (Attempts[c] - attempt[c]) + 1
    BY <2>1 DEF Rank, Stage, Idle
  <2>3. Rank(c)' = 7 * (Attempts[c] - (attempt[c] + 1)) + 7
    BY <2>1 DEF Rank, Stage, Idle
  <2>4. Rank(c)' \in Nat /\ Rank(c)' < Rank(c)
    BY <1>1, <1>4, <2>2, <2>3
  <2>5. \A d \in Callers : d # c => pc'[d] = pc[d] /\ attempt'[d] = attempt[d]
    BY <1>1, <1>4
  <2>6. \A d \in Callers : d # c => Rank(d)' = Rank(d)
    BY <2>5, SameRank
  <2>. QED  BY <2>4, <2>6
<1>. HIDE DEF Further, Again
<1>. QED  BY <1>2, <1>3, <1>4

(***************************************************************************)
(* No step of anybody takes a call that is under way back.                 *)
(***************************************************************************)
LEMMA StepsAdvance ==
  ASSUME IInv, [Next]_vars
  PROVE  Advance
<1>1. \A c \in Callers : Rank(c) \in Nat
  BY RanksAreNat DEF IInv, RankIsNat
<1>2. ASSUME UNCHANGED callerVars  PROVE Advance
  <2>1. \A c \in Callers : Rank(c)' = Rank(c)
    BY <1>2 DEF callerVars, Rank
  <2>2. \A c \in Callers : ~CallStep(c)
    <3>. SUFFICES ASSUME NEW c \in Callers, CallStep(c) PROVE FALSE
      OBVIOUS
    <3>1. Rank(c)' < Rank(c)
      BY OwnStepAdvances
    <3>. QED  BY <1>1, <2>1, <3>1
  <2>. QED  BY <1>1, <2>1, <2>2 DEF Advance
<1>3. ASSUME NEW d \in Callers, CallStep(d)  PROVE Advance
  <2>1. /\ Rank(d)' \in Nat /\ Rank(d)' < Rank(d)
        /\ \A c \in Callers : c # d => Rank(c)' = Rank(c)
    BY <1>3, OwnStepAdvances
  <2>2. \A c \in Callers : CallStep(c) => Rank(c)' < Rank(c)
    BY OwnStepAdvances
  <2>3. \A c \in Callers : Rank(c)' <= Rank(c)
    <3>. SUFFICES ASSUME NEW c \in Callers PROVE Rank(c)' <= Rank(c)
      OBVIOUS
    <3>1. CASE c = d
      <4>1. PICK m \in Nat, n \in Nat : m = Rank(d)' /\ n = Rank(d)
        BY <1>1, <2>1
      <4>. QED  BY <2>1, <3>1, <4>1
    <3>2. CASE c # d
      <4>1. PICK n \in Nat : n = Rank(c)
        BY <1>1
      <4>. QED  BY <2>1, <3>2, <4>1
    <3>. QED  BY <3>1, <3>2
  <2>. QED  BY <2>2, <2>3 DEF Advance
<1>4. ASSUME NEW d \in Callers, Begin(d)  PROVE Advance
  <2>1. /\ pc[d] = Idle /\ pc' = [pc EXCEPT ![d] = "allow"] /\ attempt' = [attempt EXCEPT ![d] = 1]
        /\ pc \in [Callers -> CallPC] /\ attempt \in [Callers -> Nat]
    BY <1>4 DEF Begin, At, Goto, IInv, TypeOK
  <2>2. \A c \in Callers : c # d => Rank(c)' = Rank(c)
    BY <2>1 DEF Rank
  <2>3. \A c \in Callers : pc[c] # Idle => Rank(c)' <= Rank(c)
    BY <1>1, <2>1, <2>2
  <2>4. \A c \in Callers : CallStep(c) => Rank(c)' < Rank(c)
    BY OwnStepAdvances
  <2>. QED  BY <2>3, <2>4 DEF Advance
<1>5. CASE LoopStep \/ Disconnect \/ DisconnectStep
  <2>1. UNCHANGED callerVars
    BY <1>5 DEF LoopStep, LoopRead, LoopReadError, Deliver, LoopExit, Disconnect,
                DisconnectStep, DisconnectClose, DisconnectJoin
  <2>. QED  BY <1>2, <2>1
<1>6. CASE ServerStep \/ Connect \/ CoolDown \/ UNCHANGED vars
  <2>1. UNCHANGED callerVars
    BY <1>6 DEF ServerStep, ServerRead, ServerReadTorn, Execute, Reply, ServerClose,
                Connect, CoolDown, vars
  <2>. QED  BY <1>2, <2>1
<1>. QED  BY <1>3, <1>4, <1>5, <1>6 DEF Next

(***************************************************************************)
(* The mutex is held by who writes, and a write ends: there is room, or    *)
(* the socket is closed, or the deadline passes.                           *)
(***************************************************************************)
LEMMA HolderGoesOn == IInv /\ JoinsLoop => NobodyIsStuck
<1>. SUFFICES ASSUME IInv, JoinsLoop PROVE NobodyIsStuck
  OBVIOUS
<1>1. mutex = Nobody \/ (mutex \in Callers /\ CanStep(mutex))
  BY DEF IInv, TypeOK, MutexOK, CanStep
<1>2. \A c \in Callers : pc[c] # Idle /\ mutex = Nobody => CanStep(c)
  BY DEF IInv, TypeOK, CallPC, CanStep
<1>3. disconnect = "join" /\ mutex = Nobody => loop = "done" \/ LoopCanStep
  BY DEF IInv, TypeOK, JoinsLoop, LoopCanStep
<1>. QED  BY <1>1, <1>2, <1>3 DEF NobodyIsStuck

(***************************************************************************)
(* Every step of a call brings it nearer to its end and no step of anybody *)
(* takes it back; and neither a call nor Disconnect is ever stuck: what it *)
(* waits for can go on.  With a scheduler that runs who can go on, calls   *)
(* and Disconnect return (CallWithOptions' retries, the lock held across   *)
(* the write, Disconnect's wg.Wait).                                       *)
(***************************************************************************)
THEOREM CallsAdvance == Spec => [](RankIsNat /\ NobodyIsStuck) /\ [][Advance]_vars
<1>1. Init => JoinsLoop
  BY DEF Init, JoinsLoop, Idle
<1>2. IInv /\ JoinsLoop /\ [Next]_vars => JoinsLoop'
  BY KeepsJoinsLoop
<1>3. IInv => RankIsNat
  BY RanksAreNat DEF IInv
<1>4. IInv /\ JoinsLoop => NobodyIsStuck
  BY HolderGoesOn
<1>5. IInv /\ [Next]_vars => [Advance]_vars
  BY StepsAdvance
<1>. QED  BY Invariance, <1>1, <1>2, <1>3, <1>4, <1>5, PTL DEF Spec
=============================================================================
