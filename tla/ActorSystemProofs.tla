------------------------- MODULE ActorSystemProofs -------------------------
(***************************************************************************)
(* Proofs about ActorSystem for every set of actors and threads, every     *)
(* mailbox capacity and every number of calls.                             *)
(***************************************************************************)
EXTENDS ActorSystem, FiniteSetTheorems, TLAPS

(* The call a thread is in names a message.                                *)
LEMMA MessageOfCall ==
  ASSUME TypeOK, NEW t \in Threads, ~At(t, Idle)
  PROVE  <<t, calls[t]>> \in Messages
<1>1. calls[t] \in Nat /\ calls[t] <= MaxCalls[t] /\ calls[t] > 0 /\ MaxCalls[t] \in Nat
  BY ConstantAssumption DEF TypeOK, ThreadTypeOK
<1>2. <<t, calls[t]>> \in {t} \X (1..MaxCalls[t])
  BY <1>1
<1>3. QED
  BY <1>2 DEF Messages

(* Every step keeps the locks in their types.                              *)
LEMMA LockTypeStep == ASSUME TypeOK, [Next]_vars PROVE LockTypeOK'
<1> USE ConstantAssumption DEF vars, lockVars, actorVars, histVars, threadVars, At, Goto, TypeOK, LockTypeOK
<1>1. ASSUME NEW t \in Threads, Call(t) PROVE LockTypeOK'
  BY <1>1 DEF Call
<1>2. ASSUME NEW t \in Threads, Lookup(t) PROVE LockTypeOK'
  BY <1>2 DEF Lookup
<1>3. ASSUME NEW t \in Threads, TellRLock(t) PROVE LockTypeOK'
  BY <1>3 DEF TellRLock, ThreadTypeOK
<1>4. ASSUME NEW t \in Threads, TellSend(t) PROVE LockTypeOK'
  BY <1>4 DEF TellSend
<1>5. ASSUME NEW t \in Threads, TellSent(t) PROVE LockTypeOK'
  BY <1>5 DEF TellSent, ThreadTypeOK
<1>6. ASSUME NEW t \in Threads, TellTimeout(t) PROVE LockTypeOK'
  BY <1>6 DEF TellTimeout
<1>7. ASSUME NEW t \in Threads, SysLock(t) PROVE LockTypeOK'
  BY <1>7 DEF SysLock
<1>8. ASSUME NEW t \in Threads, SpawnCheck(t) PROVE LockTypeOK'
  BY <1>8 DEF SpawnCheck
<1>9. ASSUME NEW t \in Threads, StartLock(t) PROVE LockTypeOK'
  BY <1>9 DEF StartLock, ThreadTypeOK
<1>10. ASSUME NEW t \in Threads, StartFail(t) PROVE LockTypeOK'
  BY <1>10 DEF StartFail
<1>11. ASSUME NEW t \in Threads, StartRun(t) PROVE LockTypeOK'
  BY <1>11 DEF StartRun
<1>12. ASSUME NEW t \in Threads, SpawnRegister(t) PROVE LockTypeOK'
  BY <1>12 DEF SpawnRegister
<1>13. ASSUME NEW t \in Threads, ShutdownBegin(t) PROVE LockTypeOK'
  BY <1>13 DEF ShutdownBegin
<1>14. ASSUME NEW t \in Threads, StopLock(t) PROVE LockTypeOK'
  BY <1>14 DEF StopLock
<1>15. ASSUME NEW t \in Threads, StopCancel(t) PROVE LockTypeOK'
  BY <1>15 DEF StopCancel
<1>16. ASSUME NEW t \in Threads, StopJoin(t) PROVE LockTypeOK'
  BY <1>16 DEF StopJoin
<1>17. ASSUME NEW t \in Threads, ShutdownEnd(t) PROVE LockTypeOK'
  BY <1>17 DEF ShutdownEnd
<1>18. ASSUME NEW t \in Threads, StatsRLock(t) PROVE LockTypeOK'
  BY <1>18 DEF StatsRLock
<1>19. ASSUME NEW t \in Threads, StatsRead(t) PROVE LockTypeOK'
  BY <1>19 DEF StatsRead
<1>20. ASSUME NEW t \in Threads, StatsEnd(t) PROVE LockTypeOK'
  BY <1>20 DEF StatsEnd
<1>21. ASSUME NEW a \in Actors, Receive(a) PROVE LockTypeOK'
  BY <1>21 DEF Receive
<1>22. ASSUME NEW a \in Actors, LoopExit(a) PROVE LockTypeOK'
  BY <1>22 DEF LoopExit
<1>23. ASSUME NEW a \in Actors, NEW m \in hand[a], Handled(a, m) PROVE LockTypeOK'
  BY <1>23 DEF Handled
<1>24. CASE UNCHANGED vars
  BY <1>24 DEF vars
<1> HIDE DEF vars, lockVars, actorVars, histVars, threadVars, At, Goto, TypeOK, LockTypeOK
<1>25. QED
  BY <1>1, <1>2, <1>3, <1>4, <1>5, <1>6, <1>7, <1>8, <1>9, <1>10, <1>11, <1>12, <1>13, <1>14, <1>15, <1>16, <1>17, <1>18, <1>19, <1>20, <1>21, <1>22, <1>23, <1>24
  DEF Next, Progress, TellStep, SpawnStep, ShutdownStep, StatsStep, LoopStep

(* Every step keeps the actors in their types.                              *)
LEMMA ActorTypeStep == ASSUME TypeOK, [Next]_vars PROVE ActorTypeOK'
<1> USE ConstantAssumption DEF vars, lockVars, actorVars, histVars, threadVars, At, Goto, TypeOK, ActorTypeOK
<1>1. ASSUME NEW t \in Threads, Call(t) PROVE ActorTypeOK'
  BY <1>1 DEF Call
<1>2. ASSUME NEW t \in Threads, Lookup(t) PROVE ActorTypeOK'
  BY <1>2 DEF Lookup
<1>3. ASSUME NEW t \in Threads, TellRLock(t) PROVE ActorTypeOK'
  BY <1>3 DEF TellRLock
<1>4. ASSUME NEW t \in Threads, TellSend(t) PROVE ActorTypeOK'
  BY <1>4 DEF TellSend
<1>5. ASSUME NEW t \in Threads, TellSent(t) PROVE ActorTypeOK'
  BY <1>5 DEF TellSent, ThreadTypeOK
<1>6. ASSUME NEW t \in Threads, TellTimeout(t) PROVE ActorTypeOK'
  BY <1>6 DEF TellTimeout
<1>7. ASSUME NEW t \in Threads, SysLock(t) PROVE ActorTypeOK'
  BY <1>7 DEF SysLock
<1>8. ASSUME NEW t \in Threads, SpawnCheck(t) PROVE ActorTypeOK'
  BY <1>8 DEF SpawnCheck
<1>9. ASSUME NEW t \in Threads, StartLock(t) PROVE ActorTypeOK'
  BY <1>9 DEF StartLock
<1>10. ASSUME NEW t \in Threads, StartFail(t) PROVE ActorTypeOK'
  BY <1>10 DEF StartFail
<1>11. ASSUME NEW t \in Threads, StartRun(t) PROVE ActorTypeOK'
  BY <1>11 DEF StartRun, ThreadTypeOK
<1>12. ASSUME NEW t \in Threads, SpawnRegister(t) PROVE ActorTypeOK'
  BY <1>12 DEF SpawnRegister, ThreadTypeOK
<1>13. ASSUME NEW t \in Threads, ShutdownBegin(t) PROVE ActorTypeOK'
  BY <1>13 DEF ShutdownBegin
<1>14. ASSUME NEW t \in Threads, StopLock(t) PROVE ActorTypeOK'
  BY <1>14 DEF StopLock
<1>15. ASSUME NEW t \in Threads, StopCancel(t) PROVE ActorTypeOK'
  BY <1>15 DEF StopCancel
<1>16. ASSUME NEW t \in Threads, StopJoin(t) PROVE ActorTypeOK'
  BY <1>16 DEF StopJoin
<1>17. ASSUME NEW t \in Threads, ShutdownEnd(t) PROVE ActorTypeOK'
  BY <1>17 DEF ShutdownEnd
<1>18. ASSUME NEW t \in Threads, StatsRLock(t) PROVE ActorTypeOK'
  BY <1>18 DEF StatsRLock
<1>19. ASSUME NEW t \in Threads, StatsRead(t) PROVE ActorTypeOK'
  BY <1>19 DEF StatsRead
<1>20. ASSUME NEW t \in Threads, StatsEnd(t) PROVE ActorTypeOK'
  BY <1>20 DEF StatsEnd
<1>21. ASSUME NEW a \in Actors, Receive(a) PROVE ActorTypeOK'
  BY <1>21 DEF Receive
<1>22. ASSUME NEW a \in Actors, LoopExit(a) PROVE ActorTypeOK'
  BY <1>22 DEF LoopExit
<1>23. ASSUME NEW a \in Actors, NEW m \in hand[a], Handled(a, m) PROVE ActorTypeOK'
  BY <1>23 DEF Handled
<1>24. CASE UNCHANGED vars
  BY <1>24 DEF vars
<1> HIDE DEF vars, lockVars, actorVars, histVars, threadVars, At, Goto, TypeOK, ActorTypeOK
<1>25. QED
  BY <1>1, <1>2, <1>3, <1>4, <1>5, <1>6, <1>7, <1>8, <1>9, <1>10, <1>11, <1>12, <1>13, <1>14, <1>15, <1>16, <1>17, <1>18, <1>19, <1>20, <1>21, <1>22, <1>23, <1>24
  DEF Next, Progress, TellStep, SpawnStep, ShutdownStep, StatsStep, LoopStep

(* Every step keeps the threads in their types.                              *)
LEMMA ThreadTypeStep == ASSUME TypeOK, [Next]_vars PROVE ThreadTypeOK'
<1> USE ConstantAssumption DEF vars, lockVars, actorVars, histVars, threadVars, At, Goto, TypeOK, ThreadTypeOK, PC, TellPC, SpawnPC, DownPC, StatsPC, Idle
<1>1. ASSUME NEW t \in Threads, Call(t) PROVE ThreadTypeOK'
  BY <1>1 DEF Call
<1>2. ASSUME NEW t \in Threads, Lookup(t) PROVE ThreadTypeOK'
  BY <1>2 DEF Lookup
<1>3. ASSUME NEW t \in Threads, TellRLock(t) PROVE ThreadTypeOK'
  BY <1>3 DEF TellRLock
<1>4. ASSUME NEW t \in Threads, TellSend(t) PROVE ThreadTypeOK'
  BY <1>4 DEF TellSend
<1>5. ASSUME NEW t \in Threads, TellSent(t) PROVE ThreadTypeOK'
  BY <1>5 DEF TellSent
<1>6. ASSUME NEW t \in Threads, TellTimeout(t) PROVE ThreadTypeOK'
  BY <1>6 DEF TellTimeout
<1>7. ASSUME NEW t \in Threads, SysLock(t) PROVE ThreadTypeOK'
  BY <1>7 DEF SysLock
<1>8. ASSUME NEW t \in Threads, SpawnCheck(t) PROVE ThreadTypeOK'
  BY <1>8 DEF SpawnCheck
<1>9. ASSUME NEW t \in Threads, StartLock(t) PROVE ThreadTypeOK'
  BY <1>9 DEF StartLock
<1>10. ASSUME NEW t \in Threads, StartFail(t) PROVE ThreadTypeOK'
  BY <1>10 DEF StartFail
<1>11. ASSUME NEW t \in Threads, StartRun(t) PROVE ThreadTypeOK'
  BY <1>11 DEF StartRun
<1>12. ASSUME NEW t \in Threads, SpawnRegister(t) PROVE ThreadTypeOK'
  BY <1>12 DEF SpawnRegister
<1>13. ASSUME NEW t \in Threads, ShutdownBegin(t) PROVE ThreadTypeOK'
  BY <1>13 DEF ShutdownBegin, ActorTypeOK
<1>14. ASSUME NEW t \in Threads, StopLock(t) PROVE ThreadTypeOK'
  BY <1>14 DEF StopLock
<1>15. ASSUME NEW t \in Threads, StopCancel(t) PROVE ThreadTypeOK'
  BY <1>15 DEF StopCancel
<1>16. ASSUME NEW t \in Threads, StopJoin(t) PROVE ThreadTypeOK'
  BY <1>16 DEF StopJoin
<1>17. ASSUME NEW t \in Threads, ShutdownEnd(t) PROVE ThreadTypeOK'
  BY <1>17 DEF ShutdownEnd
<1>18. ASSUME NEW t \in Threads, StatsRLock(t) PROVE ThreadTypeOK'
  BY <1>18 DEF StatsRLock, ActorTypeOK
<1>19. ASSUME NEW t \in Threads, StatsRead(t) PROVE ThreadTypeOK'
  BY <1>19 DEF StatsRead
<1>20. ASSUME NEW t \in Threads, StatsEnd(t) PROVE ThreadTypeOK'
  BY <1>20 DEF StatsEnd
<1>21. ASSUME NEW a \in Actors, Receive(a) PROVE ThreadTypeOK'
  BY <1>21 DEF Receive
<1>22. ASSUME NEW a \in Actors, LoopExit(a) PROVE ThreadTypeOK'
  BY <1>22 DEF LoopExit
<1>23. ASSUME NEW a \in Actors, NEW m \in hand[a], Handled(a, m) PROVE ThreadTypeOK'
  BY <1>23 DEF Handled
<1>24. CASE UNCHANGED vars
  BY <1>24 DEF vars
<1> HIDE DEF vars, lockVars, actorVars, histVars, threadVars, At, Goto, TypeOK, ThreadTypeOK, PC, TellPC, SpawnPC, DownPC, StatsPC, Idle
<1>25. QED
  BY <1>1, <1>2, <1>3, <1>4, <1>5, <1>6, <1>7, <1>8, <1>9, <1>10, <1>11, <1>12, <1>13, <1>14, <1>15, <1>16, <1>17, <1>18, <1>19, <1>20, <1>21, <1>22, <1>23, <1>24
  DEF Next, Progress, TellStep, SpawnStep, ShutdownStep, StatsStep, LoopStep

(* Every step keeps the queues in their types.                              *)
LEMMA QueueTypeStep == ASSUME TypeOK, [Next]_vars PROVE QueueTypeOK'
<1> USE ConstantAssumption DEF vars, lockVars, actorVars, histVars, threadVars, At, Goto, TypeOK, QueueTypeOK
<1>1. ASSUME NEW t \in Threads, Call(t) PROVE QueueTypeOK'
  BY <1>1 DEF Call
<1>2. ASSUME NEW t \in Threads, Lookup(t) PROVE QueueTypeOK'
  BY <1>2 DEF Lookup
<1>3. ASSUME NEW t \in Threads, TellRLock(t) PROVE QueueTypeOK'
  BY <1>3 DEF TellRLock
<1>4. ASSUME NEW t \in Threads, TellSend(t) PROVE QueueTypeOK'
  <2>1. target[t] \in Actors /\ <<t, calls[t]>> \in Messages
    BY <1>4, MessageOfCall DEF TellSend, ThreadTypeOK, Idle
  <2>2. Len(Append(mailbox[target[t]], <<t, calls[t]>>)) <= Capacity
    <3>1. mailbox[target[t]] \in Seq(Messages) /\ Len(mailbox[target[t]]) < Capacity
      BY <1>4, <2>1 DEF TellSend
    <3> HIDE DEF TypeOK, QueueTypeOK, vars, lockVars, actorVars, histVars, threadVars, At, Goto
    <3>2. PICK n \in Nat : n = Len(mailbox[target[t]])
      BY <3>1
    <3>3. Len(Append(mailbox[target[t]], <<t, calls[t]>>)) = n + 1
      <4>1. PICK q \in Seq(Messages), m \in Messages : q = mailbox[target[t]] /\ m = <<t, calls[t]>>
        BY <2>1, <3>1
      <4>2. Len(Append(q, m)) = Len(q) + 1
        OBVIOUS
      <4>3. QED
        BY <3>2, <4>1, <4>2
    <3>4. n + 1 <= Capacity
      BY <3>1, <3>2
    <3>5. QED
      BY <3>3, <3>4
  <2>3. mailbox' \in [Actors -> Seq(Messages)] /\ accepted' \in [Actors -> Seq(Messages)]
    <3>1. PICK a \in Actors, m \in Messages : a = target[t] /\ m = <<t, calls[t]>>
      BY <2>1
    <3>2. /\ mailbox' = [mailbox EXCEPT ![a] = Append(mailbox[a], m)]
          /\ accepted' = [accepted EXCEPT ![a] = Append(accepted[a], m)]
      BY <1>4, <3>1 DEF TellSend
    <3>3. mailbox \in [Actors -> Seq(Messages)] /\ accepted \in [Actors -> Seq(Messages)]
      OBVIOUS
    <3> HIDE DEF TypeOK, QueueTypeOK, vars, lockVars, actorVars, histVars, threadVars, At, Goto
    <3>4. Append(mailbox[a], m) \in Seq(Messages) /\ Append(accepted[a], m) \in Seq(Messages)
      BY <3>3
    <3>5. QED
      BY <3>2, <3>3, <3>4
  <2>4. QED
    BY <1>4, <2>1, <2>2, <2>3 DEF TellSend
<1>5. ASSUME NEW t \in Threads, TellSent(t) PROVE QueueTypeOK'
  BY <1>5 DEF TellSent
<1>6. ASSUME NEW t \in Threads, TellTimeout(t) PROVE QueueTypeOK'
  BY <1>6 DEF TellTimeout
<1>7. ASSUME NEW t \in Threads, SysLock(t) PROVE QueueTypeOK'
  BY <1>7 DEF SysLock
<1>8. ASSUME NEW t \in Threads, SpawnCheck(t) PROVE QueueTypeOK'
  BY <1>8 DEF SpawnCheck
<1>9. ASSUME NEW t \in Threads, StartLock(t) PROVE QueueTypeOK'
  BY <1>9 DEF StartLock
<1>10. ASSUME NEW t \in Threads, StartFail(t) PROVE QueueTypeOK'
  BY <1>10 DEF StartFail
<1>11. ASSUME NEW t \in Threads, StartRun(t) PROVE QueueTypeOK'
  BY <1>11 DEF StartRun
<1>12. ASSUME NEW t \in Threads, SpawnRegister(t) PROVE QueueTypeOK'
  BY <1>12 DEF SpawnRegister
<1>13. ASSUME NEW t \in Threads, ShutdownBegin(t) PROVE QueueTypeOK'
  BY <1>13 DEF ShutdownBegin
<1>14. ASSUME NEW t \in Threads, StopLock(t) PROVE QueueTypeOK'
  BY <1>14 DEF StopLock
<1>15. ASSUME NEW t \in Threads, StopCancel(t) PROVE QueueTypeOK'
  BY <1>15 DEF StopCancel
<1>16. ASSUME NEW t \in Threads, StopJoin(t) PROVE QueueTypeOK'
  BY <1>16 DEF StopJoin
<1>17. ASSUME NEW t \in Threads, ShutdownEnd(t) PROVE QueueTypeOK'
  BY <1>17 DEF ShutdownEnd
<1>18. ASSUME NEW t \in Threads, StatsRLock(t) PROVE QueueTypeOK'
  BY <1>18 DEF StatsRLock
<1>19. ASSUME NEW t \in Threads, StatsRead(t) PROVE QueueTypeOK'
  BY <1>19 DEF StatsRead
<1>20. ASSUME NEW t \in Threads, StatsEnd(t) PROVE QueueTypeOK'
  BY <1>20 DEF StatsEnd
<1>21. ASSUME NEW a \in Actors, Receive(a) PROVE QueueTypeOK'
  <2>1. Head(mailbox[a]) \in Messages /\ Tail(mailbox[a]) \in Seq(Messages)
        /\ Len(Tail(mailbox[a])) <= Capacity
    BY <1>21 DEF Receive
  <2>2. QED
    BY <1>21, <2>1 DEF Receive
<1>22. ASSUME NEW a \in Actors, LoopExit(a) PROVE QueueTypeOK'
  BY <1>22 DEF LoopExit
<1>23. ASSUME NEW a \in Actors, NEW m \in hand[a], Handled(a, m) PROVE QueueTypeOK'
  <2>1. m \in Messages /\ Append(handled[a], m) \in Seq(Messages)
    OBVIOUS
  <2>2. QED
    BY <1>23, <2>1 DEF Handled
<1>24. CASE UNCHANGED vars
  BY <1>24 DEF vars
<1> HIDE DEF vars, lockVars, actorVars, histVars, threadVars, At, Goto, TypeOK, QueueTypeOK
<1>25. QED
  BY <1>1, <1>2, <1>3, <1>4, <1>5, <1>6, <1>7, <1>8, <1>9, <1>10, <1>11, <1>12, <1>13, <1>14, <1>15, <1>16, <1>17, <1>18, <1>19, <1>20, <1>21, <1>22, <1>23, <1>24
  DEF Next, Progress, TellStep, SpawnStep, ShutdownStep, StatsStep, LoopStep

(* The system's lock is held by the threads whose step needs it.           *)
LEMMA SysLockStep == ASSUME TypeOK, SysLockInv, [Next]_vars PROVE SysLockInv'
<1> USE ConstantAssumption DEF vars, lockVars, actorVars, histVars, threadVars, At, Goto, TypeOK, LockTypeOK, ThreadTypeOK, SysLockInv, SysHeld, PC, TellPC, SpawnPC, DownPC, StatsPC, Idle
<1>1. ASSUME NEW t \in Threads, Call(t) PROVE SysLockInv'
  BY <1>1 DEF Call
<1>2. ASSUME NEW t \in Threads, Lookup(t) PROVE SysLockInv'
  BY <1>2 DEF Lookup
<1>3. ASSUME NEW t \in Threads, TellRLock(t) PROVE SysLockInv'
  BY <1>3 DEF TellRLock
<1>4. ASSUME NEW t \in Threads, TellSend(t) PROVE SysLockInv'
  BY <1>4 DEF TellSend
<1>5. ASSUME NEW t \in Threads, TellSent(t) PROVE SysLockInv'
  BY <1>5 DEF TellSent
<1>6. ASSUME NEW t \in Threads, TellTimeout(t) PROVE SysLockInv'
  BY <1>6 DEF TellTimeout
<1>7. ASSUME NEW t \in Threads, SysLock(t) PROVE SysLockInv'
  BY <1>7 DEF SysLock
<1>8. ASSUME NEW t \in Threads, SpawnCheck(t) PROVE SysLockInv'
  BY <1>8 DEF SpawnCheck
<1>9. ASSUME NEW t \in Threads, StartLock(t) PROVE SysLockInv'
  BY <1>9 DEF StartLock
<1>10. ASSUME NEW t \in Threads, StartFail(t) PROVE SysLockInv'
  BY <1>10 DEF StartFail
<1>11. ASSUME NEW t \in Threads, StartRun(t) PROVE SysLockInv'
  BY <1>11 DEF StartRun
<1>12. ASSUME NEW t \in Threads, SpawnRegister(t) PROVE SysLockInv'
  BY <1>12 DEF SpawnRegister
<1>13. ASSUME NEW t \in Threads, ShutdownBegin(t) PROVE SysLockInv'
  BY <1>13 DEF ShutdownBegin
<1>14. ASSUME NEW t \in Threads, StopLock(t) PROVE SysLockInv'
  BY <1>14 DEF StopLock
<1>15. ASSUME NEW t \in Threads, StopCancel(t) PROVE SysLockInv'
  BY <1>15 DEF StopCancel
<1>16. ASSUME NEW t \in Threads, StopJoin(t) PROVE SysLockInv'
  BY <1>16 DEF StopJoin
<1>17. ASSUME NEW t \in Threads, ShutdownEnd(t) PROVE SysLockInv'
  BY <1>17 DEF ShutdownEnd
<1>18. ASSUME NEW t \in Threads, StatsRLock(t) PROVE SysLockInv'
  BY <1>18 DEF StatsRLock
<1>19. ASSUME NEW t \in Threads, StatsRead(t) PROVE SysLockInv'
  BY <1>19 DEF StatsRead
<1>20. ASSUME NEW t \in Threads, StatsEnd(t) PROVE SysLockInv'
  BY <1>20 DEF StatsEnd
<1>21. ASSUME NEW a \in Actors, Receive(a) PROVE SysLockInv'
  BY <1>21 DEF Receive
<1>22. ASSUME NEW a \in Actors, LoopExit(a) PROVE SysLockInv'
  BY <1>22 DEF LoopExit
<1>23. ASSUME NEW a \in Actors, NEW m \in hand[a], Handled(a, m) PROVE SysLockInv'
  BY <1>23 DEF Handled
<1>24. CASE UNCHANGED vars
  BY <1>24 DEF vars
<1> HIDE DEF vars, lockVars, actorVars, histVars, threadVars, At, Goto, TypeOK, LockTypeOK, ThreadTypeOK, SysLockInv, SysHeld, PC, TellPC, SpawnPC, DownPC, StatsPC, Idle
<1>25. QED
  BY <1>1, <1>2, <1>3, <1>4, <1>5, <1>6, <1>7, <1>8, <1>9, <1>10, <1>11, <1>12, <1>13, <1>14, <1>15, <1>16, <1>17, <1>18, <1>19, <1>20, <1>21, <1>22, <1>23, <1>24
  DEF Next, Progress, TellStep, SpawnStep, ShutdownStep, StatsStep, LoopStep

(* An actor's lock is held by the threads whose step needs it.             *)
LEMMA ActorLockStep == ASSUME TypeOK, SysLockInv, ActorLockInv, [Next]_vars PROVE ActorLockInv'
<1> USE ConstantAssumption DEF vars, lockVars, actorVars, histVars, threadVars, At, Goto, TypeOK, LockTypeOK, ThreadTypeOK, ActorLockInv, Joining, Idle
<1>1. ASSUME NEW t \in Threads, Call(t) PROVE ActorLockInv'
  BY <1>1 DEF Call
<1>2. ASSUME NEW t \in Threads, Lookup(t) PROVE ActorLockInv'
  BY <1>2 DEF Lookup
<1>3. ASSUME NEW t \in Threads, TellRLock(t) PROVE ActorLockInv'
  BY <1>3 DEF TellRLock
<1>4. ASSUME NEW t \in Threads, TellSend(t) PROVE ActorLockInv'
  BY <1>4 DEF TellSend
<1>5. ASSUME NEW t \in Threads, TellSent(t) PROVE ActorLockInv'
  BY <1>5 DEF TellSent
<1>6. ASSUME NEW t \in Threads, TellTimeout(t) PROVE ActorLockInv'
  BY <1>6 DEF TellTimeout
<1>7. ASSUME NEW t \in Threads, SysLock(t) PROVE ActorLockInv'
  BY <1>7 DEF SysLock
<1>8. ASSUME NEW t \in Threads, SpawnCheck(t) PROVE ActorLockInv'
  BY <1>8 DEF SpawnCheck
<1>9. ASSUME NEW t \in Threads, StartLock(t) PROVE ActorLockInv'
  BY <1>9 DEF StartLock
<1>10. ASSUME NEW t \in Threads, StartFail(t) PROVE ActorLockInv'
  BY <1>10 DEF StartFail
<1>11. ASSUME NEW t \in Threads, StartRun(t) PROVE ActorLockInv'
  BY <1>11 DEF StartRun
<1>12. ASSUME NEW t \in Threads, SpawnRegister(t) PROVE ActorLockInv'
  BY <1>12 DEF SpawnRegister
<1>13. ASSUME NEW t \in Threads, ShutdownBegin(t) PROVE ActorLockInv'
  BY <1>13 DEF ShutdownBegin
<1>14. ASSUME NEW t \in Threads, StopLock(t) PROVE ActorLockInv'
  BY <1>14 DEF StopLock
<1>15. ASSUME NEW t \in Threads, StopCancel(t) PROVE ActorLockInv'
  <2>1. target[t] \in Actors /\ readers[target[t]] = {} /\ readers' = readers /\ writer[target[t]] = t
    BY <1>15 DEF StopCancel
  <2>2. \A a \in Actors : readers'[a] # {} => running'[a]
    BY <1>15, <2>1 DEF StopCancel, ActorTypeOK
  <2>3. \A a \in Actors : Joining(a)' => readers'[a] = {}
    BY <1>15, <2>1 DEF StopCancel
  <2>4. \A a \in Actors, u \in Threads :
          writer'[a] = u <=> pc'[u] \in {"start_wait", "stop_wait", "stop_join"} /\ target'[u] = a
    BY <1>15, <2>1, ConstantAssumption DEF StopCancel
  <2>5. \A a \in Actors, u \in Threads :
          u \in readers'[a] <=> pc'[u] \in {"send", "sent"} /\ target'[u] = a
    BY <1>15, <2>1 DEF StopCancel
  <2>6. QED
    BY <2>2, <2>3, <2>4, <2>5
<1>16. ASSUME NEW t \in Threads, StopJoin(t) PROVE ActorLockInv'
  BY <1>16 DEF StopJoin
<1>17. ASSUME NEW t \in Threads, ShutdownEnd(t) PROVE ActorLockInv'
  BY <1>17 DEF ShutdownEnd
<1>18. ASSUME NEW t \in Threads, StatsRLock(t) PROVE ActorLockInv'
  BY <1>18 DEF StatsRLock
<1>19. ASSUME NEW t \in Threads, StatsRead(t) PROVE ActorLockInv'
  BY <1>19 DEF StatsRead
<1>20. ASSUME NEW t \in Threads, StatsEnd(t) PROVE ActorLockInv'
  BY <1>20 DEF StatsEnd
<1>21. ASSUME NEW a \in Actors, Receive(a) PROVE ActorLockInv'
  BY <1>21 DEF Receive
<1>22. ASSUME NEW a \in Actors, LoopExit(a) PROVE ActorLockInv'
  BY <1>22 DEF LoopExit
<1>23. ASSUME NEW a \in Actors, NEW m \in hand[a], Handled(a, m) PROVE ActorLockInv'
  BY <1>23 DEF Handled
<1>24. CASE UNCHANGED vars
  BY <1>24 DEF vars
<1> HIDE DEF vars, lockVars, actorVars, histVars, threadVars, At, Goto, TypeOK, LockTypeOK, ThreadTypeOK, ActorLockInv, Joining, Idle
<1>25. QED
  BY <1>1, <1>2, <1>3, <1>4, <1>5, <1>6, <1>7, <1>8, <1>9, <1>10, <1>11, <1>12, <1>13, <1>14, <1>15, <1>16, <1>17, <1>18, <1>19, <1>20, <1>21, <1>22, <1>23, <1>24
  DEF Next, Progress, TellStep, SpawnStep, ShutdownStep, StatsStep, LoopStep

LEMMA LoopFrame ==
  ASSUME NEW a \in Actors, LoopOK(a), idleLoops'[a] = idleLoops[a], hand'[a] = hand[a],
         UNCHANGED <<writer, pc, running, cancelled>>
  PROVE  LoopOK(a)'
  BY DEF LoopOK, NoLoop, OneLoop, Joining

(* One receive loop per running actor, none for a stopped one.             *)
LEMMA LoopStepInv == ASSUME TypeOK, ActorLockInv, LoopInv, [Next]_vars PROVE LoopInv'
<1> USE ConstantAssumption DEF vars, lockVars, actorVars, histVars, threadVars, At, Goto, TypeOK, LockTypeOK, ActorTypeOK, ThreadTypeOK, ActorLockInv, LoopInv, LoopOK, NoLoop, OneLoop, Joining, Idle
<1>1. ASSUME NEW t \in Threads, Call(t) PROVE LoopInv'
  BY <1>1 DEF Call
<1>2. ASSUME NEW t \in Threads, Lookup(t) PROVE LoopInv'
  BY <1>2 DEF Lookup
<1>3. ASSUME NEW t \in Threads, TellRLock(t) PROVE LoopInv'
  BY <1>3 DEF TellRLock
<1>4. ASSUME NEW t \in Threads, TellSend(t) PROVE LoopInv'
  BY <1>4 DEF TellSend
<1>5. ASSUME NEW t \in Threads, TellSent(t) PROVE LoopInv'
  BY <1>5 DEF TellSent
<1>6. ASSUME NEW t \in Threads, TellTimeout(t) PROVE LoopInv'
  <2>1. UNCHANGED <<writer, running, cancelled, idleLoops, hand>>
    BY <1>6 DEF TellTimeout
  <2>2. \A u \in Threads : pc'[u] = "stop_join" <=> pc[u] = "stop_join"
    BY <1>6 DEF TellTimeout
  <2>3. \A a \in Actors : Joining(a)' <=> Joining(a)
    BY <2>1, <2>2
  <2> HIDE DEF Joining, NoLoop, OneLoop, vars, At, Goto
  <2>4. \A a \in Actors : (NoLoop(a)' <=> NoLoop(a)) /\ (OneLoop(a)' <=> OneLoop(a))
    BY <2>1 DEF NoLoop, OneLoop
  <2>5. QED
    BY <2>1, <2>3, <2>4
<1>7. ASSUME NEW t \in Threads, SysLock(t) PROVE LoopInv'
  BY <1>7 DEF SysLock
<1>8. ASSUME NEW t \in Threads, SpawnCheck(t) PROVE LoopInv'
  BY <1>8 DEF SpawnCheck
<1>9. ASSUME NEW t \in Threads, StartLock(t) PROVE LoopInv'
  BY <1>9 DEF StartLock
<1>10. ASSUME NEW t \in Threads, StartFail(t) PROVE LoopInv'
  BY <1>10 DEF StartFail
<1>11. ASSUME NEW t \in Threads, StartRun(t) PROVE LoopInv'
  BY <1>11 DEF StartRun
<1>12. ASSUME NEW t \in Threads, SpawnRegister(t) PROVE LoopInv'
  BY <1>12 DEF SpawnRegister
<1>13. ASSUME NEW t \in Threads, ShutdownBegin(t) PROVE LoopInv'
  BY <1>13 DEF ShutdownBegin
<1>14. ASSUME NEW t \in Threads, StopLock(t) PROVE LoopInv'
  BY <1>14 DEF StopLock
<1>15. ASSUME NEW t \in Threads, StopCancel(t) PROVE LoopInv'
  BY <1>15 DEF StopCancel
<1>16. ASSUME NEW t \in Threads, StopJoin(t) PROVE LoopInv'
  BY <1>16 DEF StopJoin
<1>17. ASSUME NEW t \in Threads, ShutdownEnd(t) PROVE LoopInv'
  BY <1>17 DEF ShutdownEnd
<1>18. ASSUME NEW t \in Threads, StatsRLock(t) PROVE LoopInv'
  BY <1>18 DEF StatsRLock
<1>19. ASSUME NEW t \in Threads, StatsRead(t) PROVE LoopInv'
  BY <1>19 DEF StatsRead
<1>20. ASSUME NEW t \in Threads, StatsEnd(t) PROVE LoopInv'
  BY <1>20 DEF StatsEnd
<1>21. ASSUME NEW a \in Actors, Receive(a) PROVE LoopInv'
  <2>1. Head(mailbox[a]) \in Messages
    BY <1>21 DEF Receive, QueueTypeOK
  <2>2. idleLoops[a] = 1 /\ hand[a] = {} /\ (running[a] \/ Joining(a))
    BY <1>21 DEF Receive
  <2>3. idleLoops'[a] = 0 /\ hand'[a] = {Head(mailbox[a])}
    BY <1>21, <2>2 DEF Receive, QueueTypeOK
  <2>4. \A b \in Actors : b # a => idleLoops'[b] = idleLoops[b] /\ hand'[b] = hand[b]
    BY <1>21 DEF Receive, QueueTypeOK
  <2>5. UNCHANGED <<writer, pc, running, cancelled>>
    BY <1>21 DEF Receive
  <2>6. LoopOK(a)'
    BY <2>1, <2>2, <2>3, <2>5
  <2>7. \A b \in Actors : b # a => LoopOK(b)'
    BY <2>4, <2>5, LoopFrame
  <2> HIDE DEF LoopOK
  <2>8. QED
    BY <2>6, <2>7
<1>22. ASSUME NEW a \in Actors, LoopExit(a) PROVE LoopInv'
  BY <1>22 DEF LoopExit
<1>23. ASSUME NEW a \in Actors, NEW m \in hand[a], Handled(a, m) PROVE LoopInv'
  <2>1. m \in Messages /\ hand[a] = {m} /\ idleLoops[a] = 0
    <3>1. LoopOK(a) /\ hand[a] # {} /\ m \in Messages
      BY <1>23 DEF Handled, QueueTypeOK
    <3>2. QED
      BY <3>1
  <2>2. idleLoops'[a] = 1 /\ hand'[a] = {}
    BY <1>23, <2>1 DEF Handled, QueueTypeOK
  <2>3. \A b \in Actors : b # a => idleLoops'[b] = idleLoops[b] /\ hand'[b] = hand[b]
    BY <1>23 DEF Handled, QueueTypeOK
  <2>4. UNCHANGED <<writer, pc, running, cancelled>>
    BY <1>23 DEF Handled
  <2>5. LoopOK(a)'
    BY <2>1, <2>2, <2>3, <2>4
  <2>6. \A b \in Actors : b # a => LoopOK(b)'
    BY <2>3, <2>4, LoopFrame
  <2> HIDE DEF LoopOK
  <2>7. QED
    BY <2>5, <2>6
<1>24. CASE UNCHANGED vars
  BY <1>24 DEF vars
<1> HIDE DEF vars, lockVars, actorVars, histVars, threadVars, At, Goto, TypeOK, LockTypeOK, ActorTypeOK, ThreadTypeOK, ActorLockInv, LoopInv, LoopOK, NoLoop, OneLoop, Joining, Idle
<1>25. QED
  BY <1>1, <1>2, <1>3, <1>4, <1>5, <1>6, <1>7, <1>8, <1>9, <1>10, <1>11, <1>12, <1>13, <1>14, <1>15, <1>16, <1>17, <1>18, <1>19, <1>20, <1>21, <1>22, <1>23, <1>24
  DEF Next, Progress, TellStep, SpawnStep, ShutdownStep, StatsStep, LoopStep

(* Tell's steps touch neither the registry, the flags nor the system lock. *)
LEMMA RegistryFrame ==
  ASSUME NEW t \in Threads, sysWriter \in Threads \cup {NoThread}, RegistryInv,
         UNCHANGED <<registry, running, sysWriter, target, todo>>,
         pc[t] \in TellPC \cup {Idle}, pc'[t] \in TellPC \cup {Idle},
         \A u \in Threads : u # t => pc'[u] = pc[u]
  PROVE  RegistryInv'
<1>1. \A u \in Threads : pc'[u] = "started" <=> pc[u] = "started"
  BY DEF TellPC, Idle
<1>2. \A u \in Threads : (pc'[u] \in Stopping <=> pc[u] \in Stopping) /\ (pc'[u] = "stop_wait" <=> pc[u] = "stop_wait")
  BY DEF TellPC, Idle, Stopping
<1>3. \A u \in Threads : pc'[u] \in {"spawn_wait", "start", "start_wait", "shutdown_wait"}
                       <=> pc[u] \in {"spawn_wait", "start", "start_wait", "shutdown_wait"}
  BY DEF TellPC, Idle
<1>4. QED
  BY <1>1, <1>2, <1>3, ConstantAssumption DEF RegistryInv

(* Registry and running flags differ only inside SpawnActor and Shutdown.  *)
LEMMA RegistryStep == ASSUME TypeOK, SysLockInv, ActorLockInv, RegistryInv, [Next]_vars PROVE RegistryInv'
<1> USE ConstantAssumption DEF vars, lockVars, actorVars, histVars, threadVars, At, Goto, TypeOK, LockTypeOK, ActorTypeOK, ThreadTypeOK, SysLockInv, SysHeld, RegistryInv, Stopping, PC, TellPC, SpawnPC, DownPC, StatsPC, Idle
<1>1. ASSUME NEW t \in Threads, Call(t) PROVE RegistryInv'
  BY <1>1 DEF Call
<1>2. ASSUME NEW t \in Threads, Lookup(t) PROVE RegistryInv'
  BY <1>2 DEF Lookup
<1>3. ASSUME NEW t \in Threads, TellRLock(t) PROVE RegistryInv'
  <2>1. UNCHANGED <<registry, running, sysWriter, target, todo>>
    BY <1>3 DEF TellRLock
  <2>2. pc[t] \in TellPC \cup {Idle} /\ pc'[t] \in TellPC \cup {Idle}
    BY <1>3 DEF TellRLock
  <2>3. \A u \in Threads : u # t => pc'[u] = pc[u]
    BY <1>3 DEF TellRLock
  <2>4. QED
    <3> HIDE DEF RegistryInv
    <3>1. sysWriter \in Threads \cup {NoThread}
      OBVIOUS
    <3> HIDE DEF TypeOK, LockTypeOK, ActorTypeOK, ThreadTypeOK, SysLockInv, vars, At, Goto, PC, TellPC, Idle
    <3>2. QED
      BY <2>1, <2>2, <2>3, <3>1, RegistryFrame
<1>4. ASSUME NEW t \in Threads, TellSend(t) PROVE RegistryInv'
  <2>1. UNCHANGED <<registry, running, sysWriter, target, todo>>
    BY <1>4 DEF TellSend
  <2>2. pc[t] \in TellPC \cup {Idle} /\ pc'[t] \in TellPC \cup {Idle}
    BY <1>4 DEF TellSend
  <2>3. \A u \in Threads : u # t => pc'[u] = pc[u]
    BY <1>4 DEF TellSend
  <2>4. QED
    <3> HIDE DEF RegistryInv
    <3>1. sysWriter \in Threads \cup {NoThread}
      OBVIOUS
    <3> HIDE DEF TypeOK, LockTypeOK, ActorTypeOK, ThreadTypeOK, SysLockInv, vars, At, Goto, PC, TellPC, Idle
    <3>2. QED
      BY <2>1, <2>2, <2>3, <3>1, RegistryFrame
<1>5. ASSUME NEW t \in Threads, TellSent(t) PROVE RegistryInv'
  <2>1. UNCHANGED <<registry, running, sysWriter, target, todo>>
    BY <1>5 DEF TellSent
  <2>2. pc[t] \in TellPC \cup {Idle} /\ pc'[t] \in TellPC \cup {Idle}
    BY <1>5 DEF TellSent
  <2>3. \A u \in Threads : u # t => pc'[u] = pc[u]
    BY <1>5 DEF TellSent
  <2>4. QED
    <3> HIDE DEF RegistryInv
    <3>1. sysWriter \in Threads \cup {NoThread}
      OBVIOUS
    <3> HIDE DEF TypeOK, LockTypeOK, ActorTypeOK, ThreadTypeOK, SysLockInv, vars, At, Goto, PC, TellPC, Idle
    <3>2. QED
      BY <2>1, <2>2, <2>3, <3>1, RegistryFrame
<1>6. ASSUME NEW t \in Threads, TellTimeout(t) PROVE RegistryInv'
  <2>1. UNCHANGED <<registry, running, sysWriter, target, todo>>
    BY <1>6 DEF TellTimeout
  <2>2. pc[t] \in TellPC \cup {Idle} /\ pc'[t] \in TellPC \cup {Idle}
    BY <1>6 DEF TellTimeout
  <2>3. \A u \in Threads : u # t => pc'[u] = pc[u]
    BY <1>6 DEF TellTimeout
  <2>4. QED
    <3> HIDE DEF RegistryInv
    <3>1. sysWriter \in Threads \cup {NoThread}
      OBVIOUS
    <3> HIDE DEF TypeOK, LockTypeOK, ActorTypeOK, ThreadTypeOK, SysLockInv, vars, At, Goto, PC, TellPC, Idle
    <3>2. QED
      BY <2>1, <2>2, <2>3, <3>1, RegistryFrame
<1>7. ASSUME NEW t \in Threads, SysLock(t) PROVE RegistryInv'
  BY <1>7 DEF SysLock
<1>8. ASSUME NEW t \in Threads, SpawnCheck(t) PROVE RegistryInv'
  BY <1>8 DEF SpawnCheck
<1>9. ASSUME NEW t \in Threads, StartLock(t) PROVE RegistryInv'
  BY <1>9 DEF StartLock
<1>10. ASSUME NEW t \in Threads, StartFail(t) PROVE RegistryInv'
  BY <1>10 DEF StartFail
<1>11. ASSUME NEW t \in Threads, StartRun(t) PROVE RegistryInv'
  BY <1>11 DEF StartRun
<1>12. ASSUME NEW t \in Threads, SpawnRegister(t) PROVE RegistryInv'
  BY <1>12 DEF SpawnRegister
<1>13. ASSUME NEW t \in Threads, ShutdownBegin(t) PROVE RegistryInv'
  BY <1>13 DEF ShutdownBegin
<1>14. ASSUME NEW t \in Threads, StopLock(t) PROVE RegistryInv'
  BY <1>14 DEF StopLock
<1>15. ASSUME NEW t \in Threads, StopCancel(t) PROVE RegistryInv'
  <2>1. sysWriter = t /\ sysWriter' = t /\ target[t] \in Actors
    BY <1>15 DEF StopCancel
  <2>2. pc'[t] \in {"stop_next", "stop_join"} /\ todo' = todo /\ registry' = registry
    BY <1>15 DEF StopCancel
  <2>3. \A u \in Threads : u # t => pc'[u] = pc[u] /\ pc[u] \notin SysHeld
    BY <1>15, <2>1 DEF StopCancel
  <2>4. \A a \in Actors : running'[a] <=> a \in todo[t]
    BY <1>15, <2>1 DEF StopCancel
  <2>5. QED
    BY <2>1, <2>2, <2>3, <2>4
<1>16. ASSUME NEW t \in Threads, StopJoin(t) PROVE RegistryInv'
  BY <1>16 DEF StopJoin
<1>17. ASSUME NEW t \in Threads, ShutdownEnd(t) PROVE RegistryInv'
  BY <1>17 DEF ShutdownEnd
<1>18. ASSUME NEW t \in Threads, StatsRLock(t) PROVE RegistryInv'
  BY <1>18 DEF StatsRLock
<1>19. ASSUME NEW t \in Threads, StatsRead(t) PROVE RegistryInv'
  BY <1>19 DEF StatsRead
<1>20. ASSUME NEW t \in Threads, StatsEnd(t) PROVE RegistryInv'
  BY <1>20 DEF StatsEnd
<1>21. ASSUME NEW a \in Actors, Receive(a) PROVE RegistryInv'
  BY <1>21 DEF Receive
<1>22. ASSUME NEW a \in Actors, LoopExit(a) PROVE RegistryInv'
  BY <1>22 DEF LoopExit
<1>23. ASSUME NEW a \in Actors, NEW m \in hand[a], Handled(a, m) PROVE RegistryInv'
  BY <1>23 DEF Handled
<1>24. CASE UNCHANGED vars
  BY <1>24 DEF vars
<1> HIDE DEF vars, lockVars, actorVars, histVars, threadVars, At, Goto, TypeOK, LockTypeOK, ActorTypeOK, ThreadTypeOK, SysLockInv, SysHeld, RegistryInv, Stopping, PC, TellPC, SpawnPC, DownPC, StatsPC, Idle
<1>25. QED
  BY <1>1, <1>2, <1>3, <1>4, <1>5, <1>6, <1>7, <1>8, <1>9, <1>10, <1>11, <1>12, <1>13, <1>14, <1>15, <1>16, <1>17, <1>18, <1>19, <1>20, <1>21, <1>22, <1>23, <1>24
  DEF Next, Progress, TellStep, SpawnStep, ShutdownStep, StatsStep, LoopStep


-----------------------------------------------------------------------------
(* What was accepted is what was handled, then what is in hand, then what   *)
(* waits in the mailbox.                                                    *)
LEMMA QueueFrame ==
  ASSUME NEW a \in Actors, QueueOK(a),
         mailbox'[a] = mailbox[a], hand'[a] = hand[a],
         accepted'[a] = accepted[a], handled'[a] = handled[a]
  PROVE  QueueOK(a)'
<1>1. Taken(a)' = Taken(a)
  BY DEF Taken
<1>2. QED
  BY <1>1 DEF QueueOK

LEMMA QueueStep == ASSUME TypeOK, LoopInv, QueueInv, [Next]_vars PROVE QueueInv'
<1>0. /\ mailbox \in [Actors -> Seq(Messages)] /\ mailbox' \in [Actors -> Seq(Messages)]
      /\ accepted \in [Actors -> Seq(Messages)] /\ handled \in [Actors -> Seq(Messages)]
  BY QueueTypeStep DEF TypeOK, QueueTypeOK
<1>1. ASSUME NEW t \in Threads, TellSend(t) PROVE QueueInv'
  <2>1. PICK b \in Actors, m \in Messages : b = target[t] /\ m = <<t, calls[t]>>
    BY <1>1, MessageOfCall DEF TellSend, At, Idle, TypeOK, ThreadTypeOK
  <2>2. /\ mailbox'[b] = Append(mailbox[b], m)
        /\ accepted'[b] = Append(accepted[b], m)
        /\ hand' = hand
        /\ handled' = handled
    BY <1>1, <2>1 DEF TellSend, TypeOK, QueueTypeOK
  <2>3. \A a \in Actors : a # b => mailbox'[a] = mailbox[a] /\ accepted'[a] = accepted[a]
    BY <1>1, <2>1 DEF TellSend, TypeOK, QueueTypeOK
  <2>4. ASSUME NEW a \in Actors, a # b PROVE QueueOK(a)'
    BY <2>2, <2>3, <2>4, QueueFrame DEF QueueInv
  <2>5. QueueOK(b)'
    <3>1. mailbox[b] \in Seq(Messages) /\ accepted[b] \in Seq(Messages) /\ handled[b] \in Seq(Messages)
      BY <2>1 DEF TypeOK, QueueTypeOK
    <3>2. QueueOK(b)
      BY <2>1 DEF QueueInv
    <3>3. Taken(b)' = Taken(b)
      BY <2>2 DEF Taken
    <3>4. Taken(b) \in Nat /\ Len(handled[b]) <= Taken(b) /\ (hand[b] # {} => Taken(b) > 0)
      BY <3>1 DEF Taken
    <3>5. /\ Len(mailbox'[b]) = Len(mailbox[b]) + 1
          /\ Len(accepted'[b]) = Len(accepted[b]) + 1
          /\ Len(accepted[b]) = Taken(b) + Len(mailbox[b])
      <4>1. Len(mailbox'[b]) = Len(mailbox[b]) + 1
        BY <2>1, <2>2, <3>1
      <4>2. Len(accepted'[b]) = Len(accepted[b]) + 1
        BY <2>1, <2>2, <3>1
      <4>3. Len(accepted[b]) = Taken(b) + Len(mailbox[b])
        BY <3>2 DEF QueueOK
      <4>4. QED
        BY <4>1, <4>2, <4>3
    <3>6. \A i \in 1..Len(accepted[b]) : accepted'[b][i] = accepted[b][i]
      BY <2>1, <2>2, <3>1
    <3>7. \A i \in 1..Len(mailbox'[b]) : mailbox'[b][i] = accepted'[b][Taken(b) + i]
      <4>1. ASSUME NEW i \in 1..Len(mailbox[b]) PROVE mailbox'[b][i] = accepted'[b][Taken(b) + i]
        <5>1. Taken(b) + i \in 1..Len(accepted[b])
          BY <1>0, <3>1, <3>4, <3>5
        <5>2. mailbox'[b][i] = mailbox[b][i]
          BY <2>1, <2>2, <3>1
        <5>3. QED
          BY <3>2, <3>6, <5>1, <5>2 DEF QueueOK
      <4>2. mailbox'[b][Len(mailbox[b]) + 1] = m /\ accepted'[b][Len(accepted[b]) + 1] = m
        <5>1. mailbox'[b][Len(mailbox[b]) + 1] = m
          BY <2>1, <2>2, <3>1
        <5>2. accepted'[b][Len(accepted[b]) + 1] = m
          BY <2>1, <2>2, <3>1
        <5>3. QED
          BY <5>1, <5>2
      <4>3. Taken(b) + (Len(mailbox[b]) + 1) = Len(accepted[b]) + 1 /\ Len(mailbox[b]) \in Nat
        <5>1. PICK k \in Nat : k = Taken(b)
          BY <3>4
        <5>2. Len(accepted[b]) = k + Len(mailbox[b]) /\ Len(mailbox[b]) \in Nat
          BY <3>1, <3>5, <5>1
        <5>3. k + (Len(mailbox[b]) + 1) = Len(accepted[b]) + 1
          BY <1>0, <5>2
        <5>4. QED
          BY <5>1, <5>2, <5>3
      <4>4. PICK n \in Nat : n = Len(mailbox[b])
        BY <4>3
      <4>5. ASSUME NEW i \in 1..(n + 1) PROVE mailbox'[b][i] = accepted'[b][Taken(b) + i]
        <5>1. CASE i \in 1..n
          BY <4>1, <4>4, <5>1
        <5>2. CASE i = n + 1
          BY <4>2, <4>3, <4>4, <5>2
        <5>3. QED
          BY <5>1, <5>2
      <4>6. Len(mailbox'[b]) = n + 1
        BY <3>5, <4>4
      <4>7. QED
        BY <4>5, <4>6, Zenon
    <3>8. \A i \in 1..Len(handled'[b]) : handled'[b][i] = accepted'[b][i]
      <4>1. handled'[b] = handled[b]
        BY <2>2
      <4>2. Len(handled[b]) <= Len(accepted[b])
        <5>1. PICK h \in Nat, k \in Nat, n \in Nat, l \in Nat :
                 h = Len(handled[b]) /\ k = Taken(b) /\ n = Len(mailbox[b]) /\ l = Len(accepted[b])
          BY <3>1, <3>4
        <5>2. h <= k /\ l = k + n
          BY <3>4, <3>5, <5>1
        <5>3. h <= l
          BY <5>2
        <5>4. QED
          BY <5>1, <5>3
      <4>3. \A i \in 1..Len(handled[b]) : i \in 1..Len(accepted[b])
        BY <3>1, <4>2
      <4>4. \A i \in 1..Len(handled[b]) : handled[b][i] = accepted[b][i]
        BY <3>2, Zenon DEF QueueOK
      <4>5. \A i \in 1..Len(handled[b]) : handled[b][i] = accepted'[b][i]
        BY <3>6, <4>3, <4>4, Zenon
      <4>6. QED
        BY <4>1, <4>5, Zenon
    <3>9. hand'[b] # {} => hand'[b] = {accepted'[b][Taken(b)]}
      <4>1. Taken(b) > 0 => Taken(b) \in 1..Len(accepted[b])
        BY <3>1, <3>4, <3>5
      <4>2. QED
        BY <2>2, <3>2, <3>4, <3>6, <4>1 DEF QueueOK
    <3>10. Len(accepted'[b]) = Taken(b) + Len(mailbox'[b])
      BY <3>1, <3>4, <3>5
    <3>11. QED
      BY <3>3, <3>7, <3>8, <3>9, <3>10 DEF QueueOK
  <2>6. QED
    BY <2>4, <2>5 DEF QueueInv
<1>2. ASSUME NEW b \in Actors, Receive(b) PROVE QueueInv'
  <2>1. hand[b] = {} /\ mailbox[b] # <<>> /\ QueueOK(b)
    BY <1>2 DEF Receive, TypeOK, ActorTypeOK, LoopInv, LoopOK, NoLoop, OneLoop, QueueInv
  <2>2. /\ mailbox'[b] = Tail(mailbox[b])
        /\ hand'[b] = {Head(mailbox[b])}
        /\ accepted' = accepted
        /\ handled' = handled
    BY <1>2, <2>1 DEF Receive, histVars, TypeOK, QueueTypeOK
  <2>3. \A a \in Actors : a # b => mailbox'[a] = mailbox[a] /\ hand'[a] = hand[a]
    BY <1>2 DEF Receive, TypeOK, QueueTypeOK
  <2>4. ASSUME NEW a \in Actors, a # b PROVE QueueOK(a)'
    BY <2>2, <2>3, <2>4, QueueFrame DEF QueueInv
  <2>5. QueueOK(b)'
    <3>1. mailbox[b] \in Seq(Messages) /\ accepted[b] \in Seq(Messages) /\ handled[b] \in Seq(Messages)
      BY DEF TypeOK, QueueTypeOK
    <3>2. Taken(b) = Len(handled[b])
      BY <2>1 DEF Taken
    <3>3. Taken(b)' = Len(handled[b]) + 1
      BY <2>2 DEF Taken
    <3>4. /\ Len(mailbox'[b]) = Len(mailbox[b]) - 1
          /\ Head(mailbox[b]) = mailbox[b][1]
          /\ \A i \in 1..Len(mailbox'[b]) : mailbox'[b][i] = mailbox[b][i + 1]
      BY <2>1, <2>2, <3>1
    <3>5. Head(mailbox[b]) = accepted[b][Len(handled[b]) + 1]
      BY <2>1, <3>1, <3>2, <3>4 DEF QueueOK
    <3>6. ASSUME NEW i \in 1..Len(mailbox'[b])
          PROVE  mailbox'[b][i] = accepted[b][(Len(handled[b]) + 1) + i]
      <4>1. i + 1 \in 1..Len(mailbox[b]) /\ mailbox'[b][i] = mailbox[b][i + 1]
        BY <3>1, <3>4
      <4>2. mailbox[b][i + 1] = accepted[b][Len(handled[b]) + (i + 1)]
        BY <2>1, <3>2, <4>1 DEF QueueOK
      <4>3. PICK n \in Nat : n = Len(handled[b])
        BY <3>1
      <4>4. n + (i + 1) = (n + 1) + i
        OBVIOUS
      <4>5. QED
        BY <4>1, <4>2, <4>3, <4>4
    <3>7. Len(accepted[b]) = Len(handled[b]) + Len(mailbox[b])
      BY <2>1, <3>2 DEF QueueOK
    <3>8. Len(accepted[b]) = (Len(handled[b]) + 1) + Len(mailbox'[b])
      <4>1. Len(mailbox[b]) \in Nat /\ Len(handled[b]) \in Nat /\ Len(mailbox'[b]) = Len(mailbox[b]) - 1
        BY <3>1, <3>4
      <4>2. QED
        BY <1>0, <3>7, <4>1
    <3>9. QED
      BY <2>1, <2>2, <3>3, <3>5, <3>6, <3>8 DEF QueueOK
  <2>6. QED
    BY <2>4, <2>5 DEF QueueInv
<1>3. ASSUME NEW b \in Actors, NEW m \in hand[b], Handled(b, m) PROVE QueueInv'
  <2>1. hand[b] = {m} /\ QueueOK(b)
    BY <1>3 DEF Handled, TypeOK, ActorTypeOK, LoopInv, LoopOK, NoLoop, OneLoop, QueueInv
  <2>2. /\ handled'[b] = Append(handled[b], m)
        /\ hand'[b] = {}
        /\ accepted' = accepted
        /\ mailbox' = mailbox
    BY <1>3, <2>1 DEF Handled, TypeOK, QueueTypeOK
  <2>3. \A a \in Actors : a # b => handled'[a] = handled[a] /\ hand'[a] = hand[a]
    BY <1>3 DEF Handled, TypeOK, QueueTypeOK
  <2>4. ASSUME NEW a \in Actors, a # b PROVE QueueOK(a)'
    BY <2>2, <2>3, <2>4, QueueFrame DEF QueueInv
  <2>5. QueueOK(b)'
    <3>1. accepted[b] \in Seq(Messages) /\ handled[b] \in Seq(Messages)
      BY DEF TypeOK, QueueTypeOK
    <3>2. Taken(b) = Len(handled[b]) + 1
      BY <2>1 DEF Taken
    <3>3. Taken(b)' = Len(handled'[b])
      BY <2>2 DEF Taken
    <3>4. /\ Len(handled'[b]) = Len(handled[b]) + 1
          /\ \A i \in 1..Len(handled[b]) : handled'[b][i] = handled[b][i]
          /\ handled'[b][Len(handled[b]) + 1] = m
      BY <2>2, <3>1
    <3>5. m = accepted[b][Len(handled[b]) + 1]
      BY <2>1, <3>2 DEF QueueOK
    <3>6. \A i \in 1..Len(handled'[b]) : handled'[b][i] = accepted[b][i]
      <4>1. PICK n \in Nat : n = Len(handled[b])
        BY <3>1
      <4>2. \A i \in 1..n : handled[b][i] = accepted[b][i]
        BY <2>1, <4>1 DEF QueueOK
      <4>3. ASSUME NEW i \in 1..(n + 1) PROVE handled'[b][i] = accepted[b][i]
        <5>1. CASE i \in 1..n
          BY <3>4, <4>1, <4>2, <5>1
        <5>2. CASE i = n + 1
          BY <3>4, <3>5, <4>1, <5>2
        <5>3. QED
          BY <5>1, <5>2
      <4>4. QED
        BY <3>4, <4>1, <4>3
    <3>7. Taken(b)' = Taken(b)
      BY <3>2, <3>3, <3>4
    <3>8. QED
      BY <2>1, <2>2, <3>6, <3>7 DEF QueueOK
  <2>6. QED
    BY <2>4, <2>5 DEF QueueInv
<1>4. ASSUME UNCHANGED <<mailbox, hand, accepted, handled>> PROVE QueueInv'
  BY <1>4, QueueFrame DEF QueueInv
<1>5. QED
  BY <1>1, <1>2, <1>3, <1>4
  DEF Next, vars, Progress, TellStep, SpawnStep, ShutdownStep, StatsStep, LoopStep,
      actorVars, histVars, Call, Lookup, TellRLock, TellSent, TellTimeout, SysLock,
      SpawnCheck, StartLock, StartFail, StartRun, SpawnRegister, ShutdownBegin, StopLock,
      StopCancel, StopJoin, ShutdownEnd, StatsRLock, StatsRead, StatsEnd, LoopExit

-----------------------------------------------------------------------------
(* The five parts together are inductive.                                   *)
LEMMA InitIInv == ASSUME Init PROVE IInv
<1> USE ConstantAssumption DEF Init
<1>1. TypeOK
  BY DEF TypeOK, LockTypeOK, ActorTypeOK, QueueTypeOK, ThreadTypeOK, PC, Idle, At
<1>2. SysLockInv /\ ActorLockInv
  BY DEF SysLockInv, ActorLockInv, SysHeld, SpawnPC, DownPC, Idle, Joining
<1>3. LoopInv
  BY DEF LoopInv, LoopOK, NoLoop, OneLoop
<1>4. RegistryInv
  BY DEF RegistryInv, Stopping, Idle
<1>5. QueueInv
  BY DEF QueueInv, QueueOK, Taken
<1>6. QED
  BY <1>1, <1>2, <1>3, <1>4, <1>5 DEF IInv

LEMMA NextIInv == ASSUME IInv, [Next]_vars PROVE IInv'
<1> USE DEF IInv
<1>1. TypeOK'
  BY LockTypeStep, ActorTypeStep, ThreadTypeStep, QueueTypeStep DEF TypeOK
<1>2. SysLockInv' /\ ActorLockInv' /\ LoopInv' /\ RegistryInv' /\ QueueInv'
  BY SysLockStep, ActorLockStep, LoopStepInv, RegistryStep, QueueStep
<1>3. QED
  BY <1>1, <1>2

THEOREM Invariance == Spec => []IInv
  BY InitIInv, NextIInv, PTL DEF Spec

(* The variables keep their types and no mailbox exceeds its capacity.      *)
THEOREM TypeCorrect == Spec => []TypeOK
<1>1. IInv => TypeOK
  BY DEF IInv
<1>2. QED
  BY <1>1, Invariance, PTL

(* Outside the system's lock the registry lists exactly the running actors, *)
(* each with one receive loop and a live context, and a stopped actor has    *)
(* no loop and nothing in hand.                                             *)
THEOREM RegistryTruth == Spec => []RegistryIsTruth
<1>1. IInv => RegistryIsTruth
  <2> SUFFICES ASSUME IInv, sysWriter = NoThread, NEW a \in Actors
               PROVE  /\ a \in registry <=> running[a]
                      /\ running[a] => ~cancelled[a] /\ idleLoops[a] + Cardinality(hand[a]) = 1
                      /\ ~running[a] => idleLoops[a] = 0 /\ hand[a] = {}
    BY DEF RegistryIsTruth
  <2>1. a \in registry <=> running[a]
    BY DEF IInv, RegistryInv
  <2>2. ~Joining(a)
    BY ConstantAssumption
    DEF IInv, Joining, SysLockInv, SysHeld, DownPC, TypeOK, LockTypeOK
  <2>3. OneLoop(a) => idleLoops[a] + Cardinality(hand[a]) = 1
    <3>1. CASE idleLoops[a] = 1 /\ hand[a] = {}
      BY <3>1, FS_EmptySet
    <3>2. ASSUME NEW m, idleLoops[a] = 0, hand[a] = {m} PROVE idleLoops[a] + Cardinality(hand[a]) = 1
      <4>1. Cardinality({m}) = 1
        BY FS_Singleton
      <4>2. QED
        BY <3>2, <4>1
    <3>3. QED
      BY <3>1, <3>2 DEF OneLoop
  <2>4. LoopOK(a)
    BY DEF IInv, LoopInv
  <2>5. QED
    BY <2>1, <2>2, <2>3, <2>4 DEF LoopOK, NoLoop
<1>2. QED
  BY <1>1, Invariance, PTL

-----------------------------------------------------------------------------
(* The counters.  A sender between its send and its increment is counted by *)
(* the senders' set: with it, enqueued is the number of messages accepted.   *)
Sending(a) == {t \in Threads : At(t, "sent") /\ target[t] = a}

CountOK(a) ==
  /\ IsFiniteSet(Sending(a))
  /\ enqueued[a] + Cardinality(Sending(a)) = Len(accepted[a])

Counted == \A a \in Actors : CountOK(a)

(* A step that moves no thread to or from the end of its send, and leaves   *)
(* the counter and the history of an actor alone, leaves its count right.    *)
LEMMA CountFrame ==
  ASSUME NEW a \in Actors, CountOK(a),
         enqueued'[a] = enqueued[a], accepted'[a] = accepted[a],
         \A t \in Threads : pc'[t] = "sent" /\ target'[t] = a <=> pc[t] = "sent" /\ target[t] = a
  PROVE  CountOK(a)'
<1>1. Sending(a)' = Sending(a)
  BY DEF Sending, At
<1>2. QED
  BY <1>1, Zenon DEF CountOK

(* TellSend's message is accepted and its sender is not yet counted.         *)
LEMMA SendCounts ==
  ASSUME IInv, Counted, NEW t \in Threads, TellSend(t)
  PROVE  Counted'
<1> USE DEF IInv, TypeOK, ThreadTypeOK, ActorTypeOK, QueueTypeOK, At, Goto
<1>1. PICK b \in Actors : b = target[t]
  OBVIOUS
<1>2. /\ enqueued' = enqueued /\ target' = target
      /\ accepted' = [accepted EXCEPT ![b] = Append(accepted[b], <<t, calls[t]>>)]
      /\ pc[t] = "send" /\ pc' = [pc EXCEPT ![t] = "sent"]
  BY <1>1 DEF TellSend
<1>3. <<t, calls[t]>> \in Messages
  BY <1>2, MessageOfCall DEF Idle
<1>4. ASSUME NEW a \in Actors, a # b PROVE CountOK(a)'
  BY <1>1, <1>2, <1>4, CountFrame DEF Counted
<1>5. CountOK(b)'
  <2>1. Sending(b)' = Sending(b) \cup {t} /\ t \notin Sending(b)
    BY <1>1, <1>2 DEF Sending
  <2>2. /\ IsFiniteSet(Sending(b))
        /\ enqueued[b] + Cardinality(Sending(b)) = Len(accepted[b])
    BY DEF Counted, CountOK
  <2>3. IsFiniteSet(Sending(b)') /\ Cardinality(Sending(b)') = Cardinality(Sending(b)) + 1
    <3>1. PICK S : S = Sending(b)
      OBVIOUS
    <3>2. IsFiniteSet(S \cup {t}) /\ Cardinality(S \cup {t}) = Cardinality(S) + 1
      BY <2>1, <2>2, <3>1, FS_AddElement
    <3>3. Sending(b)' = S \cup {t}
      BY <2>1, <3>1
    <3>4. QED
      BY <3>1, <3>2, <3>3
  <2>4. Len(accepted'[b]) = Len(accepted[b]) + 1
    BY <1>2, <1>3
  <2>5. enqueued'[b] = enqueued[b] /\ enqueued[b] \in Nat
    BY <1>2
  <2>6. Cardinality(Sending(b)) \in Nat
    BY <2>2, FS_CardinalityType
  <2>7. enqueued'[b] + Cardinality(Sending(b)') = Len(accepted'[b])
    <3>1. \A x, y, l \in Nat : x + y = l => x + (y + 1) = l + 1
      OBVIOUS
    <3>2. PICK e \in Nat, c \in Nat : e = enqueued[b] /\ c = Cardinality(Sending(b))
      BY <2>5, <2>6
    <3> HIDE DEF Sending, TypeOK, LockTypeOK, ActorTypeOK, ThreadTypeOK, QueueTypeOK
    <3>3. Len(accepted[b]) = e + c /\ e + c \in Nat
      BY <2>2, <3>2
    <3>4. enqueued'[b] = e /\ Cardinality(Sending(b)') = c + 1 /\ Len(accepted'[b]) = (e + c) + 1
      BY <2>3, <2>4, <2>5, <3>2, <3>3
    <3>5. QED
      BY <3>1, <3>3, <3>4
  <2>8. QED
    BY <2>3, <2>7 DEF CountOK
<1>6. QED
  BY <1>4, <1>5 DEF Counted

(* TellSent counts its message and lets the sender go.                       *)
LEMMA SentCounts ==
  ASSUME IInv, Counted, NEW t \in Threads, TellSent(t)
  PROVE  Counted'
<1> USE DEF IInv, TypeOK, ThreadTypeOK, ActorTypeOK, QueueTypeOK, At, Goto
<1>1. PICK b \in Actors : b = target[t]
  OBVIOUS
<1>2. /\ accepted' = accepted /\ target' = target
      /\ enqueued' = [enqueued EXCEPT ![b] = enqueued[b] + 1]
      /\ pc[t] = "sent" /\ pc' = [pc EXCEPT ![t] = Idle]
  BY <1>1 DEF TellSent, histVars
<1>3. ASSUME NEW a \in Actors, a # b PROVE CountOK(a)'
  BY <1>1, <1>2, <1>3, CountFrame DEF Counted, Idle
<1>4. CountOK(b)'
  <2>1. Sending(b)' = Sending(b) \ {t} /\ t \in Sending(b)
    BY <1>1, <1>2 DEF Sending, Idle
  <2>2. /\ IsFiniteSet(Sending(b))
        /\ enqueued[b] + Cardinality(Sending(b)) = Len(accepted[b])
    BY DEF Counted, CountOK
  <2>3. IsFiniteSet(Sending(b)') /\ Cardinality(Sending(b)') = Cardinality(Sending(b)) - 1
    <3>1. PICK S : S = Sending(b)
      OBVIOUS
    <3>2. IsFiniteSet(S \ {t}) /\ Cardinality(S \ {t}) = Cardinality(S) - 1
      BY <2>1, <2>2, <3>1, FS_RemoveElement
    <3>3. Sending(b)' = S \ {t}
      BY <2>1, <3>1
    <3>4. QED
      BY <3>1, <3>2, <3>3
  <2>4. enqueued'[b] = enqueued[b] + 1 /\ enqueued[b] \in Nat
    BY <1>2
  <2>5. Cardinality(Sending(b)) \in Nat
    BY <2>2, FS_CardinalityType
  <2>6. enqueued'[b] + Cardinality(Sending(b)') = Len(accepted'[b])
    BY <1>2, <2>2, <2>3, <2>4, <2>5
  <2>7. QED
    BY <2>3, <2>6 DEF CountOK
<1>5. QED
  BY <1>3, <1>4 DEF Counted

(* No step loses or repeats a count.                                         *)
LEMMA CountStep == ASSUME IInv, Counted, [Next]_vars PROVE Counted'
<1> DEFINE Same == /\ enqueued' = enqueued /\ accepted' = accepted
                   /\ \A t \in Threads : /\ pc'[t] = "sent" <=> pc[t] = "sent"
                                         /\ pc[t] = "sent" => target'[t] = target[t]
<1>0. Same => Counted'
  BY CountFrame DEF Counted
<1> USE DEF IInv, TypeOK, ThreadTypeOK, At, Goto, Idle, lockVars, actorVars, histVars, threadVars, vars
<1>1. ASSUME NEW t \in Threads, Call(t) PROVE Same
  BY <1>1 DEF Call
<1>2. ASSUME NEW t \in Threads, Lookup(t) PROVE Same
  BY <1>2 DEF Lookup
<1>3. ASSUME NEW t \in Threads, TellRLock(t) PROVE Same
  BY <1>3 DEF TellRLock
<1>4. ASSUME NEW t \in Threads, TellTimeout(t) PROVE Same
  BY <1>4 DEF TellTimeout
<1>5. ASSUME NEW t \in Threads, SysLock(t) PROVE Same
  BY <1>5 DEF SysLock
<1>6. ASSUME NEW t \in Threads, SpawnCheck(t) PROVE Same
  BY <1>6 DEF SpawnCheck
<1>7. ASSUME NEW t \in Threads, StartLock(t) PROVE Same
  BY <1>7 DEF StartLock
<1>8. ASSUME NEW t \in Threads, StartFail(t) PROVE Same
  BY <1>8 DEF StartFail
<1>9. ASSUME NEW t \in Threads, StartRun(t) PROVE Same
  BY <1>9 DEF StartRun
<1>10. ASSUME NEW t \in Threads, SpawnRegister(t) PROVE Same
  BY <1>10 DEF SpawnRegister
<1>11. ASSUME NEW t \in Threads, ShutdownBegin(t) PROVE Same
  BY <1>11 DEF ShutdownBegin
<1>12. ASSUME NEW t \in Threads, StopLock(t) PROVE Same
  BY <1>12 DEF StopLock
<1>13. ASSUME NEW t \in Threads, StopCancel(t) PROVE Same
  BY <1>13 DEF StopCancel
<1>14. ASSUME NEW t \in Threads, StopJoin(t) PROVE Same
  BY <1>14 DEF StopJoin
<1>15. ASSUME NEW t \in Threads, ShutdownEnd(t) PROVE Same
  BY <1>15 DEF ShutdownEnd
<1>16. ASSUME NEW t \in Threads, StatsRLock(t) PROVE Same
  BY <1>16 DEF StatsRLock
<1>17. ASSUME NEW t \in Threads, StatsRead(t) PROVE Same
  BY <1>17 DEF StatsRead
<1>18. ASSUME NEW t \in Threads, StatsEnd(t) PROVE Same
  BY <1>18 DEF StatsEnd
<1>19. ASSUME NEW a \in Actors, Receive(a) PROVE Same
  BY <1>19 DEF Receive
<1>20. ASSUME NEW a \in Actors, LoopExit(a) PROVE Same
  BY <1>20 DEF LoopExit
<1>21. ASSUME NEW a \in Actors, NEW m \in hand[a], Handled(a, m) PROVE Same
  BY <1>21 DEF Handled
<1>22. ASSUME UNCHANGED vars PROVE Same
  BY <1>22
<1> HIDE DEF Same
<1>23. ASSUME NEW t \in Threads, TellSend(t) \/ TellSent(t) PROVE Counted'
  BY <1>23, SendCounts, SentCounts
<1>24. QED
  BY <1>0, <1>1, <1>2, <1>3, <1>4, <1>5, <1>6, <1>7, <1>8, <1>9, <1>10, <1>11, <1>12, <1>13, <1>14, <1>15, <1>16, <1>17, <1>18, <1>19, <1>20, <1>21, <1>22, <1>23
  DEF Next, Progress, TellStep, SpawnStep, ShutdownStep, StatsStep, LoopStep

(* The counters GetStats reports add up: counted, or about to be, is        *)
(* handled, in hand or waiting, across stops and restarts.                    *)
THEOREM CountersAlwaysAddUp == Spec => []CountersAddUp
<1>1. Init => Counted
  <2> SUFFICES ASSUME Init, NEW a \in Actors PROVE CountOK(a)
    BY DEF Counted
  <2>1. Sending(a) = {} /\ enqueued[a] = 0 /\ accepted[a] = <<>>
    BY DEF Init, Sending, At, Idle
  <2>2. IsFiniteSet({}) /\ Cardinality({}) = 0
    BY FS_EmptySet
  <2>3. QED
    BY <2>1, <2>2 DEF CountOK
<1>2. IInv /\ Counted /\ [Next]_vars => Counted'
  BY CountStep
<1>3. IInv /\ Counted => CountersAddUp
  <2> SUFFICES ASSUME IInv, Counted, NEW a \in Actors
               PROVE  enqueued[a] + Cardinality({t \in Threads : At(t, "sent") /\ target[t] = a})
                        = Len(handled[a]) + Cardinality(hand[a]) + Len(mailbox[a])
    BY DEF CountersAddUp
  <2>1. enqueued[a] + Cardinality({t \in Threads : At(t, "sent") /\ target[t] = a}) = Len(accepted[a])
    BY DEF Counted, CountOK, Sending
  <2>2. Len(accepted[a]) = Taken(a) + Len(mailbox[a])
    BY DEF IInv, QueueInv, QueueOK
  <2>3. Taken(a) = Len(handled[a]) + Cardinality(hand[a])
    <3>1. CASE hand[a] = {}
      <4>1. Cardinality(hand[a]) = 0
        BY <3>1, FS_EmptySet
      <4>2. Len(handled[a]) \in Nat
        BY DEF IInv, TypeOK, QueueTypeOK
      <4>3. QED
        BY <3>1, <4>1, <4>2 DEF Taken
    <3>2. ASSUME NEW m, hand[a] = {m} PROVE Taken(a) = Len(handled[a]) + Cardinality(hand[a])
      <4>1. Cardinality({m}) = 1
        BY FS_Singleton
      <4>2. QED
        BY <3>2, <4>1 DEF Taken
    <3>3. QED
      BY <3>1, <3>2 DEF IInv, LoopInv, LoopOK, NoLoop, OneLoop
  <2>4. QED
    BY <2>1, <2>2, <2>3
<1>4. QED
  BY <1>1, <1>2, <1>3, Invariance, PTL DEF Spec

-----------------------------------------------------------------------------
(* Refinement.  Only Start, Stop's two halves, the send, the receive and    *)
(* the end of a handler are visible to the contract.                        *)
LEMMA JoiningIs ==
  ASSUME TypeOK, ActorLockInv, NEW a \in Actors
  PROVE  Joining(a) <=> \E t \in Threads : pc[t] = "stop_join" /\ target[t] = a
  BY ConstantAssumption DEF Joining, ActorLockInv, TypeOK, LockTypeOK

LEMMA JoiningIsNext ==
  ASSUME TypeOK', ActorLockInv', NEW a \in Actors
  PROVE  Joining(a)' <=> \E t \in Threads : pc'[t] = "stop_join" /\ target'[t] = a
  BY ConstantAssumption DEF Joining, ActorLockInv, TypeOK, LockTypeOK

(* What the contract sees of a step that is internal to the runtime.        *)
Quiet == UNCHANGED <<Phase, accepted, hand, handled>>

LEMMA QuietStep ==
  ASSUME IInv, IInv', UNCHANGED <<running, accepted, hand, handled>>,
         \A t \in Threads : /\ pc'[t] = "stop_join" <=> pc[t] = "stop_join"
                            /\ pc[t] = "stop_join" => target'[t] = target[t]
  PROVE  Quiet
<1>1. \A a \in Actors : Joining(a)' <=> Joining(a)
  BY JoiningIs, JoiningIsNext DEF IInv
<1>2. QED
  BY <1>1 DEF Quiet, Phase

LEMMA RefineStep == ASSUME IInv, IInv', [Next]_vars PROVE [Contract!Next]_(Contract!vars)
<1> USE DEF IInv, TypeOK, ThreadTypeOK, At, Goto, Idle, lockVars, actorVars, histVars, threadVars, vars
<1>1. ASSUME NEW t \in Threads, Call(t) PROVE Quiet
  BY <1>1, QuietStep DEF Call
<1>2. ASSUME NEW t \in Threads, Lookup(t) PROVE Quiet
  BY <1>2, QuietStep DEF Lookup
<1>3. ASSUME NEW t \in Threads, TellRLock(t) PROVE Quiet
  BY <1>3, QuietStep DEF TellRLock
<1>4. ASSUME NEW t \in Threads, TellSent(t) PROVE Quiet
  BY <1>4, QuietStep DEF TellSent
<1>5. ASSUME NEW t \in Threads, TellTimeout(t) PROVE Quiet
  BY <1>5, QuietStep DEF TellTimeout
<1>6. ASSUME NEW t \in Threads, SysLock(t) PROVE Quiet
  BY <1>6, QuietStep DEF SysLock
<1>7. ASSUME NEW t \in Threads, SpawnCheck(t) PROVE Quiet
  BY <1>7, QuietStep DEF SpawnCheck
<1>8. ASSUME NEW t \in Threads, StartLock(t) PROVE Quiet
  BY <1>8, QuietStep DEF StartLock
<1>9. ASSUME NEW t \in Threads, StartFail(t) PROVE Quiet
  BY <1>9, QuietStep DEF StartFail
<1>10. ASSUME NEW t \in Threads, SpawnRegister(t) PROVE Quiet
  BY <1>10, QuietStep DEF SpawnRegister
<1>11. ASSUME NEW t \in Threads, ShutdownBegin(t) PROVE Quiet
  BY <1>11, QuietStep DEF ShutdownBegin
<1>12. ASSUME NEW t \in Threads, StopLock(t) PROVE Quiet
  BY <1>12, QuietStep DEF StopLock
<1>13. ASSUME NEW t \in Threads, ShutdownEnd(t) PROVE Quiet
  BY <1>13, QuietStep DEF ShutdownEnd
<1>14. ASSUME NEW t \in Threads, StatsRLock(t) PROVE Quiet
  BY <1>14, QuietStep DEF StatsRLock
<1>15. ASSUME NEW t \in Threads, StatsRead(t) PROVE Quiet
  BY <1>15, QuietStep DEF StatsRead
<1>16. ASSUME NEW t \in Threads, StatsEnd(t) PROVE Quiet
  BY <1>16, QuietStep DEF StatsEnd
<1>17. ASSUME NEW a \in Actors, LoopExit(a) PROVE Quiet
  BY <1>17, QuietStep DEF LoopExit
<1>18. ASSUME UNCHANGED vars PROVE Quiet
  <2>1. UNCHANGED <<running, accepted, hand, handled, pc, target>>
    BY <1>18
  <2>2. QED
    BY <2>1, QuietStep
<1>19. ASSUME NEW t \in Threads, TellSend(t) PROVE Contract!Next
  <2>1. PICK a \in Actors, m \in Messages : a = target[t] /\ m = <<t, calls[t]>>
    BY <1>19, MessageOfCall DEF TellSend
  <2>2. running[a] /\ Phase[a] = "open"
    BY <1>19, <2>1 DEF TellSend, ActorLockInv, Phase
  <2>3. Phase' = Phase
    <3>1. \A b \in Actors : Joining(b)' <=> Joining(b)
      BY <1>19, JoiningIs, JoiningIsNext DEF TellSend
    <3>2. QED
      BY <1>19, <3>1 DEF TellSend, Phase
  <2>4. Contract!Accept(a, m)
    BY <1>19, <2>1, <2>2, <2>3 DEF TellSend, Contract!Accept
  <2>5. QED
    BY <2>4 DEF Contract!Next
<1>20. ASSUME NEW t \in Threads, StartRun(t) PROVE Contract!Next
  <2>1. PICK a \in Actors : a = target[t]
    BY <1>20 DEF StartRun
  <2>2. Phase[a] = "closed" /\ hand[a] = {}
    BY <1>20, <2>1, ConstantAssumption
    DEF StartRun, Phase, Joining, ActorLockInv, LoopInv, LoopOK, NoLoop
  <2>3. Phase' = [Phase EXCEPT ![a] = "open"]
    <3>1. \A b \in Actors : Joining(b)' <=> Joining(b)
      BY <1>20, JoiningIs, JoiningIsNext DEF StartRun
    <3>2. \A b \in Actors : running'[b] = IF b = a THEN TRUE ELSE running[b]
      BY <1>20, <2>1 DEF StartRun, ActorTypeOK
    <3>3. QED
      BY <3>1, <3>2 DEF Phase
  <2>4. Contract!Open(a)
    BY <1>20, <2>2, <2>3 DEF StartRun, Contract!Open
  <2>5. QED
    BY <2>4 DEF Contract!Next
<1>21. ASSUME NEW t \in Threads, StopCancel(t) PROVE Contract!Next \/ Quiet
  <2>1. PICK a \in Actors : a = target[t]
    BY <1>21 DEF StopCancel
  <2>2. CASE ~running[a]
    BY <1>21, <2>1, <2>2, QuietStep DEF StopCancel
  <2>3. CASE running[a]
    <3>1. Phase[a] = "open"
      BY <2>3 DEF Phase
    <3>2. \A b \in Actors : Joining(b)' <=> Joining(b) \/ b = a
      BY <1>21, <2>1, <2>3, JoiningIs, JoiningIsNext DEF StopCancel
    <3>3. \A b \in Actors : running'[b] = IF b = a THEN FALSE ELSE running[b]
      BY <1>21, <2>1, <2>3 DEF StopCancel, ActorTypeOK
    <3>4. Phase' = [Phase EXCEPT ![a] = "closing"]
      BY <3>2, <3>3 DEF Phase
    <3>5. Contract!BeginClose(a)
      BY <1>21, <3>1, <3>4 DEF StopCancel, Contract!BeginClose
    <3>6. QED
      BY <3>5 DEF Contract!Next
  <2>4. QED
    BY <2>2, <2>3
<1>22. ASSUME NEW t \in Threads, StopJoin(t) PROVE Contract!Next
  <2>1. PICK a \in Actors : a = target[t]
    BY <1>22 DEF StopJoin
  <2>2. Joining(a) /\ hand[a] = {} /\ ~running[a]
    <3>1. Joining(a) /\ idleLoops[a] = 0 /\ hand[a] = {}
      BY <1>22, <2>1, JoiningIs DEF StopJoin
    <3>2. ~OneLoop(a)
      BY <3>1 DEF OneLoop
    <3>3. QED
      BY <3>1, <3>2 DEF LoopInv, LoopOK
  <2>3. Phase[a] = "closing"
    BY <2>2 DEF Phase
  <2>4. \A b \in Actors : Joining(b)' <=> Joining(b) /\ b # a
    BY <1>22, <2>1, JoiningIs, JoiningIsNext DEF StopJoin, ActorLockInv
  <2>5. Phase' = [Phase EXCEPT ![a] = "closed"]
    BY <1>22, <2>2, <2>4 DEF StopJoin, Phase
  <2>6. Contract!EndClose(a)
    BY <1>22, <2>2, <2>3, <2>5 DEF StopJoin, Contract!EndClose
  <2>7. QED
    BY <2>6 DEF Contract!Next
<1>23. ASSUME NEW a \in Actors, Receive(a) PROVE Contract!Next
  <2>1. hand[a] = {} /\ Phase[a] # "closed"
    BY <1>23 DEF Receive, ActorTypeOK, LoopInv, LoopOK, NoLoop, OneLoop, Phase
  <2>2. /\ mailbox[a] \in Seq(Messages) /\ accepted[a] \in Seq(Messages) /\ handled[a] \in Seq(Messages)
        /\ mailbox[a] # <<>> /\ QueueOK(a) /\ Taken(a) = Len(handled[a])
    BY <1>23, <2>1 DEF Receive, QueueTypeOK, QueueInv, Taken
  <2>3. /\ Len(handled[a]) < Len(accepted[a])
        /\ Head(mailbox[a]) = accepted[a][Len(handled[a]) + 1]
    <3>1. Len(mailbox[a]) \in Nat \ {0} /\ Head(mailbox[a]) = mailbox[a][1]
      BY <2>2
    <3>2. PICK n \in Nat, k \in Nat \ {0} : n = Len(handled[a]) /\ k = Len(mailbox[a])
      BY <2>2, <3>1
    <3>3. Len(accepted[a]) = n + k /\ 1 \in 1..Len(mailbox[a])
      BY <2>2, <3>2 DEF QueueOK
    <3>4. mailbox[a][1] = accepted[a][n + 1]
      BY <2>2, <3>2, <3>3 DEF QueueOK
    <3>5. \A x \in Nat, y \in Nat \ {0} : x < x + y
      OBVIOUS
    <3>6. QED
      BY <3>1, <3>2, <3>3, <3>4, <3>5
  <2>4. UNCHANGED <<Phase, accepted, handled>>
    BY <1>23 DEF Receive, Phase, Joining
  <2>5. hand' = [hand EXCEPT ![a] = {accepted[a][Len(handled[a]) + 1]}]
    <3>1. PICK h : h = Head(mailbox[a])
      OBVIOUS
    <3>2. hand' = [hand EXCEPT ![a] = hand[a] \cup {h}]
      BY <1>23, <3>1 DEF Receive
    <3>3. hand[a] \cup {h} = {accepted[a][Len(handled[a]) + 1]}
      BY <2>1, <2>3, <3>1
    <3>4. QED
      BY <3>2, <3>3, Zenon
  <2>6. Contract!Take(a)
    BY <2>1, <2>3, <2>4, <2>5 DEF Contract!Take
  <2>7. QED
    BY <2>6 DEF Contract!Next
<1>24. ASSUME NEW a \in Actors, NEW m \in hand[a], Handled(a, m) PROVE Contract!Next
  <2>1. LoopOK(a) /\ m \in Messages
    BY DEF LoopInv, QueueTypeOK
  <2>2. hand[a] = {m} /\ Phase[a] # "closed"
    BY <2>1 DEF LoopOK, NoLoop, OneLoop, Phase
  <2>3. UNCHANGED <<Phase, accepted>>
    BY <1>24 DEF Handled, Phase, Joining
  <2>4. Contract!Finish(a, m)
    BY <1>24, <2>2, <2>3 DEF Handled, QueueTypeOK, Contract!Finish
  <2>5. QED
    BY <2>1, <2>4 DEF Contract!Next
<1> HIDE DEF IInv, TypeOK, ThreadTypeOK, At, Goto, Idle, lockVars, actorVars, histVars, threadVars, vars
<1>25. QED
  BY <1>1, <1>2, <1>3, <1>4, <1>5, <1>6, <1>7, <1>8, <1>9, <1>10, <1>11, <1>12, <1>13, <1>14, <1>15, <1>16, <1>17, <1>18, <1>19, <1>20, <1>21, <1>22, <1>23, <1>24
  DEF Quiet, Contract!vars, Next, Progress, TellStep, SpawnStep, ShutdownStep, StatsStep, LoopStep

(* The runtime implements ActorContract: every actor handles what it        *)
(* accepted once, in order, one message at a time, and only between Start    *)
(* and the end of Stop.                                                      *)
THEOREM Refinement == Spec => ImplementsContract
<1>1. Init => Contract!Init
  BY ConstantAssumption DEF Init, Contract!Init, Phase, Joining
<1>2. IInv /\ IInv' /\ [Next]_vars => [Contract!Next]_(Contract!vars)
  BY RefineStep
<1>3. QED
  BY <1>1, <1>2, Invariance, PTL DEF Spec, Contract!Spec, ImplementsContract
-----------------------------------------------------------------------------
(* Deadlock.  Tell holds an actor's lock while it waits for room, Stop the   *)
(* same lock while it waits for the loop, Shutdown and GetStats the system's *)
(* lock around all of that.  CanMove and LoopCanMove are the guards of       *)
(* Progress and LoopStep, WaitsFor is what makes a lock's guard false.       *)
CanMove(t) ==
  \/ pc[t] \in {"lookup", "spawn", "shutdown", "stats"} /\ sysWriter = NoThread
  \/ pc[t] \in {"spawn_wait", "shutdown_wait"} /\ sysReaders = {}
  \/ pc[t] \in {"rlock", "start"} /\ writer[target[t]] = NoThread
  \/ pc[t] \in {"start_wait", "stop_wait"} /\ readers[target[t]] = {}
  \/ pc[t] \in {"stop_next", "stats_read"}
       /\ (todo[t] = {} \/ \E a \in todo[t] : writer[a] = NoThread)
  \/ pc[t] = "send" /\ Len(mailbox[target[t]]) <= Capacity
  \/ pc[t] \in {"sent", "started"}
  \/ pc[t] = "stop_join" /\ NoLoop(target[t])

LoopCanMove(a) ==
  \/ idleLoops[a] > 0 /\ (mailbox[a] # <<>> \/ cancelled[a])
  \/ hand[a] # {}

WaitsFor(t, u) ==
  \/ pc[t] \in {"lookup", "spawn", "shutdown", "stats"} /\ sysWriter = u
  \/ pc[t] \in {"spawn_wait", "shutdown_wait"} /\ u \in sysReaders
  \/ pc[t] \in {"rlock", "start"} /\ writer[target[t]] = u
  \/ pc[t] \in {"start_wait", "stop_wait"} /\ u \in readers[target[t]]
  \/ pc[t] \in {"stop_next", "stats_read"} /\ \E a \in todo[t] : writer[a] = u

(* The order in which the locks are taken: the system's for writing, the     *)
(* system's for reading, an actor's for writing, an actor's for reading.     *)
Level(t) ==
  IF pc[t] \in {Idle, "lookup", "spawn", "shutdown", "stats", "rlock"} THEN 0
  ELSE IF pc[t] \in {"spawn_wait", "shutdown_wait"} THEN 1
  ELSE IF pc[t] \in {"start", "stop_next", "stats_read"} THEN 2
  ELSE IF pc[t] \in {"start_wait", "stop_wait"} THEN 3
  ELSE 4

LockOrder == \A t, u \in Threads : WaitsFor(t, u) => Level(t) < Level(u)

SomebodyCanMove ==
  (\E t \in Threads : ~At(t, Idle)) =>
    (\E t \in Threads : CanMove(t)) \/ (\E a \in Actors : LoopCanMove(a))

(* The loop Stop waits for is always told to end: nobody starts an actor     *)
(* while another thread waits for its old loop.                              *)
JoinCancels == \A t \in Threads : At(t, "stop_join") => cancelled[target[t]]

LEMMA JoinCancelsStep == ASSUME IInv, JoinCancels, [Next]_vars PROVE JoinCancels'
<1> USE DEF JoinCancels, At, Goto, IInv, TypeOK, ThreadTypeOK, lockVars, actorVars, histVars, threadVars, vars
<1>1. ASSUME NEW u \in Threads, Call(u) PROVE JoinCancels'
  BY <1>1 DEF Call, Idle
<1>2. ASSUME NEW u \in Threads, Lookup(u) PROVE JoinCancels'
  BY <1>2 DEF Lookup, Idle
<1>3. ASSUME NEW u \in Threads, TellRLock(u) PROVE JoinCancels'
  BY <1>3 DEF TellRLock, Idle
<1>4. ASSUME NEW u \in Threads, TellSend(u) PROVE JoinCancels'
  BY <1>4 DEF TellSend
<1>5. ASSUME NEW u \in Threads, TellSent(u) PROVE JoinCancels'
  BY <1>5 DEF TellSent, Idle
<1>6. ASSUME NEW u \in Threads, TellTimeout(u) PROVE JoinCancels'
  BY <1>6 DEF TellTimeout, Idle
<1>7. ASSUME NEW u \in Threads, SysLock(u) PROVE JoinCancels'
  BY <1>7 DEF SysLock
<1>8. ASSUME NEW u \in Threads, SpawnCheck(u) PROVE JoinCancels'
  BY <1>8 DEF SpawnCheck, Idle
<1>9. ASSUME NEW u \in Threads, StartLock(u) PROVE JoinCancels'
  BY <1>9 DEF StartLock
<1>10. ASSUME NEW u \in Threads, StartFail(u) PROVE JoinCancels'
  BY <1>10 DEF StartFail, Idle, ActorTypeOK
<1>11. ASSUME NEW u \in Threads, StartRun(u) PROVE JoinCancels'
  <2> SUFFICES ASSUME NEW t \in Threads, At(t, "stop_join")' PROVE cancelled'[target'[t]]
    OBVIOUS
  <2>1. pc[t] = "stop_join" /\ pc[u] = "start_wait" /\ UNCHANGED target
    BY <1>11 DEF StartRun
  <2>2. writer[target[t]] = t /\ writer[target[u]] = u
    BY <2>1 DEF ActorLockInv
  <2>3. target[t] # target[u]
    BY <2>1, <2>2
  <2>4. QED
    BY <1>11, <2>1, <2>3 DEF StartRun, ActorTypeOK
<1>12. ASSUME NEW u \in Threads, SpawnRegister(u) PROVE JoinCancels'
  BY <1>12 DEF SpawnRegister, Idle
<1>13. ASSUME NEW u \in Threads, ShutdownBegin(u) PROVE JoinCancels'
  BY <1>13 DEF ShutdownBegin
<1>14. ASSUME NEW u \in Threads, StopLock(u) PROVE JoinCancels'
  BY <1>14 DEF StopLock
<1>15. ASSUME NEW u \in Threads, StopCancel(u) PROVE JoinCancels'
  BY <1>15 DEF StopCancel, ActorTypeOK
<1>16. ASSUME NEW u \in Threads, StopJoin(u) PROVE JoinCancels'
  BY <1>16 DEF StopJoin
<1>17. ASSUME NEW u \in Threads, ShutdownEnd(u) PROVE JoinCancels'
  BY <1>17 DEF ShutdownEnd, Idle
<1>18. ASSUME NEW u \in Threads, StatsRLock(u) PROVE JoinCancels'
  BY <1>18 DEF StatsRLock
<1>19. ASSUME NEW u \in Threads, StatsRead(u) PROVE JoinCancels'
  BY <1>19 DEF StatsRead
<1>20. ASSUME NEW u \in Threads, StatsEnd(u) PROVE JoinCancels'
  BY <1>20 DEF StatsEnd, Idle
<1>21. ASSUME NEW a \in Actors, Receive(a) PROVE JoinCancels'
  BY <1>21 DEF Receive
<1>22. ASSUME NEW a \in Actors, LoopExit(a) PROVE JoinCancels'
  BY <1>22 DEF LoopExit
<1>23. ASSUME NEW a \in Actors, NEW m \in hand[a], Handled(a, m) PROVE JoinCancels'
  BY <1>23 DEF Handled
<1>24. CASE UNCHANGED vars
  BY <1>24
<1> HIDE DEF JoinCancels, At, Goto, IInv, TypeOK, ThreadTypeOK, lockVars, actorVars, histVars, threadVars, vars
<1>25. QED
  BY <1>1, <1>2, <1>3, <1>4, <1>5, <1>6, <1>7, <1>8, <1>9, <1>10, <1>11, <1>12, <1>13, <1>14, <1>15, <1>16, <1>17, <1>18, <1>19, <1>20, <1>21, <1>22, <1>23, <1>24
  DEF Next, Progress, TellStep, SpawnStep, ShutdownStep, StatsStep, LoopStep

(* Whoever is waited for is further along the order of the locks.            *)
LEMMA WaitsGoUp == IInv => LockOrder
<1> SUFFICES ASSUME IInv, NEW t \in Threads, NEW u \in Threads, WaitsFor(t, u)
             PROVE  Level(t) < Level(u)
  BY DEF LockOrder
<1>1. /\ sysWriter = u => pc[u] \in SysHeld
      /\ u \in sysReaders => pc[u] = "stats_read"
  BY DEF IInv, SysLockInv
<1>2. \A a \in Actors : /\ writer[a] = u => pc[u] \in {"start_wait", "stop_wait", "stop_join"}
                        /\ u \in readers[a] => pc[u] \in {"send", "sent"}
  BY DEF IInv, ActorLockInv
<1>3. target[t] \in Actors /\ todo[t] \subseteq Actors
  BY DEF IInv, TypeOK, ThreadTypeOK
<1>4. CASE pc[t] \in {"lookup", "spawn", "shutdown", "stats"}
  BY <1>1, <1>4 DEF WaitsFor, Level, SysHeld, SpawnPC, DownPC, Idle
<1>5. CASE pc[t] \in {"spawn_wait", "shutdown_wait"}
  BY <1>1, <1>5 DEF WaitsFor, Level, Idle
<1>6. CASE pc[t] \in {"rlock", "start"}
  BY <1>2, <1>3, <1>6 DEF WaitsFor, Level, Idle
<1>7. CASE pc[t] \in {"start_wait", "stop_wait"}
  BY <1>2, <1>3, <1>7 DEF WaitsFor, Level, Idle
<1>8. CASE pc[t] \in {"stop_next", "stats_read"}
  BY <1>2, <1>3, <1>8 DEF WaitsFor, Level, Idle
<1>9. QED
  BY <1>4, <1>5, <1>6, <1>7, <1>8 DEF WaitsFor

(* If nobody could move, the locks would be free one after the other, from   *)
(* the last of the order to the first, and then somebody could move.         *)
LEMMA FreeToMove == IInv /\ JoinCancels => SomebodyCanMove
<1> SUFFICES ASSUME IInv, JoinCancels, \A t \in Threads : ~CanMove(t),
                    \A a \in Actors : ~LoopCanMove(a)
             PROVE  \A t \in Threads : At(t, Idle)
  BY DEF SomebodyCanMove
<1> DEFINE Nobody(S) == \A t \in Threads : pc[t] \notin S
<1>1. \A t \in Threads : target[t] \in Actors /\ todo[t] \subseteq Actors /\ pc[t] \in PC
  BY DEF IInv, TypeOK, ThreadTypeOK
<1>2. Nobody({"send", "sent", "started"})
  BY <1>1 DEF CanMove, IInv, TypeOK, QueueTypeOK
<1>3. Nobody({"stop_join"})
  <2> SUFFICES ASSUME NEW t \in Threads, pc[t] = "stop_join" PROVE FALSE
    OBVIOUS
  <2>1. cancelled[target[t]] /\ ~NoLoop(target[t])
    BY DEF JoinCancels, At, CanMove
  <2>2. OneLoop(target[t])
    BY <1>1, <2>1 DEF IInv, LoopInv, LoopOK
  <2>3. LoopCanMove(target[t])
    BY <2>1, <2>2 DEF OneLoop, LoopCanMove
  <2>4. QED
    BY <1>1, <2>3
<1>4. \A a \in Actors : readers[a] = {}
  <2> SUFFICES ASSUME NEW a \in Actors, NEW t \in readers[a] PROVE FALSE
    OBVIOUS
  <2>1. t \in Threads
    BY DEF IInv, TypeOK, LockTypeOK
  <2>2. pc[t] \in {"send", "sent"}
    BY <2>1 DEF IInv, ActorLockInv
  <2>3. QED
    BY <1>2, <2>1, <2>2
<1>5. Nobody({"start_wait", "stop_wait"})
  BY <1>1, <1>4 DEF CanMove
<1>6. \A a \in Actors : writer[a] = NoThread
  <2> SUFFICES ASSUME NEW a \in Actors, writer[a] \in Threads PROVE FALSE
    BY DEF IInv, TypeOK, LockTypeOK
  <2>1. pc[writer[a]] \in {"start_wait", "stop_wait", "stop_join"}
    BY DEF IInv, ActorLockInv
  <2>2. QED
    BY <1>3, <1>5, <2>1
<1>7. Nobody({"rlock", "start", "stop_next", "stats_read"})
  BY <1>1, <1>6 DEF CanMove
<1>8. sysReaders = {}
  <2> SUFFICES ASSUME NEW t \in sysReaders PROVE FALSE
    OBVIOUS
  <2>1. t \in Threads /\ pc[t] = "stats_read"
    BY DEF IInv, TypeOK, LockTypeOK, SysLockInv
  <2>2. QED
    BY <1>7, <2>1
<1>9. Nobody({"spawn_wait", "shutdown_wait"})
  BY <1>8 DEF CanMove
<1>10. sysWriter = NoThread
  <2> SUFFICES ASSUME sysWriter \in Threads PROVE FALSE
    BY DEF IInv, TypeOK, LockTypeOK
  <2>1. pc[sysWriter] \in SysHeld
    BY DEF IInv, SysLockInv
  <2>2. QED
    BY <1>2, <1>3, <1>5, <1>7, <1>9, <2>1 DEF SysHeld, SpawnPC, DownPC
<1>11. Nobody({"lookup", "spawn", "shutdown", "stats"})
  BY <1>10 DEF CanMove
<1>12. QED
  BY <1>1, <1>2, <1>3, <1>5, <1>7, <1>9, <1>11 DEF At, PC, TellPC, SpawnPC, DownPC, StatsPC

(* The calls never wait for each other in a circle, and while a call is under *)
(* way some call or some receive loop can take its next step: Tell, Stop,     *)
(* Shutdown and GetStats cannot lock each other out, in any number.           *)
THEOREM NoDeadlock == Spec => [](LockOrder /\ SomebodyCanMove)
<1>1. Init => JoinCancels
  BY DEF Init, JoinCancels, At, Idle
<1>2. IInv /\ JoinCancels /\ [Next]_vars => JoinCancels'
  BY JoinCancelsStep
<1>3. IInv /\ JoinCancels => LockOrder /\ SomebodyCanMove
  BY WaitsGoUp, FreeToMove
<1>4. QED
  BY <1>1, <1>2, <1>3, Invariance, PTL DEF Spec
=============================================================================
