----------------------- MODULE ServiceRegistryProofs -----------------------
(***************************************************************************)
(* Theorems about ServiceRegistry.  TypeOK is not inductive: that only a   *)
(* registered server can hang in UpdateLoad takes Hanging and Registered,  *)
(* and OnlyLeaseLossHides takes LeaseHeld beside them.                     *)
(***************************************************************************)
EXTENDS ServiceRegistry, TLAPS

(* A server that is in its registry's map is a running process.            *)
Registered == \A n \in services : proc[n] # "down"

(* A server that hangs in UpdateLoad stays open until it is killed.        *)
Hanging == \A n \in stuck : proc[n] = "open"

(* A process that runs has been granted a lease.                           *)
LeaseHeld == \A n \in Nodes : proc[n] # "down" => lease[n] # NoLease

IInv == TypeOK /\ Registered /\ Hanging /\ LeaseHeld /\ OnlyLeaseLossHides

-----------------------------------------------------------------------------
(* Init establishes the inductive invariant.                               *)
LEMMA InitInv == Init => IInv
<1> SUFFICES ASSUME Init PROVE IInv
  OBVIOUS
<1>1. /\ services = {} /\ stuck = {} /\ leases = {} /\ lost = {} /\ events = FALSE
      /\ proc = [n \in Nodes |-> "down"] /\ lease = [n \in Nodes |-> 0]
      /\ key = [n \in Nodes |-> 0] /\ cache = NotCached /\ fill = NotCached
      /\ callbacks = [l \in Lists |-> 0] /\ faults = 0
  BY DEF Init, NoLease
<1>2. Snapshot = {}
  BY <1>1 DEF Snapshot, NoLease
<1>3. /\ services \subseteq Nodes /\ stuck \subseteq services /\ lost \subseteq Nodes
      /\ leases \subseteq Nodes \X (1..MaxLeases) /\ events \in BOOLEAN
  BY <1>1, Zenon
<1>4. TypeOK
  BY <1>1, <1>2, <1>3, BoundsAreNumbers DEF TypeOK
<1>5. QED
  BY <1>1, <1>4 DEF IInv, Registered, Hanging, LeaseHeld, OnlyLeaseLossHides

(* SetKeys with keys of the right type keeps the types of etcd's part.     *)
LEMMA SetKeysType ==
  ASSUME NEW k \in [Nodes -> 0..MaxLeases], SetKeys(k)
  PROVE  key' \in [Nodes -> 0..MaxLeases] /\ events' \in BOOLEAN
<1>1. key' = k /\ events' = (events \/ k # key)
  BY DEF SetKeys
<1>2. events' \in BOOLEAN
  BY <1>1, Zenon
<1>3. QED
  BY <1>1, <1>2

(* The end of a lease takes its key away and leaves the other keys alone.  *)
LEMMA WithoutKeys ==
  ASSUME TypeOK, NEW l
  PROVE  /\ Without(l) \in [Nodes -> 0..MaxLeases]
         /\ \A n \in Nodes : \/ Without(l)[n] = NoLease /\ l = <<n, key[n]>>
                             \/ Without(l)[n] = key[n] /\ l # <<n, key[n]>>
BY BoundsAreNumbers DEF TypeOK, Without, NoLease

(* The list a service list is read into, and the discovery's bookkeeping.  *)
LEMMA SnapshotIsList == Snapshot \in Lists
BY DEF Snapshot, Lists

(* Every step keeps the types; where keys change, the lease they hang on   *)
(* stays (Register, Unregister, Expire).                                   *)
LEMMA TypeStep == IInv /\ [Next]_vars => TypeOK'
<1> SUFFICES ASSUME IInv, [Next]_vars PROVE TypeOK'
  OBVIOUS
<1> USE BoundsAreNumbers
<1>1. TypeOK /\ Registered /\ Hanging /\ LeaseHeld
  BY DEF IInv
<1>2. ASSUME NEW n \in Nodes, Open(n) PROVE TypeOK'
  BY <1>1, <1>2 DEF Open, TypeOK, Snapshot, cacheVars
<1>3. ASSUME NEW n \in Nodes, Register(n) PROVE TypeOK'
  <2>1. [key EXCEPT ![n] = lease[n]] \in [Nodes -> 0..MaxLeases]
    BY <1>1 DEF TypeOK
  <2>2. key' \in [Nodes -> 0..MaxLeases] /\ events' \in BOOLEAN
    BY <1>3, <2>1, SetKeysType DEF Register
  <2>3. key' = [key EXCEPT ![n] = lease[n]]
    BY <1>3 DEF Register, SetKeys
  <2>4. QED
    BY <1>1, <1>3, <2>2, <2>3 DEF Register, TypeOK, Snapshot, cacheVars
<1>4. ASSUME NEW n \in Nodes, RegisterFail(n) PROVE TypeOK'
  <2>1. [key EXCEPT ![n] = lease[n]] \in [Nodes -> 0..MaxLeases]
    BY <1>1 DEF TypeOK
  <2>2. /\ proc' = [proc EXCEPT ![n] = "closing"] /\ faults' \in 0..MaxFaults
        /\ UNCHANGED <<lease, services, stuck, lost, leases, cache, fill, callbacks>>
    BY <1>1, <1>4 DEF RegisterFail, TypeOK, Fault, cacheVars
  <2>3. CASE UNCHANGED <<key, events>>
    BY <1>1, <2>2, <2>3 DEF TypeOK, Snapshot
  <2>4. CASE <<n, lease[n]>> \in leases /\ SetKeys([key EXCEPT ![n] = lease[n]])
    <3>1. key' \in [Nodes -> 0..MaxLeases] /\ events' \in BOOLEAN
      BY <2>1, <2>4, SetKeysType
    <3>2. key' = [key EXCEPT ![n] = lease[n]]
      BY <2>4 DEF SetKeys
    <3>3. QED
      BY <1>1, <2>2, <2>4, <3>1, <3>2 DEF TypeOK, Snapshot
  <2>5. QED
    BY <1>4, <2>3, <2>4 DEF RegisterFail
<1>5. ASSUME NEW n \in Nodes, UpdateLoad(n) PROVE TypeOK'
  BY <1>1, <1>5 DEF UpdateLoad, TypeOK, Snapshot, cacheVars
<1>6. ASSUME NEW n \in Nodes, Unregister(n) PROVE TypeOK'
  <2>1. [key EXCEPT ![n] = NoLease] \in [Nodes -> 0..MaxLeases]
    BY <1>1 DEF TypeOK, NoLease
  <2>2. /\ proc' = [proc EXCEPT ![n] = "closing"] /\ n \notin stuck
        /\ UNCHANGED <<lease, stuck, lost, leases, cache, fill, callbacks>>
    BY <1>6 DEF Unregister, cacheVars
  <2>3. CASE /\ SetKeys([key EXCEPT ![n] = NoLease]) /\ services' = services \ {n}
             /\ UNCHANGED faults
    <3>1. key' \in [Nodes -> 0..MaxLeases] /\ events' \in BOOLEAN
      BY <2>1, <2>3, SetKeysType
    <3>2. key' = [key EXCEPT ![n] = NoLease]
      BY <2>3 DEF SetKeys
    <3>3. QED
      BY <1>1, <2>2, <2>3, <3>1, <3>2 DEF TypeOK, Snapshot
  <2>4. CASE Fault /\ UNCHANGED <<key, events, services>>
    BY <1>1, <2>2, <2>4 DEF TypeOK, Snapshot, Fault
  <2>5. QED
    BY <1>6, <2>3, <2>4 DEF Unregister
<1>7. ASSUME NEW l, l \in leases, SetKeys(Without(l)), leases' = leases \ {l},
             UNCHANGED <<services, stuck, cacheVars>>,
             proc' \in [Nodes -> {"down", "open", "closing", "revoked"}],
             lease' = lease, lost' \subseteq Nodes, faults' \in 0..MaxFaults
      PROVE TypeOK'
  <2>1. key' \in [Nodes -> 0..MaxLeases] /\ events' \in BOOLEAN
    BY <1>1, <1>7, WithoutKeys, SetKeysType
  <2>2. key' = Without(l)
    BY <1>7 DEF SetKeys
  <2>3. QED
    BY <1>1, <1>7, <2>1, <2>2, WithoutKeys DEF TypeOK, Snapshot, cacheVars
<1>8. ASSUME NEW n \in Nodes, Revoke(n) PROVE TypeOK'
  <2>1. /\ proc' \in [Nodes -> {"down", "open", "closing", "revoked"}]
        /\ UNCHANGED <<lease, services, stuck, lost, cacheVars>>
    BY <1>1, <1>8 DEF Revoke, TypeOK
  <2>2. CASE Fault /\ UNCHANGED <<leases, key, events>>
    BY <1>1, <2>1, <2>2 DEF TypeOK, Snapshot, Fault, cacheVars
  <2>3. CASE /\ leases' = leases \ {<<n, lease[n]>>} /\ SetKeys(Without(<<n, lease[n]>>))
             /\ UNCHANGED faults
    <3>1. key' \in [Nodes -> 0..MaxLeases] /\ events' \in BOOLEAN
      BY <1>1, <2>3, WithoutKeys, SetKeysType
    <3>2. key' = Without(<<n, lease[n]>>)
      BY <2>3 DEF SetKeys
    <3>3. QED
      BY <1>1, <2>1, <2>3, <3>1, <3>2, WithoutKeys DEF TypeOK, Snapshot, cacheVars
  <2>4. QED
    BY <1>8, <2>2, <2>3 DEF Revoke
<1>9. ASSUME NEW n \in Nodes, Cancel(n) PROVE TypeOK'
  <2>1. n \notin stuck
    BY <1>1, <1>9 DEF Cancel, Hanging
  <2>2. QED
    BY <1>1, <1>9, <2>1 DEF Cancel, TypeOK, Snapshot, cacheVars
<1>10. ASSUME NEW n \in Nodes, Crash(n) PROVE TypeOK'
  BY <1>1, <1>10 DEF Crash, TypeOK, Snapshot, Fault, cacheVars
<1>11. ASSUME NEW n \in Nodes, LoseLease(n) PROVE TypeOK'
  <2>1. faults' \in 0..MaxFaults /\ lost' \subseteq Nodes
    BY <1>1, <1>11 DEF LoseLease, TypeOK, Fault
  <2>2. QED
    BY <1>1, <1>7, <1>11, <2>1 DEF LoseLease, TypeOK
<1>12. ASSUME NEW n \in Nodes, Regrant(n) PROVE TypeOK'
  BY <1>1, <1>12 DEF Regrant, TypeOK, Snapshot, cacheVars
<1>13. ASSUME NEW l \in leases, Expire(l) PROVE TypeOK'
  BY <1>1, <1>7, <1>13 DEF Expire, TypeOK, procVars
<1>14. ASSUME UNCHANGED <<procVars, leases, key>>,
              cache' \in Lists \cup {NotCached}, fill' \in Lists \cup {NotCached},
              events' \in BOOLEAN, faults' \in 0..MaxFaults,
              callbacks' \in [Lists -> 0..MaxCallbacks]
       PROVE TypeOK'
  BY <1>1, <1>14 DEF TypeOK, Snapshot, procVars
<1>15. CASE FillRead
  BY <1>1, <1>14, <1>15, SnapshotIsList DEF FillRead, TypeOK
<1>16. CASE FillStore
  BY <1>1, <1>14, <1>16 DEF FillStore, TypeOK
<1>17. CASE Tick
  BY <1>1, <1>14, <1>17, SnapshotIsList DEF Tick, TypeOK
<1>18. CASE WatchRead
  <2>1. callbacks' \in [Lists -> 0..MaxCallbacks]
    BY <1>1, <1>18, SnapshotIsList DEF WatchRead, TypeOK
  <2>2. QED
    BY <1>1, <1>14, <1>18, <2>1 DEF WatchRead, TypeOK
<1>19. CASE WatchFail
  <2>1. /\ UNCHANGED <<procVars, leases, key, cache, fill, callbacks>> /\ events' = FALSE
        /\ faults' \in 0..MaxFaults
    BY <1>1, <1>19 DEF WatchFail, Fault, cacheVars, TypeOK
  <2>2. QED
    BY <1>1, <1>14, <2>1 DEF TypeOK
<1>20. ASSUME NEW l \in Lists, Callback(l) PROVE TypeOK'
  <2>1. callbacks' \in [Lists -> 0..MaxCallbacks]
    BY <1>1, <1>20 DEF Callback, TypeOK
  <2>2. QED
    BY <1>1, <1>14, <1>20, <2>1 DEF Callback, TypeOK
<1>21. CASE UNCHANGED vars
  BY <1>1, <1>14, <1>21 DEF vars, cacheVars, TypeOK
<1>22. QED
  BY <1>2, <1>3, <1>4, <1>5, <1>6, <1>8, <1>9, <1>10, <1>11, <1>12, <1>13, <1>15, <1>16,
     <1>17, <1>18, <1>19, <1>20, <1>21 DEF Next, Closing

-----------------------------------------------------------------------------
(* Every step keeps the registry's map, the hanging servers and the leases *)
(* to the processes that have them (Register, UpdateLoad, Crash).          *)
LEMMA ProcStep == IInv /\ [Next]_vars => Registered' /\ Hanging' /\ LeaseHeld'
<1> SUFFICES ASSUME IInv, [Next]_vars PROVE Registered' /\ Hanging' /\ LeaseHeld'
  OBVIOUS
<1>1. TypeOK /\ Registered /\ Hanging /\ LeaseHeld
  BY DEF IInv
<1> USE <1>1 DEF TypeOK, Registered, Hanging, LeaseHeld, NoLease
<1>2. ASSUME NEW n \in Nodes, Open(n) PROVE Registered' /\ Hanging' /\ LeaseHeld'
  BY <1>2 DEF Open
<1>3. ASSUME NEW n \in Nodes, Register(n) PROVE Registered' /\ Hanging' /\ LeaseHeld'
  BY <1>3 DEF Register
<1>4. ASSUME NEW n \in Nodes, RegisterFail(n) PROVE Registered' /\ Hanging' /\ LeaseHeld'
  BY <1>4 DEF RegisterFail
<1>5. ASSUME NEW n \in Nodes, UpdateLoad(n) PROVE Registered' /\ Hanging' /\ LeaseHeld'
  BY <1>5 DEF UpdateLoad
<1>6. ASSUME NEW n \in Nodes, Unregister(n) PROVE Registered' /\ Hanging' /\ LeaseHeld'
  BY <1>6 DEF Unregister
<1>7. ASSUME NEW n \in Nodes, Revoke(n) PROVE Registered' /\ Hanging' /\ LeaseHeld'
  BY <1>7 DEF Revoke
<1>8. ASSUME NEW n \in Nodes, Cancel(n) PROVE Registered' /\ Hanging' /\ LeaseHeld'
  BY <1>8 DEF Cancel
<1>9. ASSUME NEW n \in Nodes, Crash(n) PROVE Registered' /\ Hanging' /\ LeaseHeld'
  BY <1>9 DEF Crash
<1>10. ASSUME NEW n \in Nodes, Regrant(n) PROVE Registered' /\ Hanging' /\ LeaseHeld'
  BY <1>10 DEF Regrant
<1>11. ASSUME UNCHANGED <<proc, lease, services, stuck>>
       PROVE  Registered' /\ Hanging' /\ LeaseHeld'
  BY <1>11
<1>12. ASSUME NEW n \in Nodes, LoseLease(n) PROVE Registered' /\ Hanging' /\ LeaseHeld'
  BY <1>11, <1>12 DEF LoseLease
<1>13. CASE (\E l \in leases : Expire(l)) \/ FillRead \/ FillStore \/ Tick \/ WatchRead
            \/ WatchFail \/ (\E l \in Lists : Callback(l)) \/ UNCHANGED vars
  BY <1>11, <1>13
     DEF Expire, FillRead, FillStore, Tick, WatchRead, WatchFail, Callback, vars, procVars
<1>14. QED
  BY <1>2, <1>3, <1>4, <1>5, <1>6, <1>7, <1>8, <1>9, <1>10, <1>12, <1>13 DEF Next, Closing

(* Every step keeps a registered server's own lease behind its key: it is  *)
(* the lease that ends under it that hides it, and no other (Register,     *)
(* Expire, LoseLease, Regrant).                                            *)
LEMMA KeyStep == IInv /\ [Next]_vars => OnlyLeaseLossHides'
<1> SUFFICES ASSUME IInv, [Next]_vars,
                    NEW m \in services', proc'[m] = "open", m \notin lost'
             PROVE  key'[m] = lease'[m]
  BY DEF OnlyLeaseLossHides
<1>1. /\ TypeOK /\ Registered /\ LeaseHeld
      /\ \A n \in services : proc[n] = "open" /\ n \notin lost => key[n] = lease[n]
  BY DEF IInv, OnlyLeaseLossHides
<1> USE <1>1 DEF TypeOK, Registered, LeaseHeld
<1>2. ASSUME NEW n \in Nodes, Open(n) PROVE key'[m] = lease'[m]
  BY <1>2 DEF Open
<1>3. ASSUME NEW n \in Nodes, Register(n) PROVE key'[m] = lease'[m]
  BY <1>3 DEF Register, SetKeys
<1>4. ASSUME NEW n \in Nodes, RegisterFail(n) PROVE key'[m] = lease'[m]
  BY <1>4 DEF RegisterFail, SetKeys
<1>5. ASSUME NEW n \in Nodes, UpdateLoad(n) PROVE key'[m] = lease'[m]
  BY <1>5 DEF UpdateLoad
<1>6. ASSUME NEW n \in Nodes, Unregister(n) PROVE key'[m] = lease'[m]
  BY <1>6 DEF Unregister, SetKeys
<1>7. ASSUME NEW n \in Nodes, Revoke(n) PROVE key'[m] = lease'[m]
  <2>1. /\ m # n /\ m \in services /\ proc[m] = "open" /\ m \notin lost /\ lease' = lease
        /\ key' = key \/ key' = Without(<<n, lease[n]>>)
    BY <1>7 DEF Revoke, SetKeys
  <2>2. QED
    BY <2>1, WithoutKeys
<1>8. ASSUME NEW n \in Nodes, Cancel(n) PROVE key'[m] = lease'[m]
  BY <1>8 DEF Cancel
<1>9. ASSUME NEW n \in Nodes, Crash(n) PROVE key'[m] = lease'[m]
  BY <1>9 DEF Crash
<1>10. ASSUME NEW n \in Nodes, LoseLease(n) PROVE key'[m] = lease'[m]
  <2>1. /\ m # n /\ m \in services /\ proc[m] = "open" /\ m \notin lost /\ lease' = lease
        /\ key' = Without(<<n, lease[n]>>)
    BY <1>10 DEF LoseLease, SetKeys
  <2>2. QED
    BY <2>1, WithoutKeys
<1>11. ASSUME NEW n \in Nodes, Regrant(n) PROVE key'[m] = lease'[m]
  <2>1. /\ m \in services /\ proc[m] = "open" /\ m \notin lost /\ key' = key
        /\ lease' = [lease EXCEPT ![n] = @ + 1] /\ <<n, lease[n]>> \notin leases
    BY <1>11 DEF Regrant
  <2>2. <<m, lease[m]>> \in leases
    BY <2>1 DEF Snapshot
  <2>3. QED
    BY <2>1, <2>2
<1>12. ASSUME NEW l \in leases, Expire(l) PROVE key'[m] = lease'[m]
  <2>1. /\ m \in services /\ proc[m] = "open" /\ m \notin lost /\ lease' = lease
        /\ key' = Without(l) /\ ~Renewed(l)
    BY <1>12 DEF Expire, SetKeys, procVars
  <2>2. l # <<m, key[m]>>
    BY <2>1 DEF Renewed
  <2>3. QED
    BY <2>1, <2>2, WithoutKeys
<1>13. CASE FillRead \/ FillStore \/ Tick \/ WatchRead \/ WatchFail
            \/ (\E l \in Lists : Callback(l)) \/ UNCHANGED vars
  BY <1>13 DEF FillRead, FillStore, Tick, WatchRead, WatchFail, Callback, vars, procVars
<1>14. QED
  BY <1>2, <1>3, <1>4, <1>5, <1>6, <1>7, <1>8, <1>9, <1>10, <1>11, <1>12, <1>13
     DEF Next, Closing

-----------------------------------------------------------------------------
(* The inductive invariant holds in every reachable state, for any number  *)
(* of servers and whatever the bounds.                                     *)
THEOREM Invariance == Spec => []IInv
<1>1. Init => IInv
  BY InitInv
<1>2. IInv /\ [Next]_vars => IInv'
  BY TypeStep, ProcStep, KeyStep DEF IInv
<1>3. QED
  BY <1>1, <1>2, PTL DEF Spec

(* The variables keep their types, and a key hangs on a lease that lives.  *)
THEOREM TypeCorrect == Spec => []TypeOK
<1>1. IInv => TypeOK
  BY DEF IInv
<1>2. QED
  BY <1>1, Invariance, PTL

(* A server that has registered and not stopped is found in etcd unless    *)
(* its own lease ended under it (Register, Expire, keepAliveLoop).         *)
THEOREM RegisteredAreFound == Spec => []OnlyLeaseLossHides
<1>1. IInv => OnlyLeaseLossHides
  BY DEF IInv
<1>2. QED
  BY <1>1, Invariance, PTL
=============================================================================
