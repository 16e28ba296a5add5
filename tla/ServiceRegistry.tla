-------------------------- MODULE ServiceRegistry --------------------------
(***************************************************************************)
(* internal/discovery/etcd.go: the registries of several servers of one    *)
(* type, etcd's keys and leases as they use them, and the ServiceDiscovery *)
(* of one process, whose cache is filled by GetService, by a ticker and by *)
(* watch callbacks that run in goroutines of their own.                     *)
(***************************************************************************)
EXTENDS Integers, FiniteSets

CONSTANTS
  Nodes,      \* the servers of the type
  MaxLeases,  \* bound: leases a node is granted over its restarts
  MaxFaults,  \* bound: crashes, lost leases and failed calls to etcd
  MaxCallbacks, \* bound: goroutines about to store the same list
  NotCached   \* no entry in serviceCache

ASSUME BoundsAreNumbers ==
  MaxLeases \in Nat /\ MaxFaults \in Nat /\ MaxCallbacks \in Nat

NoLease == 0

VARIABLES
  proc,        \* per node: its process
  lease,       \* r.leaseID of its process
  services,    \* the nodes that are in their own registry's map
  stuck,       \* the nodes whose UpdateLoad holds the registry's mutex
  leases,      \* etcd: the leases that live
  key,         \* etcd: the lease that a node's key hangs on
  lost,        \* history: a lease of this process ended under it
  cache,       \* serviceCache[nodeType]
  fill,        \* what GetService has read and not yet stored
  events,      \* some watch response is not yet taken
  callbacks,   \* the service lists that goroutines are about to store
  faults

procVars == <<proc, lease, services, stuck, lost>>
cacheVars == <<cache, fill, callbacks>>
vars == <<procVars, leases, key, cacheVars, events, faults>>

Snapshot == {n \in Nodes : key[n] # NoLease}
Lists    == SUBSET Nodes

Init ==
  /\ proc = [n \in Nodes |-> "down"] /\ lease = [n \in Nodes |-> NoLease]
  /\ services = {} /\ stuck = {} /\ leases = {} /\ lost = {}
  /\ key = [n \in Nodes |-> NoLease]
  /\ cache = NotCached /\ fill = NotCached
  /\ events = FALSE /\ callbacks = [l \in Lists |-> 0] /\ faults = 0

Fault == faults < MaxFaults /\ faults' = faults + 1

(* The keys become k; the watch reports a node that comes, goes or changes.*)
SetKeys(k) ==
  /\ key' = k
  /\ events' = (events \/ k # key)

Without(l) == [n \in Nodes |-> IF <<n, key[n]>> = l THEN NoLease ELSE key[n]]

-----------------------------------------------------------------------------
(* NewETCDRegistry: a process starts, again perhaps, with a lease.         *)
Open(n) ==
  /\ proc[n] = "down" /\ lease[n] < MaxLeases
  /\ proc' = [proc EXCEPT ![n] = "open"]
  /\ lease' = [lease EXCEPT ![n] = @ + 1]
  /\ leases' = leases \cup {<<n, lease'[n]>>}
  /\ lost' = lost \ {n}
  /\ UNCHANGED <<services, stuck, key, cacheVars, events, faults>>

(* Mutant: the key hangs on the first lease the node ever had.             *)
RegisterOldLease(n) ==
  /\ proc[n] = "open" /\ n \notin services
  /\ SetKeys([key EXCEPT ![n] = IF @ # NoLease THEN @ ELSE lease[n]])
  /\ services' = services \cup {n}
  /\ UNCHANGED <<proc, lease, stuck, lost, leases, cacheVars, faults>>

(* Put under the lease, then the map.  etcd refuses a lease it has ended.  *)
Register(n) ==
  /\ proc[n] = "open" /\ n \notin services /\ <<n, lease[n]>> \in leases
  /\ SetKeys([key EXCEPT ![n] = lease[n]])
  /\ services' = services \cup {n}
  /\ UNCHANGED <<proc, lease, stuck, lost, leases, cacheVars, faults>>

(* Put fails, or succeeds and its answer is lost: the server rolls back,   *)
(* and its Unregister knows nothing of the node.                           *)
RegisterFail(n) ==
  /\ proc[n] = "open" /\ n \notin services
  /\ Fault
  /\ \/ UNCHANGED <<key, events>>
     \/ <<n, lease[n]>> \in leases /\ SetKeys([key EXCEPT ![n] = lease[n]])
  /\ proc' = [proc EXCEPT ![n] = "closing"]
  /\ UNCHANGED <<lease, services, stuck, lost, leases, cacheVars>>

(* UpdateLoad, locked for ever in the Register it calls.                   *)
UpdateLoad(n) ==
  /\ n \in services /\ proc[n] = "open" /\ n \notin stuck
  /\ stuck' = stuck \cup {n}
  /\ UNCHANGED <<proc, lease, services, lost, leases, key, cacheVars, events, faults>>

(* Unregister, whose failure is only logged.                               *)
Unregister(n) ==
  /\ proc[n] = "open" /\ n \in services /\ n \notin stuck
  /\ proc' = [proc EXCEPT ![n] = "closing"]
  /\ \/ SetKeys([key EXCEPT ![n] = NoLease]) /\ services' = services \ {n} /\ UNCHANGED faults
     \/ Fault /\ UNCHANGED <<key, events, services>>
  /\ UNCHANGED <<lease, stuck, lost, leases, cacheVars>>

(* Close: the lease is revoked, and its keys with it, or that fails.       *)
Revoke(n) ==
  /\ proc[n] = "closing"
  /\ proc' = [proc EXCEPT ![n] = "revoked"]
  /\ \/ leases' = leases \ {<<n, lease[n]>>} /\ SetKeys(Without(<<n, lease[n]>>)) /\ UNCHANGED faults
     \/ Fault /\ UNCHANGED <<leases, key, events>>
  /\ UNCHANGED <<lease, services, stuck, lost, cacheVars>>

(* The context is cancelled, and with it the keep-alive loop.              *)
Cancel(n) ==
  /\ proc[n] = "revoked"
  /\ proc' = [proc EXCEPT ![n] = "down"] /\ services' = services \ {n}
  /\ UNCHANGED <<lease, stuck, lost, leases, key, cacheVars, events, faults>>

(* The process dies, or is killed because it hangs.                        *)
Crash(n) ==
  /\ proc[n] # "down" /\ Fault
  /\ proc' = [proc EXCEPT ![n] = "down"]
  /\ services' = services \ {n} /\ stuck' = stuck \ {n}
  /\ UNCHANGED <<lease, lost, leases, key, cacheVars, events>>

-----------------------------------------------------------------------------
(* A lease nobody renews ends after thirty seconds, with its keys; so does *)
(* one whose renewals do not get through.                                  *)
Renewed(l) == proc[l[1]] # "down" /\ lease[l[1]] = l[2]

(* Mutant: only a lease that was revoked ends.                             *)
ExpireSuperseded(l) ==
  /\ l \in leases /\ lease[l[1]] # l[2]
  /\ leases' = leases \ {l} /\ SetKeys(Without(l))
  /\ UNCHANGED <<procVars, cacheVars, faults>>

Expire(l) ==
  /\ l \in leases /\ ~Renewed(l)
  /\ leases' = leases \ {l} /\ SetKeys(Without(l))
  /\ UNCHANGED <<procVars, cacheVars, faults>>

(* Mutant: the keys stay when a lease is lost.                             *)
LoseLeaseKeepKey(n) ==
  /\ <<n, lease[n]>> \in leases /\ Renewed(<<n, lease[n]>>) /\ Fault
  /\ leases' = leases \ {<<n, lease[n]>>}
  /\ lost' = lost \cup {n}
  /\ UNCHANGED <<proc, lease, services, stuck, key, cacheVars, events>>

LoseLease(n) ==
  /\ <<n, lease[n]>> \in leases /\ Renewed(<<n, lease[n]>>) /\ Fault
  /\ leases' = leases \ {<<n, lease[n]>>} /\ SetKeys(Without(<<n, lease[n]>>))
  /\ lost' = lost \cup {n}
  /\ UNCHANGED <<proc, lease, services, stuck, cacheVars>>

(* keepAliveLoop: the channel is closed, a new lease is created.  Nothing  *)
(* is registered under it.                                                 *)
Regrant(n) ==
  /\ proc[n] # "down" /\ <<n, lease[n]>> \notin leases /\ lease[n] < MaxLeases
  /\ lease' = [lease EXCEPT ![n] = @ + 1]
  /\ leases' = leases \cup {<<n, lease'[n]>>}
  /\ UNCHANGED <<proc, services, stuck, lost, key, cacheVars, events, faults>>

-----------------------------------------------------------------------------
(* ServiceDiscovery.GetService with nothing cached: read, then store.      *)
FillRead ==
  /\ cache \in {NotCached, {}} /\ fill = NotCached
  /\ fill' = Snapshot
  /\ UNCHANGED <<procVars, leases, key, cache, callbacks, events, faults>>

FillStore ==
  /\ fill # NotCached
  /\ cache' = fill /\ fill' = NotCached
  /\ UNCHANGED <<procVars, leases, key, callbacks, events, faults>>

(* Mutant: the ticker only refreshes an empty entry.                       *)
TickIfEmpty ==
  /\ cache = {}
  /\ cache' = Snapshot
  /\ UNCHANGED <<procVars, leases, key, fill, callbacks, events, faults>>

(* updateCacheLoop: every type that has an entry is read again.            *)
Tick ==
  /\ cache # NotCached
  /\ cache' = Snapshot
  /\ UNCHANGED <<procVars, leases, key, fill, callbacks, events, faults>>

(* Watch: the list is read anew and handed to a goroutine, or the read     *)
(* fails and the event is forgotten.                                       *)
WatchRead ==
  /\ events /\ events' = FALSE
  /\ callbacks[Snapshot] < MaxCallbacks
  /\ callbacks' = [callbacks EXCEPT ![Snapshot] = @ + 1]
  /\ UNCHANGED <<procVars, leases, key, cache, fill, faults>>

WatchFail ==
  /\ events /\ events' = FALSE /\ Fault
  /\ UNCHANGED <<procVars, leases, key, cacheVars>>

Callback(l) ==
  /\ callbacks[l] > 0
  /\ callbacks' = [callbacks EXCEPT ![l] = @ - 1]
  /\ cache' = l
  /\ UNCHANGED <<procVars, leases, key, fill, events, faults>>

-----------------------------------------------------------------------------
Closing(n) == Revoke(n) \/ Cancel(n)

Next ==
  \/ \E n \in Nodes :
       \/ Open(n) \/ Register(n) \/ RegisterFail(n) \/ UpdateLoad(n) \/ Unregister(n)
       \/ Closing(n) \/ Crash(n) \/ LoseLease(n) \/ Regrant(n)
  \/ \E l \in leases : Expire(l)
  \/ FillRead \/ FillStore \/ Tick \/ WatchRead \/ WatchFail
  \/ \E l \in Lists : Callback(l)

Spec == Init /\ [][Next]_vars

(* etcd ends leases; goroutines run; the ticker's reads get through again. *)
FairSpec ==
  /\ Spec
  /\ WF_vars(\E l \in leases : Expire(l))
  /\ WF_vars(FillStore) /\ WF_vars(Tick) /\ WF_vars(WatchRead)
  /\ \A l \in Lists : WF_vars(Callback(l))

-----------------------------------------------------------------------------
(* Types of the variables; a key hangs on a lease that lives.              *)
TypeOK ==
  /\ proc \in [Nodes -> {"down", "open", "closing", "revoked"}]
  /\ lease \in [Nodes -> 0..MaxLeases] /\ key \in [Nodes -> 0..MaxLeases]
  /\ leases \subseteq Nodes \X (1..MaxLeases)
  /\ services \subseteq Nodes /\ stuck \subseteq services /\ lost \subseteq Nodes
  /\ cache \in Lists \cup {NotCached} /\ fill \in Lists \cup {NotCached}
  /\ events \in BOOLEAN /\ callbacks \in [Lists -> 0..MaxCallbacks] /\ faults \in 0..MaxFaults
  /\ \A n \in Snapshot : <<n, key[n]>> \in leases

(* A server that has registered and not stopped is in etcd unless its own  *)
(* lease ended under it: neither the end of an earlier incarnation's lease *)
(* nor a callback or a hanging UpdateLoad hides it (Register, Expire).     *)
OnlyLeaseLossHides ==
  \A n \in services : proc[n] = "open" /\ n \notin lost => key[n] = lease[n]

(* Callbacks may overtake each other, and a read may be stored late, but   *)
(* once the servers stop changing the cache, if there is one, ends up with *)
(* the servers there are (updateCacheLoop repairs what Watch got wrong).   *)
CacheFollows ==
  \A l \in Lists : <>[](Snapshot = l) => <>[](cache \in {NotCached, l})

(* A server that is gone for good, whether stopped in order, with a failed *)
(* revocation, or by a crash, is in the end not found any more.            *)
DeadAreForgotten ==
  \A n \in Nodes : <>[](proc[n] = "down") => <>[](key[n] = NoLease /\ (cache # NotCached => n \notin cache))
=============================================================================
