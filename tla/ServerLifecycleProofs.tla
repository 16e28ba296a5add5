----------------------- MODULE ServerLifecycleProofs -----------------------
(***************************************************************************)
(* What holds of a server process with any set of components, any number   *)
(* of shutdown goroutines and any limit of connections: its variables keep *)
(* their types, what a handler uses is still there while it works, and a   *)
(* server that says it is stopped has nothing left that runs.              *)
(*                                                                         *)
(* A goroutine that works is far from the thread that stops the server, so *)
(* the invariant says how far the stop has come: which components are      *)
(* behind it (Passed), ahead of it (Ahead) and under it (Order), that only *)
(* the holder of bs.mutex, or main before it ever took it, stops anything  *)
(* (MutexOK), and that a source that no longer serves has nobody in it     *)
(* (SourcesOK).                                                            *)
(***************************************************************************)
EXTENDS ServerLifecycle, TLAPS

Rank == [tcp |-> 1, rpc |-> 2, actor |-> 3, nsq |-> 4, registry |-> 5, redis |-> 6, mongo |-> 7]

(* A connection that was accepted has a place; the consumer has one handler.*)
PlacesOK ==
  /\ \A s \in Listeners : accept[s] = "got" => Conns(s) < MaxConns
  /\ Conns("nsq") <= 1

Constructing == pc["main"] \in {"build", "wired", "start", "rpc", "register"}
Started      == pc["main"] \in {"tcp", "await", "stop", "pools"}

(* What main's place says of the server.                                   *)
RolesOK ==
  /\ \A r \in Remotes : pc[r] \in {"none", "stop", "drain", "done"}
  /\ pc["main"] \notin {"none", "done"}
  /\ Constructing => status = "initializing"
  /\ Started => status # "initializing"
  /\ pc["main"] = "pools" => status = "stopped"
  /\ poolsClosed => pc["main"] \in {"pools", "exit"}
  /\ pc["main"] = "build" => \A s \in Sources : Drained(s)

(* Who stops components: the holder of the mutex, or a constructor that    *)
(* failed.                                                                 *)
MutexOK ==
  /\ \A t \in Threads : pc[t] = "drain" =>
       \/ lock = t /\ status = "stopping"
       \/ t = "main" /\ status = "initializing" /\ lock \in {"main", NoThread}
  /\ lock \in Remotes => pc[lock] = "drain" /\ status = "stopping"
  /\ lock = "main" => pc["main"] \in {"rpc", "register", "drain"}
  /\ status = "stopping" => lock # NoThread

(* Past the constructor, every component that was asked for is there; until*)
(* then nothing is handled.                                                *)
Built == \A c \in Options : comp[c] # "none"
BuiltOK ==
  /\ pc["main"] \notin {"build", "drain", "exit"} \/ lock # NoThread \/ status # "initializing" => Built
  /\ Built \/ \A s \in Sources : Drained(s)

(* What the stop has left behind it.                                       *)
Passed(c) ==
  \/ comp[c] \in {"none", "stopped"}
  \/ /\ c \in Listeners /\ comp[c] = "up"
     /\ running[c] => c = "tcp" /\ late

(* How far the stop has come.                                              *)
OrderOK ==
  /\ \A c \in Components :
       /\ Rank[c] < stopAt => Passed(c)
       /\ Rank[c] = stopAt => comp[c] # "stopped"
       /\ Rank[c] > stopAt => comp[c] \in {"none", "up"}
  /\ stopAt > 1 => (\E t \in Threads : pc[t] = "drain") \/ status = "stopped" \/ ~Alive

(* A source that does not serve, and is not being stopped, is empty.       *)
SourcesOK ==
  /\ \A s \in Listeners :
       /\ running[s] => comp[s] = "up"
       /\ running[s] \/ comp[s] = "stopping" \/ Drained(s)
  /\ comp["nsq"] \in {"none", "stopped"} => Drained("nsq")

(* The main thread has not reached what it starts later.                   *)
NotYetOK ==
  /\ pc["main"] \in {"build", "wired", "start", "rpc"} => ~running["rpc"]
  /\ Constructing \/ pc["main"] = "tcp" => ~running["tcp"] /\ comp["tcp"] \in {"none", "up"}
  /\ pc["main"] = "tcp" => "tcp" \in Options

StoppedOK == status = "stopped" => stopAt = 8 /\ loadLoop # "wait" /\ lock = NoThread

IInv ==
  /\ TypeOK /\ PlacesOK /\ RolesOK /\ MutexOK /\ BuiltOK /\ OrderOK /\ SourcesOK
  /\ NotYetOK /\ StoppedOK

-----------------------------------------------------------------------------
(***************************************************************************)
(* The order of componentStoppers: Rank is the index of a component in it. *)
(***************************************************************************)
LEMMA StopOrderIsRank ==
  /\ Len(StopOrder) = 7
  /\ Components = {"tcp", "rpc", "actor", "nsq", "registry", "redis", "mongo"}
  /\ \A i \in 1..7, c \in Components : StopOrder[i] = c <=> Rank[c] = i
  /\ \A c \in Components : Rank[c] \in 1..7
<1>1. Len(StopOrder) = 7 /\ DOMAIN StopOrder = 1..7
  BY DEF StopOrder
<1>2. Components = {StopOrder[i] : i \in 1..7}
  BY <1>1 DEF Components, Range
<1>3. Components = {"tcp", "rpc", "actor", "nsq", "registry", "redis", "mongo"}
  <2>1. \A i \in 1..7 : i = 1 \/ i = 2 \/ i = 3 \/ i = 4 \/ i = 5 \/ i = 6 \/ i = 7
    OBVIOUS
  <2>2. \A i \in 1..7 : StopOrder[i] \in {"tcp", "rpc", "actor", "nsq", "registry", "redis", "mongo"}
    BY <2>1 DEF StopOrder
  <2>3. /\ StopOrder[1] = "tcp" /\ StopOrder[2] = "rpc" /\ StopOrder[3] = "actor"
        /\ StopOrder[4] = "nsq" /\ StopOrder[5] = "registry" /\ StopOrder[6] = "redis"
        /\ StopOrder[7] = "mongo"
    BY DEF StopOrder
  <2>. QED  BY <1>2, <2>2, <2>3
<1>4. \A c \in Components : Rank[c] \in 1..7
  BY <1>3 DEF Rank
<1>5. ASSUME NEW i \in 1..7, NEW c \in Components  PROVE StopOrder[i] = c <=> Rank[c] = i
  <2>1. i = 1 \/ i = 2 \/ i = 3 \/ i = 4 \/ i = 5 \/ i = 6 \/ i = 7
    OBVIOUS
  <2>. QED  BY <1>3, <2>1 DEF StopOrder, Rank
<1>. QED  BY <1>1, <1>3, <1>4, <1>5

(***************************************************************************)
(* componentInitializers builds components that a stop knows, and all of   *)
(* them but the TCP server.                                                *)
(***************************************************************************)
LEMMA InitOrderIsComponents ==
  /\ Len(InitOrder) = 6
  /\ \A i \in 1..6 : InitOrder[i] \in Components \ {"tcp"}
  /\ \A c \in Components \ {"tcp"} : \E i \in 1..6 : InitOrder[i] = c
<1>1. Len(InitOrder) = 6
  BY DEF InitOrder
<1>2. /\ InitOrder[1] = "actor" /\ InitOrder[2] = "redis" /\ InitOrder[3] = "mongo"
      /\ InitOrder[4] = "nsq" /\ InitOrder[5] = "registry" /\ InitOrder[6] = "rpc"
  BY DEF InitOrder
<1>3. \A i \in 1..6 : i = 1 \/ i = 2 \/ i = 3 \/ i = 4 \/ i = 5 \/ i = 6
  OBVIOUS
<1>4. \A i \in 1..6 : InitOrder[i] \in Components \ {"tcp"}
  BY <1>2, <1>3, StopOrderIsRank
<1>5. \A c \in Components \ {"tcp"} : \E i \in 1..6 : InitOrder[i] = c
  <2>1. 1 \in 1..6 /\ 2 \in 1..6 /\ 3 \in 1..6 /\ 4 \in 1..6 /\ 5 \in 1..6 /\ 6 \in 1..6
    OBVIOUS
  <2>. QED  BY <1>2, <2>1, StopOrderIsRank
<1>. QED  BY <1>1, <1>4, <1>5

(***************************************************************************)
(* The initial state.                                                      *)
(***************************************************************************)
LEMMA Starts == Init => IInv
<1>. SUFFICES ASSUME Init PROVE IInv
  OBVIOUS
<1>. USE StopOrderIsRank, OptionsOfTheServers, RemotesAreOthers, BoundsAreNumbers DEF Init
<1>1. TypeOK
  <2>1. pc \in [Threads -> {"none", "build"}]
    BY DEF Threads
  <2>2. \A s \in Sources : Conns(s) = 0
    BY DEF Sources, Updaters, Conns, InUpdate
  <2>3. stopAt \in 1..(Len(StopOrder) + 1)
    OBVIOUS
  <2>4. /\ comp \in [Components -> {"none"}] /\ running \in [Listeners -> {FALSE}]
        /\ accept \in [Listeners -> {"off"}] /\ idle \in [Sources -> {0}]
        /\ busy \in [Sources -> {0}] /\ upd \in [Updaters -> {"no"}]
    OBVIOUS
  <2>5. pc \in [Threads -> {"none", "build", "wired", "start", "rpc", "register", "tcp", "await",
                            "stop", "drain", "pools", "done", "exit"}]
    BY <2>1
  <2>6. 0 \in 0..MaxConns /\ 0 \in 0..MaxOps /\ 0 <= MaxConns
    OBVIOUS
  <2>7. /\ status \in {"initializing", "running", "stopping", "stopped"}
        /\ lock \in Threads \cup {NoThread} /\ ctxDone \in BOOLEAN
        /\ loadLoop \in {"none", "wait", "ended"} /\ ops \in 0..MaxOps
        /\ regLock \in Updaters \cup {NoThread} /\ registered \in BOOLEAN
        /\ late \in BOOLEAN /\ poolsClosed \in BOOLEAN
    BY <2>6
  <2>8. /\ comp \in [Components -> {"none", "up", "stopping", "stopped"}]
        /\ running \in [Listeners -> BOOLEAN] /\ accept \in [Listeners -> {"off", "accept", "got"}]
        /\ idle \in [Sources -> 0..MaxConns] /\ busy \in [Sources -> 0..MaxConns]
        /\ upd \in [Updaters -> {"no", "want", "stuck"}]
    BY <2>6
  <2>. QED  BY <2>2, <2>3, <2>5, <2>6, <2>7, <2>8 DEF TypeOK
<1>2. PlacesOK
  BY DEF PlacesOK, Listeners, Sources, Updaters, Conns, InUpdate
<1>3. RolesOK
  BY DEF RolesOK, Constructing, Started, Threads, Drained, Listeners, Sources, Updaters
<1>4. MutexOK
  BY DEF MutexOK, Threads, NoThread
<1>5. BuiltOK
  BY <1>3 DEF BuiltOK, RolesOK, Threads, NoThread
<1>6. OrderOK
  BY DEF OrderOK
<1>7. SourcesOK
  BY DEF SourcesOK, Listeners, Drained, Updaters, Sources
<1>8. NotYetOK /\ StoppedOK
  BY DEF NotYetOK, StoppedOK, Listeners, Threads, Constructing
<1>. QED  BY <1>1, <1>2, <1>3, <1>4, <1>5, <1>6, <1>7, <1>8 DEF IInv

-----------------------------------------------------------------------------
(* The steps of accept loops, connection handlers and the load loop.       *)
HandlerStep ==
  \/ LoadTick \/ LoadEnd
  \/ \E s \in Listeners : Accept(s) \/ Install(s) \/ AcceptEnd(s) \/ Leave(s)
  \/ \E s \in Sources : Read(s) \/ Done(s) \/ RequestUpdate(s)
  \/ \E u \in Updaters : UpdateLoad(u)

(* The steps of main and of the shutdown goroutines.                       *)
ServerStep ==
  \/ MainStep \/ Signal
  \/ \E t \in Threads : StopStep(t)
  \/ \E s \in Sources, r \in Remotes : Shutdown(s, r)

LEMMA NextIsEither == Next => HandlerStep \/ ServerStep
BY DEF Next, HandlerStep, ServerStep

LEMMA HandlersLeaveTheServer ==
  HandlerStep => /\ UNCHANGED <<serverVars, running>>
                 /\ loadLoop' \in {loadLoop, "ended"}
<1>1. LoadTick \/ LoadEnd => UNCHANGED <<serverVars, running>> /\ loadLoop' \in {loadLoop, "ended"}
  BY DEF LoadTick, LoadEnd, serverVars, listenVars
<1>2. \A s \in Listeners : Accept(s) \/ Install(s) \/ AcceptEnd(s) \/ Leave(s) =>
        UNCHANGED <<serverVars, running, loadLoop>>
  BY DEF Accept, Install, AcceptEnd, Leave, serverVars
<1>3. \A s \in Sources : Read(s) \/ Done(s) \/ RequestUpdate(s) =>
        UNCHANGED <<serverVars, running, loadLoop>>
  BY DEF Read, Done, RequestUpdate, serverVars
<1>4. \A u \in Updaters : UpdateLoad(u) => UNCHANGED <<serverVars, running, loadLoop>>
  BY DEF UpdateLoad, serverVars
<1>. QED  BY <1>1, <1>2, <1>3, <1>4 DEF HandlerStep

(***************************************************************************)
(* A source that is empty stays empty until its server is started: an      *)
(* accept loop that ended accepts nobody.                                  *)
(***************************************************************************)
LEMMA DrainedStays ==
  ASSUME TypeOK, HandlerStep, NEW c \in Sources, Drained(c)
  PROVE  Drained(c)'
<1>. USE DEF TypeOK, Drained, Listeners, Sources, Updaters
<1>1. CASE LoadTick
  BY <1>1 DEF LoadTick, serverVars
<1>2. CASE LoadEnd
  BY <1>2 DEF LoadEnd, listenVars, registryVars
<1>3. ASSUME NEW s \in Listeners, Accept(s)  PROVE Drained(c)'
  BY <1>3 DEF Accept, registryVars
<1>4. ASSUME NEW s \in Listeners, Install(s)  PROVE Drained(c)'
  BY <1>4 DEF Install, registryVars
<1>5. ASSUME NEW s \in Listeners, AcceptEnd(s)  PROVE Drained(c)'
  BY <1>5 DEF AcceptEnd, registryVars
<1>6. ASSUME NEW s \in Listeners, Leave(s)  PROVE Drained(c)'
  BY <1>6 DEF Leave, registryVars
<1>7. ASSUME NEW s \in Sources, Read(s)  PROVE Drained(c)'
  BY <1>7 DEF Read, registryVars
<1>8. ASSUME NEW s \in Sources, Done(s)  PROVE Drained(c)'
  BY <1>8 DEF Done, registryVars
<1>9. ASSUME NEW s \in Sources, RequestUpdate(s)  PROVE Drained(c)'
  BY <1>9 DEF RequestUpdate
<1>10. ASSUME NEW u \in Updaters, UpdateLoad(u)  PROVE Drained(c)'
  BY <1>10 DEF UpdateLoad
<1>. QED
  BY <1>1, <1>2, <1>3, <1>4, <1>5, <1>6, <1>7, <1>8, <1>9, <1>10 DEF HandlerStep

(***************************************************************************)
(* Nobody has more connections than before: the limits are kept.           *)
(***************************************************************************)
LEMMA FewerConnections ==
  ASSUME TypeOK, PlacesOK, accept' = accept,
         idle' \in [Sources -> Int], busy' \in [Sources -> Int],
         \A x \in Sources : idle'[x] >= 0 /\ busy'[x] >= 0 /\ Conns(x)' <= Conns(x)
  PROVE  /\ PlacesOK'
         /\ idle' \in [Sources -> 0..MaxConns] /\ busy' \in [Sources -> 0..MaxConns]
         /\ \A x \in Sources : Conns(x)' <= MaxConns
<1>1. \A x \in Sources : /\ Conns(x) \in Int /\ Conns(x)' \in Int
                         /\ idle'[x] \in Int /\ busy'[x] \in Int
                         /\ idle'[x] <= Conns(x)' /\ busy'[x] <= Conns(x)'
  BY DEF TypeOK, Conns
<1>2. MaxConns \in Int /\ \A x \in Sources : Conns(x) <= MaxConns
  BY BoundsAreNumbers DEF TypeOK
<1>3. \A x \in Sources : Conns(x)' <= MaxConns /\ idle'[x] <= MaxConns /\ busy'[x] <= MaxConns
  <2>. SUFFICES ASSUME NEW x \in Sources
                PROVE  Conns(x)' <= MaxConns /\ idle'[x] <= MaxConns /\ busy'[x] <= MaxConns
    OBVIOUS
  <2>1. /\ Conns(x) \in Int /\ Conns(x)' \in Int /\ idle'[x] \in Int /\ busy'[x] \in Int
        /\ idle'[x] <= Conns(x)' /\ busy'[x] <= Conns(x)' /\ Conns(x)' <= Conns(x)
        /\ Conns(x) <= MaxConns
    BY <1>1, <1>2
  <2>. QED  BY <2>1, <1>2
<1>4. \A x \in Sources : idle'[x] \in 0..MaxConns /\ busy'[x] \in 0..MaxConns
  BY <1>1, <1>2, <1>3
<1>5. PlacesOK'
  <2>1. \A s \in Listeners : accept[s] = "got" => Conns(s)' < MaxConns
    <3>. SUFFICES ASSUME NEW s \in Listeners, accept[s] = "got"  PROVE Conns(s)' < MaxConns
      OBVIOUS
    <3>1. s \in Sources
      BY DEF Listeners, Sources
    <3>2. Conns(s) < MaxConns
      BY DEF PlacesOK
    <3>. QED  BY <3>1, <3>2, <1>1, <1>2
  <2>2. Conns("nsq")' <= 1
    <3>1. "nsq" \in Sources /\ Conns("nsq") <= 1
      BY DEF PlacesOK, Sources
    <3>. QED  BY <3>1, <1>1
  <2>. QED  BY <2>1, <2>2 DEF PlacesOK
<1>. QED  BY <1>3, <1>4, <1>5

(***************************************************************************)
(* The number of connections after a step that changes one source.         *)
(***************************************************************************)
LEMMA ConnsOfOthers ==
  ASSUME TypeOK, NEW s \in Sources, NEW n \in Int, NEW m \in Int,
         idle' = [idle EXCEPT ![s] = n], busy' = [busy EXCEPT ![s] = m],
         upd' \in [Updaters -> {"no", "want", "stuck"}],
         \A u \in Updaters \ {s} : upd'[u] = upd[u],
         n >= 0, m >= 0, n + m + (IF InUpdate(s)' THEN 1 ELSE 0) <= Conns(s)
  PROVE  /\ idle' \in [Sources -> Int] /\ busy' \in [Sources -> Int]
         /\ \A x \in Sources : idle'[x] >= 0 /\ busy'[x] >= 0 /\ Conns(x)' <= Conns(x)
<1>1. idle \in [Sources -> Int] /\ busy \in [Sources -> Int]
  BY DEF TypeOK
<1>2. idle' \in [Sources -> Int] /\ busy' \in [Sources -> Int]
  BY <1>1
<1>3. \A x \in Sources : idle[x] >= 0 /\ busy[x] >= 0
  BY BoundsAreNumbers DEF TypeOK
<1>4. idle'[s] = n /\ busy'[s] = m /\ Conns(s)' <= Conns(s)
  BY <1>1, <1>2 DEF Conns
<1>5. ASSUME NEW x \in Sources, x # s
      PROVE  idle'[x] = idle[x] /\ busy'[x] = busy[x] /\ Conns(x)' = Conns(x)
  <2>1. idle'[x] = idle[x] /\ busy'[x] = busy[x]
    BY <1>1, <1>5
  <2>2. InUpdate(x)' = InUpdate(x)
    BY <1>5 DEF InUpdate
  <2>. QED  BY <2>1, <2>2 DEF Conns
<1>6. \A x \in Sources : Conns(x) \in Int
  BY <1>1 DEF Conns
<1>. QED  BY <1>2, <1>3, <1>4, <1>5, <1>6

(***************************************************************************)
(* A frame moves a handler from waiting to working.                        *)
(***************************************************************************)
LEMMA ReadKeepsTypes ==
  ASSUME TypeOK, PlacesOK, NEW s \in Sources, Read(s)  PROVE TypeOK' /\ PlacesOK'
<1>1. UNCHANGED <<serverVars, running, accept, loadLoop>> /\ ops' \in 0..MaxOps
  BY BoundsAreNumbers DEF Read, TypeOK
<1>2. /\ regLock' \in Updaters \cup {NoThread} /\ registered' \in BOOLEAN
      /\ upd' \in [Updaters -> {"no", "want", "stuck"}]
  BY DEF Read, registryVars, TypeOK
<1>3. /\ idle' \in [Sources -> Int] /\ busy' \in [Sources -> Int]
      /\ \A x \in Sources : idle'[x] >= 0 /\ busy'[x] >= 0 /\ Conns(x)' <= Conns(x)
  <2>1. idle[s] \in Int /\ busy[s] \in Int /\ idle[s] > 0 /\ busy[s] >= 0
    BY BoundsAreNumbers DEF Read, TypeOK
  <2>2. upd' = upd /\ idle' = [idle EXCEPT ![s] = idle[s] - 1] /\ busy' = [busy EXCEPT ![s] = busy[s] + 1]
    BY DEF Read, registryVars
  <2>3. (idle[s] - 1) + (busy[s] + 1) + (IF InUpdate(s)' THEN 1 ELSE 0) <= Conns(s)
    BY <2>1, <2>2 DEF Conns, InUpdate
  <2>4. /\ idle[s] - 1 \in Int /\ busy[s] + 1 \in Int /\ idle[s] - 1 >= 0 /\ busy[s] + 1 >= 0
        /\ \A x \in Updaters \ {s} : upd'[x] = upd[x]
    BY <2>1, <2>2
  <2>. QED  BY <2>2, <2>3, <2>4, <1>2, ConnsOfOthers
<1>. QED  BY <1>1, <1>2, <1>3, FewerConnections DEF TypeOK, serverVars, Conns, InUpdate

(***************************************************************************)
(* A handler that returns waits again, or ends.                            *)
(***************************************************************************)
LEMMA DoneKeepsTypes ==
  ASSUME TypeOK, PlacesOK, NEW s \in Sources, Done(s)  PROVE TypeOK' /\ PlacesOK'
<1>1. UNCHANGED <<serverVars, running, accept, loadLoop>> /\ ops' \in 0..MaxOps
  BY BoundsAreNumbers DEF Done, TypeOK
<1>2. /\ regLock' \in Updaters \cup {NoThread} /\ registered' \in BOOLEAN
      /\ upd' \in [Updaters -> {"no", "want", "stuck"}]
  BY DEF Done, registryVars, TypeOK
<1>3. /\ idle' \in [Sources -> Int] /\ busy' \in [Sources -> Int]
      /\ \A x \in Sources : idle'[x] >= 0 /\ busy'[x] >= 0 /\ Conns(x)' <= Conns(x)
  <2>. DEFINE n == IF Serves(s) THEN idle[s] + 1 ELSE idle[s]
  <2>1. idle[s] \in Int /\ busy[s] \in Int /\ idle[s] >= 0 /\ busy[s] > 0
    BY BoundsAreNumbers DEF Done, TypeOK
  <2>2. upd' = upd /\ idle' = [idle EXCEPT ![s] = n] /\ busy' = [busy EXCEPT ![s] = busy[s] - 1]
    BY DEF Done, registryVars
  <2>3. n \in Int /\ n >= 0 /\ n <= idle[s] + 1
    BY <2>1
  <2>. HIDE DEF n
  <2>4. n + (busy[s] - 1) + (IF InUpdate(s)' THEN 1 ELSE 0) <= Conns(s)
    BY <2>1, <2>2, <2>3 DEF Conns, InUpdate
  <2>5. /\ busy[s] - 1 \in Int /\ busy[s] - 1 >= 0
        /\ \A x \in Updaters \ {s} : upd'[x] = upd[x]
    BY <2>1, <2>2
  <2>. QED  BY <2>2, <2>3, <2>4, <2>5, <1>2, ConnsOfOthers
<1>. QED  BY <1>1, <1>2, <1>3, FewerConnections DEF TypeOK, serverVars, Conns, InUpdate

(***************************************************************************)
(* The handler whose update is done works on.                              *)
(***************************************************************************)
LEMMA UpdateLoadKeepsTypes ==
  ASSUME TypeOK, PlacesOK, NEW u \in Updaters, UpdateLoad(u)  PROVE TypeOK' /\ PlacesOK'
<1>1. UNCHANGED <<serverVars, running, accept, loadLoop>> /\ ops' \in 0..MaxOps
  BY BoundsAreNumbers DEF UpdateLoad, TypeOK
<1>2. /\ regLock' \in Updaters \cup {NoThread} /\ registered' \in BOOLEAN
      /\ upd' \in [Updaters -> {"no", "want", "stuck"}]
  BY DEF UpdateLoad, TypeOK
<1>3. /\ idle' \in [Sources -> Int] /\ busy' \in [Sources -> Int]
      /\ \A x \in Sources : idle'[x] >= 0 /\ busy'[x] >= 0 /\ Conns(x)' <= Conns(x)
  <2>1. idle \in [Sources -> Int] /\ busy \in [Sources -> Int]
        /\ \A x \in Sources : idle[x] >= 0 /\ busy[x] >= 0 /\ Conns(x) \in Int
    BY BoundsAreNumbers DEF TypeOK, Conns
  <2>2. CASE registered \/ u \notin Sources
    <3>1. idle' = idle /\ busy' = busy
      BY <2>2 DEF UpdateLoad
    <3>2. \A x \in Sources : InUpdate(x)' = InUpdate(x)
      BY <2>2 DEF UpdateLoad, InUpdate, TypeOK
    <3>3. \A x \in Sources : Conns(x)' = Conns(x)
      BY <3>1, <3>2 DEF Conns
    <3>. QED  BY <2>1, <3>1, <3>3
  <2>3. CASE ~registered /\ u \in Sources
    <3>1. idle[u] \in Int /\ busy[u] \in Int /\ idle[u] >= 0 /\ busy[u] >= 0
      BY <2>1, <2>3
    <3>2. idle' = [idle EXCEPT ![u] = idle[u]] /\ busy' = [busy EXCEPT ![u] = busy[u] + 1]
      BY <2>1, <2>3 DEF UpdateLoad
    <3>3. InUpdate(u) /\ ~InUpdate(u)' /\ \A x \in Updaters \ {u} : upd'[x] = upd[x]
      BY <2>3 DEF UpdateLoad, InUpdate, TypeOK
    <3>4. idle[u] + (busy[u] + 1) + (IF InUpdate(u)' THEN 1 ELSE 0) <= Conns(u)
      BY <3>1, <3>3 DEF Conns
    <3>5. u \in Sources /\ busy[u] + 1 \in Int /\ busy[u] + 1 >= 0
      BY <2>3, <3>1
    <3>. QED  BY <3>1, <3>2, <3>3, <3>4, <3>5, <1>2, ConnsOfOthers
  <2>. QED  BY <2>2, <2>3
<1>. QED  BY <1>1, <1>2, <1>3, FewerConnections DEF TypeOK, serverVars, Conns, InUpdate

(***************************************************************************)
(* A client that hangs up.                                                 *)
(***************************************************************************)
LEMMA LeaveKeepsTypes ==
  ASSUME TypeOK, PlacesOK, NEW s \in Listeners, Leave(s)  PROVE TypeOK' /\ PlacesOK'
<1>1. UNCHANGED <<serverVars, loadLoop, running, accept, busy, ops, registryVars>>
  BY DEF Leave
<1>2. /\ regLock' \in Updaters \cup {NoThread} /\ registered' \in BOOLEAN
      /\ upd' \in [Updaters -> {"no", "want", "stuck"}] /\ ops' \in 0..MaxOps
  BY <1>1 DEF registryVars, TypeOK
<1>3. /\ idle' \in [Sources -> Int] /\ busy' \in [Sources -> Int]
      /\ \A x \in Sources : idle'[x] >= 0 /\ busy'[x] >= 0 /\ Conns(x)' <= Conns(x)
  <2>1. s \in Sources /\ idle[s] \in Int /\ busy[s] \in Int /\ idle[s] > 0 /\ busy[s] >= 0
    BY BoundsAreNumbers DEF Leave, TypeOK, Listeners, Sources
  <2>2. upd' = upd /\ idle' = [idle EXCEPT ![s] = idle[s] - 1]
    BY DEF Leave, registryVars
  <2>3. busy' = [busy EXCEPT ![s] = busy[s]]
    BY <1>1 DEF TypeOK
  <2>4. (idle[s] - 1) + busy[s] + (IF InUpdate(s)' THEN 1 ELSE 0) <= Conns(s)
    BY <2>1, <2>2 DEF Conns, InUpdate
  <2>5. /\ idle[s] - 1 \in Int /\ idle[s] - 1 >= 0
        /\ \A x \in Updaters \ {s} : upd'[x] = upd[x]
    BY <2>1, <2>2
  <2>. QED  BY <2>1, <2>2, <2>3, <2>4, <2>5, <1>2, ConnsOfOthers
<1>. QED  BY <1>1, <1>2, <1>3, FewerConnections DEF TypeOK, serverVars, Conns, InUpdate

(***************************************************************************)
(* A handler that asks for an update of the load is counted by its request.*)
(***************************************************************************)
LEMMA RequestKeepsTypes ==
  ASSUME TypeOK, PlacesOK, NEW s \in Sources, RequestUpdate(s)  PROVE TypeOK' /\ PlacesOK'
<1>1. UNCHANGED <<serverVars, loadLoop, running, accept, idle, ops, regLock, registered>>
  BY DEF RequestUpdate
<1>2. /\ regLock' \in Updaters \cup {NoThread} /\ registered' \in BOOLEAN
      /\ upd' \in [Updaters -> {"no", "want", "stuck"}] /\ ops' \in 0..MaxOps
  BY <1>1 DEF RequestUpdate, TypeOK
<1>3. /\ idle' \in [Sources -> Int] /\ busy' \in [Sources -> Int]
      /\ \A x \in Sources : idle'[x] >= 0 /\ busy'[x] >= 0 /\ Conns(x)' <= Conns(x)
  <2>1. s \in Updaters /\ idle[s] \in Int /\ busy[s] \in Int /\ idle[s] >= 0 /\ busy[s] > 0
    BY BoundsAreNumbers DEF RequestUpdate, TypeOK, Updaters
  <2>2. upd[s] = "no" /\ upd' = [upd EXCEPT ![s] = "want"] /\ busy' = [busy EXCEPT ![s] = busy[s] - 1]
    BY DEF RequestUpdate
  <2>3. idle' = [idle EXCEPT ![s] = idle[s]]
    BY <1>1 DEF TypeOK
  <2>4. idle[s] + (busy[s] - 1) + (IF InUpdate(s)' THEN 1 ELSE 0) <= Conns(s)
    BY <2>1, <2>2 DEF Conns, InUpdate
  <2>5. /\ busy[s] - 1 \in Int /\ busy[s] - 1 >= 0
        /\ \A x \in Updaters \ {s} : upd'[x] = upd[x]
    BY <2>1, <2>2 DEF TypeOK
  <2>. QED  BY <2>1, <2>2, <2>3, <2>4, <2>5, <1>2, ConnsOfOthers
<1>. QED  BY <1>1, <1>2, <1>3, FewerConnections DEF TypeOK, serverVars, Conns, InUpdate

(***************************************************************************)
(* An accepted connection was counted by the check before it is installed. *)
(***************************************************************************)
LEMMA InstallKeepsTypes ==
  ASSUME TypeOK, PlacesOK, NEW s \in Listeners, Install(s)  PROVE TypeOK' /\ PlacesOK'
<1>. DEFINE n == IF running[s] THEN idle[s] + 1 ELSE idle[s]
<1>1. UNCHANGED <<serverVars, loadLoop, running, busy, ops, registryVars>>
  BY DEF Install
<1>2. /\ s \in Sources /\ accept[s] = "got" /\ accept' = [accept EXCEPT ![s] = "accept"]
      /\ idle' = [idle EXCEPT ![s] = n]
  BY DEF Install, Listeners, Sources
<1>3. /\ idle \in [Sources -> 0..MaxConns] /\ busy \in [Sources -> 0..MaxConns]
      /\ \A x \in Sources : Conns(x) <= MaxConns
      /\ MaxConns \in Nat
  BY BoundsAreNumbers DEF TypeOK
<1>4. n \in Int /\ n >= 0 /\ n <= idle[s] + 1
  BY <1>2, <1>3
<1>. HIDE DEF n
<1>5. \A x \in Sources : InUpdate(x)' = InUpdate(x)
  BY <1>1 DEF InUpdate, registryVars
<1>6. \A x \in Sources \ {s} : idle'[x] = idle[x] /\ busy'[x] = busy[x] /\ Conns(x)' = Conns(x)
  <2>1. \A x \in Sources \ {s} : idle'[x] = idle[x] /\ busy'[x] = busy[x]
    BY <1>1, <1>2, <1>3
  <2>. QED  BY <1>5, <2>1 DEF Conns
<1>7. idle'[s] = n /\ busy'[s] = busy[s] /\ Conns(s) < MaxConns /\ "nsq" # s /\ "nsq" \in Sources
  BY <1>1, <1>2, <1>3 DEF PlacesOK, Listeners, Sources
<1>8. Conns(s)' <= MaxConns /\ idle'[s] \in 0..MaxConns
  <2>1. PICK k \in 0..1 : k = IF InUpdate(s) THEN 1 ELSE 0
    OBVIOUS
  <2>2. PICK i, b \in 0..MaxConns : i = idle[s] /\ b = busy[s]
    BY <1>2, <1>3
  <2>3. i + b + k < MaxConns /\ Conns(s)' = n + b + k
    BY <1>2, <1>5, <1>7, <2>1, <2>2 DEF Conns
  <2>4. n + b + k <= MaxConns /\ n \in 0..MaxConns
    BY <1>3, <1>4, <2>2, <2>3
  <2>. QED  BY <1>7, <2>3, <2>4
<1>9. idle' \in [Sources -> 0..MaxConns] /\ \A x \in Sources : Conns(x)' <= MaxConns
  BY <1>2, <1>3, <1>6, <1>8
<1>10. TypeOK'
  BY <1>1, <1>2, <1>9 DEF TypeOK, serverVars, registryVars, Listeners
<1>11. PlacesOK'
  <2>1. \A x \in Listeners \ {s} : x \in Sources \ {s} /\ accept'[x] = accept[x]
    BY <1>2 DEF TypeOK, Listeners, Sources
  <2>2. accept'[s] # "got"
    BY <1>2 DEF TypeOK
  <2>. QED  BY <1>6, <1>7, <2>1, <2>2 DEF PlacesOK
<1>. QED  BY <1>10, <1>11

(***************************************************************************)
(* The handlers keep the types and the number of connections.              *)
(***************************************************************************)
LEMMA HandlersKeepTypes ==
  ASSUME TypeOK, PlacesOK, HandlerStep
  PROVE  TypeOK' /\ PlacesOK'
<1>. USE BoundsAreNumbers
     DEF TypeOK, PlacesOK, Conns, InUpdate, Listeners, Sources, Updaters, serverVars
<1>1. CASE LoadTick
  BY <1>1 DEF LoadTick
<1>2. CASE LoadEnd
  BY <1>2 DEF LoadEnd, listenVars, registryVars
<1>3. ASSUME NEW s \in Listeners, Accept(s)  PROVE TypeOK' /\ PlacesOK'
  BY <1>3 DEF Accept, registryVars
<1>4. ASSUME NEW s \in Listeners, Install(s)  PROVE TypeOK' /\ PlacesOK'
  BY <1>4, InstallKeepsTypes
<1>5. ASSUME NEW s \in Listeners, AcceptEnd(s)  PROVE TypeOK' /\ PlacesOK'
  BY <1>5 DEF AcceptEnd, registryVars
<1>6. ASSUME NEW s \in Listeners, Leave(s)  PROVE TypeOK' /\ PlacesOK'
  BY <1>6, LeaveKeepsTypes
<1>7. ASSUME NEW s \in Sources, Read(s)  PROVE TypeOK' /\ PlacesOK'
  BY <1>7, ReadKeepsTypes
<1>8. ASSUME NEW s \in Sources, Done(s)  PROVE TypeOK' /\ PlacesOK'
  BY <1>8, DoneKeepsTypes
<1>9. ASSUME NEW s \in Sources, RequestUpdate(s)  PROVE TypeOK' /\ PlacesOK'
  BY <1>9, RequestKeepsTypes
<1>10. ASSUME NEW u \in Updaters, UpdateLoad(u)  PROVE TypeOK' /\ PlacesOK'
  BY <1>10, UpdateLoadKeepsTypes
<1>. HIDE DEF TypeOK, PlacesOK, Conns, InUpdate, Listeners, Sources, Updaters, serverVars
<1>. QED
  BY <1>1, <1>2, <1>3, <1>4, <1>5, <1>6, <1>7, <1>8, <1>9, <1>10 DEF HandlerStep

(***************************************************************************)
(* The handlers do not disturb what the invariant says of the threads and  *)
(* of the components.                                                      *)
(***************************************************************************)
LEMMA HandlersKeepTheRest ==
  ASSUME IInv, HandlerStep
  PROVE  /\ RolesOK' /\ MutexOK' /\ BuiltOK' /\ OrderOK' /\ SourcesOK' /\ NotYetOK' /\ StoppedOK'
<1>1. UNCHANGED <<status, lock, ctxDone, pc, comp, stopAt, late, poolsClosed, running>>
  BY HandlersLeaveTheServer DEF serverVars
<1>2. \A c \in Sources : Drained(c) => Drained(c)'
  BY DrainedStays DEF IInv
<1>3. RolesOK'
  BY <1>1, <1>2 DEF IInv, RolesOK, Constructing, Started
<1>4. MutexOK' /\ BuiltOK' /\ NotYetOK'
  BY <1>1, <1>2 DEF IInv, MutexOK, BuiltOK, Built, NotYetOK, Constructing
<1>5. OrderOK'
  BY <1>1 DEF IInv, OrderOK, Passed, Alive
<1>6. SourcesOK'
  BY <1>1, <1>2 DEF IInv, SourcesOK, Listeners, Sources
<1>7. StoppedOK'
  BY <1>1, HandlersLeaveTheServer DEF IInv, StoppedOK
<1>. QED  BY <1>3, <1>4, <1>5, <1>6, <1>7

-----------------------------------------------------------------------------
(***************************************************************************)
(* The numbers of connections where a step leaves the handlers alone.      *)
(***************************************************************************)
LEMMA SameConnections ==
  ASSUME TypeOK, PlacesOK, UNCHANGED <<idle, busy, upd>>,
         \A s \in Listeners : accept'[s] = "got" => accept[s] = "got"
  PROVE  PlacesOK' /\ \A s \in Sources : Conns(s)' <= MaxConns
<1>1. \A s \in Sources : Conns(s)' = Conns(s)
  BY DEF Conns, InUpdate
<1>2. Listeners \subseteq Sources /\ "nsq" \in Sources
  BY DEF Listeners, Sources
<1>. QED  BY <1>1, <1>2 DEF TypeOK, PlacesOK

(***************************************************************************)
(* The types, and the limits of connections, in the steps of the threads.  *)
(***************************************************************************)
LEMMA ServerKeepsTypes ==
  ASSUME IInv, ServerStep
  PROVE  TypeOK' /\ PlacesOK'
<1>. USE DEF At, Goto, Alive, Threads, NoThread, serverVars, listenVars, registryVars
<1>20. TypeOK /\ PlacesOK /\ RolesOK
  BY DEF IInv
<1>21. pc \in [Threads -> {"none", "build", "wired", "start", "rpc", "register", "tcp", "await",
                        "stop", "drain", "pools", "done", "exit"}]
  BY <1>20 DEF TypeOK
<1>22. /\ comp \in [Components -> {"none", "up", "stopping", "stopped"}]
       /\ running \in [Listeners -> BOOLEAN] /\ accept \in [Listeners -> {"off", "accept", "got"}]
       /\ status \in {"initializing", "running", "stopping", "stopped"}
       /\ lock \in Threads \cup {NoThread} /\ ctxDone \in BOOLEAN
       /\ late \in BOOLEAN /\ poolsClosed \in BOOLEAN /\ registered \in BOOLEAN
       /\ loadLoop \in {"none", "wait", "ended"} /\ "main" \in Threads
  BY <1>20 DEF TypeOK
<1>23. idle \in [Sources -> 0..MaxConns] /\ busy \in [Sources -> 0..MaxConns]
  BY <1>20 DEF TypeOK
<1>1. ASSUME InitComponent  PROVE TypeOK' /\ PlacesOK'
  <2>1. UNCHANGED <<idle, busy, upd, accept>>
    BY <1>1 DEF InitComponent
  <2>2. PlacesOK' /\ \A s \in Sources : Conns(s)' <= MaxConns
    BY <1>20, <2>1, SameConnections
  <2>3. pc' \in [Threads -> {"none", "build", "wired", "start", "rpc", "register", "tcp", "await",
                        "stop", "drain", "pools", "done", "exit"}]
    BY <1>1, <1>21 DEF InitComponent
  <2>4. comp' \in [Components -> {"none", "up", "stopping", "stopped"}] /\ ctxDone' \in BOOLEAN
    BY <1>1, <1>22 DEF InitComponent, ToBuild
  <2>5. UNCHANGED <<status, lock, stopAt, loadLoop, late, poolsClosed, running, ops, regLock, registered>>
    BY <1>1 DEF InitComponent
  <2>. QED  BY <1>20, <2>1, <2>2, <2>3, <2>4, <2>5 DEF TypeOK
<1>2. ASSUME Wire  PROVE TypeOK' /\ PlacesOK'
  <2>1. /\ pc["main"] = "build" /\ UNCHANGED <<busy, upd, accept, status, lock, ctxDone, stopAt, loadLoop,
                       late, poolsClosed, running, ops, regLock, registered>>
    BY <1>2 DEF Wire
  <2>2. /\ idle' \in [Sources -> 0..MaxConns]
        /\ \A s \in Sources : s # "nsq" => idle'[s] = idle[s]
        /\ idle'["nsq"] \in {idle["nsq"], 1}
    <3>1. "nsq" \in Sources /\ 1 \in 0..MaxConns
      BY BoundsAreNumbers DEF Sources
    <3>. QED  BY <1>2, <1>23, <3>1 DEF Wire
  <2>3. /\ comp' \in [Components -> {"none", "up", "stopping", "stopped"}]
        /\ pc' \in [Threads -> {"none", "build", "wired", "start", "rpc", "register", "tcp", "await",
                        "stop", "drain", "pools", "done", "exit"}]
    BY <1>2, <1>21, <1>22 DEF Wire
  <2>4. idle["nsq"] = 0 /\ busy["nsq"] = 0 /\ ~InUpdate("nsq")
    BY <1>20, <2>1 DEF RolesOK, Drained, Sources, Updaters, InUpdate
  <2>5. \A s \in Sources : s # "nsq" => Conns(s)' = Conns(s)
    BY <1>23, <2>1, <2>2 DEF Conns, InUpdate
  <2>6. Conns("nsq")' <= 1
    BY <2>1, <2>2, <2>4 DEF Conns, InUpdate
  <2>7. Listeners \subseteq Sources /\ "nsq" \notin Listeners
    BY DEF Listeners, Sources
  <2>8. PlacesOK'
    BY <1>20, <2>1, <2>5, <2>6, <2>7 DEF PlacesOK
  <2>9. \A s \in Sources : Conns(s)' <= MaxConns
    <3>1. \A s \in Sources : Conns(s)' \in Int
      BY <1>23, <2>1, <2>2 DEF Conns
    <3>2. "nsq" \in Sources
      BY DEF Sources
    <3>3. MaxConns \in Int /\ 1 <= MaxConns /\ \A s \in Sources : Conns(s) <= MaxConns
      BY <1>20, BoundsAreNumbers DEF TypeOK
    <3>. QED  BY <2>5, <2>6, <3>1, <3>2, <3>3
  <2>. QED  BY <1>20, <2>1, <2>2, <2>3, <2>8, <2>9 DEF TypeOK
<1>3. ASSUME ConstructorEnds  PROVE TypeOK' /\ PlacesOK'
  <2>1. UNCHANGED <<idle, busy, upd>> /\ \A s \in Listeners : accept'[s] = "got" => accept[s] = "got"
    BY <1>3 DEF ConstructorEnds
  <2>2. PlacesOK' /\ \A s \in Sources : Conns(s)' <= MaxConns
    BY <1>20, <2>1, SameConnections
  <2>3. pc' \in [Threads -> {"none", "build", "wired", "start", "rpc", "register", "tcp", "await",
                        "stop", "drain", "pools", "done", "exit"}]
    BY <1>3, <1>21 DEF ConstructorEnds
  <2>4. /\ UNCHANGED <<status, lock, comp, stopAt, loadLoop, late, poolsClosed, running, accept, ops,
                       regLock, registered>>
        /\ ctxDone' \in BOOLEAN
    BY <1>3, <1>22 DEF ConstructorEnds
  <2>. QED  BY <1>20, <2>1, <2>2, <2>3, <2>4 DEF TypeOK
<1>4. ASSUME StartLock  PROVE TypeOK' /\ PlacesOK'
  <2>1. UNCHANGED <<idle, busy, upd>> /\ \A s \in Listeners : accept'[s] = "got" => accept[s] = "got"
    BY <1>4 DEF StartLock
  <2>. QED  BY <1>4, <1>20, <2>1, SameConnections DEF TypeOK, StartLock
<1>5. ASSUME StartRpc  PROVE TypeOK' /\ PlacesOK'
  <2>1. UNCHANGED <<idle, busy, upd>> /\ \A s \in Listeners : accept'[s] = "got" => accept[s] = "got"
    BY <1>5, <1>22 DEF StartRpc
  <2>2. PlacesOK' /\ \A s \in Sources : Conns(s)' <= MaxConns
    BY <1>20, <2>1, SameConnections
  <2>3. pc' \in [Threads -> {"none", "build", "wired", "start", "rpc", "register", "tcp", "await",
                        "stop", "drain", "pools", "done", "exit"}]
    BY <1>5, <1>21 DEF StartRpc
  <2>4. /\ UNCHANGED <<status, lock, comp, stopAt, loadLoop, late, poolsClosed, ops, regLock, registered>>
        /\ ctxDone' \in BOOLEAN
        /\ running' \in [Listeners -> BOOLEAN] /\ accept' \in [Listeners -> {"off", "accept", "got"}]
    BY <1>5, <1>22 DEF StartRpc
  <2>. QED  BY <1>20, <2>1, <2>2, <2>3, <2>4 DEF TypeOK
<1>6. ASSUME StartRegister  PROVE TypeOK' /\ PlacesOK'
  <2>1. UNCHANGED <<idle, busy, upd>> /\ \A s \in Listeners : accept'[s] = "got" => accept[s] = "got"
    BY <1>6 DEF StartRegister
  <2>2. PlacesOK' /\ \A s \in Sources : Conns(s)' <= MaxConns
    BY <1>20, <2>1, SameConnections
  <2>3. pc' \in [Threads -> {"none", "build", "wired", "start", "rpc", "register", "tcp", "await",
                        "stop", "drain", "pools", "done", "exit"}]
    BY <1>6, <1>21 DEF StartRegister
  <2>4. /\ UNCHANGED <<comp, stopAt, late, poolsClosed, running, accept, ops, regLock>>
        /\ ctxDone' \in BOOLEAN /\ registered' \in BOOLEAN /\ loadLoop' \in {"none", "wait", "ended"}
        /\ status' \in {"initializing", "running", "stopping", "stopped"}
        /\ lock' \in Threads \cup {NoThread}
    BY <1>6, <1>22 DEF StartRegister
  <2>. QED  BY <1>20, <2>1, <2>2, <2>3, <2>4 DEF TypeOK
<1>7. ASSUME StartTcp  PROVE TypeOK' /\ PlacesOK'
  <2>1. UNCHANGED <<idle, busy, upd>> /\ \A s \in Listeners : accept'[s] = "got" => accept[s] = "got"
    BY <1>7, <1>22 DEF StartTcp
  <2>2. PlacesOK' /\ \A s \in Sources : Conns(s)' <= MaxConns
    BY <1>20, <2>1, SameConnections
  <2>3. pc' \in [Threads -> {"none", "build", "wired", "start", "rpc", "register", "tcp", "await",
                        "stop", "drain", "pools", "done", "exit"}]
    BY <1>7, <1>21 DEF StartTcp
  <2>4. /\ UNCHANGED <<status, lock, comp, stopAt, loadLoop, ctxDone, poolsClosed, ops, regLock, registered>>
        /\ late' \in BOOLEAN
        /\ running' \in [Listeners -> BOOLEAN] /\ accept' \in [Listeners -> {"off", "accept", "got"}]
    BY <1>7, <1>22 DEF StartTcp
  <2>. QED  BY <1>20, <2>1, <2>2, <2>3, <2>4 DEF TypeOK
<1>8. ASSUME ClosePools  PROVE TypeOK' /\ PlacesOK'
  <2>1. UNCHANGED <<idle, busy, upd>> /\ \A s \in Listeners : accept'[s] = "got" => accept[s] = "got"
    BY <1>8 DEF ClosePools
  <2>. QED  BY <1>8, <1>20, <2>1, SameConnections DEF TypeOK, ClosePools
<1>9. ASSUME Exit  PROVE TypeOK' /\ PlacesOK'
  <2>1. UNCHANGED <<idle, busy, upd>> /\ \A s \in Listeners : accept'[s] = "got" => accept[s] = "got"
    BY <1>9 DEF Exit
  <2>. QED  BY <1>9, <1>20, <2>1, SameConnections DEF TypeOK, Exit
<1>10. ASSUME Signal  PROVE TypeOK' /\ PlacesOK'
  <2>1. UNCHANGED <<idle, busy, upd>> /\ \A s \in Listeners : accept'[s] = "got" => accept[s] = "got"
    BY <1>10 DEF Signal
  <2>. QED  BY <1>10, <1>20, <2>1, SameConnections DEF TypeOK, Signal
<1>11. ASSUME NEW t \in Threads, StopLock(t)  PROVE TypeOK' /\ PlacesOK'
  <2>1. UNCHANGED <<idle, busy, upd>> /\ \A s \in Listeners : accept'[s] = "got" => accept[s] = "got"
    BY <1>11 DEF StopLock, Returned
  <2>2. PlacesOK' /\ \A s \in Sources : Conns(s)' <= MaxConns
    BY <1>20, <2>1, SameConnections
  <2>3. pc' \in [Threads -> {"none", "build", "wired", "start", "rpc", "register", "tcp", "await",
                        "stop", "drain", "pools", "done", "exit"}]
    BY <1>11, <1>21 DEF StopLock, Returned
  <2>4. /\ UNCHANGED <<comp, stopAt, loadLoop, late, poolsClosed, running, accept, ops, regLock, registered>>
        /\ ctxDone' \in BOOLEAN /\ status' \in {"initializing", "running", "stopping", "stopped"}
        /\ lock' \in Threads \cup {NoThread}
    BY <1>11, <1>22 DEF StopLock, Returned
  <2>. QED  BY <1>20, <2>1, <2>2, <2>3, <2>4 DEF TypeOK
<1>12. ASSUME NEW t \in Threads, StopJoin(t)  PROVE TypeOK' /\ PlacesOK'
  <2>1. UNCHANGED <<idle, busy, upd>> /\ \A s \in Listeners : accept'[s] = "got" => accept[s] = "got"
    BY <1>12 DEF StopJoin, Returned
  <2>2. PlacesOK' /\ \A s \in Sources : Conns(s)' <= MaxConns
    BY <1>20, <2>1, SameConnections
  <2>3. pc' \in [Threads -> {"none", "build", "wired", "start", "rpc", "register", "tcp", "await",
                        "stop", "drain", "pools", "done", "exit"}]
    BY <1>12, <1>21 DEF StopJoin, Returned
  <2>4. /\ UNCHANGED <<comp, stopAt, loadLoop, late, poolsClosed, running, accept, ops, regLock, registered,
                       ctxDone>>
        /\ status' \in {"initializing", "running", "stopping", "stopped"}
        /\ lock' \in Threads \cup {NoThread}
    BY <1>12, <1>22 DEF StopJoin, Returned
  <2>. QED  BY <1>20, <2>1, <2>2, <2>3, <2>4 DEF TypeOK
<1>13. ASSUME NEW t \in Threads, NEW c \in Components, StopNothing(t, c)  PROVE TypeOK' /\ PlacesOK'
  <2>1. UNCHANGED <<idle, busy, upd>> /\ \A s \in Listeners : accept'[s] = "got" => accept[s] = "got"
    BY <1>13 DEF StopNothing, Stopping, NextStopper
  <2>. QED  BY <1>13, <1>20, <2>1, SameConnections DEF TypeOK, StopNothing, Stopping, NextStopper
<1>14. ASSUME NEW t \in Threads, NEW c \in Components, StopBegin(t, c)  PROVE TypeOK' /\ PlacesOK'
  <2>1. /\ UNCHANGED <<busy, upd, accept, status, lock, ctxDone, pc, stopAt, loadLoop, late, poolsClosed,
                       ops, regLock, registered>>
        /\ comp' \in [Components -> {"none", "up", "stopping", "stopped"}]
        /\ running' \in [Listeners -> BOOLEAN]
    BY <1>14, <1>22 DEF StopBegin
  <2>2. /\ idle' \in [Sources -> 0..MaxConns]
        /\ \A s \in Sources : idle'[s] = idle[s] \/ idle'[s] = 0
    <3>1. idle' = idle \/ idle' = [idle EXCEPT !["nsq"] = 0]
      BY <1>14 DEF StopBegin
    <3>2. 0 \in 0..MaxConns
      BY BoundsAreNumbers
    <3>. QED  BY <1>23, <3>1, <3>2
  <2>3. \A x \in Sources : idle'[x] >= 0 /\ busy'[x] >= 0 /\ Conns(x)' <= Conns(x)
    BY <1>23, <2>1, <2>2 DEF Conns, InUpdate
  <2>4. idle' \in [Sources -> Int] /\ busy' \in [Sources -> Int]
    BY <1>23, <2>1, <2>2
  <2>5. PlacesOK' /\ \A s \in Sources : Conns(s)' <= MaxConns
    BY <1>20, <2>1, <2>3, <2>4, FewerConnections
  <2>. QED  BY <1>20, <2>1, <2>2, <2>5 DEF TypeOK
<1>15. ASSUME NEW t \in Threads, NEW c \in Components, StopEnd(t, c)  PROVE TypeOK' /\ PlacesOK'
  <2>1. UNCHANGED <<idle, busy, upd>> /\ \A s \in Listeners : accept'[s] = "got" => accept[s] = "got"
    BY <1>15 DEF StopEnd, Stopping, NextStopper
  <2>. QED  BY <1>15, <1>20, <2>1, SameConnections DEF TypeOK, StopEnd, Stopping, NextStopper
<1>16. ASSUME NEW q \in Sources, NEW r \in Remotes, Shutdown(q, r)  PROVE TypeOK' /\ PlacesOK'
  <2>1. UNCHANGED <<idle, busy, upd>> /\ \A s \in Listeners : accept'[s] = "got" => accept[s] = "got"
    BY <1>16 DEF Shutdown
  <2>. QED  BY <1>16, <1>20, <2>1, SameConnections DEF TypeOK, Shutdown
<1>. QED
  BY <1>1, <1>2, <1>3, <1>4, <1>5, <1>6, <1>7, <1>8, <1>9,
     <1>10, <1>11, <1>12, <1>13, <1>14, <1>15, <1>16
     DEF ServerStep, MainStep, StopStep

(***************************************************************************)
(* Main goes on from a place of its start to one the status allows.        *)
(***************************************************************************)
LEMMA MainMoves ==
  ASSUME TypeOK, RolesOK, NEW k \in {"build", "wired", "start", "rpc", "register"}, At("main", k),
         NEW l \in {"wired", "start", "rpc", "register", "tcp", "await", "drain"},
         pc' = [pc EXCEPT !["main"] = l], poolsClosed' = poolsClosed,
         l \in {"wired", "start", "rpc", "register"} => status' = "initializing",
         l \in {"tcp", "await"} => status' # "initializing"
  PROVE  RolesOK'
<1>1. "main" \notin Remotes /\ pc \in [Threads -> {"none", "build", "wired", "start", "rpc",
        "register", "tcp", "await", "stop", "drain", "pools", "done", "exit"}]
  BY RemotesAreOthers DEF TypeOK
<1>2. pc'["main"] = l /\ \A r \in Remotes : pc'[r] = pc[r]
  BY <1>1 DEF Threads
<1>3. ~poolsClosed /\ status = "initializing"
  BY DEF RolesOK, At, Alive, Constructing
<1>. QED  BY <1>2, <1>3 DEF RolesOK, Constructing, Started

(***************************************************************************)
(* What main's place says, in the steps of the threads.                    *)
(***************************************************************************)
LEMMA ServerKeepsRoles ==
  ASSUME IInv, ServerStep
  PROVE  RolesOK'
<1>. USE RemotesAreOthers
     DEF IInv, TypeOK, RolesOK, Constructing, Started, Drained,
         At, Goto, Alive, Threads, NoThread, serverVars, listenVars, registryVars
<1>1. ASSUME InitComponent  PROVE RolesOK'
  <2>1. At("main", "build") /\ UNCHANGED <<status, poolsClosed, idle, busy, accept, upd>>
    BY <1>1 DEF InitComponent
  <2>2. pc' = pc \/ pc' = [pc EXCEPT !["main"] = "drain"]
    BY <1>1 DEF InitComponent
  <2>3. CASE pc' = pc
    BY <2>1, <2>3
  <2>4. CASE pc' = [pc EXCEPT !["main"] = "drain"]
    BY <2>1, <2>4, MainMoves
  <2>. QED  BY <2>2, <2>3, <2>4
<1>2. ASSUME Wire  PROVE RolesOK'
  BY <1>2 DEF Wire, ToBuild
<1>3. ASSUME ConstructorEnds  PROVE RolesOK'
  <2>1. At("main", "wired") /\ UNCHANGED <<status, poolsClosed>>
    BY <1>3 DEF ConstructorEnds
  <2>2. pc' = [pc EXCEPT !["main"] = "start"] \/ pc' = [pc EXCEPT !["main"] = "drain"]
    BY <1>3 DEF ConstructorEnds
  <2>. QED  BY <2>1, <2>2, MainMoves
<1>4. ASSUME StartLock  PROVE RolesOK'
  <2>1. At("main", "start") /\ UNCHANGED <<status, poolsClosed>>
    BY <1>4 DEF StartLock
  <2>2. pc' = [pc EXCEPT !["main"] = "rpc"]
    BY <1>4 DEF StartLock
  <2>. QED  BY <2>1, <2>2, MainMoves
<1>5. ASSUME StartRpc  PROVE RolesOK'
  <2>1. At("main", "rpc") /\ UNCHANGED <<status, poolsClosed>>
    BY <1>5 DEF StartRpc
  <2>2. pc' = [pc EXCEPT !["main"] = "register"] \/ pc' = [pc EXCEPT !["main"] = "drain"]
    BY <1>5 DEF StartRpc
  <2>. QED  BY <2>1, <2>2, MainMoves
<1>6. ASSUME StartRegister  PROVE RolesOK'
  <2>1. At("main", "register") /\ UNCHANGED poolsClosed
    BY <1>6 DEF StartRegister
  <2>2. \/ \E l \in {"tcp", "await"} : pc' = [pc EXCEPT !["main"] = l] /\ status' = "running"
        \/ pc' = [pc EXCEPT !["main"] = "drain"] /\ status' = status
    BY <1>6 DEF StartRegister
  <2>. QED  BY <2>1, <2>2, MainMoves
<1>7. ASSUME StartTcp  PROVE RolesOK'
  BY <1>7 DEF StartTcp
<1>8. ASSUME ClosePools  PROVE RolesOK'
  BY <1>8 DEF ClosePools
<1>9. ASSUME Exit  PROVE RolesOK'
  BY <1>9 DEF Exit
<1>10. ASSUME Signal  PROVE RolesOK'
  BY <1>10 DEF Signal
<1>11. ASSUME NEW t \in Threads, StopLock(t)  PROVE RolesOK'
  <2>1. CASE status = "running"
    <3>1. lock' = t /\ status' = "stopping" /\ pc' = [pc EXCEPT ![t] = "drain"] /\ poolsClosed' = poolsClosed
      BY <1>11, <2>1 DEF StopLock
    <3>2. pc[t] = "stop" /\ pc'[t] = "drain" /\ \A r \in Threads \ {t} : pc'[r] = pc[r]
      BY <1>11, <3>1 DEF StopLock
    <3>3. ~Constructing' /\ pc'["main"] \notin {"build", "pools"}
      BY <2>1, <3>2
    <3>. QED  BY <2>1, <3>1, <3>2, <3>3
  <2>2. CASE status # "running"
    <3>1. status' = status /\ pc' = [pc EXCEPT ![t] = IF t = "main" THEN "pools" ELSE "done"]
          /\ poolsClosed' = poolsClosed
      BY <1>11, <2>2 DEF StopLock, Returned
    <3>2. pc[t] = "stop" /\ lock = NoThread /\ \A r \in Threads \ {t} : pc'[r] = pc[r]
      BY <1>11, <3>1 DEF StopLock
    <3>3. CASE t = "main"
      <4>1. pc'["main"] = "pools" /\ status = "stopped"
        BY <2>2, <3>1, <3>2, <3>3 DEF MutexOK
      <4>. QED  BY <3>1, <3>2, <3>3, <4>1
    <3>4. CASE t # "main"
      <4>1. pc'[t] = "done" /\ pc'["main"] = pc["main"]
        BY <3>1, <3>2, <3>4
      <4>2. UNCHANGED <<idle, busy, accept, upd>>
        BY <1>11 DEF StopLock
      <4>. QED  BY <3>1, <3>2, <3>4, <4>1, <4>2
    <3>. QED  BY <3>3, <3>4
  <2>. QED  BY <2>1, <2>2
<1>12. ASSUME NEW t \in Threads, StopJoin(t)  PROVE RolesOK'
  <2>1. CASE lock = t /\ status = "stopping"
    <3>1. /\ lock' = NoThread /\ status' = "stopped" /\ poolsClosed' = poolsClosed
          /\ pc' = [pc EXCEPT ![t] = IF t = "main" THEN "pools" ELSE "done"]
      BY <1>12, <2>1 DEF StopJoin, Returned
    <3>2. pc[t] = "drain" /\ \A r \in Threads \ {t} : pc'[r] = pc[r]
      BY <1>12, <3>1 DEF StopJoin
    <3>3. ~Constructing
      BY <2>1
    <3>4. CASE t = "main"
      BY <2>1, <3>1, <3>2, <3>4
    <3>5. CASE t # "main"
      BY <2>1, <3>1, <3>2, <3>3, <3>5
    <3>. QED  BY <3>4, <3>5
  <2>2. CASE ~(lock = t /\ status = "stopping")
    <3>1. t = "main" /\ pc["main"] = "drain"
      BY <1>12, <2>2 DEF StopJoin, MutexOK
    <3>2. pc' = [pc EXCEPT !["main"] = "exit"] /\ poolsClosed' = poolsClosed
      BY <1>12, <2>2, <3>1 DEF StopJoin
    <3>3. pc'["main"] = "exit" /\ \A r \in Remotes : pc'[r] = pc[r]
      BY <3>2
    <3>. QED  BY <3>2, <3>3
  <2>. QED  BY <2>1, <2>2
<1>13. ASSUME NEW t \in Threads, NEW c \in Components, StopNothing(t, c)  PROVE RolesOK'
  BY <1>13 DEF StopNothing, Stopping, NextStopper
<1>14. ASSUME NEW t \in Threads, NEW c \in Components, StopBegin(t, c)  PROVE RolesOK'
  BY <1>14 DEF StopBegin, Stopping
<1>15. ASSUME NEW t \in Threads, NEW c \in Components, StopEnd(t, c)  PROVE RolesOK'
  BY <1>15 DEF StopEnd, Stopping, NextStopper
<1>16. ASSUME NEW q \in Sources, NEW r \in Remotes, Shutdown(q, r)  PROVE RolesOK'
  BY <1>16 DEF Shutdown
<1>. HIDE DEF IInv, TypeOK, RolesOK, Constructing, Started, Drained, At, Goto, Alive, Threads, NoThread, serverVars, listenVars, registryVars
<1>. QED
  BY <1>1, <1>2, <1>3, <1>4, <1>5, <1>6, <1>7, <1>8, <1>9,
     <1>10, <1>11, <1>12, <1>13, <1>14, <1>15, <1>16
     DEF ServerStep, MainStep, StopStep

(***************************************************************************)
(* Who stops components, in the steps of the threads.                      *)
(***************************************************************************)
LEMMA ServerKeepsMutex ==
  ASSUME IInv, ServerStep
  PROVE  MutexOK'
<1>. USE RemotesAreOthers
     DEF IInv, TypeOK, RolesOK, Constructing, Started, MutexOK,
         At, Goto, Alive, Threads, NoThread, serverVars, listenVars, registryVars
<1>1. ASSUME InitComponent  PROVE MutexOK'
  BY <1>1 DEF InitComponent, ToBuild
<1>2. ASSUME Wire  PROVE MutexOK'
  BY <1>2 DEF Wire, ToBuild
<1>3. ASSUME ConstructorEnds  PROVE MutexOK'
  BY <1>3 DEF ConstructorEnds
<1>4. ASSUME StartLock  PROVE MutexOK'
  BY <1>4 DEF StartLock
<1>5. ASSUME StartRpc  PROVE MutexOK'
  BY <1>5 DEF StartRpc
<1>6. ASSUME StartRegister  PROVE MutexOK'
  BY <1>6 DEF StartRegister
<1>7. ASSUME StartTcp  PROVE MutexOK'
  BY <1>7 DEF StartTcp
<1>8. ASSUME ClosePools  PROVE MutexOK'
  BY <1>8 DEF ClosePools
<1>9. ASSUME Exit  PROVE MutexOK'
  BY <1>9 DEF Exit
<1>10. ASSUME Signal  PROVE MutexOK'
  BY <1>10 DEF Signal
<1>11. ASSUME NEW t \in Threads, StopLock(t)  PROVE MutexOK'
  BY <1>11 DEF StopLock, Returned
<1>12. ASSUME NEW t \in Threads, StopJoin(t)  PROVE MutexOK'
  BY <1>12 DEF StopJoin, Returned
<1>13. ASSUME NEW t \in Threads, NEW c \in Components, StopNothing(t, c)  PROVE MutexOK'
  BY <1>13 DEF StopNothing, Stopping, NextStopper
<1>14. ASSUME NEW t \in Threads, NEW c \in Components, StopBegin(t, c)  PROVE MutexOK'
  BY <1>14 DEF StopBegin, Stopping
<1>15. ASSUME NEW t \in Threads, NEW c \in Components, StopEnd(t, c)  PROVE MutexOK'
  BY <1>15 DEF StopEnd, Stopping, NextStopper
<1>16. ASSUME NEW q \in Sources, NEW r \in Remotes, Shutdown(q, r)  PROVE MutexOK'
  BY <1>16 DEF Shutdown
<1>. QED
  BY <1>1, <1>2, <1>3, <1>4, <1>5, <1>6, <1>7, <1>8, <1>9,
     <1>10, <1>11, <1>12, <1>13, <1>14, <1>15, <1>16
     DEF ServerStep, MainStep, StopStep

(***************************************************************************)
(* What was built, in the steps of the threads.                            *)
(***************************************************************************)
LEMMA ServerKeepsBuilt ==
  ASSUME IInv, ServerStep
  PROVE  BuiltOK'
<1>. USE OptionsOfTheServers, StopOrderIsRank, InitOrderIsComponents
<1>. USE RemotesAreOthers
     DEF IInv, TypeOK, RolesOK, Constructing, Started, MutexOK, BuiltOK, Built, Drained,
         At, Goto, Alive, Threads, NoThread, serverVars, listenVars, registryVars
<1>1. ASSUME InitComponent  PROVE BuiltOK'
  BY <1>1 DEF InitComponent, ToBuild
<1>2. ASSUME Wire  PROVE BuiltOK'
  BY <1>2 DEF Wire, ToBuild
<1>3. ASSUME ConstructorEnds  PROVE BuiltOK'
  BY <1>3 DEF ConstructorEnds
<1>4. ASSUME StartLock  PROVE BuiltOK'
  BY <1>4 DEF StartLock
<1>5. ASSUME StartRpc  PROVE BuiltOK'
  BY <1>5 DEF StartRpc
<1>6. ASSUME StartRegister  PROVE BuiltOK'
  BY <1>6 DEF StartRegister
<1>7. ASSUME StartTcp  PROVE BuiltOK'
  BY <1>7 DEF StartTcp
<1>8. ASSUME ClosePools  PROVE BuiltOK'
  BY <1>8 DEF ClosePools
<1>9. ASSUME Exit  PROVE BuiltOK'
  BY <1>9 DEF Exit
<1>10. ASSUME Signal  PROVE BuiltOK'
  BY <1>10 DEF Signal
<1>11. ASSUME NEW t \in Threads, StopLock(t)  PROVE BuiltOK'
  BY <1>11 DEF StopLock, Returned
<1>12. ASSUME NEW t \in Threads, StopJoin(t)  PROVE BuiltOK'
  BY <1>12 DEF StopJoin, Returned
<1>13. ASSUME NEW t \in Threads, NEW c \in Components, StopNothing(t, c)  PROVE BuiltOK'
  BY <1>13 DEF StopNothing, Stopping, NextStopper
<1>14. ASSUME NEW t \in Threads, NEW c \in Components, StopBegin(t, c)  PROVE BuiltOK'
  BY <1>14 DEF StopBegin, Stopping
<1>15. ASSUME NEW t \in Threads, NEW c \in Components, StopEnd(t, c)  PROVE BuiltOK'
  BY <1>15 DEF StopEnd, Stopping, NextStopper
<1>16. ASSUME NEW q \in Sources, NEW r \in Remotes, Shutdown(q, r)  PROVE BuiltOK'
  BY <1>16 DEF Shutdown
<1>. QED
  BY <1>1, <1>2, <1>3, <1>4, <1>5, <1>6, <1>7, <1>8, <1>9,
     <1>10, <1>11, <1>12, <1>13, <1>14, <1>15, <1>16
     DEF ServerStep, MainStep, StopStep

(***************************************************************************)
(* A server that starts to listen, or fails to, leaves the other as it is. *)
(***************************************************************************)
LEMMA StartsListening ==
  ASSUME TypeOK
  PROVE  /\ StartRpc => /\ UNCHANGED <<comp, idle, busy, upd>> /\ pc["main"] = "rpc"
                        /\ running'["tcp"] = running["tcp"] /\ accept'["tcp"] = accept["tcp"]
                        /\ (running'["rpc"] \/ (running' = running /\ accept' = accept))
         /\ StartTcp => /\ UNCHANGED <<comp, idle, busy, upd>> /\ pc["main"] = "tcp"
                        /\ running'["rpc"] = running["rpc"] /\ accept'["rpc"] = accept["rpc"]
                        /\ (running'["tcp"] \/ (running' = running /\ accept' = accept))
<1>1. running \in [Listeners -> BOOLEAN] /\ accept \in [Listeners -> {"off", "accept", "got"}]
  BY DEF TypeOK
<1>2. "tcp" \in Listeners /\ "rpc" \in Listeners
  BY DEF Listeners
<1>3. ASSUME StartRpc
      PROVE  /\ UNCHANGED <<comp, idle, busy, upd>> /\ pc["main"] = "rpc"
             /\ running'["tcp"] = running["tcp"] /\ accept'["tcp"] = accept["tcp"]
             /\ (running'["rpc"] \/ (running' = running /\ accept' = accept))
  BY <1>1, <1>2, <1>3 DEF StartRpc, At, registryVars
<1>4. ASSUME StartTcp
      PROVE  /\ UNCHANGED <<comp, idle, busy, upd>> /\ pc["main"] = "tcp"
             /\ running'["rpc"] = running["rpc"] /\ accept'["rpc"] = accept["rpc"]
             /\ (running'["tcp"] \/ (running' = running /\ accept' = accept))
  BY <1>1, <1>2, <1>4 DEF StartTcp, At, registryVars
<1>. QED  BY <1>3, <1>4

(***************************************************************************)
(* How far the stop has come, in the steps of the threads.                 *)
(***************************************************************************)
LEMMA ServerKeepsOrder ==
  ASSUME IInv, ServerStep
  PROVE  OrderOK'
<1>. USE OptionsOfTheServers, StopOrderIsRank, InitOrderIsComponents
<1>. USE RemotesAreOthers
     DEF IInv, TypeOK, RolesOK, Constructing, Started, MutexOK, OrderOK, Passed,
         At, Goto, Alive, Threads, NoThread, serverVars, listenVars, registryVars
<1>1. ASSUME InitComponent  PROVE OrderOK'
  BY <1>1 DEF InitComponent, ToBuild
<1>2. ASSUME Wire  PROVE OrderOK'
  BY <1>2 DEF Wire, ToBuild
<1>3. ASSUME ConstructorEnds  PROVE OrderOK'
  BY <1>3 DEF ConstructorEnds
<1>4. ASSUME StartLock  PROVE OrderOK'
  BY <1>4 DEF StartLock
<1>5. ASSUME StartRpc  PROVE OrderOK'
  BY <1>5 DEF StartRpc
<1>6. ASSUME StartRegister  PROVE OrderOK'
  BY <1>6 DEF StartRegister
<1>7. ASSUME StartTcp  PROVE OrderOK'
  <2>1. /\ UNCHANGED <<status, comp, stopAt>> /\ pc["main"] = "tcp"
        /\ \A t \in Threads : pc[t] = "drain" => pc'[t] = "drain"
        /\ pc'["main"] # "exit" /\ pc["main"] # "exit"
        /\ running'["rpc"] = running["rpc"]
        /\ (running' = running /\ late' = late) \/ late' = (status # "running")
    BY <1>7 DEF StartTcp, Listeners
  <2>2. CASE running' = running /\ late' = late
    BY <2>1, <2>2
  <2>3. CASE late' = (status # "running")
    <3>1. stopAt > 1 => late'
      <4>. SUFFICES ASSUME stopAt > 1  PROVE status # "running"
        BY <2>3
      <4>1. (\E t \in Threads : pc[t] = "drain") \/ status = "stopped"
        BY <2>1
      <4>. QED  BY <4>1
    <3>2. \A c \in Components : Rank[c] < stopAt => Passed(c)'
      BY <2>1, <2>3, <3>1 DEF Listeners
    <3>. QED  BY <2>1, <3>2
  <2>. QED  BY <2>1, <2>2, <2>3
<1>8. ASSUME ClosePools  PROVE OrderOK'
  BY <1>8 DEF ClosePools
<1>9. ASSUME Exit  PROVE OrderOK'
  BY <1>9 DEF Exit
<1>10. ASSUME Signal  PROVE OrderOK'
  BY <1>10 DEF Signal
<1>11. ASSUME NEW t \in Threads, StopLock(t)  PROVE OrderOK'
  BY <1>11 DEF StopLock, Returned
<1>12. ASSUME NEW t \in Threads, StopJoin(t)  PROVE OrderOK'
  BY <1>12 DEF StopJoin, Returned
<1>13. ASSUME NEW t \in Threads, NEW c \in Components, StopNothing(t, c)  PROVE OrderOK'
  BY <1>13 DEF StopNothing, Stopping, NextStopper
<1>14. ASSUME NEW t \in Threads, NEW c \in Components, StopBegin(t, c)  PROVE OrderOK'
  BY <1>14 DEF StopBegin, Stopping
<1>15. ASSUME NEW t \in Threads, NEW c \in Components, StopEnd(t, c)  PROVE OrderOK'
  BY <1>15 DEF StopEnd, Stopping, NextStopper
<1>16. ASSUME NEW q \in Sources, NEW r \in Remotes, Shutdown(q, r)  PROVE OrderOK'
  BY <1>16 DEF Shutdown
<1>. QED
  BY <1>1, <1>2, <1>3, <1>4, <1>5, <1>6, <1>7, <1>8, <1>9,
     <1>10, <1>11, <1>12, <1>13, <1>14, <1>15, <1>16
     DEF ServerStep, MainStep, StopStep

(***************************************************************************)
(* Sources that do not serve are empty, in the steps of the threads.       *)
(***************************************************************************)
LEMMA ServerKeepsSources ==
  ASSUME IInv, ServerStep
  PROVE  SourcesOK'
<1>. USE OptionsOfTheServers, StopOrderIsRank, InitOrderIsComponents
<1>. USE RemotesAreOthers
     DEF IInv, TypeOK, SourcesOK, Drained, Listeners, Sources, Updaters,
         At, Goto, Alive, Threads, NoThread, serverVars, listenVars, registryVars
<1>1. ASSUME InitComponent  PROVE SourcesOK'
  BY <1>1 DEF InitComponent, ToBuild
<1>2. ASSUME Wire  PROVE SourcesOK'
  <2>1. /\ UNCHANGED <<running, accept, busy, upd>> /\ pc["main"] = "build"
        /\ \A c \in {"tcp", "rpc"} : idle'[c] = idle[c]
        /\ \A c \in Components : c # "tcp" => comp'[c] = comp[c]
    BY <1>2 DEF Wire
  <2>2. \A s \in Listeners : Drained(s)' /\ ~running[s]
    BY <2>1 DEF RolesOK, NotYetOK, Constructing
  <2>3. comp["nsq"] \notin {"none", "stopped"}
    <3>1. "nsq" \in Options /\ "nsq" \in Components \ {"tcp"}
      OBVIOUS
    <3>2. comp["nsq"] # "none"
      BY <1>2, <3>1 DEF Wire, ToBuild
    <3>3. stopAt = 1
      BY <2>1 DEF OrderOK, MutexOK, RolesOK, Constructing
    <3>. QED  BY <3>1, <3>2, <3>3 DEF OrderOK, Rank
  <2>. QED  BY <2>1, <2>2, <2>3
<1>3. ASSUME ConstructorEnds  PROVE SourcesOK'
  BY <1>3 DEF ConstructorEnds
<1>4. ASSUME StartLock  PROVE SourcesOK'
  BY <1>4 DEF StartLock
<1>5. ASSUME StartRpc  PROVE SourcesOK'
  <2>1. /\ UNCHANGED <<comp, idle, busy, upd>> /\ pc["main"] = "rpc"
        /\ running'["tcp"] = running["tcp"] /\ accept'["tcp"] = accept["tcp"]
        /\ (running'["rpc"] \/ (running' = running /\ accept' = accept))
    BY <1>5, StartsListening
  <2>2. stopAt = 1
    BY <2>1 DEF OrderOK, MutexOK, RolesOK, Constructing
  <2>3. comp["rpc"] = "up"
    BY <2>1, <2>2 DEF OrderOK, BuiltOK, Built, Rank
  <2>. QED  BY <2>1, <2>3
<1>6. ASSUME StartRegister  PROVE SourcesOK'
  BY <1>6 DEF StartRegister
<1>7. ASSUME StartTcp  PROVE SourcesOK'
  <2>1. /\ UNCHANGED <<comp, idle, busy, upd>> /\ pc["main"] = "tcp"
        /\ running'["rpc"] = running["rpc"] /\ accept'["rpc"] = accept["rpc"]
        /\ (running'["tcp"] \/ (running' = running /\ accept' = accept))
    BY <1>7, StartsListening
  <2>2. comp["tcp"] = "up"
    BY <2>1 DEF NotYetOK, BuiltOK, Built
  <2>. QED  BY <2>1, <2>2
<1>8. ASSUME ClosePools  PROVE SourcesOK'
  BY <1>8 DEF ClosePools
<1>9. ASSUME Exit  PROVE SourcesOK'
  BY <1>9 DEF Exit
<1>10. ASSUME Signal  PROVE SourcesOK'
  BY <1>10 DEF Signal
<1>11. ASSUME NEW t \in Threads, StopLock(t)  PROVE SourcesOK'
  BY <1>11 DEF StopLock, Returned
<1>12. ASSUME NEW t \in Threads, StopJoin(t)  PROVE SourcesOK'
  BY <1>12 DEF StopJoin, Returned
<1>13. ASSUME NEW t \in Threads, NEW c \in Components, StopNothing(t, c)  PROVE SourcesOK'
  BY <1>13 DEF StopNothing, Stopping, NextStopper
<1>14. ASSUME NEW t \in Threads, NEW c \in Components, StopBegin(t, c)  PROVE SourcesOK'
  BY <1>14 DEF StopBegin, Stopping
<1>15. ASSUME NEW t \in Threads, NEW c \in Components, StopEnd(t, c)  PROVE SourcesOK'
  BY <1>15 DEF StopEnd, Stopping, NextStopper
<1>16. ASSUME NEW q \in Sources, NEW r \in Remotes, Shutdown(q, r)  PROVE SourcesOK'
  BY <1>16 DEF Shutdown
<1>. HIDE DEF IInv, TypeOK, SourcesOK, Drained, Listeners, Sources, Updaters, At, Goto, Alive, Threads, NoThread, serverVars, listenVars, registryVars
<1>. QED
  BY <1>1, <1>2, <1>3, <1>4, <1>5, <1>6, <1>7, <1>8, <1>9,
     <1>10, <1>11, <1>12, <1>13, <1>14, <1>15, <1>16
     DEF ServerStep, MainStep, StopStep

(***************************************************************************)
(* What main has not started yet, in the steps of the threads.             *)
(***************************************************************************)
LEMMA ServerKeepsNotYet ==
  ASSUME IInv, ServerStep
  PROVE  NotYetOK'
<1>. USE OptionsOfTheServers, StopOrderIsRank, InitOrderIsComponents
<1>. USE RemotesAreOthers
     DEF IInv, TypeOK, RolesOK, Constructing, Started, MutexOK, NotYetOK, Listeners,
         At, Goto, Alive, Threads, NoThread, serverVars, listenVars, registryVars
<1>1. ASSUME InitComponent  PROVE NotYetOK'
  BY <1>1 DEF InitComponent, ToBuild
<1>2. ASSUME Wire  PROVE NotYetOK'
  BY <1>2 DEF Wire, ToBuild
<1>3. ASSUME ConstructorEnds  PROVE NotYetOK'
  BY <1>3 DEF ConstructorEnds
<1>4. ASSUME StartLock  PROVE NotYetOK'
  BY <1>4 DEF StartLock
<1>5. ASSUME StartRpc  PROVE NotYetOK'
  BY <1>5 DEF StartRpc
<1>6. ASSUME StartRegister  PROVE NotYetOK'
  BY <1>6 DEF StartRegister
<1>7. ASSUME StartTcp  PROVE NotYetOK'
  BY <1>7 DEF StartTcp
<1>8. ASSUME ClosePools  PROVE NotYetOK'
  BY <1>8 DEF ClosePools
<1>9. ASSUME Exit  PROVE NotYetOK'
  BY <1>9 DEF Exit
<1>10. ASSUME Signal  PROVE NotYetOK'
  BY <1>10 DEF Signal
<1>11. ASSUME NEW t \in Threads, StopLock(t)  PROVE NotYetOK'
  BY <1>11 DEF StopLock, Returned
<1>12. ASSUME NEW t \in Threads, StopJoin(t)  PROVE NotYetOK'
  BY <1>12 DEF StopJoin, Returned
<1>13. ASSUME NEW t \in Threads, NEW c \in Components, StopNothing(t, c)  PROVE NotYetOK'
  BY <1>13 DEF StopNothing, Stopping, NextStopper
<1>14. ASSUME NEW t \in Threads, NEW c \in Components, StopBegin(t, c)  PROVE NotYetOK'
  BY <1>14 DEF StopBegin, Stopping
<1>15. ASSUME NEW t \in Threads, NEW c \in Components, StopEnd(t, c)  PROVE NotYetOK'
  BY <1>15 DEF StopEnd, Stopping, NextStopper
<1>16. ASSUME NEW q \in Sources, NEW r \in Remotes, Shutdown(q, r)  PROVE NotYetOK'
  BY <1>16 DEF Shutdown
<1>. QED
  BY <1>1, <1>2, <1>3, <1>4, <1>5, <1>6, <1>7, <1>8, <1>9,
     <1>10, <1>11, <1>12, <1>13, <1>14, <1>15, <1>16
     DEF ServerStep, MainStep, StopStep

(***************************************************************************)
(* A server that is stopped, in the steps of the threads.                  *)
(***************************************************************************)
LEMMA ServerKeepsStopped ==
  ASSUME IInv, ServerStep
  PROVE  StoppedOK'
<1>. USE StopOrderIsRank
<1>. USE RemotesAreOthers
     DEF IInv, TypeOK, RolesOK, Constructing, Started, MutexOK, StoppedOK,
         At, Goto, Alive, Threads, NoThread, serverVars, listenVars, registryVars
<1>1. ASSUME InitComponent  PROVE StoppedOK'
  BY <1>1 DEF InitComponent, ToBuild
<1>2. ASSUME Wire  PROVE StoppedOK'
  BY <1>2 DEF Wire, ToBuild
<1>3. ASSUME ConstructorEnds  PROVE StoppedOK'
  BY <1>3 DEF ConstructorEnds
<1>4. ASSUME StartLock  PROVE StoppedOK'
  BY <1>4 DEF StartLock
<1>5. ASSUME StartRpc  PROVE StoppedOK'
  BY <1>5 DEF StartRpc
<1>6. ASSUME StartRegister  PROVE StoppedOK'
  BY <1>6 DEF StartRegister
<1>7. ASSUME StartTcp  PROVE StoppedOK'
  BY <1>7 DEF StartTcp
<1>8. ASSUME ClosePools  PROVE StoppedOK'
  BY <1>8 DEF ClosePools
<1>9. ASSUME Exit  PROVE StoppedOK'
  BY <1>9 DEF Exit
<1>10. ASSUME Signal  PROVE StoppedOK'
  BY <1>10 DEF Signal
<1>11. ASSUME NEW t \in Threads, StopLock(t)  PROVE StoppedOK'
  BY <1>11 DEF StopLock, Returned
<1>12. ASSUME NEW t \in Threads, StopJoin(t)  PROVE StoppedOK'
  BY <1>12 DEF StopJoin, Returned
<1>13. ASSUME NEW t \in Threads, NEW c \in Components, StopNothing(t, c)  PROVE StoppedOK'
  BY <1>13 DEF StopNothing, Stopping, NextStopper
<1>14. ASSUME NEW t \in Threads, NEW c \in Components, StopBegin(t, c)  PROVE StoppedOK'
  BY <1>14 DEF StopBegin, Stopping
<1>15. ASSUME NEW t \in Threads, NEW c \in Components, StopEnd(t, c)  PROVE StoppedOK'
  BY <1>15 DEF StopEnd, Stopping, NextStopper
<1>16. ASSUME NEW q \in Sources, NEW r \in Remotes, Shutdown(q, r)  PROVE StoppedOK'
  BY <1>16 DEF Shutdown
<1>. QED
  BY <1>1, <1>2, <1>3, <1>4, <1>5, <1>6, <1>7, <1>8, <1>9,
     <1>10, <1>11, <1>12, <1>13, <1>14, <1>15, <1>16
     DEF ServerStep, MainStep, StopStep

-----------------------------------------------------------------------------
(***************************************************************************)
(* The invariant holds in every state of every server.                     *)
(***************************************************************************)
THEOREM Invariance == Spec => []IInv
<1>1. Init => IInv
  BY Starts
<1>2. IInv /\ [Next]_vars => IInv'
  <2>. SUFFICES ASSUME IInv, [Next]_vars  PROVE IInv'
    OBVIOUS
  <2>1. CASE HandlerStep
    <3>1. TypeOK' /\ PlacesOK'
      BY <2>1, HandlersKeepTypes DEF IInv
    <3>. QED  BY <2>1, <3>1, HandlersKeepTheRest DEF IInv
  <2>2. CASE ServerStep
    BY <2>2, ServerKeepsTypes, ServerKeepsRoles, ServerKeepsMutex, ServerKeepsBuilt, ServerKeepsOrder,
       ServerKeepsSources, ServerKeepsNotYet, ServerKeepsStopped DEF IInv
  <2>3. CASE UNCHANGED vars
    <3>. USE <2>3 DEF vars
    <3>1. TypeOK' /\ PlacesOK'
      BY DEF IInv, TypeOK, PlacesOK, Conns, InUpdate
    <3>2. RolesOK' /\ MutexOK' /\ BuiltOK' /\ StoppedOK'
      BY DEF IInv, RolesOK, MutexOK, BuiltOK, Built, StoppedOK, Constructing, Started, Drained
    <3>3. OrderOK' /\ SourcesOK' /\ NotYetOK'
      BY DEF IInv, OrderOK, Passed, Alive, SourcesOK, NotYetOK, Constructing, Drained
    <3>. QED  BY <3>1, <3>2, <3>3 DEF IInv
  <2>. QED  BY <2>1, <2>2, <2>3, NextIsEither
<1>. QED  BY <1>1, <1>2, PTL DEF Spec

(***************************************************************************)
(* The variables keep their types, and no server has more connections than *)
(* its limit, however accepting, handling and stopping interleave          *)
(* (TCPServer.acceptLoop, handleConnection).                               *)
(***************************************************************************)
THEOREM TypeCorrect == Spec => []TypeOK
<1>1. IInv => TypeOK
  BY DEF IInv
<1>. QED  BY Invariance, <1>1, PTL

(***************************************************************************)
(* A source in which a handler works has not been passed by the stop.      *)
(***************************************************************************)
LEMMA WorkingIsAhead ==
  ASSUME IInv, NEW s \in Sources, Working(s), ~(s = "tcp" /\ late)
  PROVE  stopAt <= Rank[s] /\ comp[s] \in {"up", "stopping"}
<1>. USE StopOrderIsRank DEF IInv
<1>1. s \in Components
  BY DEF Sources
<1>2. ~Drained(s)
  <2>1. busy[s] > 0 => busy[s] # 0
    OBVIOUS
  <2>. QED  BY <2>1 DEF Working, InUpdate, Drained
<1>3. CASE s = "nsq"
  <2>1. comp[s] \in {"up", "stopping"}
    BY <1>1, <1>2, <1>3 DEF SourcesOK, TypeOK
  <2>2. ~Passed(s)
    BY <1>3, <2>1 DEF Passed, Listeners
  <2>. QED  BY <1>1, <2>1, <2>2 DEF OrderOK, TypeOK
<1>4. CASE s # "nsq"
  <2>1. s \in Listeners
    BY <1>4 DEF Sources, Listeners
  <2>2. (running[s] /\ comp[s] = "up") \/ comp[s] = "stopping"
    BY <1>2, <2>1 DEF SourcesOK
  <2>3. ~Passed(s)
    BY <2>2 DEF Passed
  <2>. QED  BY <1>1, <2>2, <2>3 DEF OrderOK, TypeOK
<1>. QED  BY <1>3, <1>4

(***************************************************************************)
(* What a handler uses is there while it works: the databases, the         *)
(* registry and the pools are stopped after the sources of requests and    *)
(* the wait for their handlers (componentStoppers, wg.Wait,                *)
(* <-consumer.StopChan).                                                   *)
(***************************************************************************)
THEOREM ServedAlways == Spec => []HandlersAreServed
<1>1. IInv => HandlersAreServed
  <2>. SUFFICES ASSUME IInv PROVE HandlersAreServed
    OBVIOUS
  <2>1. ASSUME NEW s \in Sources, Alive, Working(s), ~(s = "tcp" /\ late),
               NEW c \in {"redis", "mongo", "registry"} \cap Options
        PROVE  comp[c] = "up"
    <3>1. stopAt <= Rank[s]
      BY <2>1, WorkingIsAhead
    <3>2. Rank[s] <= 4 /\ Rank[c] >= 5 /\ c \in Components
      BY StopOrderIsRank DEF Rank, Sources
    <3>3. Rank[c] > stopAt
      BY <3>1, <3>2, StopOrderIsRank DEF IInv, TypeOK, Sources
    <3>4. comp[c] \in {"none", "up"}
      BY <3>2, <3>3 DEF IInv, OrderOK
    <3>5. Built
      <4>1. busy[s] > 0 => busy[s] # 0
        OBVIOUS
      <4>2. ~Drained(s)
        BY <2>1, <4>1 DEF Working, InUpdate, Drained
      <4>. QED  BY <4>2 DEF IInv, BuiltOK
    <3>. QED  BY <3>4, <3>5 DEF Built
  <2>2. ASSUME Alive, Working("tcp"), poolsClosed, ~late  PROVE FALSE
    <3>1. status = "stopped" /\ stopAt = 8
      BY <2>2 DEF IInv, RolesOK, StoppedOK, Alive
    <3>2. "tcp" \in Sources /\ Rank["tcp"] = 1
      BY DEF Sources, Rank
    <3>. QED  BY <2>2, <3>1, <3>2, WorkingIsAhead
  <2>. QED  BY <2>1, <2>2 DEF HandlersAreServed
<1>. QED  BY Invariance, <1>1, PTL

(***************************************************************************)
(* A server that says it is stopped is quiet: no load loop, no lock, no    *)
(* handler, and every component that it had is stopped (BaseServer.Stop).  *)
(***************************************************************************)
THEOREM StoppedMeansQuiet == Spec => []StoppedIsQuiet
<1>1. IInv => StoppedIsQuiet
  <2>. SUFFICES ASSUME IInv, status = "stopped"
                PROVE  /\ loadLoop # "wait" /\ lock = NoThread
                       /\ \A s \in Sources : (s = "tcp" /\ late) \/ Drained(s)
                       /\ \A c \in Options \ Listeners : comp[c] = "stopped"
    BY DEF StoppedIsQuiet
  <2>1. stopAt = 8 /\ loadLoop # "wait" /\ lock = NoThread
    BY DEF IInv, StoppedOK
  <2>2. \A c \in Components : Passed(c)
    <3>1. \A c \in Components : Rank[c] < 8
      BY StopOrderIsRank
    <3>. QED  BY <2>1, <3>1 DEF IInv, OrderOK
  <2>3. ASSUME NEW s \in Sources, ~(s = "tcp" /\ late)  PROVE Drained(s)
    <3>1. Passed(s)
      BY <2>2, StopOrderIsRank DEF Sources
    <3>2. s = "nsq" => s \notin Listeners
      BY DEF Listeners
    <3>3. s # "nsq" => s \in Listeners
      BY DEF Listeners, Sources
    <3>4. CASE s = "nsq"
      BY <3>1, <3>2, <3>4 DEF IInv, SourcesOK, Passed
    <3>5. CASE s # "nsq"
      BY <2>3, <3>1, <3>3, <3>5 DEF IInv, SourcesOK, Passed
    <3>. QED  BY <3>4, <3>5
  <2>4. ASSUME NEW c \in Options \ Listeners  PROVE comp[c] = "stopped"
    <3>1. c \in Components /\ comp[c] # "none"
      BY OptionsOfTheServers, StopOrderIsRank DEF IInv, BuiltOK, Built
    <3>. QED  BY <2>2, <3>1 DEF Passed
  <2>. QED  BY <2>1, <2>3, <2>4
<1>. QED  BY Invariance, <1>1, PTL
=============================================================================
