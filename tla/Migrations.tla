----------------------------- MODULE Migrations -----------------------------
(***************************************************************************)
(* internal/database/migrations.go and tools/migrate/main.go: processes    *)
(* that run Up or Down over the versions in order, reading the records of  *)
(* schema_migrations once and writing one after each version.  A process   *)
(* ends with its first error, at its 30 s limit, or when it is killed, and *)
(* another one may be started at any time, before that as well.            *)
(***************************************************************************)
EXTENDS Integers, FiniteSets

CONSTANTS
  Runners,      \* processes that may run at a time
  MaxVersion,   \* the versions are 1..MaxVersion
  Irreversible, \* the versions without a Down function
  MaxRuns       \* bound: processes started

Versions == 1..MaxVersion

(* The versions without a Down function are among the versions.            *)
ASSUME MigrationBounds == MaxVersion \in Nat /\ Irreversible \subseteq Versions /\ MaxRuns \in Nat

VARIABLES
  recorded,   \* schema_migrations: versions; a unique index allows one each
  schema,     \* what the functions of a version have done to the database
  runner,     \* the processes
  undoing,    \* history: versions whose Down was begun since their last Up
  overlapped, \* history: two processes were running at one time
  runs

migrationVars == <<recorded, schema, runner, undoing, overlapped, runs>>

NotRunning == [at |-> "none", down |-> FALSE, target |-> 0, applied |-> {},
               version |-> 0]

MigrationsInit ==
  /\ recorded = {} /\ schema = [v \in Versions |-> "without"]
  /\ runner = [r \in Runners |-> NotRunning]
  /\ undoing = {} /\ overlapped = FALSE /\ runs = 0

Exits(r) == runner' = [runner EXCEPT ![r] = NotRunning]
RunnerGoes(r, at) == runner' = [runner EXCEPT ![r].at = at]

(* The versions before a process at x.                                     *)
Remaining(x) ==
  IF x.down THEN {v \in x.applied : v > x.target /\ v < x.version}
  ELSE {v \in Versions \ x.applied : v > x.version}

(* Mutant: Down takes the versions in ascending order, as Up does.         *)
NextAscending(x) ==
  IF Remaining(x) = {} THEN 0
  ELSE CHOOSE v \in Remaining(x) : \A w \in Remaining(x) : v <= w

(* The one it turns to next; 0 when there is none.                         *)
NextVersion(x) ==
  CASE Remaining(x) = {} -> 0
    [] x.down          -> CHOOSE v \in Remaining(x) : \A w \in Remaining(x) : w <= v
    [] OTHER           -> CHOOSE v \in Remaining(x) : \A w \in Remaining(x) : v <= w

(* main: Up makes sure of the unique index first; both read the records.   *)
StartRunner(r, down, t) ==
  /\ runner[r] = NotRunning /\ runs < MaxRuns /\ runs' = runs + 1
  /\ runner' = [runner EXCEPT ![r] =
       [at |-> "next", down |-> down, target |-> t, applied |-> recorded,
        version |-> IF down THEN MaxVersion + 1 ELSE 0]]
  /\ overlapped' = (overlapped \/ \E s \in Runners \ {r} :
                                    runner[s] # NotRunning)
  /\ UNCHANGED <<recorded, schema, undoing>>

(* The loop of Up and of Down turns to a version and calls its function; a *)
(* version without one ends Down.                                          *)
BeginVersion(r) ==
  LET x == runner[r]  v == NextVersion(x) IN
  /\ x.at = "next"
  /\ IF v = 0 \/ (x.down /\ v \in Irreversible)
     THEN Exits(r) /\ UNCHANGED <<schema, undoing>>
     ELSE /\ runner' = [runner EXCEPT ![r].at = "function", ![r].version = v]
          /\ schema' = [schema EXCEPT ![v] = "partly"]
          /\ undoing' = IF x.down THEN undoing \cup {v} ELSE undoing
  /\ UNCHANGED <<recorded, overlapped, runs>>

(* migration.Up or migration.Down has returned nil.                        *)
EndVersion(r) ==
  LET x == runner[r] IN
  /\ x.at = "function" /\ RunnerGoes(r, "record")
  /\ schema' = [schema EXCEPT ![x.version] = IF x.down THEN "without" ELSE "with"]
  /\ undoing' = IF x.down THEN undoing ELSE undoing \ {x.version}
  /\ UNCHANGED <<recorded, overlapped, runs>>

(* InsertOne after Up, refused when there is a record; DeleteOne after     *)
(* Down, which is content when there is none.                              *)
RecordVersion(r) ==
  LET x == runner[r]  v == x.version IN
  /\ x.at = "record"
  /\ \/ /\ x.down /\ recorded' = recorded \ {v} /\ RunnerGoes(r, "next")
     \/ /\ ~x.down /\ v \notin recorded /\ recorded' = recorded \cup {v}
        /\ RunnerGoes(r, "next")
     \/ ~x.down /\ v \in recorded /\ Exits(r) /\ UNCHANGED recorded
  /\ UNCHANGED <<schema, undoing, overlapped, runs>>

(* An error of a function or of MongoDB, or the end of the process.        *)
AbortRunner(r) ==
  /\ runner[r] # NotRunning /\ Exits(r)
  /\ UNCHANGED <<recorded, schema, undoing, overlapped, runs>>

MigrationsNext ==
  \E r \in Runners :
    \/ \E down \in BOOLEAN, t \in 0..MaxVersion :
         (~down => t = 0) /\ StartRunner(r, down, t)
    \/ BeginVersion(r) \/ EndVersion(r) \/ RecordVersion(r) \/ AbortRunner(r)

-----------------------------------------------------------------------------
MigrationsTypeOK ==
  /\ recorded \subseteq Versions /\ undoing \subseteq Versions
  /\ schema \in [Versions -> {"without", "partly", "with"}]
  /\ overlapped \in BOOLEAN /\ runs \in 0..MaxRuns
  /\ runner \in [Runners -> [at : {"none", "next", "function", "record"},
       down : BOOLEAN, target : 0..MaxVersion, applied : SUBSET Versions,
       version : 0..(MaxVersion + 1)]]

(* The records tell what the database is like, wherever a run was cut off: *)
(* the recorded versions are the first ones without a gap, and each has    *)
(* been carried out, unless a Down of it was begun (Up inserts the record  *)
(* after the function, Down deletes it after the function; a Down cut off  *)
(* in between leaves a record that a later Up trusts).  Two processes that *)
(* overlap can break this, for nothing keeps them apart.                   *)
RecordsMatchSchema ==
  ~overlapped =>
    /\ \A v \in recorded : 1..v \subseteq recorded
    /\ \A v \in recorded : schema[v] = "with" \/ v \in undoing
=============================================================================
