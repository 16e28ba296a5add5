----------------------------- MODULE HotReload -----------------------------
(***************************************************************************)
(* internal/hotreload/hot_reload.go: one file that is registered as a      *)
(* configuration or as a plugin module, written and replaced by others at  *)
(* any time, and the goroutine that follows it.  The versions of the file  *)
(* are numbered; a version's number is its modification time as well, so   *)
(* two writes within the file system's clock tick are left out.            *)
(***************************************************************************)
EXTENDS Integers

CONSTANTS
  MaxFileVersion, \* bound: versions of the file
  MaxReadFaults   \* bound: failed reads of the file

FileVersions == 1..MaxFileVersion

(* The file has a first version; failures are counted.                     *)
ASSUME ReloadBounds == MaxFileVersion \in Nat \ {0} /\ MaxReadFaults \in Nat

VARIABLES
  plugin,     \* the file is a Go plugin (RegisterModule)
  version,    \* the file: its last version
  wellFormed, \* the versions that parse and validate, or open as a plugin
  watched,    \* the watcher has the file
  event,      \* a write of the file that the watcher has not handed out
  entry,      \* ConfigFile or Module: LastModTime and Data
  opened,     \* the version plugin.Open has opened
  registering,\* RegisterConfig, RegisterModule, and the LastModTime it took
  watchLoop,  \* what the goroutine does
  noticed,    \* history: the last version that was written while watched
  failed,     \* history: the versions that could not be seen or loaded
  readFaults

reloadVars == <<plugin, version, wellFormed, watched, event, entry, opened,
                registering, watchLoop, noticed, failed, readFaults>>

Nothing == 0
NoEntry == [known |-> FALSE, modTime |-> Nothing, data |-> Nothing]
NoRegistering == [at |-> "no", modTime |-> Nothing]

ReloadInit ==
  /\ plugin \in BOOLEAN
  /\ version = 1 /\ wellFormed \in SUBSET {1}
  /\ watched = FALSE /\ event = FALSE /\ entry = NoEntry
  /\ opened = Nothing
  /\ registering = NoRegistering /\ watchLoop = "idle"
  /\ noticed = Nothing /\ failed = {} /\ readFaults = 0

(* The manager's mutex.                                                    *)
Unlocked == registering.at = "no" /\ watchLoop \notin {"stat", "load"}

(* Mutant: Data is replaced before the file is found to be valid.          *)
LoadsUnchecked(modTime) ==
  LET data == IF plugin /\ opened # Nothing THEN opened ELSE version IN
  /\ entry' = [known |-> TRUE, modTime |-> modTime, data |-> data]
  /\ opened' = IF plugin THEN data ELSE opened
  /\ UNCHANGED <<failed, readFaults>>

(* Reading and parsing; plugin.Open returns the plugin it opened first,    *)
(* whatever the file holds now.                                            *)
LoadsInto(modTime) ==
  LET data == IF plugin /\ opened # Nothing THEN opened ELSE version IN
  /\ data \in wellFormed
  /\ entry' = [known |-> TRUE, modTime |-> modTime, data |-> data]
  /\ opened' = IF plugin THEN data ELSE opened
  /\ UNCHANGED <<failed, readFaults>>
LoadFails ==
  /\ \/ version \notin wellFormed /\ UNCHANGED readFaults
     \/ readFaults < MaxReadFaults /\ readFaults' = readFaults + 1
  /\ failed' = failed \cup {version} /\ UNCHANGED opened

-----------------------------------------------------------------------------
(* RegisterConfig, RegisterModule: stat, load, keep the entry, watch.      *)
RegisterStat ==
  /\ Unlocked /\ registering' = [at |-> "load", modTime |-> version]
  /\ UNCHANGED <<plugin, version, wellFormed, watched, event, entry, opened,
                 watchLoop, noticed, failed, readFaults>>
RegisterLoad ==
  /\ registering.at = "load"
  /\ \/ /\ LoadsInto(registering.modTime)
        /\ registering' = [registering EXCEPT !.at = "watch"]
     \/ LoadFails /\ registering' = NoRegistering /\ UNCHANGED entry
  /\ UNCHANGED <<plugin, version, wellFormed, watched, event, watchLoop,
                 noticed>>
RegisterWatch ==
  /\ registering.at = "watch" /\ registering' = NoRegistering
  /\ watched' = (watchLoop # "ended")
  /\ UNCHANGED <<plugin, version, wellFormed, event, entry, opened, watchLoop,
                 noticed, failed, readFaults>>

(* The outside: the file is written in place, or another one is renamed to *)
(* its path; the watcher then loses it, and reports that with an event     *)
(* other than Write, which watchLoop ignores.                              *)
Written(good) ==
  /\ version < MaxFileVersion /\ version' = version + 1
  /\ wellFormed' = IF good THEN wellFormed \cup {version + 1} ELSE wellFormed
WriteFile(good) ==
  /\ Written(good)
  /\ event' = watched
  /\ noticed' = IF watched THEN version + 1 ELSE noticed
  /\ UNCHANGED <<plugin, watched, entry, opened, registering, watchLoop, failed,
                 readFaults>>
ReplaceFile(good) ==
  /\ Written(good) /\ watched' = FALSE
  /\ UNCHANGED <<plugin, event, entry, opened, registering, watchLoop, noticed, failed,
                 readFaults>>

(* watchLoop takes an event; handleFileChange takes the mutex.             *)
TakeEvent ==
  /\ watchLoop = "idle" /\ event
  /\ event' = FALSE /\ watchLoop' = "change"
  /\ UNCHANGED <<plugin, version, wellFormed, watched, entry, opened, registering,
                 noticed, failed, readFaults>>
HandleFileChange ==
  /\ watchLoop = "change" /\ Unlocked
  /\ watchLoop' = IF entry.known THEN "stat" ELSE "idle"
  /\ UNCHANGED <<plugin, version, wellFormed, watched, event, entry, opened,
                 registering, noticed, failed, readFaults>>

(* reloadConfig, reloadModule: the time of the file is noted before it is  *)
(* loaded, and kept when that fails; when the file cannot be seen at all,  *)
(* nothing is noted.                                                       *)
ReloadStat ==
  /\ watchLoop = "stat"
  /\ \/ /\ version > entry.modTime /\ watchLoop' = "load"
        /\ entry' = [entry EXCEPT !.modTime = version]
        /\ UNCHANGED <<failed, readFaults>>
     \/ /\ version <= entry.modTime /\ watchLoop' = "idle"
        /\ UNCHANGED <<entry, failed, readFaults>>
     \/ /\ readFaults < MaxReadFaults /\ readFaults' = readFaults + 1
        /\ watchLoop' = "idle" /\ failed' = failed \cup {version} /\ UNCHANGED entry
  /\ UNCHANGED <<plugin, version, wellFormed, watched, event, opened, registering,
                 noticed>>
ReloadLoad ==
  /\ watchLoop = "load" /\ watchLoop' = "idle"
  /\ LoadsInto(entry.modTime) \/ (LoadFails /\ UNCHANGED entry)
  /\ UNCHANGED <<plugin, version, wellFormed, watched, event, registering,
                 noticed>>

(* Close: the context and the watcher end the loop between two events.     *)
CloseReload ==
  /\ watchLoop = "idle" /\ watchLoop' = "ended"
  /\ watched' = FALSE /\ event' = FALSE
  /\ UNCHANGED <<plugin, version, wellFormed, entry, opened, registering, noticed,
                 failed, readFaults>>

ReloadNext ==
  \/ RegisterStat \/ RegisterLoad \/ RegisterWatch
  \/ \E good \in BOOLEAN : WriteFile(good) \/ ReplaceFile(good)
  \/ TakeEvent \/ HandleFileChange \/ ReloadStat \/ ReloadLoad \/ CloseReload

-----------------------------------------------------------------------------
ReloadTypeOK ==
  /\ plugin \in BOOLEAN /\ watched \in BOOLEAN /\ event \in BOOLEAN
  /\ version \in FileVersions /\ wellFormed \subseteq FileVersions
  /\ failed \subseteq FileVersions /\ noticed \in 0..version
  /\ entry \in [known : BOOLEAN, modTime : 0..version, data : 0..version]
  /\ opened \in 0..version
  /\ registering \in [at : {"no", "load", "watch"}, modTime : 0..version]
  /\ watchLoop \in {"idle", "change", "stat", "load", "ended"}
  /\ readFaults \in 0..MaxReadFaults

(* When the loop has nothing left to do, the configuration is the file's   *)
(* last version: a version written while the file was watched is never     *)
(* missed, whatever writes fall between an event, the stat and the read,   *)
(* unless it could not be seen or loaded (reloadConfig stats before it     *)
(* reads, and loadConfig changes Data only when everything succeeded).     *)
ConfigFollowsFile ==
  ~plugin /\ watchLoop = "idle" /\ ~event /\ registering.at = "no" =>
    /\ noticed = version => entry.data = version \/ version \in failed
    /\ entry.data \in wellFormed \cup {Nothing}
=============================================================================
