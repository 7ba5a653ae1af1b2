--------------------------- MODULE PluginDirectory ---------------------------
(***************************************************************************)
(* The start-up check: make sure the plugin directory exists.  The facade  *)
(* first makes it under OBS's configuration directory (ensureObsWritableDir*)
(* and createDirs) and falls back to a directory beside the program; the   *)
(* service then checks the one chosen and makes it if it is missing        *)
(* (StartupCheckService, StdFsDirectoryChecker, StdFsDirectoryCreator).    *)
(* Afterwards obs_module_load goes on to load plugins.                     *)
(*                                                                         *)
(* Every look at the file system and every creation is a step, because     *)
(* other programs may change the file system in between.                   *)
(***************************************************************************)
EXTENDS Naturals

CONSTANT MaxChanges   (* bound on the changes others make to the file system   *)

ASSUME ChangesAssumption == MaxChanges \in Nat

(* The plugin directory under OBS's configuration directory, and the one    *)
(* in the current directory.                                                *)
Place == {"config", "local"}

VARIABLES
  fs,          (* fs[p]: what is at p; "broken" is a path that cannot be looked *)
               (* at                                                           *)
  writable,    (* writable[p]: can a directory be made at p?                   *)
  rootKnown,   (* does OBS know the configuration directory?                   *)
  changes,     (* how often others have changed the file system                *)
  pc,          (* where obs_module_load is                                     *)
  target,      (* the place the service checks                                 *)
  result,      (* what the check reports                                       *)
  loadedFrom,  (* the place plugins are loaded from, "none" before that or     *)
               (* when there is none                                           *)
  spoilt       (* the places the world has spoilt so far: a history, written   *)
               (* by the world alone and read by no step                       *)

world == <<fs, writable, rootKnown, changes, spoilt>>
vars  == <<fs, writable, rootKnown, changes, spoilt, pc, target, result, loadedFrom>>

Kind == {"missing", "dir", "file", "broken"}

TypeOK ==
  /\ fs \in [Place -> Kind] /\ writable \in [Place -> BOOLEAN]
  /\ rootKnown \in BOOLEAN /\ changes \in 0 .. MaxChanges
  /\ pc \in {"ensure", "make", "check", "exists", "isdir", "create", "verify",
             "verifydir", "recheck", "load", "done"}
  /\ target \in Place /\ result \in {"none", "ok", "failed"}
  /\ loadedFrom \in Place \cup {"none"}
  /\ spoilt \subseteq Place

(* With k at p there cannot be a directory: something else is there, it     *)
(* cannot be looked at, or it is missing and cannot be made.                *)
Impossible(p, k) == k # "dir" /\ (k = "missing" => ~writable[p])

Init ==
  /\ fs \in [Place -> Kind] /\ writable \in [Place -> BOOLEAN]
  /\ rootKnown \in BOOLEAN /\ changes = 0
  /\ pc = "ensure" /\ target = "config" /\ result = "none" /\ loadedFrom = "none"
  /\ spoilt = {p \in Place : Impossible(p, fs[p])}

----------------------------------------------------------------------------
(* Looking at the file system, and create_directories *)

IsDirectory(p) == fs[p] = "dir"
Exists(p) == fs[p] \in {"dir", "file"}

(* std::filesystem::create_directories makes what is missing, accepts a     *)
(* directory and reports an error otherwise.                                *)
Creates(p) == fs[p] = "missing" /\ writable[p]
Creatable(p) == IsDirectory(p) \/ Creates(p)
CreateDirectories(p) ==
  /\ fs' = IF Creates(p) THEN [fs EXCEPT ![p] = "dir"] ELSE fs
  /\ UNCHANGED <<writable, rootKnown, changes, spoilt>>

----------------------------------------------------------------------------
(* The facade's constructor *)

Choose(p) == target' = p /\ pc' = "check"

(* ensureObsWritableDir: without a root there is nothing to make; a         *)
(* directory that is there is enough.                                       *)
Ensure ==
  /\ pc = "ensure"
  /\ \/ ~rootKnown /\ Choose("local")
     \/ rootKnown /\ IsDirectory("config") /\ Choose("config")
     \/ rootKnown /\ ~IsDirectory("config") /\ pc' = "make" /\ UNCHANGED target
  /\ UNCHANGED <<world, result, loadedFrom>>

Make ==
  /\ pc = "make"
  /\ Choose(IF Creatable("config") THEN "config" ELSE "local")
  /\ CreateDirectories("config")
  /\ UNCHANGED <<result, loadedFrom>>

----------------------------------------------------------------------------
(* StartupCheckService::run *)

Report(r) == result' = r /\ pc' = "load"
Continue(step) == pc' = step /\ UNCHANGED result

Check ==
  /\ pc = "check"
  /\ IF IsDirectory(target) THEN Report("ok") ELSE Continue("exists")
  /\ UNCHANGED <<world, target, loadedFrom>>

(* createIfMissing: something that exists has to be a directory; the error  *)
(* code that says it does not exist is cleared.                             *)
CheckExists ==
  /\ pc = "exists"
  /\ Continue(IF Exists(target) THEN "isdir" ELSE "create")
  /\ UNCHANGED <<world, target, loadedFrom>>

CheckIsDir ==
  /\ pc = "isdir"
  /\ IF IsDirectory(target) THEN Continue("recheck") ELSE Report("failed")
  /\ UNCHANGED <<world, target, loadedFrom>>

WrongCreate ==                   \* takes "nothing was made" for a failure
  /\ pc = "create"
  /\ IF Creates(target) THEN Continue("verify") ELSE Report("failed")
  /\ CreateDirectories(target)
  /\ UNCHANGED <<target, loadedFrom>>

Create ==
  /\ pc = "create"
  /\ IF Creatable(target) THEN Continue("verify") ELSE Report("failed")
  /\ CreateDirectories(target)
  /\ UNCHANGED <<target, loadedFrom>>

Verify ==
  /\ pc = "verify"
  /\ IF Exists(target) THEN Continue("verifydir") ELSE Report("failed")
  /\ UNCHANGED <<world, target, loadedFrom>>

VerifyDir ==
  /\ pc = "verifydir"
  /\ IF IsDirectory(target) THEN Continue("recheck") ELSE Report("failed")
  /\ UNCHANGED <<world, target, loadedFrom>>

Recheck ==
  /\ pc = "recheck"
  /\ Report(IF IsDirectory(target) THEN "ok" ELSE "failed")
  /\ UNCHANGED <<world, target, loadedFrom>>

(* obs_module_load goes on whatever the check said: plugins are loaded from *)
(* the configuration directory, if OBS knows it and it is there.            *)
LoadPlugins ==
  /\ pc = "load" /\ pc' = "done"
  /\ loadedFrom' = IF rootKnown /\ IsDirectory("config") THEN "config" ELSE "none"
  /\ UNCHANGED <<world, target, result>>

(* Somebody else makes, removes or replaces something.  That spoils p if a  *)
(* directory is taken away, or if none can be had there now.                *)
Change(p, k) ==
  /\ changes < MaxChanges /\ pc # "done" /\ fs[p] # k
  /\ fs' = [fs EXCEPT ![p] = k] /\ changes' = changes + 1
  /\ spoilt' = IF IsDirectory(p) \/ Impossible(p, k) THEN spoilt \cup {p} ELSE spoilt
  /\ UNCHANGED <<writable, rootKnown, pc, target, result, loadedFrom>>

Program == \/ Ensure \/ Make \/ Check \/ CheckExists \/ CheckIsDir \/ Create
           \/ Verify \/ VerifyDir \/ Recheck \/ LoadPlugins

Next == Program \/ \E p \in Place, k \in Kind : Change(p, k)

Spec == Init /\ [][Next]_vars

----------------------------------------------------------------------------
(* Properties *)

(* Whatever others do between its steps, the check reports a failure only   *)
(* of a place the world has spoilt, and OBS's directory is given up only if *)
(* it was: somebody took the directory away, or at some moment since the    *)
(* start none could be had there.  So another program that makes the same   *)
(* directory first, in any of the gaps between looking, making and looking  *)
(* again, causes no failure, and changes elsewhere cause none either.       *)
(* (StartupCheckService.cpp:32-49, StdFsDirectoryCreator.cpp:9-72)          *)
FailureHasCause ==
  /\ result = "failed" => target \in spoilt
  /\ pc \notin {"ensure", "make"} /\ target = "local" /\ rootKnown => "config" \in spoilt

(* Claimed by StartupCheckFacade.cpp:21-28: where OBS's directory cannot be *)
(* had, the program falls back to the one in the current directory; so it   *)
(* is what plugins are loaded from.                                         *)
FallbackIsUsed ==
  changes = 0 /\ pc = "done" /\ result = "ok" => loadedFrom = target

============================================================================
