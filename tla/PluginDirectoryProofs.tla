------------------------ MODULE PluginDirectoryProofs ------------------------
(***************************************************************************)
(* Machine-checked proofs about PluginDirectory: when the start-up check   *)
(* may fail or fall back, for any number of changes others make to the     *)
(* file system between two steps.                                          *)
(***************************************************************************)
EXTENDS PluginDirectory, TLAPS

USE ChangesAssumption

(* What the program knows at each step, and how the history backs it: every *)
(* place that cannot have a directory now is spoilt; what the program has   *)
(* seen of the target still holds, or the target has been spoilt since.     *)
HistoryIsKept == \A p \in Place : Impossible(p, fs[p]) => p \in spoilt

Known ==
  /\ HistoryIsKept
  /\ pc \in {"ensure", "make"} => target = "config" /\ result = "none"
  /\ pc \notin {"ensure", "make"} /\ target = "local" /\ rootKnown => "config" \in spoilt
  /\ pc = "isdir" => Exists(target) \/ target \in spoilt
  /\ pc \in {"verify", "verifydir", "recheck"} => IsDirectory(target) \/ target \in spoilt
  /\ pc \notin {"load", "done"} => result = "none"
  /\ result = "failed" => target \in spoilt

DirectoryInv == TypeOK /\ Known

LEMMA InitHolds ==
  ASSUME Init
  PROVE  DirectoryInv
BY DEF Init, DirectoryInv, TypeOK, Known, HistoryIsKept, Exists, IsDirectory, Place

(* create_directories makes a directory where it reports none to be missing,*)
(* and touches nothing else.                                                *)
LEMMA CreationWorks ==
  ASSUME TypeOK, NEW p \in Place, CreateDirectories(p)
  PROVE  /\ fs' \in [Place -> Kind]
         /\ Creatable(p) => fs'[p] = "dir"
         /\ ~Creatable(p) => fs' = fs /\ Impossible(p, fs[p])
         /\ \A q \in Place \ {p} : fs'[q] = fs[q]
BY DEF TypeOK, CreateDirectories, Creatable, Creates, IsDirectory, Impossible, Kind

(* A new directory makes no place impossible. *)
LEMMA CreationKeepsHistory ==
  ASSUME TypeOK, HistoryIsKept, NEW p \in Place, CreateDirectories(p)
  PROVE  HistoryIsKept'
<1>1. fs'[p] \in {fs[p], "dir"} /\ \A q \in Place \ {p} : fs'[q] = fs[q]
  BY CreationWorks DEF CreateDirectories
<1> QED BY <1>1 DEF HistoryIsKept, Impossible, CreateDirectories

LEMMA ProgramKeepsTypes ==
  ASSUME TypeOK, Program
  PROVE  TypeOK'
<1> USE DEF TypeOK, Continue, Report, Choose, Place
<1>1. CASE Ensure
  BY <1>1 DEF Ensure, world
<1>2. CASE Make
  BY <1>2, CreationWorks DEF Make, CreateDirectories
<1>3. CASE Check \/ CheckExists \/ CheckIsDir \/ Verify \/ VerifyDir \/ Recheck
  BY <1>3 DEF Check, CheckExists, CheckIsDir, Verify, VerifyDir, Recheck, world
<1>4. CASE Create
  BY <1>4, CreationWorks DEF Create, CreateDirectories
<1>5. CASE LoadPlugins
  BY <1>5 DEF LoadPlugins, world
<1> QED
  BY <1>1, <1>2, <1>3, <1>4, <1>5 DEF Program

LEMMA ProgramKnows ==
  ASSUME TypeOK, Known, Program
  PROVE  Known'
<1> USE DEF TypeOK, Known, Continue, Report, Choose
<1>1. target \in Place /\ "config" \in Place
  BY DEF Place
<1>2. CASE Ensure \/ Check \/ CheckExists \/ CheckIsDir \/ Verify \/ VerifyDir \/ Recheck \/ LoadPlugins
  <2>1. UNCHANGED <<fs, writable, spoilt, rootKnown>>
    BY <1>2 DEF Ensure, Check, CheckExists, CheckIsDir, Verify, VerifyDir, Recheck, LoadPlugins, world
  <2>2. HistoryIsKept'
    BY <2>1 DEF HistoryIsKept, Impossible
  <2>3. Exists(target) /\ ~IsDirectory(target) => target \in spoilt
    BY <1>1 DEF Exists, IsDirectory, HistoryIsKept, Impossible
  <2>4. IsDirectory(target) => Exists(target)
    BY DEF Exists, IsDirectory
  <2>5. IsDirectory(target)' <=> fs[target'] = "dir"
    BY <2>1 DEF IsDirectory
  <2>6. Exists(target)' <=> fs[target'] \in {"dir", "file"}
    BY <2>1 DEF Exists
  <2> USE DEF Exists, IsDirectory
  <2>7. CASE Ensure
    BY <2>1, <2>2, <2>7 DEF Ensure, world
  <2>8. CASE Check \/ CheckExists \/ CheckIsDir
    BY <2>1, <2>2, <2>3, <2>5, <2>6, <2>8 DEF Check, CheckExists, CheckIsDir, world
  <2>9. CASE Verify \/ VerifyDir \/ Recheck \/ LoadPlugins
    BY <2>1, <2>2, <2>3, <2>4, <2>5, <2>6, <2>9 DEF Verify, VerifyDir, Recheck, LoadPlugins, world
  <2> QED BY <1>2, <2>7, <2>8, <2>9
<1>3. CASE Make
  <2>1. HistoryIsKept' /\ UNCHANGED <<spoilt, rootKnown>>
    BY <1>1, <1>3, CreationKeepsHistory DEF Make, CreateDirectories
  <2>2. ~Creatable("config") => "config" \in spoilt
    BY <1>1, <1>3, CreationWorks DEF Make, HistoryIsKept
  <2> QED BY <1>3, <2>1, <2>2 DEF Make
<1>4. CASE Create
  <2>1. HistoryIsKept' /\ UNCHANGED <<spoilt, rootKnown, target>>
    BY <1>1, <1>4, CreationKeepsHistory DEF Create, CreateDirectories
  <2>2. ~Creatable(target) => target \in spoilt
    BY <1>1, <1>4, CreationWorks DEF Create, HistoryIsKept
  <2>3. Creatable(target) => IsDirectory(target)'
    BY <1>1, <1>4, <2>1, CreationWorks DEF Create, IsDirectory
  <2> QED BY <1>4, <2>1, <2>2, <2>3 DEF Create
<1> QED
  BY <1>2, <1>3, <1>4 DEF Program

(* A change by others spoils what it takes away or makes impossible.        *)
LEMMA ChangeKnows ==
  ASSUME TypeOK, Known, NEW p \in Place, NEW k \in Kind, Change(p, k)
  PROVE  Known'
<1>1. /\ UNCHANGED <<writable, rootKnown, pc, target, result>>
      /\ fs'[p] = k /\ \A q \in Place \ {p} : fs'[q] = fs[q]
      /\ spoilt \subseteq spoilt'
      /\ IsDirectory(p) \/ Impossible(p, k) => p \in spoilt'
  BY DEF Change, TypeOK
<1>2. target \in Place
  BY DEF TypeOK
<1>3. HistoryIsKept'
  BY <1>1 DEF Known, HistoryIsKept, Impossible
<1>4. IsDirectory(target) => IsDirectory(target)' \/ target' \in spoilt'
  BY <1>1, <1>2 DEF IsDirectory
<1>5. Exists(target) => Exists(target)' \/ target' \in spoilt'
  BY <1>1, <1>2 DEF Exists, IsDirectory, Impossible, Known, HistoryIsKept
<1> QED BY <1>1, <1>3, <1>4, <1>5 DEF Known

LEMMA NextKeepsInv ==
  ASSUME DirectoryInv, [Next]_vars
  PROVE  DirectoryInv'
<1> USE DEF DirectoryInv
<1>1. CASE Program
  BY <1>1, ProgramKeepsTypes, ProgramKnows
<1>2. CASE UNCHANGED vars
  BY <1>2 DEF vars, TypeOK, Known, HistoryIsKept, Impossible, IsDirectory, Exists
<1>3. ASSUME NEW p \in Place, NEW k \in Kind, Change(p, k)
      PROVE  DirectoryInv'
  <2>1. TypeOK'
    BY <1>3 DEF Change, TypeOK
  <2> QED BY <1>3, <2>1, ChangeKnows
<1> QED
  BY <1>1, <1>2, <1>3 DEF Next

LEMMA DirectoryInvariance == Spec => []DirectoryInv
BY InitHolds, NextKeepsInv, PTL DEF Spec

(* The variables of the check keep their types. *)
THEOREM DirectoryTypes == Spec => []TypeOK
BY DirectoryInvariance, PTL DEF DirectoryInv

(* However often others change the file system and whenever they do, the    *)
(* check fails, and falls back, only where the world has spoilt the place   *)
(* (StartupCheckService.cpp:32-49, StdFsDirectoryCreator.cpp:9-72,          *)
(* StartupCheckFacade.cpp:13-29).                                           *)
THEOREM FailsOnlyForCause == Spec => []FailureHasCause
<1>1. DirectoryInv => FailureHasCause
  BY DEF DirectoryInv, Known, FailureHasCause
<1> QED BY <1>1, DirectoryInvariance, PTL

=============================================================================
