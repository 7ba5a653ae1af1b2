-------------------------- MODULE PluginMainProofs --------------------------
(***************************************************************************)
(* Machine-checked proofs about PluginMain: what obs_module_unload leaves  *)
(* behind, and what the log lets through, for any set of plugins.           *)
(***************************************************************************)
EXTENDS PluginMain, TLAPS

USE DEF plugins, ui, log

(* Between loadAndStart's calls a plugin is on the host's list or is not    *)
(* there, and stopAndUnloadAll empties the list.                            *)
RegisterFits ==
  /\ \A o \in Plugin : register[o] = "no" /\ pc # "plugins" => phase[o] = "absent"
  /\ pc = "plugins" => \A o \in Plugin : register[o] # "withdrawn"
  /\ pc \in {"stopping", "unloaded", "terminated"} => \A o \in Plugin : register[o] # "listed"
  /\ pc = "unloaded" => \A o \in Plugin : register[o] = "no"

(* The pointer is set exactly while the dialog lives, and unloading leaves  *)
(* no living dialog or menu.                                                *)
UiFits ==
  /\ helloWindow <=> dialog = "alive"
  /\ pc \in {"plugins", "ui"} => dialog = "none"
  /\ pc = "unloaded" => ~helloWindow /\ menu # "alive"

(* A plugin logs between the start of its init and the end of its deinit.   *)
(* The level now in force is among those a call under way has seen, and a   *)
(* call that has got past the filter was called for by one of them.         *)
LogFits ==
  \A o \in Plugin : Log!Busy(o) =>
    /\ phase[o] \in {"starting", "live", "deinit"}
    /\ minLevel \in logCall[o].seen
    /\ logCall[o].at \in {"format", "write"} =>
         \E m \in logCall[o].seen : logCall[o].level >= m

MainInv == TypeOK /\ RegisterFits /\ UiFits /\ LogFits

----------------------------------------------------------------------------

LEMMA InitMain == Init => MainInv
BY DEF Init, MainInv, TypeOK, RegisterFits, UiFits, LogFits,
       Log!LogInit, Log!LogTypeOK, Log!Busy, Host!Init, Host!TypeOK, Host!Phase, Host!Status

(* A step that leaves the log alone must leave who logs alone too. *)
LEMMA LogUntouched ==
  ASSUME MainInv, UNCHANGED log,
         \A o \in Plugin : Log!Busy(o) => phase'[o] \in {"starting", "live", "deinit"}
  PROVE  Log!LogTypeOK' /\ LogFits'
BY DEF MainInv, TypeOK, LogFits, Log!LogTypeOK, Log!Busy

LEMMA SetMinLevelFits ==
  ASSUME MainInv, NEW level \in Level, Log!SetMinLevel(level), UNCHANGED phase
  PROVE  Log!LogTypeOK' /\ LogFits'
<1> USE DEF Log!Busy, Log!None
<1>1. Log!LogTypeOK /\ LogFits
  BY DEF MainInv, TypeOK
<1>2. \A o \in Plugin :
        /\ ~Log!Busy(o) => logCall'[o] = logCall[o]
        /\ Log!Busy(o) =>
             logCall'[o] = [logCall[o] EXCEPT !.seen = @ \cup {level}]
  BY DEF Log!SetMinLevel
<1>3. ASSUME NEW o \in Plugin, Log!Busy(o)
      PROVE  /\ logCall[o] \in Log!InCall /\ logCall'[o] \in Log!InCall
             /\ logCall'[o].at = logCall[o].at /\ logCall'[o].level = logCall[o].level
             /\ logCall'[o].seen = logCall[o].seen \cup {level}
  <2>1. logCall[o] \in Log!InCall
    BY <1>1, <1>3 DEF Log!LogTypeOK
  <2>2. logCall[o].seen \cup {level} \in SUBSET Level
    BY <2>1 DEF Log!InCall
  <2>3. logCall'[o] = [at |-> logCall[o].at, level |-> logCall[o].level,
                       seen |-> logCall[o].seen \cup {level}]
    BY <1>2, <1>3, <2>1 DEF Log!InCall
  <2> QED BY <2>1, <2>2, <2>3 DEF Log!InCall
<1>4. Log!LogTypeOK'
  BY <1>1, <1>2, <1>3 DEF Log!SetMinLevel, Log!LogTypeOK
<1>5. LogFits'
  <2> SUFFICES ASSUME NEW o \in Plugin, Log!Busy(o)'
               PROVE  /\ phase'[o] \in {"starting", "live", "deinit"}
                      /\ minLevel' \in logCall'[o].seen
                      /\ logCall'[o].at \in {"format", "write"} =>
                           \E m \in logCall'[o].seen : logCall'[o].level >= m
    BY DEF LogFits
  <2>1. Log!Busy(o)
    BY <1>2
  <2>2. minLevel' = level
    BY DEF Log!SetMinLevel
  <2> QED BY <1>1, <1>3, <2>1, <2>2 DEF LogFits
<1> QED BY <1>4, <1>5

(* One caller's own step in the log. *)
LEMMA CallFits ==
  ASSUME MainInv, NEW o \in Plugin, UNCHANGED <<phase, minLevel>>,
         logCall' = [logCall EXCEPT ![o] = logCall'[o]],
         logCall'[o] \in Log!InCall \cup {Log!None},
         logCall'[o] # Log!None =>
           /\ phase[o] \in {"starting", "live", "deinit"}
           /\ minLevel \in logCall'[o].seen
           /\ logCall'[o].at \in {"format", "write"} =>
                \E m \in logCall'[o].seen : logCall'[o].level >= m
  PROVE  Log!LogTypeOK' /\ LogFits'
<1>1. Log!LogTypeOK /\ LogFits
  BY DEF MainInv, TypeOK
<1>2. \A q \in Plugin : q # o => logCall'[q] = logCall[q]
  BY <1>1 DEF Log!LogTypeOK
<1>3. Log!LogTypeOK'
  BY <1>1 DEF Log!LogTypeOK
<1>4. LogFits'
  BY <1>1, <1>2 DEF LogFits, Log!Busy
<1> QED BY <1>3, <1>4

LEMMA LogCallFits ==
  ASSUME MainInv, NEW o \in Plugin, NEW level \in Level, NEW entry \in {"log", "logVa"},
         Log!Log(o, level, entry), UNCHANGED phase,
         phase[o] \in {"starting", "live", "deinit"}
  PROVE  Log!LogTypeOK' /\ LogFits'
<1>1. Log!LogTypeOK
  BY DEF MainInv, TypeOK
<1>2. logCall'[o] = [at |-> entry, level |-> level, seen |-> {minLevel}]
  BY <1>1 DEF Log!Log, Log!LogTypeOK
<1>3. logCall'[o] \in Log!InCall
  BY <1>1, <1>2 DEF Log!InCall, Log!LogTypeOK
<1>4. logCall' = [logCall EXCEPT ![o] = logCall'[o]] /\ UNCHANGED minLevel
  BY <1>2 DEF Log!Log
<1> QED BY <1>2, <1>3, <1>4, CallFits

LEMMA LogStepFits ==
  ASSUME MainInv, NEW o \in Plugin, Log!LogStep(o), UNCHANGED phase
  PROVE  Log!LogTypeOK' /\ LogFits'
<1> USE DEF Log!Goto, Log!Return, Log!LetThrough
<1>1. Log!LogTypeOK /\ LogFits
  BY DEF MainInv, TypeOK
<1>2. Log!Busy(o)
  BY DEF Log!LogStep, Log!CheckFirst, Log!Check, Log!Format, Log!Write, Log!Busy, Log!None
<1>3. /\ logCall[o] \in Log!InCall
      /\ phase[o] \in {"starting", "live", "deinit"} /\ minLevel \in logCall[o].seen
      /\ logCall[o].at \in {"format", "write"} =>
           \E m \in logCall[o].seen : logCall[o].level >= m
  BY <1>1, <1>2 DEF Log!LogTypeOK, LogFits, Log!Busy
<1>4. /\ UNCHANGED minLevel
      /\ \/ logCall' = [logCall EXCEPT ![o] = Log!None]
         \/ \E at \in {"logVa", "format", "write"} :
              /\ logCall' = [logCall EXCEPT ![o].at = at]
              /\ at # "logVa" =>
                   logCall[o].level >= minLevel \/ logCall[o].at \in {"format", "write"}
  BY DEF Log!LogStep, Log!CheckFirst, Log!Check, Log!Format, Log!Write
<1>5. CASE logCall' = [logCall EXCEPT ![o] = Log!None]
  <2>1. logCall'[o] = Log!None
    BY <1>1, <1>5 DEF Log!LogTypeOK
  <2> QED BY <1>4, <1>5, <2>1, CallFits
<1>6. ASSUME NEW at \in {"logVa", "format", "write"},
             logCall' = [logCall EXCEPT ![o].at = at],
             at # "logVa" =>
               logCall[o].level >= minLevel \/ logCall[o].at \in {"format", "write"}
      PROVE  Log!LogTypeOK' /\ LogFits'
  <2>1. logCall'[o] = [logCall[o] EXCEPT !.at = at]
    BY <1>1, <1>6 DEF Log!LogTypeOK
  <2>2. /\ logCall'[o] \in Log!InCall /\ logCall'[o].at = at
        /\ logCall'[o].level = logCall[o].level /\ logCall'[o].seen = logCall[o].seen
    BY <1>3, <2>1 DEF Log!InCall
  <2>3. at \in {"format", "write"} => \E m \in logCall[o].seen : logCall[o].level >= m
    BY <1>3, <1>6
  <2>4. logCall' = [logCall EXCEPT ![o] = logCall'[o]]
    BY <1>6, <2>1
  <2> QED BY <1>3, <1>4, <2>2, <2>3, <2>4, CallFits
<1> QED BY <1>4, <1>5, <1>6

LEMMA StepMain == MainInv /\ [Next]_vars => MainInv'
<1> SUFFICES ASSUME MainInv, [Next]_vars PROVE MainInv'
  OBVIOUS
<1> USE DEF MainInv
<1>1. ASSUME NEW o \in Plugin, LoadPlugin(o) PROVE MainInv'
  <2>1. /\ pc = "plugins" /\ UNCHANGED <<failed, pc, ui, log>>
        /\ Host!TypeOK' /\ \A q \in Plugin : register'[q] # "withdrawn"
        /\ \A q \in Plugin :
             phase[q] \in {"starting", "live", "deinit"} => phase'[q] = phase[q]
    BY <1>1 DEF LoadPlugin, TypeOK, RegisterFits, Host!TypeOK, Host!Phase, Host!Status,
                Host!Open, Host!Discard, Host!Start, Host!List, Host!Move
  <2>2. Log!LogTypeOK' /\ LogFits'
    BY <2>1, LogUntouched DEF LogFits
  <2> QED BY <2>1, <2>2 DEF TypeOK, RegisterFits, UiFits
<1>2. ASSUME NEW o \in Plugin, Run(o) PROVE MainInv'
  <2>1. /\ UNCHANGED <<pc, ui, register, log>> /\ Host!TypeOK' /\ failed' \subseteq Plugin
        /\ phase[o] # "absent" /\ \A q \in Plugin : q # o => phase'[q] = phase[q]
        /\ phase'[o] \in {"live", "deinit"} \/ ~Log!Busy(o)
    BY <1>2 DEF Run, Worker, TypeOK, Host!TypeOK, Host!Phase, Host!Move,
                Host!InitSucceeds, Host!InitFails, Host!BeginDeinit, Host!EndDeinit
  <2>2. Log!LogTypeOK' /\ LogFits'
    BY <2>1, LogUntouched DEF LogFits
  <2>3. TypeOK' /\ UiFits'
    BY <2>1, <2>2 DEF TypeOK, UiFits
  <2>4. RegisterFits'
    BY <2>1 DEF RegisterFits
  <2> QED BY <2>2, <2>3, <2>4
<1>3. CASE PluginsLoaded
  <2>1. Log!LogTypeOK' /\ LogFits'
    BY <1>3, LogUntouched DEF PluginsLoaded, LogFits
  <2> QED BY <1>3, <2>1 DEF PluginsLoaded, InHand, TypeOK, RegisterFits, UiFits, Host!TypeOK
<1>4. ASSUME NEW act \in BOOLEAN, AddUi(act) PROVE MainInv'
  <2>1. Log!LogTypeOK' /\ LogFits'
    BY <1>4, LogUntouched DEF AddUi, LogFits
  <2>2. TypeOK'
    BY <1>4, <2>1 DEF AddUi, NewWindow, TypeOK, UiFits, Host!TypeOK
  <2>3. RegisterFits' /\ UiFits'
    BY <1>4 DEF AddUi, NewWindow, RegisterFits, UiFits
  <2> QED BY <2>1, <2>2, <2>3
<1>5. CASE OpenHaloWindow \/ CloseDialog \/ DeleteDialog \/ DeleteMenu \/ DestroyMain
  <2> USE DEF OpenHaloWindow, CloseDialog, DeleteDialog, DeleteMenu, DestroyMain,
              InLoop, ShowHaloWindow, Destroyed
  <2>1. UNCHANGED <<plugins, pc, log>> /\ pc \in {"running", "unloaded"}
    BY <1>5
  <2>5. Log!LogTypeOK' /\ LogFits'
    BY <2>1, LogUntouched DEF LogFits
  <2>2. TypeOK'
    <3> USE <2>5
    <3>1. CASE OpenHaloWindow
      BY <3>1 DEF TypeOK, UiFits, Host!TypeOK
    <3>2. CASE CloseDialog
      BY <3>2 DEF TypeOK, Host!TypeOK
    <3>3. CASE DeleteDialog
      BY <3>3 DEF TypeOK, Host!TypeOK
    <3>4. CASE DeleteMenu
      BY <3>4 DEF TypeOK, Host!TypeOK
    <3>5. CASE DestroyMain
      BY <3>5 DEF TypeOK, Host!TypeOK
    <3> QED BY <1>5, <3>1, <3>2, <3>3, <3>4, <3>5
  <2>3. RegisterFits'
    BY <2>1 DEF RegisterFits
  <2>4. UiFits'
    BY <1>5 DEF UiFits
  <2> QED BY <2>2, <2>3, <2>4, <2>5
<1>6. CASE Unload
  <2>1. /\ pc = "running" /\ pc' = "stopping" /\ UNCHANGED <<phase, failed, ui, log>>
        /\ register' \in [Plugin -> Host!Status]
        /\ \A o \in Plugin : /\ register'[o] # "listed"
                             /\ register'[o] = "no" => register[o] = "no"
    <3>1. CASE Listed = {}
      BY <1>6, <3>1 DEF Unload, Listed, TypeOK, Host!TypeOK
    <3>2. CASE Listed # {}
      BY <1>6, <3>2 DEF Unload, Listed, TypeOK, Host!TypeOK, Host!Status, Host!Withdraw
    <3> QED BY <3>1, <3>2
  <2>2. Log!LogTypeOK' /\ LogFits'
    BY <2>1, LogUntouched DEF LogFits
  <2>3. TypeOK' /\ UiFits'
    BY <2>1, <2>2 DEF TypeOK, UiFits, Host!TypeOK
  <2>4. RegisterFits'
    BY <2>1 DEF RegisterFits
  <2> QED BY <2>2, <2>3, <2>4
<1>7. ASSUME NEW o \in Plugin, ClosePlugin(o) PROVE MainInv'
  <2>1. /\ pc = "stopping" /\ UNCHANGED <<failed, pc, ui, log>> /\ Host!TypeOK'
        /\ phase[o] = "quiet" /\ phase' = [phase EXCEPT ![o] = "absent"]
        /\ register' = [register EXCEPT ![o] = "no"]
    BY <1>7 DEF ClosePlugin, TypeOK, Host!TypeOK, Host!Phase, Host!Status, Host!Close
  <2>2. Log!LogTypeOK' /\ LogFits'
    BY <2>1, LogUntouched DEF LogFits, TypeOK, Host!TypeOK
  <2>3. TypeOK' /\ UiFits'
    BY <2>1, <2>2 DEF TypeOK, UiFits
  <2>4. RegisterFits'
    BY <2>1 DEF RegisterFits, TypeOK, Host!TypeOK
  <2> QED BY <2>2, <2>3, <2>4
<1>8. CASE Terminate
  <2>1. Log!LogTypeOK' /\ LogFits'
    BY <1>8, LogUntouched DEF Terminate, LogFits
  <2> QED BY <1>8, <2>1 DEF Terminate, TypeOK, RegisterFits, UiFits, Host!TypeOK
<1>9. CASE RemoveUi
  <2>1. Log!LogTypeOK' /\ LogFits'
    BY <1>9, LogUntouched DEF RemoveUi, LogFits
  <2>2. TypeOK' /\ UiFits'
    BY <1>9, <2>1 DEF RemoveUi, TypeOK, UiFits, Host!TypeOK
  <2>3. RegisterFits'
    BY <1>9 DEF RemoveUi, Withdrawn, RegisterFits, TypeOK, Host!TypeOK, Host!Status
  <2> QED BY <2>1, <2>2, <2>3
<1>10. ASSUME NEW o \in Plugin, UseLog(o) \/ GoOnLogging(o) PROVE MainInv'
  <2>1. UNCHANGED <<plugins, pc, ui>>
    BY <1>10 DEF UseLog, GoOnLogging
  <2>2. Log!LogTypeOK' /\ LogFits'
    BY <1>10, <2>1, SetMinLevelFits, LogCallFits, LogStepFits DEF UseLog, GoOnLogging
  <2> QED BY <2>1, <2>2 DEF TypeOK, RegisterFits, UiFits, Host!TypeOK
<1>11. CASE UNCHANGED vars
  <2>1. Log!LogTypeOK' /\ LogFits'
    BY <1>11, LogUntouched DEF vars, LogFits
  <2> QED BY <1>11, <2>1 DEF vars, TypeOK, RegisterFits, UiFits, Host!TypeOK
<1> QED
  BY <1>1, <1>2, <1>3, <1>4, <1>5, <1>6, <1>7, <1>8, <1>9, <1>10, <1>11 DEF Next, Unloading

(* The invariant holds from load to unload. *)
THEOREM MainInvariance == Spec => []MainInv
BY InitMain, StepMain, PTL DEF Spec

(* The variables keep their types.  (plugin-main.cpp:59-151) *)
THEOREM MainTypes == Spec => []TypeOK
<1>1. MainInv => TypeOK
  BY DEF MainInv
<1> QED BY <1>1, MainInvariance, PTL

(* The facade never hands out a dialog that is gone or about to go, whoever *)
(* destroys it.  (plugin-main.cpp:127-129, 143-147)                         *)
THEOREM WindowStaysFit == Spec => []WindowIsFit
<1>1. MainInv => WindowIsFit
  BY DEF MainInv, UiFits, WindowIsFit
<1> QED BY <1>1, MainInvariance, PTL

(* Unloading leaves no plugin, no menu and no window, for any number of     *)
(* plugins in any state.  (plugin-main.cpp:114-117, 139-149)                *)
THEOREM UnloadIsComplete == Spec => []NothingIsLeft
<1>1. MainInv => NothingIsLeft
  BY DEF MainInv, RegisterFits, UiFits, LogFits, NothingIsLeft
<1> QED BY <1>1, MainInvariance, PTL

(* After unloading the Tools menu's item opens nothing.                     *)
(* (plugin-main.cpp:44-49, 132, 147)                                        *)
THEOREM ItemIsDead == Spec => StaysClosed
<1>1. MainInv /\ [Next]_vars => [pc = "unloaded" => (visible' => visible)]_vars
  <2> SUFFICES ASSUME MainInv, Next, pc = "unloaded", visible' PROVE visible
    BY DEF vars
  <2>1. CASE OpenHaloWindow
    BY <2>1 DEF OpenHaloWindow, ShowHaloWindow, MainInv, UiFits
  <2>2. CASE ~OpenHaloWindow
    BY <2>2 DEF Next, Unloading, LoadPlugin, Run, UseLog, GoOnLogging, PluginsLoaded, AddUi, NewWindow, CloseDialog,
                DeleteDialog, DeleteMenu, DestroyMain, Destroyed, Unload, RemoveUi,
                Terminate, ClosePlugin
  <2> QED BY <2>1, <2>2
<1> QED BY <1>1, MainInvariance, PTL DEF Spec, StaysClosed

LEMMA OthersLeaveLog ==
  ASSUME Next, \A o \in Plugin : ~UseLog(o) /\ ~GoOnLogging(o)
  PROVE  UNCHANGED log
BY DEF Next, Unloading, LoadPlugin, Run, PluginsLoaded, AddUi, OpenHaloWindow, CloseDialog,
       DeleteDialog, DeleteMenu, DestroyMain, Unload, ClosePlugin, Terminate, RemoveUi

(* Only a caller's own step ends its call. *)
LEMMA OnlyStepsEnd ==
  ASSUME MainInv, Next, NEW o \in Plugin, Log!Busy(o), ~Log!Busy(o)'
  PROVE  Log!LogStep(o)
<1> USE DEF Log!Busy
<1>1. Log!LogTypeOK
  BY DEF MainInv, TypeOK
<1>2. PICK q \in Plugin : UseLog(q) \/ GoOnLogging(q)
  BY OthersLeaveLog
<1>3. ASSUME NEW level \in Level, Log!SetMinLevel(level) PROVE FALSE
  <2>1. logCall[o] \in Log!InCall /\ logCall'[o] = [logCall[o] EXCEPT !.seen = @ \cup {level}]
    BY <1>1, <1>3 DEF Log!SetMinLevel, Log!LogTypeOK
  <2>2. logCall'[o].at = logCall[o].at /\ logCall[o].at # "none"
    BY <2>1 DEF Log!InCall
  <2> QED BY <2>2 DEF Log!None
<1>4. ASSUME NEW level \in Level, NEW entry \in {"log", "logVa"}, Log!Log(q, level, entry)
      PROVE FALSE
  BY <1>1, <1>4 DEF Log!Log, Log!LogTypeOK
<1>5. Log!LogStep(q)
  BY <1>2, <1>3, <1>4 DEF UseLog, GoOnLogging
<1>6. CASE q # o
  <2>1. logCall'[o] = logCall[o]
    BY <1>1, <1>5, <1>6 DEF Log!LogStep, Log!CheckFirst, Log!Check, Log!Format, Log!Write,
                            Log!Goto, Log!Return, Log!LogTypeOK
  <2> QED BY <2>1
<1> QED BY <1>5, <1>6

(* Whoever logs, and whoever changes the level meanwhile, every line        *)
(* written and every line the filter drops accords with a level in force    *)
(* during its call.  (FoxclipLogApi.c:40-49, 95-104)                        *)
THEOREM LogStaysFair == Spec => LogIsFair
<1>1. MainInv /\ [Next]_vars =>
        [\A c \in Plugin :
           /\ Log!Writes(c) => \E m \in logCall[c].seen : logCall[c].level >= m
           /\ Log!Drops(c) => \E m \in logCall[c].seen : logCall[c].level < m]_Log!logVars
  <2> SUFFICES ASSUME MainInv, Next, NEW o \in Plugin, Log!Busy(o), ~Log!Busy(o)'
               PROVE  /\ logCall[o].at = "write" =>
                            \E m \in logCall[o].seen : logCall[o].level >= m
                      /\ logCall[o].at \in {"log", "logVa"} =>
                            \E m \in logCall[o].seen : logCall[o].level < m
    BY DEF vars, Log!logVars, Log!Writes, Log!Drops, Log!Busy, Log!None
  <2>1. /\ Log!LogTypeOK /\ LogFits /\ logCall[o] \in Log!InCall
        /\ minLevel \in logCall[o].seen /\ minLevel \in Nat /\ logCall[o].level \in Nat
    BY LevelAssumption DEF MainInv, TypeOK, LogFits, Log!LogTypeOK, Log!Busy, Log!InCall
  <2>2. Log!LogStep(o)
    BY OnlyStepsEnd
  <2>3. logCall[o].at \in {"log", "logVa"} => logCall[o].level < minLevel
    BY <2>1, <2>2 DEF Log!LogStep, Log!CheckFirst, Log!Check, Log!Format, Log!Write,
                      Log!Goto, Log!LetThrough, Log!LogTypeOK, Log!Busy, Log!None, Log!InCall
  <2> QED BY <2>1, <2>3 DEF LogFits
<1> QED BY <1>1, MainInvariance, PTL DEF Spec, LogIsFair, Log!FilterIsFair

(* Seen through the log alone, the module's life is a life of the log.      *)
(* (HostApiV1.cpp:7-42)                                                     *)
THEOREM LogIsApart == Spec => Log!LogSpec
<1>1. Init => Log!LogInit
  BY DEF Init
<1>2. [Next]_vars => [Log!LogNext]_Log!logVars
  <2> SUFFICES ASSUME Next PROVE Log!LogNext \/ UNCHANGED Log!logVars
    BY DEF vars, Log!logVars
  <2>1. ASSUME NEW o \in Plugin, UseLog(o) \/ GoOnLogging(o) PROVE Log!LogNext
    BY <2>1 DEF UseLog, GoOnLogging, Log!LogNext
  <2> QED BY <2>1, OthersLeaveLog DEF Log!logVars
<1> QED BY <1>1, <1>2, PTL DEF Spec, Log!LogSpec

============================================================================
