----------------------------- MODULE PluginMain -----------------------------
(***************************************************************************)
(* plugin-main.cpp: what obs_module_load builds up and obs_module_unload   *)
(* takes down, on the UI thread, while the plugins run on threads of their *)
(* own and OBS may destroy its main window with everything in it.          *)
(*                                                                         *)
(* The plugin host is its abstract life cycle (PluginLifecycle, which      *)
(* PluginHost implements), the menu registry its one top-level menu; what  *)
(* plugins call in the host's table is the log (LogApi).  The start-up     *)
(* check comes before all this (PluginDirectory); the actions that only    *)
(* log change nothing and are left out.                                    *)
(***************************************************************************)
EXTENDS Naturals

CONSTANTS
  Plugin,   (* the plugins the plugin directory may hold                     *)
  Level     (* the levels of the log                                         *)

ASSUME LevelAssumption == Level \subseteq Nat

VARIABLES
  phase, register,   (* the plugins, as in PluginLifecycle                      *)
  failed,            (* the plugins whose init has failed                       *)
  pc,                (* where the UI thread is: in obs_module_load ("plugins",  *)
                     (* "ui"), in its event loop before and after unloading     *)
                     (* ("running", "unloaded"), in obs_module_unload           *)
                     (* ("stopping"); or the process is "terminated"            *)
  main,              (* does OBS's main window exist?                           *)
  menu, dialog,      (* the top-level menu and the QtHelloWindow; "doomed" once *)
                     (* given to deleteLater                                    *)
  item,              (* is "Open Halo Window" in the Tools menu?                *)
  visible,           (* is the dialog on the screen?                            *)
  helloWindow,       (* is the pointer to the dialog other than null?           *)
  windowFacade,      (* is there a window facade?                               *)
  minLevel, logCall  (* the log, as in LogApi                                   *)

plugins == <<phase, register, failed>>
ui      == <<main, menu, dialog, item, visible, helloWindow, windowFacade>>
log     == <<minLevel, logCall>>
vars    == <<plugins, pc, ui, log>>

Host == INSTANCE PluginLifecycle WITH Object <- Plugin
Log  == INSTANCE LogApi WITH Caller <- Plugin

TypeOK ==
  /\ Host!TypeOK /\ Log!LogTypeOK
  /\ failed \subseteq Plugin
  /\ pc \in {"plugins", "ui", "running", "stopping", "unloaded", "terminated"}
  /\ menu \in {"none", "alive", "doomed"} /\ dialog \in {"none", "alive", "doomed"}
  /\ main \in BOOLEAN /\ item \in BOOLEAN /\ visible \in BOOLEAN
  /\ helloWindow \in BOOLEAN /\ windowFacade \in BOOLEAN
  /\ (visible => dialog # "none") /\ (item => main)

(* Without a frontend OBS has no main window. *)
Init ==
  /\ Host!Init /\ Log!LogInit
  /\ failed = {}
  /\ pc = "plugins"
  /\ main \in BOOLEAN
  /\ menu = "none" /\ dialog = "none"
  /\ item = FALSE /\ visible = FALSE
  /\ helloWindow = FALSE /\ windowFacade = FALSE

----------------------------------------------------------------------------
(* obs_module_load *)

(* loadAll hands one plugin after the other to the host; a library without  *)
(* the entry points is discarded.                                           *)
InHand == {o \in Plugin : phase[o] # "absent" /\ register[o] = "no"}

LoadPlugin(o) ==
  /\ pc = "plugins"
  /\ \/ InHand = {} /\ Host!Open(o)
     \/ Host!Discard(o) \/ Host!Start(o) \/ Host!List(o)
  /\ UNCHANGED <<failed, pc, ui, log>>

PluginsLoaded ==
  /\ pc = "plugins" /\ InHand = {} /\ pc' = "ui"
  /\ UNCHANGED <<plugins, ui, log>>

(* A new dialog is not on the screen yet. *)
NewWindow == dialog' = "alive" /\ visible' = FALSE

(* The menu needs a menu bar.  Without the Tools menu action the rest is    *)
(* left out.                                                                *)
AddUi(act) ==
  /\ pc = "ui" /\ pc' = "running"
  /\ act => main
  /\ menu' = IF main THEN "alive" ELSE "none"
  /\ IF act THEN NewWindow ELSE UNCHANGED <<dialog, visible>>
  /\ helloWindow' = act /\ windowFacade' = act /\ item' = act
  /\ UNCHANGED <<plugins, main, log>>

----------------------------------------------------------------------------
(* The plugins' threads *)

WrongWorker(o) ==                \* never looks at the flag
  \/ Host!InitSucceeds(o) /\ UNCHANGED failed
  \/ Host!InitFails(o)    /\ failed' = failed \cup {o}
  \/ Host!EndDeinit(o)    /\ UNCHANGED failed

Worker(o) ==
  \/ Host!InitSucceeds(o) /\ UNCHANGED failed
  \/ Host!InitFails(o)    /\ failed' = failed \cup {o} /\ ~Log!Busy(o)
  \/ Host!BeginDeinit(o)  /\ UNCHANGED failed
  \/ Host!EndDeinit(o)    /\ UNCHANGED failed /\ ~Log!Busy(o)

Run(o) == pc # "terminated" /\ Worker(o) /\ UNCHANGED <<pc, ui, log>>

(* From init to deinit a plugin may log, from threads of its own too.  It   *)
(* does not come back from deinit, or from an init that fails, with a call  *)
(* under way.                                                               *)
UseLog(o) ==
  /\ pc # "terminated" /\ phase[o] \in {"starting", "live", "deinit"}
  /\ \/ \E level \in Level : Log!SetMinLevel(level)
     \/ \E level \in Level, entry \in {"log", "logVa"} : Log!Log(o, level, entry)
  /\ UNCHANGED <<plugins, pc, ui>>

GoOnLogging(o) ==
  /\ pc # "terminated" /\ Log!LogStep(o)
  /\ UNCHANGED <<plugins, pc, ui>>

----------------------------------------------------------------------------
(* The event loop *)

InLoop == pc \in {"running", "unloaded"}

(* The dialog appears, if the pointer leads to one. *)
ShowHaloWindow == IF helloWindow THEN visible' = TRUE ELSE UNCHANGED visible

(* The user takes the Tools menu's item, or closes the dialog. *)
OpenHaloWindow ==
  /\ InLoop /\ item
  /\ IF windowFacade THEN ShowHaloWindow ELSE UNCHANGED visible
  /\ UNCHANGED <<plugins, pc, main, menu, dialog, item, helloWindow, windowFacade, log>>

CloseDialog ==
  /\ InLoop /\ visible /\ visible' = FALSE
  /\ UNCHANGED <<plugins, pc, main, menu, dialog, item, helloWindow, windowFacade, log>>

WrongDestroyed == dialog' = "none" /\ visible' = FALSE /\ UNCHANGED helloWindow  \* no slot

(* The dialog goes; the slot of destroyed resets the pointer to it. *)
Destroyed == dialog' = "none" /\ visible' = FALSE /\ helloWindow' = FALSE

(* Qt deletes what has been given to deleteLater. *)
DeleteDialog ==
  /\ InLoop /\ dialog = "doomed" /\ Destroyed
  /\ UNCHANGED <<plugins, pc, main, menu, item, windowFacade, log>>

DeleteMenu ==
  /\ InLoop /\ menu = "doomed" /\ menu' = "none"
  /\ UNCHANGED <<plugins, pc, main, dialog, item, visible, helloWindow, windowFacade, log>>

(* OBS destroys its main window, and with it the menu, the item in the      *)
(* Tools menu and the dialog.                                               *)
DestroyMain ==
  /\ InLoop /\ main /\ main' = FALSE
  /\ menu' = "none" /\ item' = FALSE
  /\ IF dialog = "none" THEN UNCHANGED <<dialog, visible, helloWindow>> ELSE Destroyed
  /\ UNCHANGED <<plugins, pc, windowFacade, log>>

----------------------------------------------------------------------------
(* obs_module_unload *)

Listed    == {o \in Plugin : register[o] = "listed"}
Withdrawn == {o \in Plugin : register[o] = "withdrawn"}
AllQuiet  == \A o \in Withdrawn : phase[o] = "quiet"

(* stopAndUnloadAll takes the list, waits for every plugin to stop and then *)
(* closes them.  Closing one whose init failed may terminate the process    *)
(* (PluginHost says when).                                                  *)
Unload ==
  /\ pc = "running" /\ pc' = "stopping"
  /\ IF Listed = {} THEN UNCHANGED <<phase, register>> ELSE Host!Withdraw(Listed)
  /\ UNCHANGED <<failed, ui, log>>

ClosePlugin(o) ==
  /\ pc = "stopping" /\ AllQuiet /\ Host!Close(o)
  /\ UNCHANGED <<failed, pc, ui, log>>

Terminate ==
  /\ pc = "stopping" /\ AllQuiet /\ Withdrawn \cap failed # {}
  /\ pc' = "terminated"
  /\ UNCHANGED <<plugins, ui, log>>

WrongRemoveUi ==                 \* nothing to do without a window
  /\ pc = "stopping" /\ Withdrawn = {} /\ pc' = "unloaded"
  /\ IF helloWindow
     THEN dialog' = "doomed" /\ menu' = (IF menu = "alive" THEN "doomed" ELSE menu)
     ELSE UNCHANGED <<dialog, menu>>
  /\ helloWindow' = FALSE /\ windowFacade' = FALSE
  /\ UNCHANGED <<plugins, main, item, visible, log>>

WrongRemoveUiLate ==             \* leaves the pointer to the slot of destroyed
  /\ pc = "stopping" /\ Withdrawn = {} /\ pc' = "unloaded"
  /\ dialog' = IF helloWindow THEN "doomed" ELSE dialog
  /\ menu'   = IF menu = "alive" THEN "doomed" ELSE menu
  /\ UNCHANGED <<plugins, main, item, visible, helloWindow, windowFacade, log>>

(* Then the window and the menu go; the item in the Tools menu stays. *)
RemoveUi ==
  /\ pc = "stopping" /\ Withdrawn = {} /\ pc' = "unloaded"
  /\ dialog' = IF helloWindow THEN "doomed" ELSE dialog
  /\ menu'   = IF menu = "alive" THEN "doomed" ELSE menu
  /\ helloWindow' = FALSE /\ windowFacade' = FALSE
  /\ UNCHANGED <<plugins, main, item, visible, log>>

----------------------------------------------------------------------------

Unloading == RemoveUi \/ Terminate \/ \E o \in Plugin : ClosePlugin(o)

Next ==
  \/ \E o \in Plugin : LoadPlugin(o) \/ Run(o) \/ UseLog(o) \/ GoOnLogging(o)
  \/ PluginsLoaded \/ \E act \in BOOLEAN : AddUi(act)
  \/ OpenHaloWindow \/ CloseDialog \/ DeleteDialog \/ DeleteMenu \/ DestroyMain
  \/ Unload \/ Unloading

Spec == Init /\ [][Next]_vars

(* Plugins' threads run, and their init and deinit return, however much     *)
(* they log (hence SF: they can return only between two log calls); the UI  *)
(* thread goes on with obs_module_unload once it has begun.                 *)
FairSpec ==
  /\ Spec
  /\ \A o \in Plugin : SF_vars(Run(o)) /\ WF_vars(GoOnLogging(o))
  /\ WF_vars(Unloading)

----------------------------------------------------------------------------
(* Properties *)

(* The pointer the facade hands out never names a dialog that is gone or    *)
(* about to go, whoever destroys it.  (plugin-main.cpp:127-129, 143-147)    *)
WindowIsFit == helloWindow => dialog = "alive"

(* After unloading nothing of FoxClip is left but the item in the Tools     *)
(* menu: no plugin's library is open, no plugin is in a log call, and what  *)
(* is still on the screen is on its way out, on every path obs_module_load  *)
(* may have taken.  (plugin-main.cpp:114-117, 139-149)                      *)
NothingIsLeft ==
  pc = "unloaded" =>
    /\ \A o \in Plugin : phase[o] = "absent" /\ register[o] = "no" /\ ~Log!Busy(o)
    /\ menu # "alive" /\ dialog # "alive"

(* The item that stays behind opens nothing any more.                       *)
(* (plugin-main.cpp:44-49, 132, 147)                                        *)
StaysClosed == [][pc = "unloaded" => (visible' => visible)]_vars

(* The plugins' log calls are filtered by levels in force while they last.  *)
(* (FoxclipLogApi.c:40-49, 95-104)                                          *)
LogIsFair == Log!FilterIsFair

(* Unloading comes to an end, whatever the plugins were doing when it began.*)
(* (plugin-main.cpp:142)                                                    *)
UnloadEnds == pc = "stopping" ~> pc \in {"unloaded", "terminated"}

============================================================================
