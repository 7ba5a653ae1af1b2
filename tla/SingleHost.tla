----------------------------- MODULE SingleHost -----------------------------
(***************************************************************************)
(* The single-plugin host (foxclip::Host in FoxclipPluginHost.cpp) and     *)
(* LoaderFacade, which loads one plugin, or the first that works, through  *)
(* it.  Both run on one thread; what can go wrong is the order in which    *)
(* libraries are opened and closed and plugin code is called, over a long  *)
(* sequence of calls that succeed or fail.                                 *)
(*                                                                         *)
(* Whether a directory holds an acceptable manifest is a constant here:    *)
(* ManifestRules says what makes one acceptable.                           *)
(***************************************************************************)
EXTENDS Naturals, FiniteSets, SequencesExt

CONSTANTS
  Module,      (* shared libraries, by path                                    *)
  Openable,    (* those the dynamic linker can open                            *)
  HasInit,     (* those that export foxclip_plugin_init                        *)
  HasDeinit,   (* those that export foxclip_plugin_deinit                      *)
  NoModule,    (* null                                                         *)
  Dir,         (* plugin directories                                           *)
  EntryOf,     (* EntryOf[d]: the library d's manifest names, NoModule if the  *)
               (* manifest is missing or refused                               *)
  MaxListed    (* bound on the directories one loadAll finds                   *)

ASSUME ModuleAssumption == NoModule \notin Module
ASSUME ExportAssumption == Openable \subseteq Module /\ HasInit \subseteq Module /\ HasDeinit \subseteq Module
ASSUME EntryAssumption  == EntryOf \in [Dir -> Module \cup {NoModule}]
ASSUME BoundAssumption  == MaxListed \in Nat

VARIABLES
  refs,     (* refs[m]: how often library m is open                            *)
  handle,   (* state.handle                                                    *)
  deinit,   (* state.deinit, by the library it points into                     *)
  live,     (* live[m]: m's init has returned true since its deinit last ran   *)
  api,      (* api[m]: does the table m was given in init still exist?         *)
  pc,       (* where the running call is                                       *)
  target,   (* the library being loaded, NoModule in a plain unload            *)
  call      (* the facade's loop: directories to go, its options, its successes*)

hostVars == <<refs, handle, deinit, live, api>>
vars == <<refs, handle, deinit, live, api, pc, target, call>>

Options == [unloadBeforeLoad : BOOLEAN, stopOnFirstSuccess : BOOLEAN]
NoCall == [dirs |-> <<>>, opt |-> [unloadBeforeLoad |-> TRUE, stopOnFirstSuccess |-> TRUE],
           successes |-> <<>>]

TypeOK ==
  /\ refs \in [Module -> Nat]
  /\ handle \in Module \cup {NoModule}
  /\ deinit \in Module \cup {NoModule}
  /\ live \in [Module -> BOOLEAN]
  /\ api \in [Module -> BOOLEAN]
  /\ pc \in {"idle", "next", "deinit", "close", "open", "init", "running", "discard"}
  /\ target \in Module \cup {NoModule}
  /\ call \in [dirs : Seq(Dir), opt : Options, successes : Seq(Module)]

Init ==
  /\ refs = [m \in Module |-> 0]
  /\ handle = NoModule
  /\ deinit = NoModule
  /\ live = [m \in Module |-> FALSE]
  /\ api = [m \in Module |-> FALSE]
  /\ pc = "idle"
  /\ target = NoModule
  /\ call = NoCall

IsLoaded == handle # NoModule

(* Where a load begins: with the unloading of what is loaded. *)
WrongEntryPoint == "open"        \* does not unload first
EntryPoint == IF IsLoaded THEN "deinit" ELSE "open"

----------------------------------------------------------------------------
(* foxclip::Host *)

(* A load of target has come to an end: the facade's loop goes on, or the  *)
(* caller is answered.                                                     *)
Finish(ok) ==
  /\ pc' = IF call.dirs = <<>> THEN "idle" ELSE "next"
  /\ target' = NoModule
  /\ call' = IF call.dirs = <<>> THEN NoCall
             ELSE [call EXCEPT
               !.successes = IF ok THEN Append(@, target) ELSE @,
               !.dirs = Tail(@)]

Load(m) ==
  /\ pc = "idle"
  /\ pc' = EntryPoint /\ target' = m
  /\ UNCHANGED <<refs, handle, deinit, live, api, call>>

Unload ==
  /\ pc = "idle" /\ IsLoaded
  /\ pc' = "deinit" /\ target' = NoModule
  /\ UNCHANGED <<refs, handle, deinit, live, api, call>>

WrongCallDeinit ==               \* closes without calling deinit
  /\ pc = "deinit" /\ pc' = "close"
  /\ UNCHANGED <<refs, handle, deinit, live, api, target, call>>

(* The plugin's deinit, where it has one. *)
CallDeinit ==
  /\ pc = "deinit" /\ pc' = "close"
  /\ live' = IF deinit # NoModule THEN [live EXCEPT ![deinit] = FALSE] ELSE live
  /\ UNCHANGED <<refs, handle, deinit, api, target, call>>

CloseLoaded ==
  /\ pc = "close"
  /\ refs' = [refs EXCEPT ![handle] = @ - 1]
  /\ handle' = NoModule /\ deinit' = NoModule
  /\ pc' = IF target = NoModule THEN "idle" ELSE "open"
  /\ UNCHANGED <<live, api, target, call>>

Open ==
  /\ pc = "open"
  /\ \/ /\ target \in Openable
        /\ refs' = [refs EXCEPT ![target] = @ + 1] /\ pc' = "init"
        /\ UNCHANGED <<target, call>>
     \/ target \notin Openable /\ Finish(FALSE) /\ UNCHANGED refs
  /\ UNCHANGED <<handle, deinit, live, api>>

(* init is called with the address of a table that is local to             *)
(* initWithHandle; a plugin without init is refused.                       *)
CallInit ==
  /\ pc = "init"
  /\ IF target \in HasInit
     THEN pc' = "running" /\ api' = [api EXCEPT ![target] = TRUE]
     ELSE pc' = "discard" /\ UNCHANGED api
  /\ UNCHANGED <<refs, handle, deinit, live, target, call>>

(* init returns, and initWithHandle after it: the table is gone. *)
InitReturns(ok) ==
  /\ pc = "running"
  /\ api' = [api EXCEPT ![target] = FALSE]
  /\ IF ok
     THEN /\ live' = [live EXCEPT ![target] = TRUE]
          /\ handle' = target /\ deinit' = IF target \in HasDeinit THEN target ELSE NoModule
          /\ Finish(TRUE)
     ELSE pc' = "discard" /\ UNCHANGED <<handle, deinit, live, target, call>>
  /\ UNCHANGED refs

WrongDiscard ==                  \* does not close what it opened
  /\ pc = "discard" /\ Finish(FALSE)
  /\ UNCHANGED <<refs, handle, deinit, live, api>>

Discard ==
  /\ pc = "discard"
  /\ refs' = [refs EXCEPT ![target] = @ - 1]
  /\ Finish(FALSE)
  /\ UNCHANGED <<handle, deinit, live, api>>

----------------------------------------------------------------------------
(* LoaderFacade *)

(* loadOne is a loop over one directory; loadAll takes the directories in  *)
(* the order the file system lists them.                                   *)
LoadOne(d, opt) ==
  /\ pc = "idle" /\ pc' = "next"
  /\ call' = [dirs |-> <<d>>, opt |-> opt, successes |-> <<>>]
  /\ UNCHANGED <<refs, handle, deinit, live, api, target>>

Listings == {s \in UNION {[1 .. n -> Dir] : n \in 0 .. MaxListed} : IsInjective(s)}

LoadAll(s, opt) ==
  /\ pc = "idle" /\ s # <<>> /\ pc' = "next"
  /\ call' = [dirs |-> s, opt |-> opt, successes |-> <<>>]
  /\ UNCHANGED <<refs, handle, deinit, live, api, target>>

WrongStops == FALSE              \* goes on after a success
Stops == call.successes # <<>> /\ call.opt.stopOnFirstSuccess

(* The loop is over: all directories tried, or one loaded and that enough.  *)
LoopEnds ==
  /\ pc = "next" /\ (call.dirs = <<>> \/ Stops)
  /\ pc' = "idle" /\ call' = NoCall
  /\ UNCHANGED <<refs, handle, deinit, live, api, target>>

(* A directory whose manifest is refused leaves the host alone. *)
Refuse ==
  /\ pc = "next" /\ call.dirs # <<>> /\ ~Stops
  /\ EntryOf[Head(call.dirs)] = NoModule
  /\ call' = [call EXCEPT !.dirs = Tail(@)]
  /\ UNCHANGED <<refs, handle, deinit, live, api, pc, target>>

(* unloadBeforeLoad unloads what is loaded; Host::load does so in any case, *)
(* so the two come to the same steps.                                       *)
Try ==
  /\ pc = "next" /\ call.dirs # <<>> /\ ~Stops
  /\ EntryOf[Head(call.dirs)] # NoModule
  /\ target' = EntryOf[Head(call.dirs)]
  /\ pc' = IF call.opt.unloadBeforeLoad /\ IsLoaded THEN "deinit" ELSE EntryPoint
  /\ UNCHANGED <<refs, handle, deinit, live, api, call>>

Next ==
  \/ \E m \in Module : Load(m)
  \/ Unload
  \/ CallDeinit \/ CloseLoaded
  \/ Open \/ CallInit \/ (\E ok \in BOOLEAN : InitReturns(ok)) \/ Discard
  \/ \E opt \in Options :
       (\E d \in Dir : LoadOne(d, opt)) \/ (\E s \in Listings : LoadAll(s, opt))
  \/ LoopEnds \/ Refuse \/ Try

Spec == Init /\ [][Next]_vars

----------------------------------------------------------------------------
(* Properties *)

(* What OpenIsHeld and DeinitBeforeClose rest on: where the running call is *)
(* tells whether a library is loaded and which one is being loaded, and the *)
(* deinit on record is that of the loaded library.                          *)
CallState ==
  /\ pc \in {"open", "init", "running", "discard"} => handle = NoModule /\ target # NoModule
  /\ pc \in {"deinit", "close"} => handle # NoModule
  /\ pc \in {"idle", "next"} => target = NoModule
  /\ deinit = IF handle \in HasDeinit THEN handle ELSE NoModule
  /\ \A m \in HasDeinit : live[m] => m = handle /\ pc # "close"

(* Every load count is accounted for: the loaded library and the one a load *)
(* in progress has opened, nothing else, so at most one library is open     *)
(* between calls and none stays open after a failed load.  (lines 106-134,  *)
(* 155-168)                                                                 *)
OpenIsHeld ==
  \A m \in Module :
    refs[m] = (IF handle = m THEN 1 ELSE 0)
            + (IF target = m /\ pc \in {"init", "running", "discard"} THEN 1 ELSE 0)

(* A plugin that has a deinit is not unmapped before it has run -- its own, *)
(* not one recorded of a plugin before it -- and no deinit stays on record  *)
(* once its code is unmapped.  (lines 91-94, 160-168)                       *)
DeinitBeforeClose ==
  /\ \A m \in HasDeinit : live[m] => refs[m] > 0
  /\ deinit # NoModule => refs[deinit] > 0

(* No two plugins are initialised at a time: before any init is called the  *)
(* plugin before it has been shut down.  (lines 108-110, 139-140)           *)
OneAtATime ==
  \A m, n \in Module : m # n /\ refs[m] > 0 /\ refs[n] > 0 => ~(live[m] /\ live[n])

(* When loading stops at the first success, what has been reported as       *)
(* loaded is what is loaded: nothing later in the listing replaces it.      *)
(* (LoaderFacade.cpp:114-118)                                               *)
ReportedIsLoaded ==
  call.opt.stopOnFirstSuccess /\ call.successes # <<>> =>
    handle = Last(call.successes) /\ Len(call.successes) = 1

SingleInv == TypeOK /\ OpenIsHeld /\ CallState

(* Claimed by plugin_api.h:32-35: the plugin shares a pointer to the table  *)
(* it was given, so a loaded plugin's table exists.  The table is local to  *)
(* initWithHandle (FoxclipPluginHost.cpp:85).                               *)
TableOutlivesInit == IsLoaded => api[handle]

============================================================================
