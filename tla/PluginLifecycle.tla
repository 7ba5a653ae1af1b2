-------------------------- MODULE PluginLifecycle --------------------------
(***************************************************************************)
(* What the plugin host promises about every plugin it hosts, with threads,*)
(* locks and loops abstracted away.  A plugin object is opened, started on *)
(* a thread of its own, and either becomes live or, when its init fails,   *)
(* goes quiet.  Independently of that it is listed by the host and later   *)
(* withdrawn from the list.  A live plugin is shut down only once it has   *)
(* been withdrawn, and its library is closed only when it is quiet, so no  *)
(* plugin code ever runs in a closed library.                              *)
(***************************************************************************)
CONSTANT Object   (* the plugin objects the host may construct *)

VARIABLES
  phase,     (* phase[o]: what the plugin's code is doing            *)
  register   (* register[o]: is o on the list the host shows?        *)

vars == <<phase, register>>

Phase  == {"absent", "opened", "starting", "live", "deinit", "quiet"}
Status == {"no", "listed", "withdrawn"}

TypeOK ==
  /\ phase \in [Object -> Phase]
  /\ register \in [Object -> Status]

Init ==
  /\ phase = [o \in Object |-> "absent"]
  /\ register = [o \in Object |-> "no"]

Move(o, from, to) ==
  /\ phase[o] = from
  /\ phase' = [phase EXCEPT ![o] = to]
  /\ UNCHANGED register

Open(o)    == Move(o, "absent", "opened")
Discard(o) == Move(o, "opened", "absent")
Start(o)   == Move(o, "opened", "starting")

InitSucceeds(o) == Move(o, "starting", "live")
InitFails(o)    == Move(o, "starting", "quiet")

(* A plugin that has been started is put on the list, once. *)
List(o) ==
  /\ phase[o] \in {"starting", "live", "quiet"}
  /\ register[o] = "no"
  /\ register' = [register EXCEPT ![o] = "listed"]
  /\ UNCHANGED phase

(* One plugin, or all of them, leave the list in a single step. *)
Withdraw(S) ==
  /\ S # {}
  /\ \A o \in S : register[o] = "listed"
  /\ register' = [o \in Object |-> IF o \in S THEN "withdrawn" ELSE register[o]]
  /\ UNCHANGED phase

(* Only a withdrawn plugin is shut down. *)
BeginDeinit(o) ==
  /\ register[o] = "withdrawn"
  /\ Move(o, "live", "deinit")

EndDeinit(o) == Move(o, "deinit", "quiet")

(* The library is closed: only after the last of the plugin's code has run. *)
Close(o) ==
  /\ phase[o] = "quiet"
  /\ register[o] = "withdrawn"
  /\ phase' = [phase EXCEPT ![o] = "absent"]
  /\ register' = [register EXCEPT ![o] = "no"]

Next ==
  \/ \E o \in Object :
       \/ Open(o) \/ Discard(o) \/ Start(o)
       \/ InitSucceeds(o) \/ InitFails(o)
       \/ List(o) \/ BeginDeinit(o) \/ EndDeinit(o) \/ Close(o)
  \/ \E S \in SUBSET Object : Withdraw(S)

Spec == Init /\ [][Next]_vars

============================================================================
