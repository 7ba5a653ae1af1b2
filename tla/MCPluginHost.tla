---------------------------- MODULE MCPluginHost ----------------------------
(* A small instance of the plugin host for model checking. *)
EXTENDS PluginHost

(* Three libraries, two of whose manifests carry the same id: a plugin     *)
(* stopped by its id may be the first of two, or not the first on the list.*)
CONSTANTS m1, m2, m3
MCModule == {m1, m2, m3}
MCIdOf == [m \in MCModule |-> IF m = m3 THEN "other" ELSE "id"]

============================================================================
