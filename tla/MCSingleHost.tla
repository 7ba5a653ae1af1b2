---------------------------- MODULE MCSingleHost ----------------------------
(* A small instance of the single-plugin host: a complete plugin, one       *)
(* without deinit, one without init, and a file that is no library.         *)
EXTENDS SingleHost

MCModule == {"full", "nodeinit", "noinit", "broken"}
MCOpenable == MCModule \ {"broken"}
MCHasInit == {"full", "nodeinit"}
MCHasDeinit == {"full", "noinit"}

(* One directory per library, and one whose manifest is refused. *)
MCDir == MCModule \cup {"refused"}
MCEntryOf == [d \in MCDir |-> IF d \in MCModule THEN d ELSE NoModule]

============================================================================
