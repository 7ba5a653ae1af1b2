--------------------------- MODULE MCMenuRegistry ---------------------------
(* Small instances of the menu registry for model checking. *)
EXTENDS MenuRegistry, TLC

(* One callback tears everything down and makes its menu anew, the other    *)
(* does nothing with the registry.                                          *)
MCCallback == {"rebuild", "plain"}
MCBodyOf ==
  [c \in MCCallback |->
     IF c = "rebuild"
     THEN <<[op |-> "teardown"], [op |-> "ensure", menu |-> CHOOSE i \in MenuId : TRUE]>>
     ELSE <<>>]

Symmetry == Permutations(Menu) \cup Permutations(Action)

============================================================================
