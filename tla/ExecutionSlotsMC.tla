--------------------------- MODULE ExecutionSlotsMC ---------------------------
(***************************************************************************)
(* Tasks are alike, and so are chats.                                      *)
(***************************************************************************)
EXTENDS ExecutionSlots, TLC

Alike == Permutations(Task)
=============================================================================
