------------------------- MODULE BranchUpdateRepoMC -------------------------
(***************************************************************************)
(* The branch-update repository for TLC: two tasks that may update the     *)
(* same two targets, and a merge attempt that competes for them.           *)
(***************************************************************************)
EXTENDS BranchUpdateRepo, TLC

BackToMerge   == { "RetryPendingMerge" }
MovedByOthers == { "PendingMerge" }

Symmetry == Permutations(Task) \cup Permutations(Op) \cup Permutations(Target)
              \cup Permutations(Claim)
=============================================================================
