------------------------- MODULE BranchUpdateRunsMC -------------------------
(***************************************************************************)
(* One task and one branch, for TLC: the names and the direction of the    *)
(* update are fixed; claims are named after their runs.                     *)
(***************************************************************************)
EXTENDS BranchUpdateRuns, TLC

PlanOnly == { "PlanBranch" }
Ordinary == { "ResumeExecution" }
Publication == { "FinalizePostMergePrPublication" }
Both == Ordinary \cup Publication
Running == { "Executing" }

RunSymmetry == Permutations(Runner) \cup Permutations(Sha \ (Outside \cup {Root}))
=============================================================================
