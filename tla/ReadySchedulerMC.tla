--------------------------- MODULE ReadySchedulerMC ---------------------------
(***************************************************************************)
(* A task, the merge of its plan, which depends on it, and two schedulers. *)
(***************************************************************************)
EXTENDS ReadyScheduler, TLC

CONSTANTS task, merge

\* The merge was made first, so that every batch begins with it.
MergeLast == task :> {} @@ merge :> {task}
MergeFirst == merge :> 1 @@ task :> 2
=============================================================================
