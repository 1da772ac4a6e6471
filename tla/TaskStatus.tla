----------------------------- MODULE TaskStatus -----------------------------
(***************************************************************************)
(* The internal status of a task and the table of the transitions the     *)
(* application allows between two statuses.  Everything that moves a task  *)
(* (the transition service, the scheduler, the merge pipeline, recovery)   *)
(* reads or writes one of these values in the row of the task.             *)
(***************************************************************************)

Status ==
  { "Backlog", "Ready", "Blocked", "Executing", "QaRefining", "QaTesting",
    "QaPassed", "QaFailed", "PendingReview", "Reviewing", "ReviewPassed",
    "Escalated", "RevisionNeeded", "ReExecuting", "Approved", "PendingMerge",
    "Merging", "WaitingOnPr", "UpdatingPlanBranch", "UpdatingTaskBranch",
    "BranchUpdateBlocked", "MergeIncomplete", "MergeConflict", "Merged",
    "Failed", "Cancelled", "Paused", "Stopped" }

(* The states a branch update gives the task back to.                      *)
BranchUpdateReturns ==
  { "BranchUpdateBlocked", "Executing", "ReExecuting", "Reviewing",
    "PendingMerge", "WaitingOnPr", "Failed", "Escalated", "MergeIncomplete",
    "Stopped", "Paused", "Cancelled" }

Halts == { "Stopped", "Paused" }
BranchUpdates == { "UpdatingPlanBranch", "UpdatingTaskBranch" }

ValidTransitions ==
  [ s \in Status |->
      CASE s = "Backlog"        -> {"Ready", "Cancelled"}
        [] s = "Ready"          -> {"Executing", "Blocked", "PendingMerge", "Cancelled"}
        [] s = "Blocked"        -> {"Ready", "Cancelled"}
        [] s = "Executing"      -> {"QaRefining", "PendingReview", "Failed", "Blocked"}
                                     \cup BranchUpdates \cup Halts
        [] s = "QaRefining"     -> {"QaTesting"} \cup Halts
        [] s = "QaTesting"      -> {"QaPassed", "QaFailed"} \cup Halts
        [] s = "QaPassed"       -> {"PendingReview"}
        [] s = "QaFailed"       -> {"RevisionNeeded"}
        [] s = "PendingReview"  -> {"Reviewing"}
        [] s = "Reviewing"      -> {"ReviewPassed", "RevisionNeeded", "Escalated"}
                                     \cup BranchUpdates \cup Halts
        [] s = "ReviewPassed"   -> {"Approved", "RevisionNeeded"}
        [] s = "Escalated"      -> {"Approved", "RevisionNeeded", "PendingReview"}
        [] s = "RevisionNeeded" -> {"ReExecuting", "Cancelled"}
        [] s = "ReExecuting"    -> {"PendingReview", "Failed", "Blocked"}
                                     \cup BranchUpdates \cup Halts
        [] s = "Approved"       -> {"PendingMerge", "Ready"}
        [] s = "PendingMerge"   -> {"Merged", "Merging", "WaitingOnPr", "MergeIncomplete",
                                    "Cancelled"} \cup BranchUpdates \cup Halts
        [] s = "Merging"        -> {"Merged", "WaitingOnPr", "UpdatingPlanBranch",
                                    "MergeConflict", "MergeIncomplete", "Cancelled"}
                                     \cup Halts
        [] s = "WaitingOnPr"    -> {"Merged", "MergeIncomplete", "PendingMerge",
                                    "UpdatingPlanBranch", "Cancelled"} \cup Halts
        [] s = "MergeIncomplete" -> {"PendingMerge", "Merging", "WaitingOnPr", "Merged",
                                     "Cancelled"} \cup Halts
        [] s = "MergeConflict"  -> {"PendingMerge", "Merging", "Merged", "Cancelled"}
                                     \cup Halts
        [] s = "UpdatingPlanBranch" -> {"UpdatingTaskBranch", "Merged"}
                                     \cup BranchUpdateReturns
        [] s = "UpdatingTaskBranch" -> BranchUpdateReturns
        [] s = "BranchUpdateBlocked" -> {"Stopped", "Cancelled"} \cup BranchUpdates
        [] s = "Paused"         -> {"Executing", "ReExecuting", "QaRefining", "QaTesting",
                                    "Reviewing", "Merging", "WaitingOnPr"}
                                     \cup BranchUpdates
        [] OTHER                -> {"Ready"} ]  \* Merged, Failed, Cancelled, Stopped

CanTransition(from, to) == to \in ValidTransitions[from]

(* No automatic progress from these.                                       *)
Terminal == {"Merged", "Failed", "Cancelled", "Stopped", "MergeIncomplete"}

(* A blocker in one of these no longer blocks its dependents.              *)
DependencySatisfied == {"Merged", "Cancelled"}
=============================================================================
