-------------------------- MODULE TaskTransitionsMC --------------------------
(***************************************************************************)
(* Small instances of TaskTransitions.                                     *)
(***************************************************************************)
EXTENDS TaskTransitionsClaims

\* Two calls on one task: executions and revisions cut across by a stop, a
\* retry and a corrective caller.
RaceInitial   == {"Ready", "UpdatingTaskBranch"}
RaceRequested == {"Executing", "Stopped", "RevisionNeeded"}
RaceCorrected == {"Ready"}
RaceReentered == {"Executing"}

\* Two calls that execute and stop one task, with nothing else going on.
StopInitial   == {"Ready"}
StopRequested == {"Executing", "Stopped"}

\* One call at a time, in every status and for every request.
AllReentered == AgentEntry \cup {"PendingReview", "RevisionNeeded", "Approved"}
=============================================================================
