--------------------------- MODULE TaskTransitions ---------------------------
(***************************************************************************)
(* TaskTransitionService and the task row it writes.                       *)
(*                                                                         *)
(* Every caller that moves a task (a command, the scheduler, an agent that *)
(* finished, recovery) runs one asynchronous call of the service.  A call  *)
(* reads the row, commits a transition with a compare-and-swap on the      *)
(* status, runs the exit actions of the old status and then the entry      *)
(* actions of the new one, which may prepare a worktree, start a branch    *)
(* update, launch an agent, fail and be corrected, or go on to another     *)
(* status by itself.  Calls interleave at every database access, and the   *)
(* process may stop between any two of them.                               *)
(*                                                                         *)
(* Left out: archived tasks, the feature policy, database errors that are  *)
(* not refusals, the merge pipeline behind PendingMerge and the running    *)
(* count of the agents.                                                    *)
(***************************************************************************)
EXTENDS TaskStatus, Naturals

CONSTANTS
  Task,             \* tasks (rows of the table)
  Call,             \* calls of the service that may be in flight at once
  NoTask,           \* the task of a call that is not in use
  Initial,          \* the statuses of the rows when the process starts
  Requested,        \* the statuses transition_task is asked for
  Corrected,        \* the statuses corrective callers write
  Reentered,        \* the statuses recovery runs the entry actions of
  FreshnessTries    \* branch freshness checks of one entry (3 in the code)

ASSUME NoTaskAssumption == NoTask \notin Task \cup Call
ASSUME StatusesAssumption == /\ Initial \subseteq Status
                             /\ Requested \subseteq Status
                             /\ Corrected \subseteq Status
                             /\ Reentered \subseteq Status
ASSUME TriesAssumption == FreshnessTries \in Nat \ {0}

VARIABLES
  status,       \* tasks.internal_status
  trail,        \* to_status of the last row of task_state_history
  updating,     \* tasks that have an unsettled branch update operation
  entering,     \* ExecutionState.execution_entries_in_flight
  call          \* the calls of the service

vars == << status, trail, updating, entering, call >>

-----------------------------------------------------------------------------
(* Types *)

ExecutionEntry == {"Executing", "ReExecuting"}
AgentEntry == ExecutionEntry \cup BranchUpdates
                \cup {"Reviewing", "Merging", "QaRefining", "QaTesting"}

PC == { "idle", "commit", "recover", "exit", "exitFirst", "enter",
        "prepare", "persist", "freshen", "activate", "update", "conflict",
        "restore", "rewrite", "check", "launch", "record", "auto", "autoWrite", "autoLog",
        "correct", "correctWrite", "correctLog" }

\* from: the status the call read last; to: the status it writes or enters.
CallState ==
  [ pc : PC, task : Task \cup {NoTask}, from : Status, to : Status,
    guarded : BOOLEAN,        \* it is inside the execution entry guard
    chained : BOOLEAN,        \* it enters a status it chose itself (auto)
    reenter : BOOLEAN,        \* a correction whose target is entered
    tries : Nat ]

Idle == [ pc |-> "idle", task |-> NoTask, from |-> "Backlog", to |-> "Backlog",
          guarded |-> FALSE, chained |-> FALSE, reenter |-> FALSE,
          tries |-> 0 ]

Started(pc, t, from, to) ==
  [Idle EXCEPT !.pc = pc, !.task = t, !.from = from, !.to = to]

TypeOK == /\ status \in [Task -> Status]
          /\ trail \in [Task -> Status]
          /\ updating \subseteq Task
          /\ entering \subseteq Task
          /\ call \in [Call -> CallState]

\* The statuses a task has while an operation that is not settled owns it.
UpdateStates == BranchUpdates \cup {"BranchUpdateBlocked"}

Init == /\ status \in [Task -> Initial]
        /\ trail = status
        /\ updating = {t \in Task : status[t] \in UpdateStates}
        /\ entering = {}
        /\ call = [c \in Call |-> Idle]

-----------------------------------------------------------------------------
(* The task repository *)

\* A write of the whole row is refused when it would change the status of a
\* task whose branch update is not settled.
UnownedAlways(t, s) == TRUE
Unowned(t, s) == status[t] = s \/ t \notin updating

\* update_with_expected_status: the row still has the status that was read.
WinsUnchecked(t, from, to) == Unowned(t, to)
Wins(t, from, to) == status[t] = from /\ Unowned(t, to)

WriteStatus(t, s) == status' = [status EXCEPT ![t] = s]

\* update, by a caller that logs a refusal and goes on.
WriteBack(t, s) == IF Unowned(t, s) THEN WriteStatus(t, s) ELSE UNCHANGED status

\* persist_status_change: UPDATE of the status, whatever it is, and INSERT of
\* the history row, in one transaction.
LogStatus(t, s) == WriteStatus(t, s) /\ trail' = [trail EXCEPT ![t] = s]

-----------------------------------------------------------------------------
(* Calls *)

\* The call goes on; the status it read before is of no more use to it.
Goto(c, pc) == call' = [call EXCEPT ![c].pc = pc, ![c].from = Idle.from]

\* try_start_execution_entry.
EntryFreeUnchecked(t) == TRUE
EntryFree(t) == t \notin entering

\* finish_execution_entry, when the guard of the call is dropped.
ReleasedNever(k) == entering
Released(k) == IF k.guarded THEN entering \ {k.task} ELSE entering

Return(c) == /\ call' = [call EXCEPT ![c] = Idle]
             /\ entering' = Released(call[c])

\* What on_enter does first for a status.
EntryPC(s) == CASE s \in ExecutionEntry \cup {"Merging"} -> "prepare"
                [] s = "Reviewing" -> "freshen"
                [] s \in BranchUpdates \cup {"QaRefining", "QaTesting"} -> "launch"
                [] OTHER -> "auto"

\* check_auto_transition, with the short cut of an approved task without changes.
AutoTargets(s) == CASE s = "QaPassed" -> {"PendingReview"}
                    [] s = "RevisionNeeded" -> {"ReExecuting"}
                    [] s = "PendingReview" -> {"Reviewing"}
                    [] s = "Approved" -> {"PendingMerge", "Merged"}
                    [] OTHER -> {}

\* ExecutionBlocked out of on_enter: the entry the caller asked for is
\* corrected to Failed, an entry the call chained to itself only logs it.
EntryBlocked(c) ==
  IF call[c].chained
    THEN Return(c)
    ELSE /\ call' = [call EXCEPT ![c].pc = "correct", ![c].to = "Failed"]
         /\ UNCHANGED entering

(* Starting a call *)

\* transition_task: read the row and validate the move against the table.
StartTransition(c, t, s) ==
  /\ call[c].pc = "idle"
  /\ s # status[t]
  /\ CanTransition(status[t], s)
  /\ call' = [call EXCEPT ![c] = Started("commit", t, status[t], s)]
  /\ UNCHANGED << status, trail, updating, entering >>

\* recover_failed_completed_task_to_review.
StartRecovery(c, t) ==
  /\ call[c].pc = "idle"
  /\ status[t] = "Failed"
  /\ call' = [call EXCEPT ![c] = Started("recover", t, "Failed", "PendingReview")]
  /\ UNCHANGED << status, trail, updating, entering >>

\* transition_task_corrective and transition_task_corrective_with_exit.
StartCorrective(c, t, s) ==
  /\ call[c].pc = "idle"
  /\ s # status[t]
  /\ \E pc \in {"correct", "exitFirst"} :
       call' = [call EXCEPT ![c] = Started(pc, t, status[t], s)]
  /\ UNCHANGED << status, trail, updating, entering >>

\* execute_entry_actions of the status the caller read.
StartEntry(c, t) ==
  /\ call[c].pc = "idle"
  /\ status[t] \in Reentered
  /\ call' = [call EXCEPT ![c] = Started("enter", t, status[t], status[t])]
  /\ UNCHANGED << status, trail, updating, entering >>

-----------------------------------------------------------------------------
(* transition_task after validation *)

\* update_with_expected_status_and_history: row and history row in one
\* transaction, or no effect at all.
Commit(c) ==
  LET k == call[c] IN
  /\ k.pc \in {"commit", "recover"}
  /\ IF Wins(k.task, k.from, k.to)
       THEN /\ LogStatus(k.task, k.to)
            /\ Goto(c, IF k.pc = "commit" THEN "exit" ELSE "enter")
            /\ UNCHANGED entering
       ELSE Return(c) /\ UNCHANGED << status, trail >>
  /\ UNCHANGED updating

\* execute_exit_actions: after the commit, or before it in a correction.
Exit(c) ==
  /\ call[c].pc \in {"exit", "exitFirst"}
  /\ Goto(c, IF call[c].pc = "exit" THEN "enter" ELSE "correct")
  /\ UNCHANGED << status, trail, updating, entering >>

\* execute_entry_actions: a second entry of an execution status is dropped.
Enter(c) ==
  LET k == call[c] IN
  /\ k.pc = "enter"
  /\ IF k.to \notin ExecutionEntry
       THEN Goto(c, EntryPC(k.to)) /\ UNCHANGED entering
       ELSE IF EntryFree(k.task)
         THEN /\ entering' = entering \cup {k.task}
              /\ call' = [call EXCEPT ![c].pc = EntryPC(k.to), ![c].guarded = TRUE]
         ELSE Return(c)
  /\ UNCHANGED << status, trail, updating >>

-----------------------------------------------------------------------------
(* on_enter of the statuses an agent works in *)

Prepared(c) == Goto(c, IF call[c].to \in ExecutionEntry THEN "freshen" ELSE "launch")

\* ensure_executing_branch_and_worktree, ensure_review_worktree_ready and
\* prepare_merge_worktree_for_entry read the row and work on the repository:
\* all is in place, or there is a row to write, or the entry gives up.
Prepare(c) ==
  LET k == call[c] IN
  /\ k.pc = "prepare"
  /\ \/ /\ call' = [call EXCEPT ![c].pc = "persist", ![c].from = status[k.task]]
        /\ UNCHANGED entering
     \/ Prepared(c) /\ UNCHANGED entering
     \/ k.to # "Merging" /\ EntryBlocked(c)
     \/ \* a pull request is polled instead
        k.to = "Merging" /\ Return(c)
     \/ \* ReviewWorktreeMissing or ReviewWorktreeConflictMarkers
        /\ k.to = "Reviewing"
        /\ call' = [call EXCEPT ![c].pc = "correct", ![c].to = "Escalated"]
        /\ UNCHANGED entering
  /\ UNCHANGED << status, trail, updating >>

\* persist_execution_task_update writes the row that was read, all of it; the
\* entries of the reviewer and the merger go on when the write is refused.
Persist(c) ==
  LET k == call[c] IN
  /\ k.pc = "persist"
  /\ \/ /\ Unowned(k.task, k.from)
        /\ WriteStatus(k.task, k.from) /\ Prepared(c) /\ UNCHANGED entering
     \/ /\ ~Unowned(k.task, k.from) /\ UNCHANGED status
        /\ IF k.to \in ExecutionEntry THEN EntryBlocked(c)
                                      ELSE Prepared(c) /\ UNCHANGED entering
  /\ UNCHANGED << trail, updating >>

\* ensure_branches_fresh on the row as it is now, FreshnessTries times at most.
NextTryUncounted(k) == k.tries
NextTryBackwards(k) == k.tries - 1
NextTry(k) == k.tries + 1

Freshen(c) ==
  LET k == call[c] IN
  /\ k.pc = "freshen"
  /\ \/ \* fresh enough
        /\ k.tries < FreshnessTries
        /\ Goto(c, IF k.to \in ExecutionEntry THEN "check" ELSE "prepare")
        /\ UNCHANGED entering
     \/ \* the branch is behind: a branch update is wanted
        /\ k.tries < FreshnessTries
        /\ call' = [call EXCEPT ![c].pc = "activate", ![c].from = status[k.task],
                                ![c].tries = NextTry(k)]
        /\ UNCHANGED entering
     \/ \* blocked, or the checks did not converge
        EntryBlocked(c)
  /\ UNCHANGED << status, trail, updating >>

\* BranchUpdateRepository.activate: one transaction that takes the task over.
Activate(c) ==
  LET k == call[c] IN
  /\ k.pc = "activate"
  /\ IF status[k.task] = k.from /\ k.task \notin updating
       THEN /\ \E s \in BranchUpdates : LogStatus(k.task, s)
            /\ updating' = updating \cup {k.task}
            /\ Goto(c, "update")
            /\ UNCHANGED entering
       ELSE Return(c) /\ UNCHANGED << status, trail, updating >>

\* execute_programmatic: merged at once, left to an agent, or blocked.
Update(c) ==
  LET k == call[c] IN
  /\ k.pc = "update"
  /\ \/ /\ status[k.task] \in BranchUpdates /\ k.task \in updating
        /\ LogStatus(k.task, k.to)
        /\ updating' = updating \ {k.task}
        /\ Goto(c, "freshen")
        /\ UNCHANGED entering
     \/ /\ Goto(c, "conflict")
        /\ UNCHANGED << status, trail, updating, entering >>
     \/ /\ status[k.task] \in BranchUpdates /\ k.task \in updating
        /\ LogStatus(k.task, "BranchUpdateBlocked")
        /\ Return(c)
        /\ UNCHANGED updating
     \/ Return(c) /\ UNCHANGED << status, trail, updating >>

\* handle_branch_freshness_conflict: a task under a branch update gets its
\* resolver; any other is escalated, given up, goes to a merger or back to
\* review.  A reviewer's task may first get its own worktree path back.
Conflict(c) ==
  LET k == call[c]
      reviewing == k.to = "Reviewing"
      goal == {"Escalated", "Merging"}
                \cup (IF reviewing THEN {"PendingReview", "Failed"} ELSE {})
  IN
  /\ k.pc = "conflict"
  /\ IF status[k.task] \in BranchUpdates
       THEN Return(c)
       ELSE \E s \in goal, pc \in {"correct", "restore"} :
              /\ pc = "restore" => reviewing /\ s \in {"Merging", "PendingReview"}
              /\ call' = [call EXCEPT ![c].pc = pc, ![c].to = s,
                                      ![c].reenter = (s = "Merging")]
              /\ UNCHANGED entering
  /\ UNCHANGED << status, trail, updating >>

\* The repair of the path reads the row, and writes all of it back after git.
Restore(c) ==
  /\ call[c].pc = "restore"
  /\ call' = [call EXCEPT ![c].pc = "rewrite", ![c].from = status[call[c].task]]
  /\ UNCHANGED << status, trail, updating, entering >>

Rewrite(c) ==
  /\ call[c].pc = "rewrite"
  /\ WriteBack(call[c].task, call[c].from)
  /\ Goto(c, "correct")
  /\ UNCHANGED << trail, updating, entering >>

\* task_still_allows_execution_spawn.
Check(c) ==
  LET k == call[c] IN
  /\ k.pc = "check"
  /\ IF status[k.task] = k.to THEN Goto(c, "launch") /\ UNCHANGED entering
                              ELSE Return(c)
  /\ UNCHANGED << status, trail, updating >>

\* The chat service launches the agent, or the launch fails.  The resolver of a
\* branch update needs an operation.
Launch(c) ==
  LET k == call[c] IN
  /\ k.pc = "launch"
  /\ \/ (k.to \in BranchUpdates => k.task \in updating) /\ Return(c)
     \/ k.to \in ExecutionEntry \cup BranchUpdates /\ EntryBlocked(c)
     \/ /\ k.to = "Merging"
        /\ call' = [call EXCEPT ![c].pc = "record", ![c].from = status[k.task]]
        /\ UNCHANGED entering
  /\ UNCHANGED << status, trail, updating >>

\* record_merger_spawn_failure writes the whole row it read; a refusal is only
\* logged.
Record(c) ==
  LET k == call[c] IN
  /\ k.pc = "record"
  /\ WriteBack(k.task, k.from)
  /\ Return(c)
  /\ UNCHANGED << trail, updating >>

-----------------------------------------------------------------------------
(* The auto-transition loop *)

\* check_auto_transition and on_exit, then the row is read again.
Chain(c) ==
  LET k == call[c] IN
  /\ k.pc = "auto"
  /\ IF AutoTargets(k.to) = {}
       THEN Return(c)
       ELSE /\ \E s \in AutoTargets(k.to) :
                 call' = [call EXCEPT ![c].pc = "autoWrite", ![c].to = s,
                                      ![c].chained = TRUE]
            /\ UNCHANGED entering
  /\ UNCHANGED << status, trail, updating >>

\* TaskRepository.update: no expected status.  After an error the entry
\* actions of the target still run.
AutoWrite(c) ==
  LET k == call[c] IN
  /\ k.pc = "autoWrite"
  /\ IF Unowned(k.task, k.to)
       THEN WriteStatus(k.task, k.to) /\ Goto(c, "autoLog")
       ELSE Goto(c, EntryPC(k.to)) /\ UNCHANGED status
  /\ UNCHANGED << trail, updating, entering >>

AutoLog(c) ==
  LET k == call[c] IN
  /\ k.pc = "autoLog"
  /\ LogStatus(k.task, k.to)
  /\ Goto(c, EntryPC(k.to))
  /\ UNCHANGED << updating, entering >>

-----------------------------------------------------------------------------
(* apply_corrective_transition: no validation; the expected status is the  *)
(* one it reads now                                                        *)

Correct(c) ==
  LET k == call[c] IN
  /\ k.pc = "correct"
  /\ call' = [call EXCEPT ![c].pc = "correctWrite", ![c].from = status[k.task]]
  /\ UNCHANGED << status, trail, updating, entering >>

CorrectWrite(c) ==
  LET k == call[c] IN
  /\ k.pc = "correctWrite"
  /\ IF Wins(k.task, k.from, k.to)
       THEN WriteStatus(k.task, k.to) /\ Goto(c, "correctLog") /\ UNCHANGED entering
       ELSE Return(c) /\ UNCHANGED status
  /\ UNCHANGED << trail, updating >>

CorrectLog(c) ==
  LET k == call[c] IN
  /\ k.pc = "correctLog"
  /\ LogStatus(k.task, k.to)
  /\ IF k.reenter THEN Goto(c, EntryPC(k.to)) /\ UNCHANGED entering
                  ELSE Return(c)
  /\ UNCHANGED updating

-----------------------------------------------------------------------------
(* A branch update moves the task it owns                                  *)

\* The status an operation gives its task back to.
UpdateDestinations ==
  {"Executing", "ReExecuting", "Reviewing", "PendingMerge", "WaitingOnPr", "Merged"}

\* block, pause, resume and retry: the operation stays unsettled.
MoveUpdate(t) ==
  /\ t \in updating
  /\ \/ /\ status[t] \in UpdateStates
        /\ LogStatus(t, "Paused")
     \/ /\ status[t] \in BranchUpdates
        /\ LogStatus(t, "BranchUpdateBlocked")
     \/ /\ status[t] \in {"BranchUpdateBlocked", "Paused"}
        /\ \E s \in BranchUpdates : LogStatus(t, s)
  /\ UNCHANGED << updating, entering, call >>

\* complete_continuation and stop_operation settle it.
SettleUpdate(t) ==
  /\ t \in updating
  /\ status[t] \in BranchUpdates
  /\ \E s \in UpdateDestinations \cup {"Stopped"} : LogStatus(t, s)
  /\ updating' = updating \ {t}
  /\ UNCHANGED << entering, call >>

\* The process stops and starts again: rows and operations are in the
\* database, the calls and the guard sets are not.
Restart ==
  /\ \E c \in Call : call[c].pc # "idle"
  /\ entering' = {}
  /\ call' = [c \in Call |-> Idle]
  /\ UNCHANGED << status, trail, updating >>

-----------------------------------------------------------------------------
Start(c) == \/ \E t \in Task, s \in Requested : StartTransition(c, t, s)
            \/ \E t \in Task : StartRecovery(c, t)
            \/ \E t \in Task, s \in Corrected : StartCorrective(c, t, s)
            \/ \E t \in Task : StartEntry(c, t)

Step(c) == \/ Commit(c) \/ Exit(c) \/ Enter(c)
           \/ Prepare(c) \/ Persist(c) \/ Freshen(c) \/ Activate(c) \/ Update(c)
           \/ Conflict(c) \/ Restore(c) \/ Rewrite(c) \/ Check(c) \/ Launch(c) \/ Record(c)
           \/ Chain(c) \/ AutoWrite(c) \/ AutoLog(c)
           \/ Correct(c) \/ CorrectWrite(c) \/ CorrectLog(c)

Next == \/ \E c \in Call : Start(c) \/ Step(c)
        \/ \E t \in Task : MoveUpdate(t) \/ SettleUpdate(t)
        \/ Restart

Spec == Init /\ [][Next]_vars

\* A call in flight is a task of the runtime: it is polled until it returns.
FairSpec == Spec /\ \A c \in Call : WF_vars(Step(c))

-----------------------------------------------------------------------------
(* Properties *)

\* A commit moves the row along the table, from the status that is in it then
\* and not from the one the call read; a recovery moves it out of Failed only.
\* (transition_task validates before it writes, and other calls write between.)
CommitsFollowTable ==
  [][\A c \in Call :
       LET k == call[c] IN
       /\ k.pc = "commit" /\ call'[c].pc = "exit"
            => CanTransition(status[k.task], status'[k.task])
       /\ k.pc = "recover" /\ call'[c].pc = "enter"
            => status[k.task] = "Failed"]_vars

\* The guard set names exactly the tasks whose execution entry runs in some
\* call, however that call went on: error handling keeps it, and each way out
\* gives it back.
EntryGuardHeld == entering = {call[c].task : c \in {d \in Call : call[d].guarded}}

\* No two calls run the guarded entry actions of one task, whose worktree they
\* would both write.
EntryGuardExclusive ==
  \A c, d \in Call :
    call[c].guarded /\ call[d].guarded /\ call[c].task = call[d].task => c = d

\* The call inside the guard of each task.
GuardHolder ==
  [t \in Task |-> IF \E c \in Call : call[c].guarded /\ call[c].task = t
                    THEN CHOOSE c \in Call : call[c].guarded /\ call[c].task = t
                    ELSE NoTask]

Lock == INSTANCE EntryLock WITH Caller <- Call, Nobody <- NoTask, holder <- GuardHolder

\* The guard is a lock per task: it implements EntryLock.
EntryGuardIsLock == Lock!Spec

\* While an unsettled branch update owns a task, no row write of a call takes
\* the status away from it: only the operation itself moves the task, and the
\* history rows written after an auto or corrective transition.
OwnedMoves ==
  [][\A t \in updating \cap updating' :
       \/ status'[t] = status[t]
       \/ {status[t], status'[t]} \subseteq UpdateStates \cup {"Paused"}
       \/ \E c \in Call : call[c].task = t /\ call[c].pc \in {"autoLog", "correctLog"}
    ]_vars

\* Every call comes back, through any number of auto steps, freshness checks
\* and corrections.
EveryCallReturns == \A c \in Call : call[c].pc # "idle" ~> call[c].pc = "idle"
=============================================================================
