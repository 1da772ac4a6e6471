---------------------------- MODULE ReadyScheduler ----------------------------
(***************************************************************************)
(* Ready tasks and the parties that start, block and unblock them.  A pass *)
(* of a scheduler takes the oldest ready task that may start, again and    *)
(* again until there is no room; nearly every command has a scheduler of   *)
(* its own, and all they share is the execution state in memory.  When a   *)
(* task is merged the dependency manager unblocks the tasks that waited    *)
(* for it, and a restart looks at all blocked tasks.  The status of a task *)
(* and its metadata are one row, which some of them write as a whole.      *)
(*                                                                         *)
(* External to this module, and of one step each: the agents and the merge *)
(* pipeline (TaskTransitions has the calls they make), and the users.      *)
(* Left out: database errors (the gate of a pass lets a task through when  *)
(* it cannot read a blocker), archived tasks, and the limits of projects,  *)
(* which are asked for where the pass asks for room a second time.         *)
(***************************************************************************)
EXTENDS TaskStatus, Naturals, FiniteSets

CONSTANTS
  Task,
  Blockers,     \* Blockers[t]: the tasks t depends on
  PlanMerge,    \* tasks of the category plan_merge
  Age,          \* Age[t]: created_at of t
  Scheduler,    \* instances of TaskSchedulerService
  Watchdog,     \* the instance of the watchdog
  Initial,      \* the statuses of the rows at first
  Reopened,     \* finished statuses users take tasks back from
  Batch,        \* ready tasks one look reads (50 in the code)
  MaxRunning,   \* global_max_concurrent
  MaxMoves,     \* bound on what users do, and on restarts
  NoTask

ASSUME TaskAssumption ==
  /\ Blockers \in [Task -> SUBSET Task] /\ PlanMerge \subseteq Task
  /\ Age \in [Task -> Nat] /\ NoTask \notin Task
ASSUME SchedulerAssumption == Watchdog \in Scheduler /\ NoTask \notin Scheduler
ASSUME LimitAssumption ==
  Batch \in Nat \ {0} /\ MaxRunning \in Nat /\ MaxMoves \in Nat

\* The tasks of a plan as it is accepted.
ASSUME InitialAssumption == Initial \subseteq {"Backlog", "Ready", "Blocked"}

VARIABLES
  row,        \* rows of tasks
  held,       \* tasks whose plan is halted or over, or that are in backoff
  agents,     \* tasks an agent works on: their number is running_count
  paused,     \* ExecutionState.is_paused
  inFlight,   \* ExecutionState.scheduling_in_flight
  pass,       \* what the holder of each scheduling_lock does
  manager,    \* unblock_dependents, by the task that was merged
  starting,   \* blocked tasks a restart has yet to look at
  finished,   \* tasks that have been merged or cancelled, if only once
  moves

rows       == << row, finished >>
schedulers == << inFlight, pass >>
unblocking == << manager, starting >>
wishes     == << held, paused, moves >>
vars == << row, held, agents, paused, inFlight, pass,
           manager, starting, finished, moves >>

-----------------------------------------------------------------------------
\* marked: its metadata has a trigger_origin.
Row == [ status : Status, marked : BOOLEAN ]

\* todo: the rest of the batch; seen: the rows of the batch that were marked;
\* left: the blockers the gate has not read.
Pass == [ pc : {"idle", "room", "gate", "reblock", "log", "mark", "claim",
                "move", "commit", "enter", "review", "revise"},
          todo : SUBSET Task, seen : SUBSET Task,
          task : Task \cup {NoTask}, left : SUBSET Task ]
NoPass == [ pc |-> "idle", todo |-> {}, seen |-> {}, task |-> NoTask, left |-> {} ]

\* done: all blockers of the dependent were complete; row: its row as read.
Manager == [ pc : {"idle", "check", "read", "write", "log", "names", "reason"},
             todo : SUBSET Task, task : Task \cup {NoTask}, left : SUBSET Task,
             done : BOOLEAN, row : Row ]
NoRow == [ status |-> "Blocked", marked |-> FALSE ]
NoManager == [ pc |-> "idle", todo |-> {}, task |-> NoTask, left |-> {},
               done |-> FALSE, row |-> NoRow ]

TypeOK ==
  /\ row \in [Task -> Row]
  /\ held \subseteq Task /\ agents \subseteq Task
  /\ paused \in BOOLEAN
  /\ inFlight \subseteq Task
  /\ pass \in [Scheduler -> Pass]
  /\ \A s \in Scheduler : pass[s].task = NoTask <=> pass[s].pc \in {"idle", "room", "review"}
  /\ manager \in [Task -> Manager]
  /\ starting \subseteq Task /\ finished \subseteq Task
  /\ moves \in 0..MaxMoves

Init ==
  /\ row \in [Task -> [status : Initial, marked : {FALSE}]]
  /\ held = {} /\ agents = {}
  /\ paused = FALSE
  /\ inFlight = {}
  /\ pass = [s \in Scheduler |-> NoPass]
  /\ manager = [t \in Task |-> NoManager]
  /\ starting = {}
  /\ finished = { t \in Task : row[t].status \in DependencySatisfied }
  /\ moves = 0

-----------------------------------------------------------------------------
(* The rows, and the room there is.                                        *)

Is(t, s) == row[t].status = s
WriteRow(t, r) ==
  /\ row' = [row EXCEPT ![t] = r]
  /\ finished' = finished \cup (IF r.status \in DependencySatisfied THEN {t} ELSE {})
SetStatus(t, s) == WriteRow(t, [row[t] EXCEPT !.status = s])

\* is_active_dependency_blocker
Satisfied(t) == row[t].status \in DependencySatisfied
Dependents(t) == { d \in Task : t \in Blockers[d] }

\* can_start_any_execution_context
Room == ~paused /\ Cardinality(agents) < MaxRunning

\* get_oldest_ready_tasks
Oldest(T) == { t \in T : \A u \in T : Age[t] <= Age[u] }
Ready == { t \in Task : Is(t, "Ready") }
OldestReady == { t \in Ready : Cardinality({ u \in Ready : Age[u] < Age[t] }) < Batch }

-----------------------------------------------------------------------------
(* A pass of a scheduler.                                                  *)

At(s, pc) == pass[s].pc = pc
Goto(s, pc) == pass' = [pass EXCEPT ![s].pc = pc]

\* The next iteration of the loop, the next task of the batch, the end.
Again == [NoPass EXCEPT !.pc = "room"]
Look(todo, seen) ==
  IF todo = {}
    THEN { [NoPass EXCEPT !.pc = "review"] }
    ELSE { [pc |-> "gate", todo |-> todo \ {t}, seen |-> seen \cap todo,
            task |-> t, left |-> Blockers[t]] : t \in Oldest(todo) }
Become(s, p) == pass' = [pass EXCEPT ![s] = p]
NextTask(s) == \E p \in Look(pass[s].todo, pass[s].seen) : Become(s, p)

\* try_schedule_ready_tasks.  Whoever finds the lock taken leaves a retry
\* behind, or none when enough are pending: a call that comes later, and one
\* may come at any time.
Call(s) ==
  /\ At(s, "idle")
  /\ Become(s, Again)
  /\ UNCHANGED << rows, agents, wishes, unblocking, inFlight >>

\* ReadyWatchdog.run_once
Watch ==
  /\ \E t \in Task : row[t].status \in {"Ready", "PendingReview"}
  /\ Call(Watchdog)

\* The look at the execution state, and the batch.
LookForRoom(s) ==
  /\ At(s, "room")
  /\ IF Room
       THEN \E p \in Look(OldestReady, { t \in Task : row[t].marked }) : Become(s, p)
       ELSE Become(s, NoPass)
  /\ UNCHANGED << rows, agents, wishes, unblocking, inFlight >>

\* has_unsatisfied_dependencies reads one blocker after the other; a task that
\* passes is asked about its plan, its backoff and, once more, about room.
GateOpenUnread(p) == TRUE
GateOpen(p) == p.left = {}

Gate(s) ==
  LET p == pass[s] IN
  /\ At(s, "gate")
  /\ \/ \E b \in p.left :
          IF Satisfied(b) THEN pass' = [pass EXCEPT ![s].left = @ \ {b}]
                          ELSE Goto(s, "reblock")
     \/ /\ GateOpen(p)
        /\ IF p.task \in held \/ ~Room
             THEN NextTask(s)
             ELSE pass' = [pass EXCEPT ![s] =
                     [NoPass EXCEPT !.pc = IF p.task \in p.seen THEN "claim" ELSE "mark",
                                    !.task = p.task]]
  /\ UNCHANGED << rows, agents, wishes, unblocking, inFlight >>

\* reblock_task: update_with_expected_status, then persist_status_change.
Reblock(s) ==
  LET p == pass[s] IN
  /\ At(s, "reblock")
  /\ IF Is(p.task, "Ready")
       THEN /\ WriteRow(p.task, [status |-> "Blocked", marked |-> p.task \in p.seen])
            /\ Goto(s, "log")
       ELSE NextTask(s) /\ UNCHANGED rows
  /\ UNCHANGED << agents, wishes, unblocking, inFlight >>

LogReblock(s) ==
  /\ At(s, "log")
  /\ SetStatus(pass[s].task, "Blocked")
  /\ NextTask(s)
  /\ UNCHANGED << agents, wishes, unblocking, inFlight >>

\* The trigger goes into the row as the batch had it.
Mark(s) ==
  /\ At(s, "mark")
  /\ WriteRow(pass[s].task, [status |-> "Ready", marked |-> TRUE])
  /\ Goto(s, "claim")
  /\ UNCHANGED << agents, wishes, unblocking, inFlight >>

\* try_start_scheduling
ClaimableUnasked(t) == TRUE
Claimable(t) == t \notin inFlight

Claim(s) ==
  LET t == pass[s].task IN
  /\ At(s, "claim")
  /\ IF Claimable(t)
       THEN Goto(s, "move") /\ inFlight' = inFlight \cup {t}
       ELSE Become(s, Again) /\ UNCHANGED inFlight
  /\ UNCHANGED << rows, agents, wishes, unblocking >>

\* finish_scheduling; an error ends the pass.
FinishUnreset(s, p) ==
  pass' = [pass EXCEPT ![s].pc = p.pc] /\ inFlight' = inFlight \ {pass[s].task}
FinishOnSuccess(s, p) ==
  Become(s, p) /\ inFlight' = IF p = NoPass THEN inFlight ELSE inFlight \ {pass[s].task}
Finish(s, p) == Become(s, p) /\ inFlight' = inFlight \ {pass[s].task}

\* transition_task: read and validate, write with the expected status, enter.
Target(t) == IF t \in PlanMerge THEN "PendingMerge" ELSE "Executing"

Move(s) ==
  LET t == pass[s].task IN
  /\ At(s, "move")
  /\ IF Is(t, "Ready")
       THEN Goto(s, "commit") /\ UNCHANGED inFlight
       ELSE Finish(s, IF Is(t, Target(t)) THEN Again ELSE NoPass)
  /\ UNCHANGED << rows, agents, wishes, unblocking >>

Commit(s) ==
  LET t == pass[s].task IN
  /\ At(s, "commit")
  /\ IF Is(t, "Ready")
       THEN SetStatus(t, Target(t)) /\ Goto(s, "enter") /\ UNCHANGED inFlight
       ELSE Finish(s, Again) /\ UNCHANGED rows
  /\ UNCHANGED << agents, wishes, unblocking >>

\* The entry launches an agent, or fails and the task is corrected to Failed.
Enter(s) ==
  LET t == pass[s].task IN
  /\ At(s, "enter")
  /\ \/ Is(t, "Executing") /\ agents' = agents \cup {t} /\ UNCHANGED rows
     \/ Is(t, "Executing") /\ SetStatus(t, "Failed") /\ UNCHANGED agents
     \/ ~Is(t, "Executing") /\ UNCHANGED << rows, agents >>
  /\ Finish(s, Again)
  /\ UNCHANGED << wishes, unblocking >>

\* find_oldest_retryable_pending_review, retry_pending_review: of a task whose
\* backoff is over, if there is one.
Review(s) ==
  /\ At(s, "review")
  /\ \/ Become(s, NoPass) /\ UNCHANGED inFlight
     \/ \E t \in Task :
          /\ Is(t, "PendingReview") /\ Room
          /\ IF Claimable(t)
               THEN /\ Become(s, [NoPass EXCEPT !.pc = "revise", !.task = t])
                    /\ inFlight' = inFlight \cup {t}
               ELSE Become(s, Again) /\ UNCHANGED inFlight
  /\ UNCHANGED << rows, agents, wishes, unblocking >>

\* The entry of PendingReview goes on to Reviewing, or meets the conflict again.
Revise(s) ==
  LET t == pass[s].task IN
  /\ At(s, "revise")
  /\ \/ SetStatus(t, "Reviewing") /\ agents' = agents \cup {t}
     \/ UNCHANGED << rows, agents >>
  /\ Finish(s, Again)
  /\ UNCHANGED << wishes, unblocking >>

-----------------------------------------------------------------------------
(* unblock_dependents, after task b was merged.                            *)

Managing(b, pc) == manager[b].pc = pc
Serve(todo) ==
  IF todo = {} THEN {NoManager}
  ELSE { [NoManager EXCEPT !.pc = "check", !.todo = todo \ {d}, !.task = d,
                           !.left = Blockers[d]] : d \in todo }
NextDependent(b) == \E m \in Serve(manager[b].todo) : manager' = [manager EXCEPT ![b] = m]

\* is_blocker_complete, of each blocker until one is not.
Check(b) ==
  LET m == manager[b] IN
  /\ Managing(b, "check")
  /\ \/ \E x \in m.left :
          manager' = IF Satisfied(x) THEN [manager EXCEPT ![b].left = @ \ {x}]
                                     ELSE [manager EXCEPT ![b].pc = "read"]
     \/ m.left = {} /\ manager' = [manager EXCEPT ![b].pc = "read", ![b].done = TRUE]
  /\ UNCHANGED << rows, agents, wishes, schedulers, starting >>

ReadRow(b) ==
  LET m == manager[b] IN
  /\ Managing(b, "read")
  /\ IF m.done /\ ~Is(m.task, "Blocked")
       THEN NextDependent(b)
       ELSE manager' = [manager EXCEPT ![b].pc = IF m.done THEN "write" ELSE "names",
                                       ![b].row = row[m.task]]
  /\ UNCHANGED << rows, agents, wishes, schedulers, starting >>

\* update of the row that was read, then persist_status_change.
Unblock(b) ==
  LET m == manager[b] IN
  /\ Managing(b, "write")
  /\ WriteRow(m.task, [m.row EXCEPT !.status = "Ready"])
  /\ manager' = [manager EXCEPT ![b].pc = "log"]
  /\ UNCHANGED << agents, wishes, schedulers, starting >>

LogUnblock(b) ==
  /\ Managing(b, "log")
  /\ SetStatus(manager[b].task, "Ready")
  /\ NextDependent(b)
  /\ UNCHANGED << agents, wishes, schedulers, starting >>

\* get_incomplete_blocker_names: with nothing left to name, all ends here.
Names(b) ==
  LET m == manager[b] IN
  /\ Managing(b, "names")
  /\ manager' = [manager EXCEPT ![b] =
       IF \A x \in Blockers[m.task] : Satisfied(x) THEN NoManager
                                                   ELSE [m EXCEPT !.pc = "reason"]]
  /\ UNCHANGED << rows, agents, wishes, schedulers, starting >>

\* A new reason is written with the whole row.
GiveReason(b) ==
  /\ Managing(b, "reason")
  /\ WriteRow(manager[b].task, manager[b].row) \/ UNCHANGED rows
  /\ NextDependent(b)
  /\ UNCHANGED << agents, wishes, schedulers, starting >>

-----------------------------------------------------------------------------
(* Agents, merges, users, restarts.                                        *)

\* What on_exit does for a status an agent works in.
Leave(t, s) == /\ WriteRow(t, [status |-> s, marked |-> FALSE])
               /\ agents' = agents \ {t}

Work(t) ==
  /\ t \in agents
  /\ \/ Is(t, "Executing") /\ \E s \in {"PendingReview", "PendingMerge", "Failed"} : Leave(t, s)
     \/ Is(t, "Reviewing") /\ \E s \in {"PendingReview", "PendingMerge"} : Leave(t, s)
     \/ row[t].status \notin {"Executing", "Reviewing"}   \* the row was written over
        /\ agents' = agents \ {t} /\ UNCHANGED rows
  /\ UNCHANGED << wishes, schedulers, unblocking >>

Merge(t) ==
  /\ Is(t, "PendingMerge") /\ Managing(t, "idle")
  /\ SetStatus(t, "Merged")
  /\ \E m \in Serve(Dependents(t)) : manager' = [manager EXCEPT ![t] = m]
  /\ UNCHANGED << agents, wishes, schedulers, starting >>

Moved == moves < MaxMoves /\ moves' = moves + 1

\* Cancel, block, unblock, retry: one committed transition.
UserMoves(t, s) ==
  /\ Moved
  /\ CanTransition(row[t].status, s)
  /\ row[t].status \in Terminal \cup DependencySatisfied => row[t].status \in Reopened
  /\ IF t \in agents THEN Leave(t, s) ELSE SetStatus(t, s) /\ UNCHANGED agents
  /\ UNCHANGED << held, paused, schedulers, unblocking >>

PauseOrResume ==
  /\ Moved /\ paused' = ~paused
  /\ UNCHANGED << rows, agents, held, schedulers, unblocking >>

HoldOrRelease(t) ==
  /\ Moved /\ held' = (held \ {t}) \cup ({t} \ held)
  /\ UNCHANGED << rows, agents, paused, schedulers, unblocking >>

\* What is in memory is gone; recovery has the agents go on.
Restart ==
  /\ Moved
  /\ inFlight' = {}
  /\ pass' = [s \in Scheduler |-> NoPass]
  /\ manager' = [t \in Task |-> NoManager]
  /\ agents' = { t \in Task : row[t].status \in {"Executing", "Reviewing"} }
  /\ starting' = { t \in Task : Is(t, "Blocked") }
  /\ UNCHANGED << rows, held, paused >>

\* unblock_ready_tasks_for, of one task: read, then written if still blocked.
StartupUnblock(t) ==
  /\ t \in starting
  /\ starting' = starting \ {t}
  /\ IF Is(t, "Blocked") /\ \A b \in Blockers[t] : Satisfied(b)
       THEN SetStatus(t, "Ready")
       ELSE UNCHANGED rows
  /\ UNCHANGED << agents, wishes, schedulers, manager >>

-----------------------------------------------------------------------------
PassStep(s) ==
  \/ LookForRoom(s) \/ Gate(s) \/ Reblock(s) \/ LogReblock(s) \/ Mark(s) \/ Claim(s)
  \/ Move(s) \/ Commit(s) \/ Enter(s) \/ Review(s) \/ Revise(s)

ManagerStep(b) ==
  Check(b) \/ ReadRow(b) \/ Unblock(b) \/ LogUnblock(b) \/ Names(b) \/ GiveReason(b)

Next ==
  \/ \E s \in Scheduler : Call(s) \/ PassStep(s)
  \/ Watch
  \/ \E b \in Task : ManagerStep(b)
  \/ \E t \in Task : Work(t) \/ Merge(t) \/ HoldOrRelease(t) \/ StartupUnblock(t)
  \/ \E t \in Task, s \in {"Ready", "Blocked", "Cancelled"} : UserMoves(t, s)
  \/ PauseOrResume \/ Restart

Spec == Init /\ [][Next]_vars
Fairness == WF_vars(Watch) /\ \A s \in Scheduler : WF_vars(PassStep(s))
LiveSpec == Spec /\ Fairness

-----------------------------------------------------------------------------
(* Properties.                                                             *)

\* The task a pass is inside the guard of try_start_scheduling with.
Inside(s, t) == pass[s].task = t /\ pass[s].pc \in {"move", "commit", "enter", "revise"}

Mover == [t \in Task |-> IF \E s \in Scheduler : Inside(s, t)
                           THEN CHOOSE s \in Scheduler : Inside(s, t) ELSE NoTask]
Lock == INSTANCE EntryLock WITH Caller <- Scheduler, Nobody <- NoTask, holder <- Mover

\* Two passes never move one task at a time, and a claim that a pass gave up
\* does not stay behind: the set in memory is a lock per task.
SchedulingIsLock == Lock!Spec

\* No task is at work before each task it depends on has been merged or
\* cancelled, whoever unblocked it and whatever was written over its row.
AtWork == { "Executing", "PendingReview", "Reviewing", "PendingMerge", "Merged", "Failed" }
StartsAfterBlockers ==
  \A t \in Task : row[t].status \in AtWork => Blockers[t] \subseteq finished

\* A ready task that may start leaves Ready, or the room is taken.
Waits(t) == Is(t, "Ready") /\ t \notin held /\ Room
ReadyIsTaken == \A t \in Task : Waits(t) ~> ~Waits(t)
=============================================================================
