# RalphX: the life of a task, in TLA+

RalphX is a desktop application that lets AI agents plan, write, review and merge code. Its
backend (Rust, `src/src-tauri`) takes every *task* through a long pipeline and keeps the state in
one SQLite database, in the memory of one process, and in Git repositories that its child
processes change. This directory models that pipeline, checks it with TLC and proves parts of it
with TLAPS.

The program's own core is small compared with the repository: which status a task may have next,
who may write it, who may change a branch meanwhile, and how many agents may run. The rest (web
front end, prompts, plugins, integrations) holds none of that state.

## 1. The system

### 1.1 Components

| Component | State it keeps | Operations | Where |
|---|---|---|---|
| Status graph | none (a table) | `can_transition_to` | `ralphx-domain/.../entities/status.rs` |
| Task transition service | task rows, status history, execution-entry guards | transition, correction, recovery, entry and exit actions, automatic steps | `application/task_transition_service.rs`, `domain/state_machine/transition_handler/` |
| Branch-update repository | update operations, leases of Git targets with epoch and mutation claim, status of the borrowed task | activate, checkpoint, settle, block, retry, pause, resume, stop, hand over, claim and complete a continuation, begin, bind and complete a Git mutation | `infrastructure/sqlite/sqlite_branch_update_repo/` |
| Branch-update executor | where a call is, the worktree of the update, the branch, the remote | programmatic run, completion of a resolved run, publication, resumption | `application/branch_update_executor.rs`, `application/git_service/git_cmd.rs` |
| Recovery at startup | none of its own | terminate process groups, clear claims, unbind ended agents, take up continuations | `application/git_mutation_recovery.rs`, `shell/startup_pipeline.rs` |
| Execution slots | running count, limits, entry and scheduling guards, marks of idle agents | increment, decrement, can-start, mark and claim an idle agent, recount | `application/execution_state.rs`, `application/chat_service/`, `application/prune_engine.rs` |
| Ready-task scheduler | scheduling lock, retry flag | one pass over the ready tasks, watchdog, delayed retry | `application/task_scheduler_service/` |
| Event state machine | state of one task as events see it | dispatch of events to states | `domain/state_machine/machine/` |
| Dependency manager, poller of pull requests | dependencies, merge status | unblock dependents, notice a merge made elsewhere | `application/dependency_service/`, `application/services/` |
| Merge pipeline | merge attempts, deferrals, in-flight set | attempt, defer, retry, complete, roll back | `transition_handler/side_effects/`, `merge_*` |
| Agents, queue, chat runs | registry of running agents, queued messages, runs | spawn, stream, drain the queue, finish | `domain/services/`, `application/chat_service/` |
| Delegation park | parked parents, delegated jobs | arm, deliver, wake, reconcile | `application/delegation_park/` |
| Workspace repair | attempts, phases, effects | begin, dispatch, publish, recover | `application/agent_workspace_publish_*`, `publish_resilience_*` |
| Pause, resume, stop, reconciliation | pause flag, retry counters | global commands, repair of drifted tasks | `commands/execution_commands/`, `application/reconciliation/` |
| Automation | runs of automations | schedule, transition, retry | `application/automation/` |

PROJECT.json lists these and the parts that hold no state of the pipeline.

### 1.2 How they interact

A call (a command of the user, an agent's tool, the scheduler, the reconciliation, a recovery)
asks the transition service for a new status. The service reads the row, checks the table and
writes with the old status as the expected one. It then runs the exit actions of the old status
and the entry actions of the new one, in the same call and without a lock. The entry into an
execution takes the per-task *entry guard*, prepares a worktree, checks that the branches are
fresh, and launches an agent. A stale branch makes the entry *activate a branch update*: one
transaction inserts an operation, takes the lease of the Git target and moves the task to
`updating_plan_branch` or `updating_task_branch`. From then on the task belongs to the update:
ordinary status writes are refused until the operation is settled.

The executor carries the update out by Git commands. Each mutating command claims the lease in
the database, starts the process, records its process group, waits and clears the claim. The
executor's merge may conflict; then an agent resolves the conflicts and asks for the completion.
After the merge the operation waits for its *continuation*: the claim of it and the move of the
task to where it came from (or, after a merge on a pull request, the push of the plan branch). All
of this may be cut off by a crash, and Git processes survive the application.

### 1.3 What is hard, and what makes each component correct

| Component | Hard behaviour | It is correct if |
|---|---|---|
| Transition service | callers read a row, work on Git for minutes and write; exits and entries of two calls overlap; guard handed from call to spawned work; chains of automatic steps | commits follow the table; an entry holds its guard to the end and exclusively; an unsettled update keeps its task; every call returns |
| Branch-update repository | all callers may be stale: overtaken by a pause, a retry, a hand-over | an operation at work holds its target; no target stays locked after its end; one update per task; task and operation agree; leases are fenced |
| Executor and recovery | crash between any two steps; Git processes nobody waits for; two completions; workspaces left behind | a task goes on only with its result in the branch; a publication settles only when published; a Git process is never unclaimed; a settled merge lets its task go on |
| Slots | count changed by launch, end of turn, message, end of stream, exit and handler, and overwritten by sweeps | a slot is given back once; a wrong count is repaired; nothing of an agent outlives its run; ready tasks are started |
| Scheduler | nearly every command has a scheduler of its own; gate, trigger, claim and transition are separate reads and writes; contended callers leave a flag | a task is moved by one pass at a time; a ready task with room leaves `ready`; nothing is at work before its blockers |
| Dependency manager | dependents unblocked from rows read earlier, while the scheduler blocks them again | blocked until all blockers are satisfied; then unblocked |
| Merge pipeline | attempt, deferral and retry race with stop | one merge per target; a deferred merge is retried |
| Delegation park | notifiers and a sweep judge the same park; dispatchers die; delegates park themselves; users write and stop | a wake has one dispatcher and a reason; one outcome per park, delivered first; a parked conversation is woken in the end |
| Chat runs | completion races with a new message | one run per conversation; the queue is drained |

The hazards, with the line at which each bites and the property that covers it, are in
PROJECT.json. Those of components not modelled yet carry a note.

## 2. The modules

| Module | What it is | Extends |
|---|---|---|
| `TaskStatus` | the 28 statuses and `valid_transitions` | |
| `EntryLock` | abstract: one lock per task, freed by a restart | |
| `TaskTransitions` | the transition service | `TaskStatus` |
| `TaskTransitionsClaims` | what documents and comments say of it and the code does not do | `TaskTransitions` |
| `TaskTransitionsMC`, `TaskTransitionsProofs` | instance for TLC, theorems | |
| `FencedLease` | abstract: leases with a fencing token | |
| `BranchUpdateRepo` | the branch-update repository, one action per transaction | `TaskStatus` |
| `BranchUpdateRepoMC`, `BranchUpdateRepoProofs` | instance, theorems | |
| `BranchUpdateRuns` | executor, Git processes, recovery, callers, over the repository | `BranchUpdateRepo` |
| `BranchUpdateRunsMC`, `BranchUpdateRunsProofs` | instance, theorems | |
| `BranchUpdatePublishProofs` | theorem: what is settled as merged is at the remote | `BranchUpdateRunsProofs` |
| `BranchUpdateResultProofs` | theorem: what awaits its continuation is in the branch | `BranchUpdatePublishProofs` |
| `ReadyScheduler` | schedulers, dependency manager, users and restarts over the ready tasks; uses `EntryLock` | `TaskStatus` |
| `ReadySchedulerMC`, `ReadySchedulerProofs` | instance, theorems | |
| `ParkPromise` | abstract: what a park promises the conversation that parked | |
| `DelegationPark` | arming, settling, sweeping and waking of parks | |
| `DelegationParkMC`, `DelegationParkProofs` | instances, theorems | |
| `ExecutionSlots` | the count of running agents, marks and registries, through launches, turns, ends and sweeps | |
| `ExecutionSlotsMC`, `ExecutionSlotsProofs` | instances, theorems | |

### 2.1 TaskTransitions

The state is the status of each task, the last recorded status, the branch update that has the
task, the entry guards, and the calls. A call is a record with a program counter: it is started by
an entry point (`StartTransition`, `StartCorrective`, `StartRecovery`, `StartEntry`), and then takes
the steps of the service in order: read, `Commit`, `Exit`, `Enter`, `Prepare`, `Freshen`,
`Activate`, launch, automatic step, return. Between two steps another call, the branch update of
the task, or a crash may come. The whole-row writes that do not ask for an expected status are
actions of that kind. Git and the agent are choices: the worktree can be prepared or not, the
branch is fresh or stale, the launch succeeds or fails.

The retries of an automatic step after freshness conflicts are bounded by `FreshnessTries`, as in
the code. The bound is a constant because the number itself plays no role.

### 2.2 BranchUpdateRepo

Three tables: `status`, `op`, `lease`. Every action is one transaction with the guard of its SQL
statement. Callers are not modelled here: any owner and any epoch may be passed at any time, so
that every stale call is covered. The lease has an owner, an epoch, a mutation claim, whether its
process group is known, and whether it is released. A merge attempt or a workspace repair is a
*tenant* of a lease. `FencedLease` says what the leases promise; `LeasesAreFenced` maps them to it.

### 2.3 BranchUpdateRuns

This module puts callers on top: a *run* is one call of an entry point of
`branch_update_executor.rs` with its program counter, operation, epoch, result and claim. A
statement of the executor is one action (`Check`, `Look`, `Note`, `Tip`, `Settle`, ...), and a Git
command is six: `Begin` (claim), `Spawn`, `Bind` (record the group), the process's own `Exit`,
`Exited`, `Clear`; plus `SpawnFails`, `BindFails` and `TimedOut`. A Git process is in `live` from
its spawn until it exits, whether or not the application is up; what it does to the branch, the
worktree or the remote happens at its exit, or, when it is killed, not at all or by halves
(a `dirty` tree). Commits are model values with the set of commits they contain.

`Crash` drops the runs and orphans the processes. `Restart` begins the recovery, which goes over
the targets: `TerminateGroup`, then `RecoverClaim` (the claim's group is gone and the workspace of
the operation is clean) or `LeaveClaim`. `Ready` lets the callers in. Those are the freshness check
(`StartUpdate`), the resolver agent (`StartResolver`, `ResolverEnds`, `ResolverCompletes`,
`ResolverReports`), the reconciliation (`Reconcile`) and the commands `Pause`, `ResumeTask`,
`StopTask`, `Retry`. Others commit to the branch (`OthersCommit`) and move tasks no update has
(`TaskGoesOn`).

### 2.4 ReadyScheduler

A *pass* is one call of `try_schedule_ready_tasks` by one scheduler: it looks for room and reads a
batch of ready tasks (`LookForRoom`), takes the oldest one through the dependency gate, which reads
one blocker after the other (`Gate`), blocks it again if a blocker is unfinished (`Reblock`,
`LogReblock`) or writes the trigger into its row (`Mark`), claims it in the set
`scheduling_in_flight` (`Claim`), and has the transition service move it (`Move`, `Commit`,
`Enter`); when nothing is ready it retries a pending review (`Review`, `Revise`). Between any two of
these the passes of other schedulers, the dependency manager, agents, users and a restart move.
Nearly every command builds a scheduler, and `scheduling_lock` and the retry flag are fields of it, so
that one `pass` per scheduler is all the lock gives; what they share is the set in `ExecutionState`.

The *dependency manager* is started by a merge (`Merge`): for each dependent it reads the blockers
(`Check`), then the row (`ReadRow`), and writes the row it read as a whole (`Unblock`, `GiveReason`).
A row is the status and whether it has a trigger, since that is what stale whole-row writes bring
back. `StartupUnblock` is the pass over the blocked tasks after a restart.

Simplified: the look for room and the read of the batch are one step; the running count is the
number of tasks with an agent; the end of a backoff is a choice (`held`, `Review`); a
contended caller's retry is a call that comes later, and calls may always come; the names for a
blocked reason are read in one step; agents, reviews and the merge pipeline take one step each.
`Batch` is 50 in the code. A batch of tasks that are all held hides the younger ready tasks behind
them, so that `ReadyIsTaken` needs a batch that covers the ready tasks; the instance has such a one.

What the module shows besides its properties: `Mark` writes back a row that was read before
the claim, so a task that was cancelled or started meanwhile becomes ready again; and when the gate
reads a blocker as unfinished, the blocker is merged, and `unblock_dependents` finds the dependent
still `ready`, the following `Reblock` blocks it with nobody left to unblock it but a restart.

### 2.5 DelegationPark

A row of `park` has its state, its jobs with their recorded status, the run that parked, policy,
tries and whether deadline and staleness have passed. The agent of a conversation delegates
(`Delegate`), asks for a park (`Ask`, `Clear`, `Arm`: the checks of `arm` before, between and in the
inserting transaction) and ends its turn (`Ends`). A *worker* is a notifier of one job, or the sweep;
it goes through its steps: find the parks, check a park, record a status, decide, claim, look up the
conversation, send, count a failed try, settle; the sweep goes on to the stalled claims. The
settlement of a job judges the run and commits later (`Judge`, `Commit`). A user writes or stops
(`Write`, `Begin`, `Stop`, `Disarm`), which supersedes or disarms parks. Any step may fail
(`Breaks`, `Drops`, `DisarmFails`), and the application may stop between any two (`Crash`, `CleanUp`).
`ParkPromise` says what a park promises: opened once, one outcome that stays, and woken only after the
wake was handed over. `PromiseKept` maps the parks to it.

Simplified: the generation of a run is its number in the conversation; the preparation of a wake is part
of `look`; messages go to the queue of a conversation, not into a running turn; `Judge` reads run
and parks in one step; the cancellation of jobs is left out; `newer` is the order of `updated_at`.
A claim grows old (`Age`) only when nobody holds it: the stale window is longer than a dispatcher
takes with all its retries.

### 2.6 ExecutionSlots

`running` is `ExecutionState.running_count`, `idle` the marks of agents that wait between turns,
`registry` and `stdin` the two registries of agents and of their inputs. A `run` is one agent run with
its process and the stream that watches it. Its course is that of `send_message` and of the task it
spawns: reserved in the registry (`EnterAsLaunch`), counted (`Count`), streaming (`Attach`), then, when
the process or its lease is gone, `StreamEnds`, `Unregister`, `ForgetStdin`, `RemoveMark` (which takes
the slot again if the stream gave it back and the status is still the agent's), `Settle`, and the
handler, which moves the task (`HandleMoves`) or finds it moved (`HandleIgnores`). A launch fails with
its cleanup (`LaunchFails`) or past it (`LaunchLost`, which leaks the slot). A turn ends with the slot
given back and the mark set (`TurnEnds`); a message is written (`Message`), then claims the mark, then
raises the count (`Claim`, `Resume`), while the process reads it at any moment (`ReadInbox`). Calls of
the transition service are records in `calls` with what they do next: leave (`Exit`, which lowers the
count), chain, enter, correct, close the reviewer's input. The sweeps are the reconciler, the garbage
collector and the status query: each prunes entries one by one, reads a list (`List`) and stores a number
computed from that list and the marks of now (`Store`).

Simplified: agents and users take one step each; two identical transitions of a task are one; a run
belongs to the episode of the status it was launched for. Left out: agents of ideation, merges and branch
updates, the queue of messages, limits of projects, the recovery that gives a task without its agent a new
one, the exit of a task whose review worktree is missing, and the window in which an entry has no process
id yet (`check_ipr_skip`).

## 3. The runs

All runs use two workers and end within five minutes.

| Run | Instance | Shows |
|---|---|---|
| `transitions_race` | 1 task, 2 calls, 1 retry; 1.41 M states | `TypeOK`, `EntryGuardHeld`, `EntryGuardExclusive`, `CommitsFollowTable`, `OwnedMoves`, `EntryGuardIsLock` |
| `transitions_alone` | 1 call from every status with every request; 98.9 k states | `EveryCallReturns` |
| `branch_updates` | 2 tasks, operations and targets, 1 tenant, 2 epochs; 520 k states | `TypeOK` and the four invariants of the repository, `LeasesAreFenced` |
| `runs_race` | 2 runs, 2 operations on one branch, no crash; 375 k states | `ResultIsInBranch`, `RunsUseRepository` |
| `runs_crash` | 1 run, 2 operations, ordinary and to be published, foreign commits, 1 crash; 935 k states | `RunsTypeOK`, `KnownGitIsClaimed`, `ResultIsInBranch`, `MergedIsPublished` |
| `runs_live` | 1 run, 2 operations, 1 crash; 187 k states | `SettledTaskGoesOn` |
| `ready` | 1 task, the plan's merge that depends on it, 2 schedulers, 1 move of a user or restart; 313 297 states | `TypeOK`, `StartsAfterBlockers`, `SchedulingIsLock`, `ReadyIsTaken` |
| `park_wake` | a coordinator and 2 delegates, one of which may delegate in turn, 1 park, 1 fault; 1.70 M states | `TypeOK`, `OneDispatcher`, `WakeHasReason`, `SettledIsOver` |
| `park_live` | a coordinator, 1 delegate, a user, 1 park, 1 fault, 2 tries; 222 k states | `OneDispatcher`, `PromiseKept`, `WakesWhenDone`, `WakesWhenDue` |
| `slots_count` | 1 task, an execution and a review, 1 verdict, 1 message, 1 stop, 1 chat, reconciler; 843 k states | `TypeOK`, `SlotsAreLive`, `SlotLedger`, `CountSettles` |
| `slots_live` | 2 tasks, 1 slot, reconciler and garbage collector; 379 k states | `ReadyStarts` |

A further run, `transitions_stopped`, ends in a counterexample: it is the finding of section 6.

*Bounds.* Two calls on one task are what every race of the service needs: a guard or a commit is
lost to one other party, and calls on different tasks share nothing but the table. The theorems
cover any number of calls and tasks. Two operations on one target show the retry, and an update
that follows a stopped one. `MaxEpoch` bounds the grants of a lease; two suffice for a hand-over
or a retry, three for an update that follows an earlier one and is handed over. One crash is
enough to leave a process and a claim behind; a second one would find what the first recovery
left. The targets are one in the runs of the executor, because a run touches only the target of
its operation; `branch_updates` has two, for the release that does not name its target.

Two schedulers and a task with one blocker have every race of the scheduler: two passes for one
task, and a pass against the dependency manager. Users and restarts move once (`MaxMoves`); what
takes a longer history is in the theorems, which bound nothing. A park is judged by itself, so that one park shows its races;
the two delegates of `park_wake` let a policy be met in part and one delegate park itself. `MaxRuns` bounds the turns of a conversation: two,
the turn that parks and the one it is woken for.

The slots of different tasks meet only in the count, so that one task with two agents, its execution and its
review, has the races of `slots_count`, and two tasks that share one slot those of `slots_live`. One
verdict, message and stop each are one more party than the stream and the sweeps. The status query takes no
part in the runs: it reads and stores like the others, and the theorems cover it.

*Scope of four properties.* `ResultIsInBranch` is about an update that awaits its continuation. Once
it is settled a later update may drop its result (section 6). `SlotLedger` is about the time before a
message, verdict, stop or sweep: each of these can make the count wrong (section 6), and from then on
`CountSettles` says what still holds. `WakeHasReason` asks only for what is never undone: the recorded status of
a job may be written over by a later one, so that the failure which made a park wake need
not be in its row any more, but a settled job is never open again. `SettledIsOver` is about a delegate
whose conversation parks once and begins no run between the look at its parks and the commit: with two
parks, or with such a run, the code settles it too early (section 6).

*Deadlock* is not checked where a bound (epochs, operations, moves, turns) lets the system stop, or
where it may rest. Where calls must come back, `EveryCallReturns` says so. *Symmetry* is used for
safety runs only.

*Fairness.* A call of the service that can take its next step takes it: it is a task of the async
runtime that nothing blocks, so weak fairness per call. In the executor: weak fairness of each
run's steps for the same reason; of the exit of Git processes, because a mutating command has a
timeout and the kernel ends what is killed; of the startup, which runs to its end; and of the
reconciliation of each operation, which a periodic loop repeats. In the scheduler: each pass takes
its steps, and the watchdog calls (`startup_background.rs` starts its loop). In the parks: each worker
takes its steps, the timer starts the sweep, the startup cleans up, and an abandoned claim grows old.
In the slots: the reconciler counts every 30 seconds (`shell/startup_pipeline.rs:1184`), and as each of
its rounds looks at every entry, pruning is strongly fair; in `slots_live` transitions, schedulers,
launches, streams and senders go on too, and `ReadyStarts` assumes that there are times when no agent
works and no chat is open (the chat is in `slots_count`).
Nothing is assumed of users, agents, deadlines or other committers.

## 4. What is proved

TLAPS proves the following for all values of the constants. The assumptions are those of the
modules: the statuses tasks have elsewhere are statuses, `Nil` is no other value, bounds are
natural numbers, a run's name is a claim id, and tasks start out before any work.

**TaskTransitions.** The inductive invariant `IInv` is `TypeOK` and five facts: which calls hold a
guard (`Busy`), that calls before the execution entry hold none (`Early`), that a call at `Commit`
has checked its move against the table (`Validated`), `EntryGuardHeld` and `EntryGuardExclusive`.
The last two need each other: a call releases only a guard it holds, and it can only lose it to
another call if both have it. From `IInv` follow `TypesHold`, `EntryGuardHolds`,
`EntryGuardIsExclusive`, `CommitsFollowTheTable` (an action property) and
`EntryGuardImplementsLock`, the refinement of `EntryLock`. `OwnedTasksStay` (`OwnedMoves`) is about the
old rows calls carry: every write of a row goes through one of two guards, the compare-and-set or the
check that no update has the task (`Respects`), and each action writes by one of them (`WritesRespect`,
`UpdatesRespect`). The history row is written without either.

**BranchUpdateRepo.** `IInv` is `TypeOK`, `LeaseInUse` (a lease in use has an owner, a claim is
only on a lease in use) and the four safety invariants together. None of the four is inductive alone: that an
operation holds its target survives the end of another operation only because no lease names two
operations (`NoLeaseLeftBehind`), and a retry leaves one operation per task only because the
blocked one held the target. The proof has one lemma per transaction and `NextIInv` puts them together. The refinement
`LeasesImplementFencing` uses it step by step.

**BranchUpdateRuns.** `Inv` is the repository's `IInv`, the types, and three facts about the runs:
one that lands has a result and one that completes a continuation has a claim (`RunsWell`), a Git
process that moves the branch has a commit to move it to (`Informed`), and the operations that runs
and processes name exist (`RowsKept`; rows are never deleted). They are what a statement needs for its
arguments to be of the repository's types, so that each step is a transaction of `BranchUpdateRepo`
or leaves its tables alone: `RunsImplementRepository`. The repository's four invariants carry over
(`RunsKeepThePromises`).

`KnownGitKeepsItsClaim` is not inductive: a run that clears the claim must know that nothing else is
at work on the branch, a crash leaves processes without a run, and run names are used again.
`KInv` adds that a process which is no orphan is the command its run waits for
(`GitIsWatched`) and that a command which has the claim shares the branch with no other known
process (`ClaimIsSole`). A claim is then taken only when none is in flight, hence with no known
process on the branch; cleared by its run only with no process of its own, hence of
anybody; and cleared by recovery only with the claim's group gone, and every known process on the
branch is of that group. All other transactions leave a claim in flight alone (`ClaimsStay`).
A process that was never bound is outside the theorem (section 6).

`MergesArePublished` has the invariant `PInv`, two parts beside `Inv`. `AllMade`: whatever
names a commit (a branch, the remote, a row, a worktree, a run, a process) names one that was made, and
commits are nested: what a commit contains, it contains with all that it contains. `PublishedFirst`:
a run in the hand-over has the result of its operation (`Sending`), and from the claim of the
continuation on the result is at the remote. A push moves the remote to a commit that contains the old
one, and nestedness makes that an addition, so that what was once published stays published
(`StaysPublished`). Most steps change neither what a row has nor where a run is in the late part
(`OpsCalm`, `RunsCalm`); the others have a lemma each.

`ResultsStayInTheBranch` (`ResultIsInBranch`) is about every Git process that may still move the branch, one
that outlived its run, its update or the application included. Such a process moves the branch only from the
commit its update started from (`LandsFor`), so the danger is a branch that is at that commit although a
result has been landed on it. The argument orders the updates of a target by their epochs
(`RowsInOrder`: the epochs tell them apart, and one at work comes last) and its core is `Histories`: an
update starts from no commit older than those the updates before it started from, the branch is at no
commit older than any of these, and a result is in none of the commits that its update and the ones before it
started from (`Beyond`). A process of an earlier update finds the branch where that update started only if
no result is in it, and one of the same update lands the result. Commits contain each other in one
direction (`Antisymmetric`), which a new commit keeps as nobody contains it.

That a result is new has to be known when the row does not have it yet. `NewResults` says it of the head of
the workspace, from the commit of the merge to its record, and so that nothing else may change that
head meanwhile. For this the invariant follows the runs and processes (`Courses`: only one run merges for an
update no resolver was asked for; a merge or an add whose run is gone has nobody beside it; a process that
lands or removes has the result of its row) and the claims (`Claims`: a command at work has the claim of its
branch, and an add, which may hit a workspace that was made meanwhile, is alone in its place and finds
it empty). `ResultsLanded` carries the result from the landing to the settlement. As in the other proofs
the invariant needs only lists of what a step may do: to the rows (`RowGoes`), runs (`RunGoes`), processes
(`GitGoes`), claims (`ClaimGoes`), workspaces and branches (`DiskGoes`). TLC has checked the
invariant, `HInv`, on the instances of `runs_crash` and `runs_race` (935 430 and 374 857 states).

**ReadyScheduler.** `IInv` is four conjuncts. `Rows`: satisfied tasks are in `finished`, and
`StartsAfterBlockers`. `Passes`: a pass past the gate chose a task whose blockers are finished, one
inside the gate has read those it is done with as finished; the set in memory is exactly the
tasks of the passes inside the claim, and no two share one. `Managers`: a row the dependency
manager carries, if it is of a task at work, is of one whose blockers are finished, so that writing it
back is harmless to the invariant. `Others`: types. `finished` only grows, and that is what makes stale reads of
blockers good enough. From `IInv`: `TypesHold`, `BlockersFirst`, `SchedulingImplementsLock`.

**DelegationPark.** `IInv` is `TypeOK`, `OneDispatcher`, and the well-formedness of each park
(`ParkOK`: a park taken for waking has its reason, and a claim that has grown old has no holder), worker
(`WorkOK`: what a worker knows at each of its steps) and of the sweep (`SweepOK`: the claims it is about to
take back have no holder). `OneDispatcher` needs the last: a reset makes a park claimable while its
first dispatcher may still be between two tries, unless it is gone for good. From `IInv`: `TypesHold`,
`DispatchersAreAlone`, `WakesHaveReasons`, and the refinement `ParksKeepTheirPromise`.

`SettlementsWait` (`SettledIsOver`) relates the look of a settlement (`Judge`) to a commit any number of steps
later. `JInv` says what the look found and still holds at the commit (`Judged`): the conversation is over,
and it has no arm call in flight. A new park needs a turn, since an agent that arms one has not
ended its turn (`CompletedAsksNothing`), and a new turn shows in the number of its run
(`Behind`), which only grows but for the first run of a delegate (`RunCourse`). An armed park can only
be claimed, and a settlement that found none has none until then; a wake sent once is in the queue of the
conversation the park is of (`InboxesKeep`), and what is due stays due. `Course` lists what a step may do to a
park, `RunCourse` to a run, `Deliveries` to the queues, `Settlements` to the jobs; `JInv` needs only these
four lists, not the actions.

**ExecutionSlots.** `Inv` has five parts: the types; `Courses`, how calls, episodes and runs belong
together; and, as `SlotsAreLive` has three, one for marks, one for entries and one for inputs, each naming
the run that will remove it. The steps that remove by key (`RemoveMark`, the verdict, the sweeps) can
only remove too much, which these allow; the danger is a step that reuses a run, since the marks and
entries of its earlier life would then belong to nobody. So `Courses` says that a call about to enter a
status, and a run not yet launched, is of an episode nobody has used. From `Inv`: `TypesHold` and
`NothingIsLeftBehind`, which is `SlotsAreLive` with messages, verdicts, stops and all three sweeps without
bound. Tasks and chats are finite, as a sweep counts them.

`LedgerHolds` (`SlotLedger`) has an invariant of its own, `LedgerInv`: as long as nobody has written,
spoken a verdict, stopped or swept (`Pristine`), the count is the number of runs that hold a slot and of
exits still to give one back (`Balanced`). That needs to know that the giving back happens
once: a task has one actor at a time, a transition or an agent (`Alone`), no call waits for a
message or to close a process (`Unasked`), an agent's task is in the status and episode it works for
(`InStatus`), and the end of its turn comes before the end of its process (`FirstTurn`). Then of the three
places that lower the count, the end of a turn, the end of the stream and the exit from the status, exactly
one applies, and each step moves one run or call from one side of the sum to the other; the lemmas on
cardinalities are proved from the finiteness of tasks. TLC has checked `LedgerInv` on the instance of
`slots_count` with the garbage collector in place of the chat, and on one of two tasks (970 589 and
1 135 273 states).

**Only model-checked.** Liveness (`EveryCallReturns`, `SettledTaskGoesOn`, `ReadyIsTaken`,
`WakesWhenDone`, `WakesWhenDue`, `CountSettles`, `ReadyStarts`), because the prover handles neither
fairness nor `ENABLED`. Every safety invariant and action property of a passing run is a theorem.

## 5. What is left out

Of the modelled components: archived tasks, the feature switch and its drain, database errors outside
the parks, `restart_terminal`, handlers dropped because their client
disconnects, validation of branch names and paths, `transfer_target_lease` (called by tests
only), claims of merge attempts and workspace repairs at startup, limits of projects, retries of
deferred merges by the scheduler, the poller of pull requests. The source branch of an update
is a choice: it may have moved or not. What a commit contains is the set of commits below it, not
its files. Times are left out; a timeout, a backoff and a deadline are choices.

Not modelled: the components of section 1.1 without a module, and everything without state of the
pipeline (front end, prompts, integrations, the workflow runner). The repository is far
larger than what decides about a task: most of its lines carry data from the database to the user
interface and back, prepare prompts, or report. Modules here stand for the lines that decide.

## 6. Findings

`transitions_stopped` finds that a stop during the worktree setup is overwritten by a whole-row write,
and the agent is launched. The user guide says that terminal states are left by retry only.

More disagreements are in the models without a run of their own:

- The conflicts a stopped update left in its workspace are resolved for a later update, whose commit
  then drops what was committed to the branch in between (`BranchUpdateRuns`). The executor's own error
  message asks that a result contain both tips.
- The sweep records a delegate as completed while that delegate's own park is being woken
  (`DelegationPark`). A comment calls it unfinished through arm, dispatch and the gap before its resumed
  run.
- A settlement, too, can find a delegate over that is not. Two arm calls of one turn, which supersede and
  insert in two transactions, leave two armed parks, and a settlement asks the newest only; so
  does the record of a late job, which puts an old woken park before the live one. A turn the
  user begins counts as the run the wake resumed, as only its start is compared with the claim. And a
  conversation that an expired park resumes between the look and the commit may park again.
  (`DelegationPark`: `Blocking`, `Blocks`; found while the invariant of `SettledIsOver` was looked for.)
- Two schedulers see the same free slot before either agent is counted (`ExecutionSlots`: `Look`,
  `Start`, `Count`), so that `global_max_concurrent` is no "hard cap"
  (`docs/user-guides/execution.md:622`).
- A reviewer that gave its slot back, and whose task `complete_review` has moved on, has it given back
  a second time: `TakesAgain` skips the increment, `Negates` does not skip the decrement, against the
  comment at `chat_service_handlers.rs:1995`.
- A message written in the middle of a turn starts the next turn of an agent that is marked idle and not
  counted (`TurnEnds`, then `ReadInbox`; `execution_state.rs:153` calls a marked process idle). If
  the agent has finished that turn before the sender claims the mark, the claim leaves an idle agent
  with a slot; `slots_live` has no messages for that reason.
- A process that dies between the claim of its slot by a message and its first output has that slot taken
  for free (`Claim`, `Resume`, `StreamEnds`; the comment at `chat_service_streaming.rs:3453`).
- A launch that fails between the count and the process returns past the cleanup on some ways
  (`LaunchLost`: the `?` at `chat_service/mod.rs:7890`, against the comment at 6766 that any early
  return must unregister).
- The status query subtracts the marks of all agents from a list that is older than they are, and the
  reconciler counts chats, which use no slot (`Store`, `Matched`).
- A crash between the spawn of a Git process and the record of its group leaves a claim that
  recovery clears while the process runs (`BranchUpdateRuns`: a process that is not `bound` is not in
  `GroupOf`).
- A crash during the push of a publication leaves a claim nothing clears, as the workspace recovery
  wants to inspect is gone (`Inspected`). The same befalls a second completion of one resolver that
  claims a Git command after the first has settled. `SettledTaskGoesOn` is therefore stated for
  ordinary updates and checked with one run at a time.
- A correction writes status and history in two transactions, and whole-row writes insert no history
  (`TaskTransitions`).
- A park whose dispatcher breaks off between send and settle is sent its wake twice
  (`DelegationPark`, `sent`).
- The scheduler's trigger write brings back an old status, and its gate can block a task for ever
  that has just been unblocked (`ReadyScheduler`, section 2.4).

Two more need no model. The comment at `task_transition_service.rs:3825` says that at
most one automatic step is taken per call, and the loop below it goes on (a task that passes QA is
taken to `pending_review` and then to `reviewing`); the module has the loop. The user guide's
"complete list" of transitions (`docs/user-guides/task-state-machine.md:233`) lacks moves the table
of the code allows, such as `ready` to `pending_merge`; the module has the code's table.

## 7. Plan

Done: `TaskStatus`, `TaskTransitions`, `BranchUpdateRepo`, `BranchUpdateRuns`, `ReadyScheduler` with
the dependency manager, `DelegationPark`, `ExecutionSlots`.

1. `MergeAttempts`: attempt, deferral, retry and completion over the leases of
   `BranchUpdateRepo`, whose tenants they are. *Properties:* one merge per target; a deferred merge
   is retried; a stop is not undone by a completion.
2. The poller of pull requests, beside the dependency manager.
3. `AgentRuns`: one run per conversation, the queue drained.
4. `Lifecycle`: the global pause, resume and stop and the reconciliation over `TaskTransitions`.
5. The event machine against the table; repair attempts; automation runs.
6. Proofs: the invariants of the new modules.
