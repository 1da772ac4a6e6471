-------------------------- MODULE BranchUpdateRepo --------------------------
(***************************************************************************)
(* The branch-update repository: the update operations, the leases on the  *)
(* Git targets they change, and the status of the task an operation        *)
(* borrows, in one SQLite database.  Every action is one transaction.  The *)
(* callers (executor, commands, recovery, merge attempts) come with what   *)
(* they read before: an operation, an owner w and an epoch e, any of which *)
(* may be stale; the guard of the statement decides.                       *)
(***************************************************************************)
EXTENDS Naturals, TaskStatus

CONSTANTS
  Task,           \* tasks
  Op,             \* ids of update operations
  Target,         \* Git targets: a repository and a ref
  Tenant,         \* the other owners of a lease: merge attempts, repairs
  Claim,          \* ids of mutation claims and continuation claims
  Sha,            \* commits an update can result in
  Continuation,   \* what an update may be followed by
  Elsewhere,      \* the statuses the rest of the application puts a task in
  MaxEpoch,       \* bound on the epochs of a lease
  Nil

ASSUME EpochAssumption == MaxEpoch \in Nat
ASSUME StatusAssumption == Elsewhere \subseteq Status

VARIABLES
  status,    \* tasks.internal_status
  op,        \* branch_update_operations
  lease      \* git_target_leases

vars == << status, op, lease >>

-----------------------------------------------------------------------------
Direction == { "PlanBranch", "TaskBranch" }

UpdateStatus(d) ==
  IF d = "PlanBranch" THEN "UpdatingPlanBranch" ELSE "UpdatingTaskBranch"

\* destination
Destination ==
  [ ResumeExecution |-> "Executing", ResumeReExecution |-> "ReExecuting",
    ResumeReview |-> "Reviewing", RetryPendingMerge |-> "PendingMerge",
    ResumeWaitingOnPr |-> "WaitingOnPr",
    FinalizePostMergePrPublication |-> "Merged" ]

ASSUME ContinuationAssumption == Continuation \subseteq DOMAIN Destination

Working == { "programmatic", "resolving" }
Open    == Working \cup { "blocked", "continuation_pending", "continuation_in_progress" }

Epoch == 0 .. MaxEpoch
Owner == ({"branch", "publication"} \X Op) \cup ({"tenant"} \X Tenant)
OwnersOf(o) == {"branch", "publication"} \X {o}

ASSUME NilAssumption == Nil \notin Claim \cup Sha \cup Owner

Operation ==
  [ phase : Open \cup {"settled"}, task : Task, target : Target,
    direction : Direction, continuation : Continuation, epoch : Epoch,
    result : Sha \cup {Nil}, conflicts : BOOLEAN, bound : BOOLEAN,
    claim : Claim \cup {Nil} ]

Absent == [ phase |-> "none" ]     \* no row with that id

Lease == [ owner : Owner \cup {Nil}, epoch : Epoch, claim : Claim \cup {Nil},
           group : BOOLEAN, released : BOOLEAN ]

NoLease == [ owner |-> Nil, epoch |-> 0, claim |-> Nil, group |-> FALSE,
             released |-> TRUE ]   \* no row for the target, or none in use

TypeOK == /\ status \in [Task -> Status]
          /\ op \in [Op -> Operation \cup {Absent}]
          /\ lease \in [Target -> Lease]

Init == /\ status \in [Task -> Elsewhere]
        /\ op = [o \in Op |-> Absent]
        /\ lease = [g \in Target |-> NoLease]

-----------------------------------------------------------------------------
(* What the statements ask *)

Unsettled(o) == op[o].phase \in Open

\* classify_authority: the lease is in use, by w, at epoch e
Current(g, w, e) == /\ ~lease[g].released
                    /\ lease[g].owner = w
                    /\ lease[g].epoch = e

QuietUnasked(g) == TRUE
Quiet(g) == lease[g].claim = Nil

\* The EXISTS over the lease that the statements of an operation share.
Guarded(o, w, e) == /\ op[o].epoch = e
                    /\ Current(op[o].target, w, e)
                    /\ Quiet(op[o].target)

Updating(o) == status[op[o].task] = UpdateStatus(op[o].direction)

\* update, update_with_expected_status: no other writer takes a task away.
UnownedUnasked(t) == TRUE
Unowned(t) == \A o \in Op : Unsettled(o) => op[o].task # t

NextEpochReused(g) == lease[g].epoch
NextEpoch(g) == lease[g].epoch + 1

Grant(g, w) ==
  lease' = [lease EXCEPT ![g] = [ owner |-> w, epoch |-> NextEpoch(g), claim |-> Nil,
                                  group |-> FALSE, released |-> FALSE ]]

SetPhase(o, p) == op' = [op EXCEPT ![o].phase = p]
SetStatus(t, s) == status' = [status EXCEPT ![t] = s]

-----------------------------------------------------------------------------
(* Leases *)

AcquireTargetLease(g, w) ==
  /\ lease[g].released
  /\ NextEpoch(g) <= MaxEpoch
  /\ Grant(g, w)
  /\ UNCHANGED << status, op >>

BeginGitMutation(g, w, e, c) ==
  /\ Current(g, w, e)
  /\ Quiet(g)
  /\ lease' = [lease EXCEPT ![g].claim = c, ![g].group = FALSE]
  /\ UNCHANGED << status, op >>

BindGitProcessGroup(g, w, e, c) ==
  /\ Current(g, w, e)
  /\ lease[g].claim = c
  /\ lease' = [lease EXCEPT ![g].group = TRUE]
  /\ UNCHANGED << status, op >>

CompleteGitMutation(g, w, e, c) ==
  /\ Current(g, w, e)
  /\ lease[g].claim = c
  /\ lease' = [lease EXCEPT ![g].claim = Nil, ![g].group = FALSE]
  /\ UNCHANGED << status, op >>

ReleaseTargetLease(g, w, e) ==
  /\ Current(g, w, e)
  /\ Quiet(g)
  /\ lease' = [lease EXCEPT ![g].released = TRUE]
  /\ UNCHANGED << status, op >>

-----------------------------------------------------------------------------
(* The course of an operation *)

\* The caller's expected status is the one the task has now.
Activate(o, t, g, d, k) ==
  /\ op[o].phase = "none"
  /\ Unowned(t)
  /\ lease[g].released
  /\ NextEpoch(g) <= MaxEpoch
  /\ Grant(g, << "branch", o >>)
  /\ SetStatus(t, UpdateStatus(d))
  /\ op' = [op EXCEPT ![o] =
       [ phase |-> "programmatic", task |-> t, target |-> g, direction |-> d,
         continuation |-> k, epoch |-> NextEpoch(g), result |-> Nil,
         conflicts |-> FALSE, bound |-> FALSE, claim |-> Nil ]]

CheckpointResult(o, w, e, s) ==
  /\ op[o].phase \in Working
  /\ op[o].result \in {Nil, s}
  /\ Guarded(o, w, e)
  /\ Updating(o)
  /\ op' = [op EXCEPT ![o].result = s]
  /\ UNCHANGED << status, lease >>

\* The one statement that does not ask for the epoch of the operation.
SettleProgrammatic(o, w, e, s) ==
  /\ op[o].phase \in Working
  /\ op[o].result = s
  /\ Current(op[o].target, w, e)
  /\ Quiet(op[o].target)
  /\ Updating(o)
  /\ SetPhase(o, "continuation_pending")
  /\ UNCHANGED << status, lease >>

BlockOperation(o, w, e, conflicts) ==
  /\ op[o].phase \in Working
  /\ Guarded(o, w, e)
  /\ Updating(o)
  /\ op' = [op EXCEPT ![o].phase = "blocked", ![o].conflicts = conflicts]
  /\ SetStatus(op[o].task, "BranchUpdateBlocked")
  /\ UNCHANGED lease

MarkResolving(o, w, e) ==
  /\ op[o].phase = "programmatic"
  /\ Guarded(o, w, e)
  /\ Updating(o)
  /\ op' = [op EXCEPT ![o].phase = "resolving", ![o].conflicts = TRUE]
  /\ UNCHANGED << status, lease >>

BindAgentRun(o) ==
  /\ op[o].phase = "resolving"
  /\ ~op[o].bound
  /\ Updating(o)
  /\ op' = [op EXCEPT ![o].bound = TRUE]
  /\ UNCHANGED << status, lease >>

UnbindAgentRun(o) ==
  /\ op[o].phase = "resolving"
  /\ op[o].bound
  /\ Updating(o)
  /\ op' = [op EXCEPT ![o].bound = FALSE]
  /\ UNCHANGED << status, lease >>

ClaimContinuation(o, c) ==
  /\ op[o].phase = "continuation_pending"
  /\ op[o].claim = Nil
  /\ Updating(o)
  /\ op' = [op EXCEPT ![o].phase = "continuation_in_progress", ![o].claim = c]
  /\ UNCHANGED << status, lease >>

\* The release asks for owner and epoch, not for the target.
FreeNone(w, e) == UNCHANGED lease
FreeAll(w, e) ==
  lease' = [ g \in Target |->
               IF Current(g, w, e) /\ Quiet(g)
                 THEN [lease[g] EXCEPT !.released = TRUE] ELSE lease[g] ]

CompleteContinuation(o, w, e, c) ==
  /\ op[o].phase = "continuation_in_progress"
  /\ op[o].claim = c
  /\ Guarded(o, w, e)
  /\ Updating(o)
  /\ SetPhase(o, "settled")
  /\ SetStatus(op[o].task, Destination[op[o].continuation])
  /\ FreeAll(w, e)

\* The epoch of the operation goes with the lease, so that the next effect of
\* the operation passes the guards.
TransferLeaseOnly(o, w, e) ==
  LET g == op[o].target IN
  /\ Unsettled(o)
  /\ Updating(o)
  /\ Guarded(o, w, e)
  /\ NextEpoch(g) <= MaxEpoch
  /\ lease' = [lease EXCEPT ![g].owner = << "publication", o >>, ![g].epoch = e + 1]
  /\ UNCHANGED << status, op >>
TransferOperationLease(o, w, e) ==
  LET g == op[o].target IN
  /\ Unsettled(o)
  /\ Updating(o)
  /\ Guarded(o, w, e)
  /\ NextEpoch(g) <= MaxEpoch
  /\ lease' = [lease EXCEPT ![g].owner = << "publication", o >>, ![g].epoch = e + 1]
  /\ op' = [op EXCEPT ![o].epoch = e + 1]
  /\ UNCHANGED status

-----------------------------------------------------------------------------
(* The user's commands and the switch of the tasks feature *)

\* The status the caller read, so that the switch also pauses a blocked task.
PauseOperation(o, w, e) ==
  /\ Unsettled(o)
  /\ Guarded(o, w, e)
  /\ op' = [op EXCEPT ![o].bound = FALSE]
  /\ SetStatus(op[o].task, "Paused")
  /\ UNCHANGED lease

ResumeOperation(o, w, e) ==
  /\ Unsettled(o)
  /\ Guarded(o, w, e)
  /\ status[op[o].task] = "Paused"
  /\ SetStatus(op[o].task, UpdateStatus(op[o].direction))
  /\ UNCHANGED << op, lease >>

StopOperation(o, w, e) ==
  LET g == op[o].target IN
  /\ Unsettled(o)
  /\ Guarded(o, w, e)
  /\ Updating(o)
  /\ op' = [op EXCEPT ![o].phase = "settled", ![o].bound = FALSE]
  /\ SetStatus(op[o].task, "Stopped")
  /\ lease' = [lease EXCEPT ![g].released = TRUE]

\* A new operation in place of the blocked one; the target stays held.
RetryOperation(o, n, w, e) ==
  LET p == op[o] IN
  /\ p.phase = "blocked"
  /\ Guarded(o, w, e)
  /\ status[p.task] = "BranchUpdateBlocked"
  /\ op[n].phase = "none"
  /\ NextEpoch(p.target) <= MaxEpoch
  /\ op' = [op EXCEPT
       ![o].phase = "settled",
       ![n] = [p EXCEPT !.phase = IF p.conflicts THEN "resolving" ELSE "programmatic",
                        !.epoch = e + 1, !.result = Nil, !.bound = FALSE, !.claim = Nil]]
  /\ SetStatus(p.task, UpdateStatus(p.direction))
  /\ lease' = [lease EXCEPT ![p.target].owner = << "branch", n >>,
                            ![p.target].epoch = e + 1]

\* The rest of the application, through the repository of the tasks.
MoveTaskUnasked(t, s) ==
  /\ SetStatus(t, s)
  /\ UNCHANGED << op, lease >>
MoveTask(t, s) ==
  /\ Unowned(t)
  /\ SetStatus(t, s)
  /\ UNCHANGED << op, lease >>

-----------------------------------------------------------------------------
OperationStep(o, w, e) ==
  \/ \E s \in Sha : CheckpointResult(o, w, e, s) \/ SettleProgrammatic(o, w, e, s)
  \/ \E b \in BOOLEAN : BlockOperation(o, w, e, b)
  \/ MarkResolving(o, w, e)
  \/ \E c \in Claim : CompleteContinuation(o, w, e, c)
  \/ TransferOperationLease(o, w, e)
  \/ PauseOperation(o, w, e)
  \/ ResumeOperation(o, w, e)
  \/ StopOperation(o, w, e)
  \/ \E n \in Op : RetryOperation(o, n, w, e)

LeaseStep(g, w, e) ==
  \/ \E c \in Claim : \/ BeginGitMutation(g, w, e, c)
                      \/ BindGitProcessGroup(g, w, e, c)
                      \/ CompleteGitMutation(g, w, e, c)

TenantStep(g, w, e) == AcquireTargetLease(g, w) \/ ReleaseTargetLease(g, w, e)

Next ==
  \/ \E o \in Op, w \in Owner, e \in Epoch : OperationStep(o, w, e)
  \/ \E g \in Target, w \in Owner, e \in Epoch : LeaseStep(g, w, e)
  \/ \E g \in Target, w \in {"tenant"} \X Tenant, e \in Epoch : TenantStep(g, w, e)
  \/ \E o \in Op, t \in Task, g \in Target, d \in Direction, k \in Continuation :
       Activate(o, t, g, d, k)
  \/ \E o \in Op : BindAgentRun(o) \/ UnbindAgentRun(o)
  \/ \E o \in Op, c \in Claim : ClaimContinuation(o, c)
  \/ \E t \in Task, s \in Elsewhere : MoveTask(t, s)

Spec == Init /\ [][Next]_vars

-----------------------------------------------------------------------------
(* Properties *)

\* An operation that is not settled holds its target, under the epoch in its
\* own row: nobody else can change the branch it works on, whichever of its
\* callers were overtaken by a pause, a retry or a hand-over to publication.
UpdateHoldsTarget ==
  \A o \in Op : Unsettled(o) =>
    LET l == lease[op[o].target] IN
    /\ ~l.released
    /\ l.owner \in OwnersOf(o)
    /\ l.epoch = op[o].epoch

\* The other way round: a target held in the name of an operation is the
\* target of an operation still at work, so none stays locked after an end.
NoLeaseLeftBehind ==
  \A g \in Target : ~lease[g].released =>
    \A o \in Op : lease[g].owner \in OwnersOf(o) => Unsettled(o) /\ op[o].target = g

\* Two operations at work belong to two tasks, also across a retry.
OneUpdatePerTask ==
  \A o1, o2 \in Op :
    Unsettled(o1) /\ Unsettled(o2) /\ op[o1].task = op[o2].task => o1 = o2

\* While an operation is at work its task is updating, blocked on the update or
\* paused, and it is shown as blocked only if the operation can be retried.
TaskFollowsUpdate ==
  \A o \in Op : Unsettled(o) =>
    \/ Updating(o)
    \/ status[op[o].task] = "Paused"
    \/ status[op[o].task] = "BranchUpdateBlocked" /\ op[o].phase = "blocked"

\* The leases of the repository are fenced: a new epoch with every new owner,
\* and no new owner while a Git mutation is in flight.
Fenced == INSTANCE FencedLease WITH
  Holder <- Owner,
  Nobody <- Nil,
  holder <- [g \in Target |-> IF lease[g].released THEN Nil ELSE lease[g].owner],
  token <- [g \in Target |-> lease[g].epoch],
  writing <- {g \in Target : lease[g].claim # Nil}

LeasesAreFenced == Fenced!Spec
=============================================================================
