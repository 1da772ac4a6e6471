----------------------- MODULE BranchUpdateRepoProofs -----------------------
(***************************************************************************)
(* Proofs about the branch-update repository, for any number of tasks,     *)
(* operations, targets and callers.                                        *)
(***************************************************************************)
EXTENDS BranchUpdateRepo, TLAPS

\* A lease that is given back carries no claim; one in use has an owner.
LeaseInUse ==
  \A g \in Target : IF lease[g].released THEN lease[g].claim = Nil
                                         ELSE lease[g].owner \in Owner

\* What the statements keep together: the rows have their types, and each of
\* the safety invariants needs the others to survive a step.
IInv == /\ TypeOK
        /\ LeaseInUse
        /\ UpdateHoldsTarget
        /\ NoLeaseLeftBehind
        /\ OneUpdatePerTask
        /\ TaskFollowsUpdate

-----------------------------------------------------------------------------
\* An owner in the name of an operation names only that one.
LEMMA OwnerNamesOne ==
  ASSUME NEW o1 \in Op, NEW o2 \in Op, NEW w, w \in OwnersOf(o1), w \in OwnersOf(o2)
  PROVE  o1 = o2
BY DEF OwnersOf

\* A tenant is not an operation.
LEMMA TenantsAreOthers ==
  ASSUME NEW w \in {"tenant"} \X Tenant, NEW o \in Op
  PROVE  w \notin OwnersOf(o) /\ w \in Owner
BY DEF OwnersOf, Owner

LEMMA OwnersAreOwners ==
  ASSUME NEW o \in Op
  PROVE  OwnersOf(o) \subseteq Owner /\ << "branch", o >> \in OwnersOf(o)
         /\ << "publication", o >> \in OwnersOf(o)
BY DEF OwnersOf, Owner

LEMMA UpdateStatuses ==
  ASSUME NEW d \in Direction
  PROVE  /\ UpdateStatus(d) \in Status
         /\ UpdateStatus(d) \notin {"Paused", "BranchUpdateBlocked"}
BY DEF UpdateStatus, Direction, Status

LEMMA Destinations ==
  ASSUME NEW k \in Continuation
  PROVE  Destination[k] \in Status
BY ContinuationAssumption DEF Destination, Status

\* The row of an operation at work.
LEMMA OpenRows ==
  ASSUME TypeOK, NEW o \in Op, op[o].phase # "none"
  PROVE  op[o] \in Operation
BY DEF TypeOK, Absent

-----------------------------------------------------------------------------
(* Steps of a lease alone *)

LEMMA TenantTakes ==
  ASSUME IInv, NEW g \in Target, NEW w \in {"tenant"} \X Tenant, AcquireTargetLease(g, w)
  PROVE  IInv'
<1>1. w \in Owner /\ \A o \in Op : w \notin OwnersOf(o)
  BY DEF OwnersOf, Owner
<1> USE DEF AcquireTargetLease, Grant, NextEpoch
<1>2. op' = op /\ status' = status
  OBVIOUS
<1>3. lease' = [lease EXCEPT ![g] = [ owner |-> w, epoch |-> lease[g].epoch + 1,
                  claim |-> Nil, group |-> FALSE, released |-> FALSE ]]
  OBVIOUS
<1>4. \A o \in Op : Unsettled(o) => op[o].target # g
  BY DEF IInv, UpdateHoldsTarget
<1>5. TypeOK'
  <2>1. lease[g].epoch + 1 \in Epoch
    BY EpochAssumption DEF IInv, TypeOK, Lease, Epoch
  <2>2. [ owner |-> w, epoch |-> lease[g].epoch + 1, claim |-> Nil,
          group |-> FALSE, released |-> FALSE ] \in Lease
    BY <1>1, <2>1 DEF Lease
  <2> QED BY <1>2, <1>3, <2>2 DEF IInv, TypeOK
<1>6. lease \in [Target -> Lease]
  BY DEF IInv, TypeOK
<1>7. LeaseInUse'
  BY <1>1, <1>3, <1>6 DEF IInv, LeaseInUse
<1>8. UpdateHoldsTarget'
  BY <1>2, <1>3, <1>4, <1>6 DEF IInv, UpdateHoldsTarget, Unsettled
<1>9. NoLeaseLeftBehind'
  BY <1>1, <1>2, <1>3, <1>6 DEF IInv, NoLeaseLeftBehind, Unsettled
<1>10. OneUpdatePerTask' /\ TaskFollowsUpdate'
  BY <1>2 DEF IInv, OneUpdatePerTask, TaskFollowsUpdate, Unsettled, Updating
<1> QED BY <1>5, <1>7, <1>8, <1>9, <1>10 DEF IInv

\* Claims and process groups come and go without touching owner and epoch.
LEMMA ClaimsMove ==
  ASSUME IInv, NEW g \in Target, NEW c \in Claim \cup {Nil}, NEW b \in BOOLEAN,
         ~lease[g].released,
         lease' = [lease EXCEPT ![g].claim = c, ![g].group = b],
         UNCHANGED << status, op >>
  PROVE  IInv'
<1>1. lease \in [Target -> Lease]
  BY DEF IInv, TypeOK
<1>2. \A h \in Target : /\ lease'[h].released = lease[h].released
                        /\ lease'[h].owner = lease[h].owner
                        /\ lease'[h].epoch = lease[h].epoch
                        /\ lease[h].released => lease'[h] = lease[h]
  BY <1>1 DEF Lease
<1>3. lease' \in [Target -> Lease]
  BY <1>1 DEF Lease
<1>4. TypeOK' /\ LeaseInUse'
  BY <1>2, <1>3 DEF IInv, TypeOK, LeaseInUse
<1>5. UpdateHoldsTarget'
  <2> SUFFICES ASSUME NEW o \in Op, Unsettled(o)
               PROVE  /\ ~lease'[op[o].target].released
                      /\ lease'[op[o].target].owner \in OwnersOf(o)
                      /\ lease'[op[o].target].epoch = op[o].epoch
    BY DEF UpdateHoldsTarget, Unsettled
  <2>1. op[o].target \in Target
    BY OpenRows DEF IInv, Unsettled, Open, Working, Operation
  <2> QED BY <1>2, <2>1 DEF IInv, UpdateHoldsTarget
<1>6. NoLeaseLeftBehind'
  BY <1>2 DEF IInv, NoLeaseLeftBehind, Unsettled
<1>7. OneUpdatePerTask' /\ TaskFollowsUpdate'
  BY DEF IInv, OneUpdatePerTask, TaskFollowsUpdate, Unsettled, Updating
<1> QED BY <1>4, <1>5, <1>6, <1>7 DEF IInv

LEMMA TenantLeaves ==
  ASSUME IInv, NEW g \in Target, NEW w \in {"tenant"} \X Tenant, NEW e \in Epoch,
         ReleaseTargetLease(g, w, e)
  PROVE  IInv'
<1> USE DEF ReleaseTargetLease
<1>1. \A o \in Op : lease[g].owner \notin OwnersOf(o)
  BY DEF Current, OwnersOf
<1>2. lease \in [Target -> Lease]
  BY DEF IInv, TypeOK
<1>3. \A o \in Op : Unsettled(o) => op[o].target # g
  BY <1>1 DEF IInv, UpdateHoldsTarget
<1>4. \A o \in Op : Unsettled(o) => op[o].target \in Target
  BY OpenRows DEF IInv, Unsettled, Open, Working, Operation
<1>5. /\ \A h \in Target : h # g => lease'[h] = lease[h]
      /\ lease'[g] = [lease[g] EXCEPT !.released = TRUE]
      /\ lease' \in [Target -> Lease]
  BY <1>2 DEF Lease
<1>6. lease'[g].released /\ lease'[g].claim = Nil
  BY <1>2, <1>5 DEF Quiet, Lease
<1>7. TypeOK' /\ LeaseInUse'
  BY <1>5, <1>6 DEF IInv, TypeOK, LeaseInUse
<1>8. UpdateHoldsTarget'
  BY <1>3, <1>4, <1>5 DEF IInv, UpdateHoldsTarget, Unsettled
<1>9. NoLeaseLeftBehind'
  BY <1>5, <1>6 DEF IInv, NoLeaseLeftBehind, Unsettled
<1>10. OneUpdatePerTask' /\ TaskFollowsUpdate'
  BY DEF IInv, OneUpdatePerTask, TaskFollowsUpdate, Unsettled, Updating
<1> QED BY <1>7, <1>8, <1>9, <1>10 DEF IInv

LEMMA LeaseStepKeeps ==
  ASSUME IInv, NEW g \in Target, NEW w \in Owner, NEW e \in Epoch, LeaseStep(g, w, e)
  PROVE  IInv'
<1> PICK c \in Claim : \/ BeginGitMutation(g, w, e, c)
                       \/ BindGitProcessGroup(g, w, e, c)
                       \/ CompleteGitMutation(g, w, e, c)
  BY DEF LeaseStep
<1>1. CASE BeginGitMutation(g, w, e, c)
  BY <1>1, ClaimsMove DEF BeginGitMutation, Current
<1>2. CASE BindGitProcessGroup(g, w, e, c)
  <2>1. lease \in [Target -> Lease]
    BY DEF IInv, TypeOK
  <2>2. lease' = [lease EXCEPT ![g].claim = c, ![g].group = TRUE]
    BY <1>2, <2>1 DEF BindGitProcessGroup, Lease
  <2> QED BY <1>2, <2>2, ClaimsMove DEF BindGitProcessGroup, Current
<1>3. CASE CompleteGitMutation(g, w, e, c)
  BY <1>3, ClaimsMove DEF CompleteGitMutation, Current
<1> QED BY <1>1, <1>2, <1>3

-----------------------------------------------------------------------------
(* Steps of an operation *)

\* One row changes and goes on naming the same task, target and epoch: the
\* operation is still at work, and the lease is as it was.
SameWork(o, r) ==
  /\ r \in Operation
  /\ r.phase \in Open
  /\ r.task = op[o].task
  /\ r.target = op[o].target
  /\ r.direction = op[o].direction
  /\ r.epoch = op[o].epoch

\* What every invariant needs of such a step, apart from the status.
LEMMA SameWorkKeepsLeases ==
  ASSUME IInv, NEW o \in Op, NEW r, Unsettled(o), SameWork(o, r),
         op' = [op EXCEPT ![o] = r], UNCHANGED lease
  PROVE  /\ op' \in [Op -> Operation \cup {Absent}]
         /\ op'[o] = r
         /\ \A x \in Op : x # o => op'[x] = op[x]
         /\ \A x \in Op : Unsettled(x)' <=> Unsettled(x)
         /\ LeaseInUse' /\ UpdateHoldsTarget' /\ NoLeaseLeftBehind' /\ OneUpdatePerTask'
<1>1. op \in [Op -> Operation \cup {Absent}]
  BY DEF IInv, TypeOK
<1>2. /\ op' \in [Op -> Operation \cup {Absent}]
      /\ op'[o] = r
      /\ \A x \in Op : x # o => op'[x] = op[x]
  BY <1>1 DEF SameWork
<1>3. \A x \in Op : Unsettled(x)' <=> Unsettled(x)
  BY <1>2 DEF Unsettled, SameWork
<1>4. \A x \in Op : /\ op'[x].epoch = op[x].epoch
                   /\ op'[x].target = op[x].target
                   /\ op'[x].task = op[x].task
  BY <1>2 DEF SameWork
<1>5. LeaseInUse'
  BY DEF IInv, LeaseInUse
<1>6. UpdateHoldsTarget'
  BY <1>3, <1>4 DEF IInv, UpdateHoldsTarget
<1>7. NoLeaseLeftBehind'
  BY <1>3, <1>4 DEF IInv, NoLeaseLeftBehind
<1>8. OneUpdatePerTask'
  BY <1>3, <1>4 DEF IInv, OneUpdatePerTask
<1> QED BY <1>2, <1>3, <1>5, <1>6, <1>7, <1>8

\* The work goes on in the update status.
LEMMA WorkGoesOn ==
  ASSUME IInv, NEW o \in Op, NEW r, Unsettled(o), Updating(o), SameWork(o, r),
         op' = [op EXCEPT ![o] = r], UNCHANGED << status, lease >>
  PROVE  IInv'
<1>1. /\ op' \in [Op -> Operation \cup {Absent}]
      /\ op'[o] = r
      /\ \A x \in Op : x # o => op'[x] = op[x]
      /\ \A x \in Op : Unsettled(x)' <=> Unsettled(x)
      /\ LeaseInUse' /\ UpdateHoldsTarget' /\ NoLeaseLeftBehind' /\ OneUpdatePerTask'
  BY SameWorkKeepsLeases
<1>2. TypeOK'
  BY <1>1 DEF IInv, TypeOK
<1>3. TaskFollowsUpdate'
  BY <1>1 DEF IInv, TaskFollowsUpdate, Updating, SameWork
<1> QED BY <1>1, <1>2, <1>3 DEF IInv

\* The work goes on, and the task is given another of its statuses.
LEMMA TaskFollows ==
  ASSUME IInv, NEW o \in Op, NEW r, NEW s \in Status, Unsettled(o), SameWork(o, r),
         \/ s = UpdateStatus(op[o].direction)
         \/ s = "Paused"
         \/ s = "BranchUpdateBlocked" /\ r.phase = "blocked",
         op' = [op EXCEPT ![o] = r], SetStatus(op[o].task, s), UNCHANGED lease
  PROVE  IInv'
<1>1. /\ op' \in [Op -> Operation \cup {Absent}]
      /\ op'[o] = r
      /\ \A x \in Op : x # o => op'[x] = op[x]
      /\ \A x \in Op : Unsettled(x)' <=> Unsettled(x)
      /\ LeaseInUse' /\ UpdateHoldsTarget' /\ NoLeaseLeftBehind' /\ OneUpdatePerTask'
  BY SameWorkKeepsLeases
<1>2. /\ status \in [Task -> Status]
      /\ status' = [status EXCEPT ![op[o].task] = s]
      /\ lease \in [Target -> Lease]
  BY DEF IInv, TypeOK, SetStatus
<1>3. TypeOK'
  BY <1>1, <1>2 DEF TypeOK
<1>4. op[o].task \in Task
  BY OpenRows DEF IInv, Unsettled, Open, Working, Operation
<1>5. TaskFollowsUpdate'
  <2> SUFFICES ASSUME NEW x \in Op, Unsettled(x)
               PROVE  \/ Updating(x)'
                      \/ status'[op'[x].task] = "Paused"
                      \/ status'[op'[x].task] = "BranchUpdateBlocked" /\ op'[x].phase = "blocked"
    BY <1>1 DEF TaskFollowsUpdate
  <2>1. CASE x = o
    BY <2>1, <1>1, <1>2, <1>4 DEF Updating, SameWork
  <2>2. CASE x # o
    <3>1. op[x].task # op[o].task
      BY <2>2 DEF IInv, OneUpdatePerTask
    <3>2. op'[x] = op[x] /\ status'[op[x].task] = status[op[x].task]
      BY <2>2, <3>1, <1>1, <1>2
    <3> QED BY <3>2 DEF IInv, TaskFollowsUpdate, Updating
  <2> QED BY <2>1, <2>2
<1> QED BY <1>1, <1>3, <1>5 DEF IInv

\* The operation ends: its task gets status s and its target is free again.
LEMMA UpdateEnds ==
  ASSUME IInv, NEW o \in Op, NEW r \in Operation, NEW s \in Status, Unsettled(o),
         r.phase = "settled",
         Quiet(op[o].target),
         op' = [op EXCEPT ![o] = r], SetStatus(op[o].task, s),
         lease' \in [Target -> Lease],
         lease'[op[o].target] = [lease[op[o].target] EXCEPT !.released = TRUE],
         \A h \in Target : h # op[o].target => lease'[h] = lease[h]
  PROVE  IInv'
<1> DEFINE g == op[o].target
<1>1. /\ op \in [Op -> Operation \cup {Absent}]
      /\ lease \in [Target -> Lease]
      /\ status \in [Task -> Status]
  BY DEF IInv, TypeOK
<1>2. op[o].task \in Task /\ g \in Target
  BY OpenRows DEF IInv, Unsettled, Open, Working, Operation
<1>3. /\ op' \in [Op -> Operation \cup {Absent}]
      /\ op'[o] = r
      /\ \A x \in Op : x # o => op'[x] = op[x]
      /\ status' = [status EXCEPT ![op[o].task] = s]
  BY <1>1 DEF SetStatus
<1>4. \A x \in Op : Unsettled(x)' <=> Unsettled(x) /\ x # o
  BY <1>3 DEF Unsettled, Open, Working
<1>5. lease'[g].released /\ lease'[g].claim = Nil
  BY <1>1, <1>2 DEF Quiet, Lease
<1>6. \A x \in Op : Unsettled(x) /\ x # o => op[x].target # g
  BY OwnerNamesOne DEF IInv, UpdateHoldsTarget
<1>7. \A x \in Op : Unsettled(x) => op[x].target \in Target
  BY OpenRows DEF IInv, Unsettled, Open, Working, Operation
<1>8. TypeOK'
  BY <1>1, <1>3 DEF TypeOK
<1>9. LeaseInUse'
  BY <1>5 DEF IInv, LeaseInUse
<1>10. UpdateHoldsTarget'
  BY <1>3, <1>4, <1>6, <1>7 DEF IInv, UpdateHoldsTarget
<1>11. NoLeaseLeftBehind'
  <2> SUFFICES ASSUME NEW h \in Target, ~lease'[h].released,
                      NEW x \in Op, lease'[h].owner \in OwnersOf(x)
               PROVE  Unsettled(x)' /\ op'[x].target = h
    BY DEF NoLeaseLeftBehind
  <2>1. h # g /\ lease'[h] = lease[h]
    BY <1>5
  <2>2. Unsettled(x) /\ op[x].target = h
    BY <2>1 DEF IInv, NoLeaseLeftBehind
  <2> QED BY <2>1, <2>2, <1>3, <1>4
<1>12. OneUpdatePerTask'
  BY <1>3, <1>4 DEF IInv, OneUpdatePerTask
<1>13. TaskFollowsUpdate'
  <2> SUFFICES ASSUME NEW x \in Op, Unsettled(x), x # o
               PROVE  \/ Updating(x)'
                      \/ status'[op'[x].task] = "Paused"
                      \/ status'[op'[x].task] = "BranchUpdateBlocked" /\ op'[x].phase = "blocked"
    BY <1>4 DEF TaskFollowsUpdate
  <2>1. op[x].task # op[o].task
    BY DEF IInv, OneUpdatePerTask
  <2>2. op'[x] = op[x] /\ status'[op[x].task] = status[op[x].task]
    BY <2>1, <1>1, <1>3
  <2> QED BY <2>2 DEF IInv, TaskFollowsUpdate, Updating
<1> QED BY <1>8, <1>9, <1>10, <1>11, <1>12, <1>13 DEF IInv

LEMMA StopEnds ==
  ASSUME IInv, NEW o \in Op, NEW w \in Owner, NEW e \in Epoch, StopOperation(o, w, e)
  PROVE  IInv'
<1> DEFINE r == [op[o] EXCEPT !.phase = "settled", !.bound = FALSE]
<1>1. op \in [Op -> Operation \cup {Absent}] /\ lease \in [Target -> Lease]
  BY DEF IInv, TypeOK
<1>2. Unsettled(o) /\ Quiet(op[o].target)
  BY DEF StopOperation, Guarded
<1>3. op[o] \in Operation
  BY <1>2, OpenRows DEF IInv, Unsettled, Open, Working
<1>4. r \in Operation /\ r.phase = "settled" /\ op' = [op EXCEPT ![o] = r]
  BY <1>1, <1>3 DEF StopOperation, Operation
<1>5. op[o].target \in Target
  BY <1>3 DEF Operation
<1>6. lease' = [lease EXCEPT ![op[o].target] = [lease[op[o].target] EXCEPT !.released = TRUE]]
  BY <1>1, <1>5 DEF StopOperation
<1>7. /\ lease' \in [Target -> Lease]
      /\ lease'[op[o].target] = [lease[op[o].target] EXCEPT !.released = TRUE]
      /\ \A h \in Target : h # op[o].target => lease'[h] = lease[h]
  BY <1>1, <1>5, <1>6 DEF Lease
<1>8. SetStatus(op[o].task, "Stopped") /\ "Stopped" \in Status
  BY DEF StopOperation, Status
<1> HIDE DEF r
<1> QED BY <1>2, <1>4, <1>7, <1>8, UpdateEnds

LEMMA CompletionEnds ==
  ASSUME IInv, NEW o \in Op, NEW w \in Owner, NEW e \in Epoch, NEW c \in Claim,
         CompleteContinuation(o, w, e, c)
  PROVE  IInv'
<1> DEFINE r == [op[o] EXCEPT !.phase = "settled"]
<1>1. op \in [Op -> Operation \cup {Absent}] /\ lease \in [Target -> Lease]
  BY DEF IInv, TypeOK
<1>2. Unsettled(o) /\ Quiet(op[o].target) /\ Current(op[o].target, w, e)
  BY DEF CompleteContinuation, Guarded, Unsettled, Open
<1>3. op[o] \in Operation
  BY <1>2, OpenRows DEF IInv, Unsettled, Open, Working
<1>4. r \in Operation /\ r.phase = "settled" /\ op' = [op EXCEPT ![o] = r]
  BY <1>1, <1>3 DEF CompleteContinuation, SetPhase, Operation
<1>5. op[o].target \in Target /\ op[o].continuation \in Continuation
  BY <1>3 DEF Operation
<1>6. w \in OwnersOf(o)
  BY <1>2, <1>5 DEF IInv, UpdateHoldsTarget, Current
<1>7. \A h \in Target : Current(h, w, e) => h = op[o].target
  BY <1>6 DEF IInv, NoLeaseLeftBehind, Current
<1>8. lease' = [ g \in Target |-> IF Current(g, w, e) /\ Quiet(g)
                   THEN [lease[g] EXCEPT !.released = TRUE] ELSE lease[g] ]
  BY DEF CompleteContinuation, FreeAll
<1>9. \A g \in Target : [lease[g] EXCEPT !.released = TRUE] \in Lease
  BY <1>1 DEF Lease
<1>10. /\ lease' \in [Target -> Lease]
       /\ lease'[op[o].target] = [lease[op[o].target] EXCEPT !.released = TRUE]
       /\ \A h \in Target : h # op[o].target => lease'[h] = lease[h]
  BY <1>1, <1>2, <1>5, <1>7, <1>8, <1>9
<1>11. SetStatus(op[o].task, Destination[op[o].continuation])
  BY DEF CompleteContinuation
<1>12. Destination[op[o].continuation] \in Status
  BY <1>5, Destinations
<1> HIDE DEF r
<1> QED BY <1>2, <1>4, <1>10, <1>11, <1>12, UpdateEnds

\* Operation n begins, under a lease of its own.  Of the others some may end,
\* on the same target; those that go on are on other targets and tasks.
LEMMA UpdateBegins ==
  ASSUME IInv, NEW n \in Op, NEW r \in Operation, NEW l \in Lease,
         op[n].phase = "none",
         r.phase \in Open,
         ~l.released, l.owner = << "branch", n >>, l.epoch = r.epoch,
         op' \in [Op -> Operation \cup {Absent}],
         op'[n] = r,
         \A x \in Op : x # n /\ Unsettled(x)' =>
           /\ op'[x] = op[x]
           /\ op[x].task # r.task
           /\ op[x].target # r.target,
         \A x \in Op : Unsettled(x) /\ ~Unsettled(x)' => op[x].target = r.target,
         lease' = [lease EXCEPT ![r.target] = l],
         SetStatus(r.task, UpdateStatus(r.direction))
  PROVE  IInv'
<1>1. lease \in [Target -> Lease] /\ status \in [Task -> Status]
  BY DEF IInv, TypeOK
<1>2. r.target \in Target /\ r.task \in Task /\ UpdateStatus(r.direction) \in Status
  BY UpdateStatuses DEF Operation
<1>3. /\ status' = [status EXCEPT ![r.task] = UpdateStatus(r.direction)]
      /\ Unsettled(n)' /\ ~Unsettled(n)
  BY DEF SetStatus, Unsettled, Open, Working
<1>4. \A x \in Op : x # n /\ Unsettled(x)' => Unsettled(x)
  BY DEF Unsettled
<1>5. \A x \in Op : Unsettled(x) => op[x].target \in Target
  BY OpenRows DEF IInv, Unsettled, Open, Working, Operation
<1>6. TypeOK'
  BY <1>1, <1>2, <1>3 DEF TypeOK
<1>7. LeaseInUse'
  BY <1>1, <1>2, OwnersAreOwners DEF IInv, LeaseInUse
<1>8. UpdateHoldsTarget'
  <2> SUFFICES ASSUME NEW x \in Op, Unsettled(x)'
               PROVE  /\ ~lease'[op'[x].target].released
                      /\ lease'[op'[x].target].owner \in OwnersOf(x)
                      /\ lease'[op'[x].target].epoch = op'[x].epoch
    BY DEF UpdateHoldsTarget
  <2>1. CASE x = n
    BY <2>1, <1>1, <1>2, OwnersAreOwners
  <2>2. CASE x # n
    <3>1. Unsettled(x) /\ op'[x] = op[x] /\ lease'[op[x].target] = lease[op[x].target]
      BY <2>2, <1>1, <1>4, <1>5
    <3> QED BY <3>1 DEF IInv, UpdateHoldsTarget
  <2> QED BY <2>1, <2>2
<1>9. NoLeaseLeftBehind'
  <2> SUFFICES ASSUME NEW h \in Target, ~lease'[h].released,
                      NEW x \in Op, lease'[h].owner \in OwnersOf(x)
               PROVE  Unsettled(x)' /\ op'[x].target = h
    BY DEF NoLeaseLeftBehind
  <2>1. CASE h = r.target
    <3>1. lease'[h].owner \in OwnersOf(n)
      BY <2>1, <1>1, <1>2, OwnersAreOwners
    <3>2. x = n
      BY <3>1, OwnerNamesOne
    <3> QED BY <2>1, <3>2, <1>3
  <2>2. CASE h # r.target
    <3>1. lease'[h] = lease[h]
      BY <2>2, <1>1
    <3>2. Unsettled(x) /\ op[x].target = h
      BY <3>1 DEF IInv, NoLeaseLeftBehind
    <3>3. x # n /\ Unsettled(x)'
      BY <2>2, <3>2, <1>3
    <3> QED BY <3>2, <3>3
  <2> QED BY <2>1, <2>2
<1>10. OneUpdatePerTask'
  BY <1>4 DEF IInv, OneUpdatePerTask
<1>11. TaskFollowsUpdate'
  <2> SUFFICES ASSUME NEW x \in Op, Unsettled(x)'
               PROVE  \/ Updating(x)'
                      \/ status'[op'[x].task] = "Paused"
                      \/ status'[op'[x].task] = "BranchUpdateBlocked" /\ op'[x].phase = "blocked"
    BY DEF TaskFollowsUpdate
  <2>1. CASE x = n
    BY <2>1, <1>1, <1>2, <1>3 DEF Updating
  <2>2. CASE x # n
    <3>1. Unsettled(x) /\ op'[x] = op[x] /\ status'[op[x].task] = status[op[x].task]
      BY <2>2, <1>1, <1>3, <1>4
    <3> QED BY <3>1 DEF IInv, TaskFollowsUpdate, Updating
  <2> QED BY <2>1, <2>2
<1> QED BY <1>6, <1>7, <1>8, <1>9, <1>10, <1>11 DEF IInv

LEMMA ActivationBegins ==
  ASSUME IInv, NEW o \in Op, NEW t \in Task, NEW g \in Target, NEW d \in Direction,
         NEW k \in Continuation, Activate(o, t, g, d, k)
  PROVE  IInv'
<1> DEFINE r == [ phase |-> "programmatic", task |-> t, target |-> g, direction |-> d,
                  continuation |-> k, epoch |-> lease[g].epoch + 1, result |-> Nil,
                  conflicts |-> FALSE, bound |-> FALSE, claim |-> Nil ]
           l == [ owner |-> << "branch", o >>, epoch |-> lease[g].epoch + 1,
                  claim |-> Nil, group |-> FALSE, released |-> FALSE ]
<1>1. op \in [Op -> Operation \cup {Absent}] /\ lease \in [Target -> Lease]
  BY DEF IInv, TypeOK
<1>2. lease[g].epoch + 1 \in Epoch
  BY <1>1, EpochAssumption DEF Activate, NextEpoch, Lease, Epoch
<1>3. r \in Operation /\ r.phase \in Open
  BY <1>2 DEF Operation, Open, Working
<1>4. l \in Lease
  BY <1>2, OwnersAreOwners DEF Lease
<1>5. lease' = [lease EXCEPT ![r.target] = l]
  BY DEF Activate, Grant, NextEpoch
<1>6. op' \in [Op -> Operation \cup {Absent}] /\ op'[o] = r
      /\ \A x \in Op : x # o => op'[x] = op[x]
  <2>1. op' = [op EXCEPT ![o] = r]
    BY DEF Activate, NextEpoch
  <2> HIDE DEF r
  <2> QED BY <2>1, <1>1, <1>3
<1>7. \A x \in Op : Unsettled(x) => op[x].task # t /\ op[x].target # g
  BY DEF Activate, Unowned, IInv, UpdateHoldsTarget
<1>8. op[o].phase = "none" /\ ~Unsettled(o)
  BY DEF Activate, Unsettled, Open, Working
<1>9. \A x \in Op : x # o /\ Unsettled(x)' =>
        op'[x] = op[x] /\ op[x].task # r.task /\ op[x].target # r.target
  BY <1>6, <1>7 DEF Unsettled
<1>10. \A x \in Op : Unsettled(x) /\ ~Unsettled(x)' => op[x].target = r.target
  BY <1>6, <1>8 DEF Unsettled
<1>11. SetStatus(r.task, UpdateStatus(r.direction))
  BY DEF Activate
<1>12. ~l.released /\ l.owner = << "branch", o >> /\ l.epoch = r.epoch
  OBVIOUS
<1> HIDE DEF r, l
<1> QED BY <1>3, <1>4, <1>5, <1>6, <1>8, <1>9, <1>10, <1>11, <1>12, UpdateBegins

LEMMA RetryBegins ==
  ASSUME IInv, NEW o \in Op, NEW n \in Op, NEW w \in Owner, NEW e \in Epoch,
         RetryOperation(o, n, w, e)
  PROVE  IInv'
<1> DEFINE g == op[o].target
           f == [op[o] EXCEPT !.phase = "settled"]
           r == [op[o] EXCEPT !.phase = IF op[o].conflicts THEN "resolving" ELSE "programmatic",
                        !.epoch = e + 1, !.result = Nil, !.bound = FALSE, !.claim = Nil]
           l == [lease[g] EXCEPT !.owner = << "branch", n >>, !.epoch = e + 1]
<1>1. op \in [Op -> Operation \cup {Absent}] /\ lease \in [Target -> Lease]
  BY DEF IInv, TypeOK
<1>2. /\ Unsettled(o) /\ ~Unsettled(n) /\ n # o
      /\ op[n].phase = "none"
      /\ Current(g, w, e) /\ op[o].epoch = e
  BY DEF RetryOperation, Guarded, Unsettled, Open, Working
<1>3. op[o] \in Operation
  BY <1>2, OpenRows DEF IInv, Unsettled, Open, Working
<1>4. g \in Target
  BY <1>3 DEF Operation
<1>5. e + 1 \in Epoch
  BY <1>1, <1>2, <1>4, EpochAssumption DEF RetryOperation, NextEpoch, Current, Epoch
<1>6. /\ f \in Operation /\ f.phase = "settled"
      /\ r \in Operation /\ r.phase \in Open /\ r.epoch = e + 1
      /\ r.task = op[o].task /\ r.target = g /\ r.direction = op[o].direction
  BY <1>3, <1>5 DEF Operation, Open, Working
<1>7. /\ l \in Lease /\ ~l.released
      /\ l.owner = << "branch", n >> /\ l.epoch = r.epoch
  BY <1>1, <1>2, <1>4, <1>5, <1>6, OwnersAreOwners DEF Lease, Current
<1>8. op' = [op EXCEPT ![o] = f, ![n] = r]
  BY <1>1, <1>2 DEF RetryOperation
<1>9. /\ op' \in [Op -> Operation \cup {Absent}]
      /\ op'[n] = r /\ op'[o] = f
      /\ \A x \in Op \ {o, n} : op'[x] = op[x]
  BY <1>1, <1>2, <1>6, <1>8
<1>10. lease' = [lease EXCEPT ![r.target] = l]
  BY <1>1, <1>4, <1>6 DEF RetryOperation
<1>11. \A x \in Op : Unsettled(x) /\ x # o => op[x].task # op[o].task /\ op[x].target # g
  BY <1>2, OwnerNamesOne DEF IInv, OneUpdatePerTask, UpdateHoldsTarget
<1>12. ~Unsettled(o)'
  BY <1>6, <1>9 DEF Unsettled, Open, Working
<1>13. \A x \in Op : x # n /\ Unsettled(x)' =>
         op'[x] = op[x] /\ op[x].task # r.task /\ op[x].target # r.target
  BY <1>6, <1>9, <1>11, <1>12 DEF Unsettled
<1>14. \A x \in Op : Unsettled(x) /\ ~Unsettled(x)' => op[x].target = r.target
  BY <1>2, <1>6, <1>9 DEF Unsettled
<1>15. SetStatus(r.task, UpdateStatus(r.direction))
  BY <1>6 DEF RetryOperation
<1> HIDE DEF r, l, f
<1> QED BY <1>2, <1>6, <1>7, <1>9, <1>10, <1>13, <1>14, <1>15, UpdateBegins

\* The hand-over to publication: owner and epoch change in the lease and in the
\* row of the operation together.
LEMMA HandOverKeeps ==
  ASSUME IInv, NEW o \in Op, NEW w \in Owner, NEW e \in Epoch,
         TransferOperationLease(o, w, e)
  PROVE  IInv'
<1> DEFINE g == op[o].target
           r == [op[o] EXCEPT !.epoch = e + 1]
           l == [lease[g] EXCEPT !.owner = << "publication", o >>, !.epoch = e + 1]
<1>1. op \in [Op -> Operation \cup {Absent}] /\ lease \in [Target -> Lease]
  BY DEF IInv, TypeOK
<1>2. Unsettled(o) /\ Updating(o) /\ Current(g, w, e)
  BY DEF TransferOperationLease, Guarded
<1>3. op[o] \in Operation /\ op[o].phase \in Open
  BY <1>2, OpenRows DEF IInv, Unsettled, Open, Working
<1>4. g \in Target
  BY <1>3 DEF Operation
<1>5. e + 1 \in Epoch
  BY <1>1, <1>2, <1>4, EpochAssumption DEF TransferOperationLease, NextEpoch, Current, Epoch
<1>6. /\ r \in Operation /\ r.phase \in Open /\ r.epoch = e + 1
      /\ r.task = op[o].task /\ r.target = g /\ r.direction = op[o].direction
      /\ r.phase = op[o].phase
  BY <1>3, <1>5 DEF Operation
<1>7. l \in Lease /\ ~l.released /\ l.owner \in OwnersOf(o) /\ l.epoch = e + 1
  BY <1>1, <1>2, <1>4, <1>5, OwnersAreOwners DEF Lease, Current
<1>8. op' = [op EXCEPT ![o] = r] /\ lease' = [lease EXCEPT ![g] = l] /\ status' = status
  BY <1>1, <1>3, <1>4 DEF TransferOperationLease
<1> HIDE DEF r, l
<1>9. /\ op' \in [Op -> Operation \cup {Absent}]
      /\ op'[o] = r
      /\ \A x \in Op : x # o => op'[x] = op[x]
      /\ lease' \in [Target -> Lease]
      /\ lease'[g] = l
      /\ \A h \in Target : h # g => lease'[h] = lease[h]
  BY <1>1, <1>4, <1>6, <1>7, <1>8
<1>10. \A x \in Op : Unsettled(x)' <=> Unsettled(x)
  BY <1>6, <1>9 DEF Unsettled
<1>11. \A x \in Op : Unsettled(x) /\ x # o => op[x].target \in Target /\ op[x].target # g
  BY <1>2, OpenRows, OwnerNamesOne
  DEF IInv, UpdateHoldsTarget, Unsettled, Open, Working, Operation
<1>12. TypeOK'
  BY <1>8, <1>9 DEF IInv, TypeOK
<1>13. LeaseInUse'
  BY <1>7, <1>9, OwnersAreOwners DEF IInv, LeaseInUse
<1>14. UpdateHoldsTarget'
  BY <1>6, <1>7, <1>9, <1>10, <1>11 DEF IInv, UpdateHoldsTarget
<1>15. NoLeaseLeftBehind'
  <2> SUFFICES ASSUME NEW h \in Target, ~lease'[h].released,
                      NEW x \in Op, lease'[h].owner \in OwnersOf(x)
               PROVE  Unsettled(x)' /\ op'[x].target = h
    BY DEF NoLeaseLeftBehind
  <2>1. CASE h = g
    <3>1. x = o
      BY <2>1, <1>7, <1>9, OwnerNamesOne
    <3> QED BY <2>1, <3>1, <1>2, <1>6, <1>9, <1>10
  <2>2. CASE h # g
    <3>1. Unsettled(x) /\ op[x].target = h
      BY <2>2, <1>9 DEF IInv, NoLeaseLeftBehind
    <3> QED BY <2>2, <3>1, <1>9, <1>10
  <2> QED BY <2>1, <2>2
<1>16. OneUpdatePerTask'
  BY <1>6, <1>9, <1>10 DEF IInv, OneUpdatePerTask
<1>17. TaskFollowsUpdate'
  BY <1>6, <1>8, <1>9, <1>10 DEF IInv, TaskFollowsUpdate, Updating
<1> QED BY <1>12, <1>13, <1>14, <1>15, <1>16, <1>17 DEF IInv

-----------------------------------------------------------------------------
(* The steps one by one *)

\* A statement on a row at work that leaves the status and the lease alone.
LEMMA CheckpointKeeps ==
  ASSUME IInv, NEW o \in Op, NEW w \in Owner, NEW e \in Epoch, NEW s \in Sha,
         CheckpointResult(o, w, e, s)
  PROVE  IInv'
<1> DEFINE r == [op[o] EXCEPT !.result = s]
<1>1. Unsettled(o) /\ Updating(o)
  BY DEF CheckpointResult, Unsettled, Open
<1>2. op[o] \in Operation /\ op \in [Op -> Operation \cup {Absent}]
  BY <1>1, OpenRows DEF IInv, TypeOK, Unsettled, Open, Working
<1>3. op' = [op EXCEPT ![o] = r] /\ UNCHANGED << status, lease >>
  BY <1>2 DEF CheckpointResult
<1>4. SameWork(o, r)
  BY <1>1, <1>2 DEF SameWork, Operation, Unsettled
<1> HIDE DEF r
<1> QED BY <1>1, <1>3, <1>4, WorkGoesOn

LEMMA SettlingKeeps ==
  ASSUME IInv, NEW o \in Op, NEW w \in Owner, NEW e \in Epoch, NEW s \in Sha,
         SettleProgrammatic(o, w, e, s)
  PROVE  IInv'
<1> DEFINE r == [op[o] EXCEPT !.phase = "continuation_pending"]
<1>1. Unsettled(o) /\ Updating(o)
  BY DEF SettleProgrammatic, Unsettled, Open
<1>2. op[o] \in Operation /\ op \in [Op -> Operation \cup {Absent}]
  BY <1>1, OpenRows DEF IInv, TypeOK, Unsettled, Open, Working
<1>3. op' = [op EXCEPT ![o] = r] /\ UNCHANGED << status, lease >>
  BY <1>2 DEF SettleProgrammatic, SetPhase
<1>4. SameWork(o, r)
  BY <1>1, <1>2 DEF SameWork, Operation, Open
<1> HIDE DEF r
<1> QED BY <1>1, <1>3, <1>4, WorkGoesOn

LEMMA ResolvingKeeps ==
  ASSUME IInv, NEW o \in Op, NEW w \in Owner, NEW e \in Epoch, MarkResolving(o, w, e)
  PROVE  IInv'
<1> DEFINE r == [op[o] EXCEPT !.phase = "resolving", !.conflicts = TRUE]
<1>1. Unsettled(o) /\ Updating(o)
  BY DEF MarkResolving, Unsettled, Open, Working
<1>2. op[o] \in Operation /\ op \in [Op -> Operation \cup {Absent}]
  BY <1>1, OpenRows DEF IInv, TypeOK, Unsettled, Open, Working
<1>3. op' = [op EXCEPT ![o] = r] /\ UNCHANGED << status, lease >>
  BY <1>2 DEF MarkResolving
<1>4. SameWork(o, r)
  BY <1>1, <1>2 DEF SameWork, Operation, Open, Working
<1> HIDE DEF r
<1> QED BY <1>1, <1>3, <1>4, WorkGoesOn

LEMMA AgentRunsKeep ==
  ASSUME IInv, NEW o \in Op, BindAgentRun(o) \/ UnbindAgentRun(o)
  PROVE  IInv'
<1>1. Unsettled(o) /\ Updating(o)
  BY DEF BindAgentRun, UnbindAgentRun, Unsettled, Open, Working
<1>2. op[o] \in Operation /\ op \in [Op -> Operation \cup {Absent}]
  BY <1>1, OpenRows DEF IInv, TypeOK, Unsettled, Open, Working
<1>3. PICK b \in BOOLEAN : op' = [op EXCEPT ![o].bound = b]
  BY DEF BindAgentRun, UnbindAgentRun
<1> DEFINE r == [op[o] EXCEPT !.bound = b]
<1>4. op' = [op EXCEPT ![o] = r] /\ UNCHANGED << status, lease >>
  BY <1>2, <1>3 DEF BindAgentRun, UnbindAgentRun
<1>5. SameWork(o, r)
  BY <1>1, <1>2 DEF SameWork, Operation, Unsettled
<1> HIDE DEF r
<1> QED BY <1>1, <1>4, <1>5, WorkGoesOn

LEMMA ClaimingKeeps ==
  ASSUME IInv, NEW o \in Op, NEW c \in Claim, ClaimContinuation(o, c)
  PROVE  IInv'
<1> DEFINE r == [op[o] EXCEPT !.phase = "continuation_in_progress", !.claim = c]
<1>1. Unsettled(o) /\ Updating(o)
  BY DEF ClaimContinuation, Unsettled, Open
<1>2. op[o] \in Operation /\ op \in [Op -> Operation \cup {Absent}]
  BY <1>1, OpenRows DEF IInv, TypeOK, Unsettled, Open, Working
<1>3. op' = [op EXCEPT ![o] = r] /\ UNCHANGED << status, lease >>
  BY <1>2 DEF ClaimContinuation
<1>4. SameWork(o, r)
  BY <1>1, <1>2 DEF SameWork, Operation, Open
<1> HIDE DEF r
<1> QED BY <1>1, <1>3, <1>4, WorkGoesOn

LEMMA BlockingKeeps ==
  ASSUME IInv, NEW o \in Op, NEW w \in Owner, NEW e \in Epoch, NEW b \in BOOLEAN,
         BlockOperation(o, w, e, b)
  PROVE  IInv'
<1> DEFINE r == [op[o] EXCEPT !.phase = "blocked", !.conflicts = b]
<1>1. Unsettled(o)
  BY DEF BlockOperation, Unsettled, Open
<1>2. op[o] \in Operation /\ op \in [Op -> Operation \cup {Absent}]
  BY <1>1, OpenRows DEF IInv, TypeOK, Unsettled, Open, Working
<1>3. op' = [op EXCEPT ![o] = r] /\ UNCHANGED lease
  BY <1>2 DEF BlockOperation
<1>4. SetStatus(op[o].task, "BranchUpdateBlocked") /\ "BranchUpdateBlocked" \in Status
  BY DEF BlockOperation, Status
<1>5. SameWork(o, r) /\ r.phase = "blocked"
  BY <1>1, <1>2 DEF SameWork, Operation, Open
<1> HIDE DEF r
<1> QED BY <1>1, <1>3, <1>4, <1>5, TaskFollows

LEMMA PausingKeeps ==
  ASSUME IInv, NEW o \in Op, NEW w \in Owner, NEW e \in Epoch, PauseOperation(o, w, e)
  PROVE  IInv'
<1> DEFINE r == [op[o] EXCEPT !.bound = FALSE]
<1>1. Unsettled(o)
  BY DEF PauseOperation
<1>2. op[o] \in Operation /\ op \in [Op -> Operation \cup {Absent}]
  BY <1>1, OpenRows DEF IInv, TypeOK, Unsettled, Open, Working
<1>3. op' = [op EXCEPT ![o] = r] /\ UNCHANGED lease
  BY <1>2 DEF PauseOperation
<1>4. SetStatus(op[o].task, "Paused") /\ "Paused" \in Status
  BY DEF PauseOperation, Status
<1>5. SameWork(o, r)
  BY <1>1, <1>2 DEF SameWork, Operation, Unsettled
<1> HIDE DEF r
<1> QED BY <1>1, <1>3, <1>4, <1>5, TaskFollows

LEMMA ResumingKeeps ==
  ASSUME IInv, NEW o \in Op, NEW w \in Owner, NEW e \in Epoch, ResumeOperation(o, w, e)
  PROVE  IInv'
<1> DEFINE r == op[o]
<1>1. Unsettled(o)
  BY DEF ResumeOperation
<1>2. op[o] \in Operation /\ op \in [Op -> Operation \cup {Absent}]
  BY <1>1, OpenRows DEF IInv, TypeOK, Unsettled, Open, Working
<1>3. op' = [op EXCEPT ![o] = r] /\ UNCHANGED lease
  BY <1>2 DEF ResumeOperation
<1>4. op[o].direction \in Direction
  BY <1>2 DEF Operation
<1>5. /\ SetStatus(op[o].task, UpdateStatus(op[o].direction))
      /\ UpdateStatus(op[o].direction) \in Status
  BY <1>4, UpdateStatuses DEF ResumeOperation
<1>6. SameWork(o, r)
  BY <1>1, <1>2 DEF SameWork, Unsettled
<1> HIDE DEF r
<1> QED BY <1>1, <1>3, <1>5, <1>6, TaskFollows

\* The others move only a task that no operation is at work on.
LEMMA MovingKeeps ==
  ASSUME IInv, NEW t \in Task, NEW s \in Elsewhere, MoveTask(t, s)
  PROVE  IInv'
<1>1. /\ s \in Status
      /\ status' = [status EXCEPT ![t] = s]
      /\ op' = op /\ lease' = lease
      /\ \A o \in Op : Unsettled(o) => op[o].task # t
  BY StatusAssumption DEF MoveTask, SetStatus, Unowned
<1>2. status \in [Task -> Status]
  BY DEF IInv, TypeOK
<1>3. TypeOK'
  BY <1>1, <1>2 DEF IInv, TypeOK
<1>4. \A o \in Op : Unsettled(o) => status'[op[o].task] = status[op[o].task]
  BY <1>1, <1>2
<1>5. TaskFollowsUpdate'
  BY <1>1, <1>4 DEF IInv, TaskFollowsUpdate, Unsettled, Updating
<1>6. LeaseInUse' /\ UpdateHoldsTarget' /\ NoLeaseLeftBehind' /\ OneUpdatePerTask'
  BY <1>1 DEF IInv, LeaseInUse, UpdateHoldsTarget, NoLeaseLeftBehind, OneUpdatePerTask,
              Unsettled
<1> QED BY <1>3, <1>5, <1>6 DEF IInv

LEMMA OperationStepKeeps ==
  ASSUME IInv, NEW o \in Op, NEW w \in Owner, NEW e \in Epoch, OperationStep(o, w, e)
  PROVE  IInv'
<1>1. CASE \E s \in Sha : CheckpointResult(o, w, e, s) \/ SettleProgrammatic(o, w, e, s)
  BY <1>1, CheckpointKeeps, SettlingKeeps
<1>2. CASE \E b \in BOOLEAN : BlockOperation(o, w, e, b)
  BY <1>2, BlockingKeeps
<1>3. CASE MarkResolving(o, w, e)
  BY <1>3, ResolvingKeeps
<1>4. CASE \E c \in Claim : CompleteContinuation(o, w, e, c)
  BY <1>4, CompletionEnds
<1>5. CASE TransferOperationLease(o, w, e)
  BY <1>5, HandOverKeeps
<1>6. CASE PauseOperation(o, w, e)
  BY <1>6, PausingKeeps
<1>7. CASE ResumeOperation(o, w, e)
  BY <1>7, ResumingKeeps
<1>8. CASE StopOperation(o, w, e)
  BY <1>8, StopEnds
<1>9. CASE \E n \in Op : RetryOperation(o, n, w, e)
  BY <1>9, RetryBegins
<1> QED BY <1>1, <1>2, <1>3, <1>4, <1>5, <1>6, <1>7, <1>8, <1>9 DEF OperationStep

-----------------------------------------------------------------------------
LEMMA InitIInv == Init => IInv
<1> SUFFICES ASSUME Init PROVE IInv
  OBVIOUS
<1> USE DEF Init
<1>1. NoLease \in Lease
  BY EpochAssumption DEF NoLease, Lease, Epoch
<1>2. TypeOK
  BY <1>1, StatusAssumption DEF TypeOK
<1>3. LeaseInUse /\ NoLeaseLeftBehind
  BY DEF LeaseInUse, NoLeaseLeftBehind, NoLease
<1>4. \A o \in Op : ~Unsettled(o)
  BY DEF Unsettled, Absent, Open, Working
<1>5. UpdateHoldsTarget /\ OneUpdatePerTask /\ TaskFollowsUpdate
  BY <1>4 DEF UpdateHoldsTarget, OneUpdatePerTask, TaskFollowsUpdate
<1> QED BY <1>2, <1>3, <1>5 DEF IInv

LEMMA NextIInv == IInv /\ [Next]_vars => IInv'
<1> SUFFICES ASSUME IInv, [Next]_vars PROVE IInv'
  OBVIOUS
<1>1. CASE \E o \in Op, w \in Owner, e \in Epoch : OperationStep(o, w, e)
  BY <1>1, OperationStepKeeps
<1>2. CASE \E g \in Target, w \in Owner, e \in Epoch : LeaseStep(g, w, e)
  BY <1>2, LeaseStepKeeps
<1>3. CASE \E g \in Target, w \in {"tenant"} \X Tenant, e \in Epoch : TenantStep(g, w, e)
  BY <1>3, TenantTakes, TenantLeaves DEF TenantStep
<1>4. CASE \E o \in Op, t \in Task, g \in Target, d \in Direction, k \in Continuation :
             Activate(o, t, g, d, k)
  BY <1>4, ActivationBegins
<1>5. CASE \E o \in Op : BindAgentRun(o) \/ UnbindAgentRun(o)
  BY <1>5, AgentRunsKeep
<1>6. CASE \E o \in Op, c \in Claim : ClaimContinuation(o, c)
  BY <1>6, ClaimingKeeps
<1>7. CASE \E t \in Task, s \in Elsewhere : MoveTask(t, s)
  BY <1>7, MovingKeeps
<1>8. CASE UNCHANGED vars
  BY <1>8 DEF vars, IInv, TypeOK, LeaseInUse, UpdateHoldsTarget, NoLeaseLeftBehind,
              OneUpdatePerTask, TaskFollowsUpdate, Unsettled, Updating
<1> QED BY <1>1, <1>2, <1>3, <1>4, <1>5, <1>6, <1>7, <1>8 DEF Next

\* The invariant that the theorems below rest on.
THEOREM RepositoryIsConsistent == Spec => []IInv
<1> QED BY InitIInv, NextIInv, PTL DEF Spec

\* The rows of the three tables stay in their types: no transaction leaves a
\* lease without an epoch or an operation without its task and target.
THEOREM RowsHaveTheirTypes == Spec => []TypeOK
<1>1. IInv => TypeOK
  BY DEF IInv
<1> QED BY <1>1, RepositoryIsConsistent, PTL

\* An operation at work always holds the lease on its target under its own
\* epoch, through pauses, retries and the hand-over to publication.
THEOREM UpdatesHoldTheirTargets == Spec => []UpdateHoldsTarget
<1>1. IInv => UpdateHoldsTarget
  BY DEF IInv
<1> QED BY <1>1, RepositoryIsConsistent, PTL

\* No target stays locked in the name of an operation that has ended.
THEOREM NoTargetStaysLocked == Spec => []NoLeaseLeftBehind
<1>1. IInv => NoLeaseLeftBehind
  BY DEF IInv
<1> QED BY <1>1, RepositoryIsConsistent, PTL

\* A task is never in the hands of two operations, across any retries.
THEOREM UpdatesAreOnePerTask == Spec => []OneUpdatePerTask
<1>1. IInv => OneUpdatePerTask
  BY DEF IInv
<1> QED BY <1>1, RepositoryIsConsistent, PTL

\* The status of a task agrees with the operation at work on it, whatever the
\* rest of the application tries to write.
THEOREM TasksFollowTheirUpdates == Spec => []TaskFollowsUpdate
<1>1. IInv => TaskFollowsUpdate
  BY DEF IInv
<1> QED BY <1>1, RepositoryIsConsistent, PTL

-----------------------------------------------------------------------------
(* The leases implement FencedLease *)

\* One lease changes from lease[g] to l.
LEMMA GrantTakes ==
  ASSUME IInv, NEW g \in Target, NEW l \in Lease, lease' = [lease EXCEPT ![g] = l],
         lease[g].claim = Nil, l.claim = Nil,
         ~l.released, l.owner \in Owner, l.epoch = lease[g].epoch + 1
  PROVE  Fenced!Next
<1>1. lease \in [Target -> Lease]
  BY DEF IInv, TypeOK
<1>2. Fenced!Take(g, l.owner)
  BY <1>1 DEF Fenced!Take
<1> QED BY <1>2 DEF Fenced!Next

LEMMA ReleaseLeaves ==
  ASSUME IInv, NEW g \in Target, NEW l \in Lease, lease' = [lease EXCEPT ![g] = l],
         lease[g].claim = Nil, l.claim = Nil,
         l.released, l.epoch = lease[g].epoch
  PROVE  Fenced!Next
<1>1. lease \in [Target -> Lease]
  BY DEF IInv, TypeOK
<1>2. Fenced!Leave(g)
  BY <1>1 DEF Fenced!Leave
<1> QED BY <1>2 DEF Fenced!Next

LEMMA ClaimBegins ==
  ASSUME IInv, NEW g \in Target, NEW l \in Lease, lease' = [lease EXCEPT ![g] = l],
         ~lease[g].released, lease[g].claim = Nil, l.claim # Nil,
         ~l.released, l.owner = lease[g].owner, l.epoch = lease[g].epoch
  PROVE  Fenced!Next
<1>1. lease \in [Target -> Lease]
  BY DEF IInv, TypeOK
<1>2. lease[g].owner # Nil
  BY NilAssumption DEF IInv, LeaseInUse
<1>3. Fenced!Begin(g)
  BY <1>1, <1>2 DEF Fenced!Begin
<1> QED BY <1>3 DEF Fenced!Next

LEMMA ClaimEnds ==
  ASSUME IInv, NEW g \in Target, NEW l \in Lease, lease' = [lease EXCEPT ![g] = l],
         ~lease[g].released, lease[g].claim # Nil, l.claim = Nil,
         ~l.released, l.owner = lease[g].owner, l.epoch = lease[g].epoch
  PROVE  Fenced!Next
<1>1. lease \in [Target -> Lease]
  BY DEF IInv, TypeOK
<1>2. Fenced!End(g)
  BY <1>1 DEF Fenced!End
<1> QED BY <1>2 DEF Fenced!Next

LEMMA TenantsFenced ==
  ASSUME IInv, NEW g \in Target, NEW w \in {"tenant"} \X Tenant, NEW e \in Epoch,
         TenantStep(g, w, e)
  PROVE  Fenced!Next
<1>1. lease \in [Target -> Lease] /\ w \in Owner
  BY TenantsAreOthers DEF IInv, TypeOK, Owner
<1>2. CASE AcquireTargetLease(g, w)
  <2> DEFINE l == [ owner |-> w, epoch |-> lease[g].epoch + 1, claim |-> Nil,
                    group |-> FALSE, released |-> FALSE ]
  <2>1. lease' = [lease EXCEPT ![g] = l]
    BY <1>2 DEF AcquireTargetLease, Grant, NextEpoch
  <2>2. lease[g].epoch + 1 \in Epoch
    BY <1>1, <1>2, EpochAssumption DEF AcquireTargetLease, NextEpoch, Lease, Epoch
  <2>3. l \in Lease
    BY <1>1, <2>2 DEF Lease
  <2>4. lease[g].claim = Nil
    BY <1>2 DEF AcquireTargetLease, IInv, LeaseInUse
  <2>5. l.claim = Nil /\ ~l.released /\ l.owner \in Owner /\ l.epoch = lease[g].epoch + 1
    BY <1>1
  <2> HIDE DEF l
  <2> QED BY <2>1, <2>3, <2>4, <2>5, GrantTakes
<1>3. CASE ReleaseTargetLease(g, w, e)
  <2> DEFINE l == [lease[g] EXCEPT !.released = TRUE]
  <2>1. lease' = [lease EXCEPT ![g] = l] /\ lease[g].claim = Nil
    BY <1>1, <1>3 DEF ReleaseTargetLease, Quiet
  <2>2. l \in Lease /\ l.claim = lease[g].claim /\ l.released /\ l.epoch = lease[g].epoch
    BY <1>1 DEF Lease
  <2> HIDE DEF l
  <2> QED BY <2>1, <2>2, ReleaseLeaves
<1> QED BY <1>2, <1>3 DEF TenantStep

LEMMA ClaimsFenced ==
  ASSUME IInv, NEW g \in Target, NEW w \in Owner, NEW e \in Epoch, LeaseStep(g, w, e)
  PROVE  Fenced!Next \/ UNCHANGED Fenced!vars
<1>1. lease \in [Target -> Lease]
  BY DEF IInv, TypeOK
<1>2. PICK c \in Claim : \/ BeginGitMutation(g, w, e, c)
                        \/ BindGitProcessGroup(g, w, e, c)
                        \/ CompleteGitMutation(g, w, e, c)
  BY DEF LeaseStep
<1>3. c # Nil
  BY NilAssumption
<1>4. CASE BeginGitMutation(g, w, e, c)
  <2> DEFINE l == [lease[g] EXCEPT !.claim = c, !.group = FALSE]
  <2>1. lease' = [lease EXCEPT ![g] = l] /\ ~lease[g].released /\ lease[g].claim = Nil
    BY <1>1, <1>4 DEF BeginGitMutation, Current, Quiet
  <2>2. l \in Lease /\ l.claim = c /\ ~l.released
        /\ l.owner = lease[g].owner /\ l.epoch = lease[g].epoch
    BY <1>1, <2>1 DEF Lease
  <2> HIDE DEF l
  <2> QED BY <1>3, <2>1, <2>2, ClaimBegins
<1>5. CASE BindGitProcessGroup(g, w, e, c)
  <2>1. lease' = [lease EXCEPT ![g].group = TRUE]
    BY <1>5 DEF BindGitProcessGroup
  <2>2. \A h \in Target : /\ lease'[h].released = lease[h].released
                          /\ lease'[h].owner = lease[h].owner
                          /\ lease'[h].epoch = lease[h].epoch
                          /\ lease'[h].claim = lease[h].claim
    BY <1>1, <2>1 DEF Lease
  <2> QED BY <2>2 DEF Fenced!vars
<1>6. CASE CompleteGitMutation(g, w, e, c)
  <2> DEFINE l == [lease[g] EXCEPT !.claim = Nil, !.group = FALSE]
  <2>1. lease' = [lease EXCEPT ![g] = l] /\ ~lease[g].released /\ lease[g].claim = c
    BY <1>1, <1>6 DEF CompleteGitMutation, Current
  <2>2. l \in Lease /\ l.claim = Nil /\ ~l.released
        /\ l.owner = lease[g].owner /\ l.epoch = lease[g].epoch
    BY <1>1, <2>1 DEF Lease
  <2> HIDE DEF l
  <2> QED BY <1>3, <2>1, <2>2, ClaimEnds
<1> QED BY <1>2, <1>4, <1>5, <1>6

\* An operation gets a lease, or gets the one it has under a new owner.
LEMMA ActivationFenced ==
  ASSUME IInv, NEW o \in Op, NEW t \in Task, NEW g \in Target, NEW d \in Direction,
         NEW k \in Continuation, Activate(o, t, g, d, k)
  PROVE  Fenced!Next
<1> DEFINE l == [ owner |-> << "branch", o >>, epoch |-> lease[g].epoch + 1,
                  claim |-> Nil, group |-> FALSE, released |-> FALSE ]
<1>1. lease \in [Target -> Lease]
  BY DEF IInv, TypeOK
<1>2. lease' = [lease EXCEPT ![g] = l] /\ lease[g].claim = Nil
  BY DEF Activate, Grant, NextEpoch, IInv, LeaseInUse
<1>3. lease[g].epoch + 1 \in Epoch
  BY <1>1, EpochAssumption DEF Activate, NextEpoch, Lease, Epoch
<1>4. << "branch", o >> \in Owner
  BY OwnersAreOwners
<1>5. l \in Lease
  BY <1>3, <1>4 DEF Lease
<1>6. l.claim = Nil /\ ~l.released /\ l.owner \in Owner /\ l.epoch = lease[g].epoch + 1
  BY <1>4
<1> HIDE DEF l
<1> QED BY <1>2, <1>5, <1>6, GrantTakes

LEMMA NewOwnerFenced ==
  ASSUME IInv, NEW g \in Target, NEW v \in Owner, NEW w \in Owner, NEW e \in Epoch,
         Current(g, v, e), Quiet(g), NextEpoch(g) <= MaxEpoch,
         lease' = [lease EXCEPT ![g].owner = w, ![g].epoch = e + 1]
  PROVE  Fenced!Next
<1> DEFINE l == [lease[g] EXCEPT !.owner = w, !.epoch = e + 1]
<1>1. lease \in [Target -> Lease]
  BY DEF IInv, TypeOK
<1>2. lease' = [lease EXCEPT ![g] = l] /\ lease[g].claim = Nil
      /\ ~lease[g].released /\ lease[g].epoch = e
  BY <1>1 DEF Current, Quiet
<1>3. e + 1 \in Epoch
  BY <1>1, <1>2, EpochAssumption DEF NextEpoch, Epoch
<1>4. l \in Lease
  BY <1>1, <1>3 DEF Lease
<1>5. l.claim = Nil /\ ~l.released /\ l.owner \in Owner /\ l.epoch = lease[g].epoch + 1
  BY <1>1, <1>2 DEF Lease
<1> HIDE DEF l
<1> QED BY <1>2, <1>4, <1>5, GrantTakes

LEMMA EndFenced ==
  ASSUME IInv, NEW g \in Target, Quiet(g),
         lease' \in [Target -> Lease],
         lease'[g] = [lease[g] EXCEPT !.released = TRUE],
         \A h \in Target : h # g => lease'[h] = lease[h]
  PROVE  Fenced!Next
<1> DEFINE l == [lease[g] EXCEPT !.released = TRUE]
<1>1. lease \in [Target -> Lease]
  BY DEF IInv, TypeOK
<1>2. l \in Lease /\ l.claim = lease[g].claim /\ l.released /\ l.epoch = lease[g].epoch
  BY <1>1 DEF Lease
<1>3. lease[g].claim = Nil
  BY DEF Quiet
<1>4. lease' = [lease EXCEPT ![g] = l]
  BY <1>1
<1> HIDE DEF l
<1> QED BY <1>2, <1>3, <1>4, ReleaseLeaves

LEMMA OperationsFenced ==
  ASSUME IInv, NEW o \in Op, NEW w \in Owner, NEW e \in Epoch, OperationStep(o, w, e)
  PROVE  Fenced!Next \/ UNCHANGED Fenced!vars
<1> DEFINE g == op[o].target
<1>1. lease \in [Target -> Lease]
  BY DEF IInv, TypeOK
<1>2. Unsettled(o) => g \in Target
  BY OpenRows DEF IInv, Unsettled, Open, Working, Operation
<1>3. CASE UNCHANGED lease
  BY <1>3 DEF Fenced!vars
<1>4. CASE \E c \in Claim : CompleteContinuation(o, w, e, c)
  <2>1. /\ Unsettled(o) /\ Guarded(o, w, e) /\ FreeAll(w, e)
    BY <1>4 DEF CompleteContinuation, Unsettled, Open
  <2>2. w \in OwnersOf(o) /\ Current(g, w, e) /\ Quiet(g)
    BY <2>1 DEF Guarded, Current, IInv, UpdateHoldsTarget
  <2>3. \A h \in Target : Current(h, w, e) => h = g
    BY <2>2 DEF IInv, NoLeaseLeftBehind, Current
  <2>4. \A h \in Target : [lease[h] EXCEPT !.released = TRUE] \in Lease
    BY <1>1 DEF Lease
  <2>5. /\ lease' \in [Target -> Lease]
        /\ lease'[g] = [lease[g] EXCEPT !.released = TRUE]
        /\ \A h \in Target : h # g => lease'[h] = lease[h]
    BY <1>1, <1>2, <2>1, <2>2, <2>3, <2>4 DEF FreeAll
  <2> QED BY <1>2, <2>1, <2>2, <2>5, EndFenced
<1>5. CASE TransferOperationLease(o, w, e)
  <2>1. /\ Current(g, w, e) /\ Quiet(g) /\ NextEpoch(g) <= MaxEpoch /\ g \in Target
        /\ lease' = [lease EXCEPT ![g].owner = << "publication", o >>, ![g].epoch = e + 1]
    BY <1>2, <1>5 DEF TransferOperationLease, Guarded
  <2>2. << "publication", o >> \in Owner
    BY OwnersAreOwners
  <2> QED BY <2>1, <2>2, NewOwnerFenced
<1>6. CASE StopOperation(o, w, e)
  <2>1. Unsettled(o) /\ Quiet(g) /\ lease' = [lease EXCEPT ![g].released = TRUE]
    BY <1>6 DEF StopOperation, Guarded
  <2>2. /\ lease' \in [Target -> Lease]
        /\ lease'[g] = [lease[g] EXCEPT !.released = TRUE]
        /\ \A h \in Target : h # g => lease'[h] = lease[h]
    BY <1>1, <1>2, <2>1 DEF Lease
  <2> QED BY <1>2, <2>1, <2>2, EndFenced
<1>7. CASE \E n \in Op : RetryOperation(o, n, w, e)
  <2> PICK n \in Op : RetryOperation(o, n, w, e)
    BY <1>7
  <2>1. Unsettled(o)
    BY DEF RetryOperation, Unsettled, Open
  <2>2. /\ Current(g, w, e) /\ Quiet(g) /\ NextEpoch(g) <= MaxEpoch /\ g \in Target
        /\ lease' = [lease EXCEPT ![g].owner = << "branch", n >>, ![g].epoch = e + 1]
    BY <1>2, <2>1 DEF RetryOperation, Guarded
  <2>3. << "branch", n >> \in Owner
    BY OwnersAreOwners
  <2> QED BY <2>2, <2>3, NewOwnerFenced
<1> QED BY <1>3, <1>4, <1>5, <1>6, <1>7
        DEF OperationStep, CheckpointResult, SettleProgrammatic, BlockOperation,
            MarkResolving, PauseOperation, ResumeOperation

LEMMA InitFenced == Init => Fenced!Init
BY DEF Init, NoLease, Fenced!Init

LEMMA NextFenced == IInv /\ [Next]_vars => [Fenced!Next]_(Fenced!vars)
<1> SUFFICES ASSUME IInv, [Next]_vars PROVE Fenced!Next \/ UNCHANGED Fenced!vars
  OBVIOUS
<1>1. CASE \E o \in Op, w \in Owner, e \in Epoch : OperationStep(o, w, e)
  BY <1>1, OperationsFenced
<1>2. CASE \E g \in Target, w \in Owner, e \in Epoch : LeaseStep(g, w, e)
  BY <1>2, ClaimsFenced
<1>3. CASE \E g \in Target, w \in {"tenant"} \X Tenant, e \in Epoch : TenantStep(g, w, e)
  BY <1>3, TenantsFenced
<1>4. CASE \E o \in Op, t \in Task, g \in Target, d \in Direction, k \in Continuation :
             Activate(o, t, g, d, k)
  BY <1>4, ActivationFenced
<1>5. CASE UNCHANGED lease
  BY <1>5 DEF Fenced!vars
<1> QED BY <1>1, <1>2, <1>3, <1>4, <1>5
        DEF Next, BindAgentRun, UnbindAgentRun, ClaimContinuation, MoveTask, vars

\* The leases of the repository are fenced leases: a new epoch with every new
\* owner, and neither an end nor a change of owner while a Git mutation of the
\* target is in flight.
THEOREM LeasesImplementFencing == Spec => LeasesAreFenced
<1> QED BY InitFenced, NextFenced, RepositoryIsConsistent, PTL
        DEF Spec, LeasesAreFenced, Fenced!Spec

=============================================================================
