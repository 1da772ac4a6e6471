--------------------- MODULE BranchUpdateResultProofs ---------------------
(***************************************************************************)
(* The result of an update that waits for its continuation is in the       *)
(* branch: the proof, for any number of runs, updates, targets, commits    *)
(* and crashes.  The updates of a target follow one another, each with an  *)
(* older commit of the branch in its row than the next; what an update     *)
(* results in is in none of these, so that no update, however late, takes  *)
(* the branch back to a commit from before the result.                     *)
(***************************************************************************)
EXTENDS BranchUpdatePublishProofs

-----------------------------------------------------------------------------
(* The order of the updates of a target                                      *)

Row(o) == op[o] # Absent
Before(q, o) == op[q].target = op[o].target /\ op[q].epoch < op[o].epoch

\* The epochs of a target tell its updates apart, and no resolver is at work on
\* an update that no agent was asked for.
RowInOrder(o) ==
  /\ op[o].epoch <= lease[op[o].target].epoch
  /\ op[o].bound => op[o].phase # "programmatic"
  /\ \A q \in Op : Row(q) /\ op[q].target = op[o].target /\ op[q].epoch = op[o].epoch => q = o
RowsInOrder == \A o \in Op : Row(o) => RowInOrder(o)

\* What no transaction does to the row of an operation.
RowMoves(o) ==
  /\ op'[o].task = op[o].task /\ op'[o].direction = op[o].direction
  /\ op'[o].target = op[o].target
  /\ op[o].phase = "settled" => op'[o].phase = "settled"
  /\ op'[o].phase \in Working => op[o].phase \in Working
  /\ op'[o].phase = "programmatic" => /\ op[o].phase = "programmatic"
                                      /\ op'[o].bound => op[o].bound
  /\ op[o].result # Nil => op'[o].result = op[o].result
RowsMove == \A o \in Op : Row(o) => RowMoves(o)

\* Rows keep their epochs, but for one that gets the next epoch of its target.
Placed(o) == op'[o] # Absent => Row(o) /\ op'[o].epoch = op[o].epoch
Latest(x) ==
  LET g == op'[x].target IN
  /\ op'[x] # Absent /\ g \in Target
  /\ lease'[g].epoch = lease[g].epoch + 1 /\ op'[x].epoch = lease'[g].epoch
  /\ IF Row(x) THEN op[x].epoch = lease[g].epoch
               ELSE op'[x].result = Nil /\ ~op'[x].bound
RowsAreDated ==
  \/ \A o \in Op : Placed(o)
  \/ \E x \in Op : Latest(x) /\ \A o \in Op \ {x} : Placed(o)
EpochsGrow == \A g \in Target : lease[g].epoch <= lease'[g].epoch

RepoMoves == RowsMove /\ RowsAreDated /\ EpochsGrow

LEMMA TypesOfRepo ==
  ASSUME IInv
  PROVE  /\ op \in [Op -> Operation \cup {Absent}] /\ lease \in [Target -> Lease]
         /\ \A o \in Op : Row(o) <=> op[o] \in Operation
         /\ \A o \in Op : Row(o) <=> op[o].phase # "none"
         /\ \A g \in Target : lease[g].epoch \in Nat
         /\ \A o \in Op : Row(o) => /\ op[o].target \in Target /\ op[o].epoch \in Nat
<1>1. op \in [Op -> Operation \cup {Absent}] /\ lease \in [Target -> Lease]
  BY DEF IInv, TypeOK
<1>2. Absent \notin Operation /\ Absent.phase = "none" /\ \A k \in Operation : k.phase # "none"
  BY DEF Absent, Operation, Open, Working
<1>3. Epoch \subseteq Nat
  BY EpochAssumption DEF Epoch
<1>4. \A o \in Op : op[o] \in Operation \/ op[o] = Absent
  BY <1>1
<1>5. \A k \in Operation : k.target \in Target /\ k.epoch \in Epoch
  BY DEF Operation
<1>6. \A l \in Lease : l.epoch \in Epoch
  BY DEF Lease
<1> QED
  BY <1>1, <1>2, <1>3, <1>4, <1>5, <1>6 DEF Row

\* A transaction that leaves the rows and the epochs alone.
LEMMA StillRepo ==
  ASSUME IInv, op' = op, \A g \in Target : lease'[g].epoch = lease[g].epoch
  PROVE  RepoMoves
<1>1. RowsMove
  BY DEF RowsMove, RowMoves
<1>2. RowsAreDated
  BY DEF RowsAreDated, Placed, Row
<1>3. EpochsGrow
  BY TypesOfRepo DEF EpochsGrow
<1> QED
  BY <1>1, <1>2, <1>3 DEF RepoMoves

\* A transaction that changes one row and neither its task nor its epoch.
LEMMA OneRow ==
  ASSUME IInv, NEW o \in Op, Row(o), NEW k, op' = [op EXCEPT ![o] = k],
         k.task = op[o].task, k.direction = op[o].direction, k.target = op[o].target,
         op[o].phase = "settled" => k.phase = "settled",
         k.phase \in Working => op[o].phase \in Working,
         k.phase = "programmatic" => op[o].phase = "programmatic" /\ (k.bound => op[o].bound),
         op[o].result # Nil => k.result = op[o].result,
         k.epoch = op[o].epoch,
         EpochsGrow
  PROVE  RepoMoves
<1>1. op \in [Op -> Operation \cup {Absent}]
  BY TypesOfRepo
<1>2. /\ op'[o] = k
      /\ \A x \in Op \ {o} : op'[x] = op[x]
  BY <1>1
<1>3. RowsMove
  BY <1>2 DEF RowsMove, RowMoves
<1>4. RowsAreDated
  BY <1>2 DEF RowsAreDated, Placed, Row
<1> QED
  BY <1>3, <1>4 DEF RepoMoves

LEMMA OperationMoves ==
  ASSUME IInv, NEW o \in Op, NEW w \in Owner, NEW e \in Epoch, OperationStep(o, w, e)
  PROVE  RepoMoves
<1> USE TypesOfRepo
<1> DEFINE SameEpochs == \A g \in Target : lease'[g].epoch = lease[g].epoch
<1>a. SameEpochs => EpochsGrow
  BY DEF EpochsGrow
<1>b. lease' = lease => SameEpochs
  OBVIOUS
<1>1. CASE \E s \in Sha : CheckpointResult(o, w, e, s)
  <2> PICK s \in Sha : CheckpointResult(o, w, e, s)
    BY <1>1
  <2> DEFINE k == [op[o] EXCEPT !.result = s]
  <2>1. Row(o) /\ op[o] \in Operation /\ op' = [op EXCEPT ![o] = k] /\ lease' = lease
    BY DEF CheckpointResult, Working
  <2>2. /\ k.task = op[o].task /\ k.direction = op[o].direction /\ k.target = op[o].target
        /\ k.phase = op[o].phase /\ k.bound = op[o].bound /\ k.epoch = op[o].epoch
        /\ k.result = s
    BY <2>1 DEF Operation
  <2>3. op[o].result # Nil => op[o].result = s
    BY DEF CheckpointResult
  <2> HIDE DEF k
  <2> QED
    BY <1>a, <1>b, <2>1, <2>2, <2>3, OneRow
<1>2. CASE \E s \in Sha : SettleProgrammatic(o, w, e, s)
  <2> DEFINE k == [op[o] EXCEPT !.phase = "continuation_pending"]
  <2>1. Row(o) /\ op[o] \in Operation /\ op' = [op EXCEPT ![o] = k] /\ lease' = lease
        /\ op[o].phase \in Working
    BY <1>2 DEF SettleProgrammatic, Working, SetPhase
  <2>2. /\ k.task = op[o].task /\ k.direction = op[o].direction /\ k.target = op[o].target
        /\ k.phase = "continuation_pending" /\ k.epoch = op[o].epoch
        /\ k.result = op[o].result
    BY <2>1 DEF Operation
  <2> HIDE DEF k
  <2> QED
    BY <1>a, <1>b, <2>1, <2>2, OneRow DEF Working
<1>3. CASE \E b \in BOOLEAN : BlockOperation(o, w, e, b)
  <2> PICK b \in BOOLEAN : BlockOperation(o, w, e, b)
    BY <1>3
  <2> DEFINE k == [op[o] EXCEPT !.phase = "blocked", !.conflicts = b]
  <2>1. Row(o) /\ op[o] \in Operation /\ op' = [op EXCEPT ![o] = k] /\ lease' = lease
        /\ op[o].phase \in Working
    BY DEF BlockOperation, Working
  <2>2. /\ k.task = op[o].task /\ k.direction = op[o].direction /\ k.target = op[o].target
        /\ k.phase = "blocked" /\ k.epoch = op[o].epoch
        /\ k.result = op[o].result
    BY <2>1 DEF Operation
  <2> HIDE DEF k
  <2> QED
    BY <1>a, <1>b, <2>1, <2>2, OneRow DEF Working
<1>4. CASE MarkResolving(o, w, e)
  <2> DEFINE k == [op[o] EXCEPT !.phase = "resolving", !.conflicts = TRUE]
  <2>1. Row(o) /\ op[o] \in Operation /\ op' = [op EXCEPT ![o] = k] /\ lease' = lease
        /\ op[o].phase = "programmatic"
    BY <1>4 DEF MarkResolving
  <2>2. /\ k.task = op[o].task /\ k.direction = op[o].direction /\ k.target = op[o].target
        /\ k.phase = "resolving" /\ k.epoch = op[o].epoch
        /\ k.result = op[o].result
    BY <2>1 DEF Operation
  <2> HIDE DEF k
  <2> QED
    BY <1>a, <1>b, <2>1, <2>2, OneRow DEF Working
<1>5. CASE \E c \in Claim : CompleteContinuation(o, w, e, c)
  <2> DEFINE k == [op[o] EXCEPT !.phase = "settled"]
  <2>1. Row(o) /\ op[o] \in Operation /\ op' = [op EXCEPT ![o] = k]
    BY <1>5 DEF CompleteContinuation, SetPhase
  <2>2. /\ k.task = op[o].task /\ k.direction = op[o].direction /\ k.target = op[o].target
        /\ k.phase = "settled" /\ k.epoch = op[o].epoch
        /\ k.result = op[o].result
    BY <2>1 DEF Operation
  <2>3. SameEpochs
    BY <1>5 DEF CompleteContinuation, FreeAll, Lease
  <2> HIDE DEF k
  <2> QED
    BY <1>a, <2>1, <2>2, <2>3, OneRow DEF Working
<1>6. CASE TransferOperationLease(o, w, e)
  <2> DEFINE g == op[o].target
  <2>1. Row(o) /\ op[o] \in Operation /\ g \in Target
    BY <1>6 DEF TransferOperationLease, Unsettled, Open, Working
  <2>2. /\ op[o].epoch = e /\ lease[g].epoch = e
        /\ op' = [op EXCEPT ![o].epoch = e + 1]
        /\ lease' = [lease EXCEPT ![g].owner = << "publication", o >>, ![g].epoch = e + 1]
    BY <1>6 DEF TransferOperationLease, Guarded, Current
  <2>3. /\ op'[o] = [op[o] EXCEPT !.epoch = e + 1] /\ op'[o].target = g
        /\ op'[o].epoch = e + 1 /\ op'[o] # Absent
        /\ \A x \in Op \ {o} : op'[x] = op[x]
    BY <2>1, <2>2 DEF Operation, Absent
  <2>4. lease'[g].epoch = e + 1 /\ \A h \in Target \ {g} : lease'[h].epoch = lease[h].epoch
    BY <2>1, <2>2 DEF Lease
  <2>5. RowMoves(o)
    BY <2>1, <2>3 DEF RowMoves, Operation
  <2>6. RowsMove
    BY <2>3, <2>5 DEF RowsMove, RowMoves
  <2>7. Latest(o)
    BY <2>1, <2>2, <2>3, <2>4 DEF Latest
  <2>8. RowsAreDated
    BY <2>3, <2>7 DEF RowsAreDated, Placed, Row
  <2>9. EpochsGrow
    BY <2>1, <2>2, <2>4 DEF EpochsGrow
  <2> QED
    BY <2>6, <2>8, <2>9 DEF RepoMoves
<1>7. CASE PauseOperation(o, w, e)
  <2> DEFINE k == [op[o] EXCEPT !.bound = FALSE]
  <2>1. Row(o) /\ op[o] \in Operation /\ op' = [op EXCEPT ![o] = k] /\ lease' = lease
    BY <1>7 DEF PauseOperation, Unsettled, Open, Working
  <2>2. /\ k.task = op[o].task /\ k.direction = op[o].direction /\ k.target = op[o].target
        /\ k.phase = op[o].phase /\ k.epoch = op[o].epoch
        /\ k.result = op[o].result /\ ~k.bound
    BY <2>1 DEF Operation
  <2> HIDE DEF k
  <2> QED
    BY <1>a, <1>b, <2>1, <2>2, OneRow
<1>8. CASE ResumeOperation(o, w, e)
  BY <1>8, StillRepo DEF ResumeOperation
<1>9. CASE StopOperation(o, w, e)
  <2> DEFINE k == [op[o] EXCEPT !.phase = "settled", !.bound = FALSE]
  <2>1. Row(o) /\ op[o] \in Operation /\ op' = [op EXCEPT ![o] = k]
    BY <1>9 DEF StopOperation, Unsettled, Open, Working
  <2>2. /\ k.task = op[o].task /\ k.direction = op[o].direction /\ k.target = op[o].target
        /\ k.phase = "settled" /\ k.epoch = op[o].epoch
        /\ k.result = op[o].result
    BY <2>1 DEF Operation
  <2>3. SameEpochs
    BY <1>9, <2>1 DEF StopOperation, Lease
  <2> HIDE DEF k
  <2> QED
    BY <1>a, <2>1, <2>2, <2>3, OneRow DEF Working
<1>10. CASE \E n \in Op : RetryOperation(o, n, w, e)
  <2> PICK n \in Op : RetryOperation(o, n, w, e)
    BY <1>10
  <2> DEFINE g == op[o].target
             k == [op[o] EXCEPT !.phase = IF op[o].conflicts THEN "resolving" ELSE "programmatic",
                                !.epoch = e + 1, !.result = Nil, !.bound = FALSE, !.claim = Nil]
  <2>1. Row(o) /\ op[o] \in Operation /\ g \in Target /\ ~Row(n) /\ n # o
    BY DEF RetryOperation
  <2>2. /\ op[o].epoch = e /\ lease[g].epoch = e
        /\ op' = [op EXCEPT ![o].phase = "settled", ![n] = k]
        /\ lease' = [lease EXCEPT ![g].owner = << "branch", n >>, ![g].epoch = e + 1]
    BY DEF RetryOperation, Guarded, Current
  <2>3. /\ op'[o] = [op[o] EXCEPT !.phase = "settled"] /\ op'[n] = k
        /\ \A x \in Op \ {o, n} : op'[x] = op[x]
    BY <2>1, <2>2
  <2>4. /\ k.target = g /\ k.epoch = e + 1 /\ k.result = Nil /\ ~k.bound
        /\ k.phase \in {"resolving", "programmatic"}
    BY <2>1 DEF Operation
  <2>5. k # Absent
    BY <2>4 DEF Absent
  <2>6. lease'[g].epoch = e + 1 /\ \A h \in Target \ {g} : lease'[h].epoch = lease[h].epoch
    BY <2>1, <2>2 DEF Lease
  <2>7. RowMoves(o) /\ op'[o].epoch = op[o].epoch
    BY <2>1, <2>3 DEF RowMoves, Operation, Working
  <2> HIDE DEF k
  <2>8. RowsMove
    BY <2>1, <2>3, <2>7 DEF RowsMove, RowMoves
  <2>9. Latest(n)
    BY <2>1, <2>2, <2>3, <2>4, <2>5, <2>6 DEF Latest
  <2>10. RowsAreDated
    BY <2>1, <2>3, <2>7, <2>9 DEF RowsAreDated, Placed, Row
  <2>11. EpochsGrow
    BY <2>1, <2>2, <2>6 DEF EpochsGrow
  <2> QED
    BY <2>8, <2>10, <2>11 DEF RepoMoves
<1> QED
  BY <1>1, <1>2, <1>3, <1>4, <1>5, <1>6, <1>7, <1>8, <1>9, <1>10 DEF OperationStep

LEMMA ActivationMoves ==
  ASSUME IInv, NEW o \in Op, NEW t \in Task, NEW g \in Target, NEW d \in Direction,
         NEW k \in Continuation, Activate(o, t, g, d, k)
  PROVE  RepoMoves
<1> USE TypesOfRepo
<1>1. ~Row(o)
  BY DEF Activate
<1>2. /\ op'[o].target = g /\ op'[o].epoch = lease[g].epoch + 1 /\ op'[o].result = Nil
      /\ ~op'[o].bound /\ op'[o].phase = "programmatic"
      /\ \A x \in Op \ {o} : op'[x] = op[x]
  BY DEF Activate, NextEpoch
<1>3. op'[o] # Absent
  BY <1>2 DEF Absent
<1>4. lease'[g].epoch = lease[g].epoch + 1 /\ \A h \in Target \ {g} : lease'[h] = lease[h]
  BY DEF Activate, Grant, NextEpoch
<1>5. RowsMove
  BY <1>1, <1>2 DEF RowsMove, RowMoves
<1>6. Latest(o)
  BY <1>1, <1>2, <1>3, <1>4 DEF Latest
<1>7. RowsAreDated
  BY <1>2, <1>6 DEF RowsAreDated, Placed, Row
<1>8. EpochsGrow
  BY <1>4 DEF EpochsGrow
<1> QED
  BY <1>5, <1>7, <1>8 DEF RepoMoves

\* Every transaction of the repository.
LEMMA TransactionsMove ==
  ASSUME IInv, [Next]_vars
  PROVE  RepoMoves
<1> USE TypesOfRepo
<1>1. CASE UNCHANGED vars
  BY <1>1, StillRepo DEF vars
<1>2. ASSUME NEW g \in Target, NEW w \in Owner, NEW e \in Epoch, LeaseStep(g, w, e)
      PROVE  RepoMoves
  <2>1. op' = op
    BY <1>2 DEF LeaseStep, BeginGitMutation, BindGitProcessGroup, CompleteGitMutation
  <2>2. \A h \in Target : lease'[h].epoch = lease[h].epoch
    <3> PICK c \in Claim : \/ BeginGitMutation(g, w, e, c) \/ BindGitProcessGroup(g, w, e, c)
                            \/ CompleteGitMutation(g, w, e, c)
      BY <1>2 DEF LeaseStep
    <3>1. CASE BeginGitMutation(g, w, e, c)
      BY <3>1 DEF BeginGitMutation, Lease
    <3>2. CASE BindGitProcessGroup(g, w, e, c)
      BY <3>2 DEF BindGitProcessGroup, Lease
    <3>3. CASE CompleteGitMutation(g, w, e, c)
      BY <3>3 DEF CompleteGitMutation, Lease
    <3> QED
      BY <3>1, <3>2, <3>3
  <2> QED
    BY <2>1, <2>2, StillRepo
<1>3. ASSUME NEW g \in Target, NEW w \in {"tenant"} \X Tenant, NEW e \in Epoch, TenantStep(g, w, e)
      PROVE  RepoMoves
  <2>1. op' = op
    BY <1>3 DEF TenantStep, AcquireTargetLease, ReleaseTargetLease
  <2>2. \A h \in Target : lease[h].epoch <= lease'[h].epoch
    <3>1. CASE AcquireTargetLease(g, w)
      BY <3>1 DEF AcquireTargetLease, Grant, NextEpoch
    <3>2. CASE ReleaseTargetLease(g, w, e)
      BY <3>2 DEF ReleaseTargetLease, Lease
    <3> QED
      BY <1>3, <3>1, <3>2 DEF TenantStep
  <2> QED
    BY <2>1, <2>2 DEF RepoMoves, RowsMove, RowMoves, RowsAreDated, Placed, Row, EpochsGrow
<1>4. ASSUME NEW o \in Op, BindAgentRun(o) \/ UnbindAgentRun(o)
      PROVE  RepoMoves
  <2> PICK b \in BOOLEAN : op' = [op EXCEPT ![o].bound = b]
    BY <1>4 DEF BindAgentRun, UnbindAgentRun
  <2> DEFINE k == [op[o] EXCEPT !.bound = b]
  <2>1. Row(o) /\ op[o] \in Operation /\ op' = [op EXCEPT ![o] = k] /\ lease' = lease
        /\ op[o].phase = "resolving"
    BY <1>4 DEF BindAgentRun, UnbindAgentRun
  <2>2. /\ k.task = op[o].task /\ k.direction = op[o].direction /\ k.target = op[o].target
        /\ k.phase = "resolving" /\ k.epoch = op[o].epoch /\ k.result = op[o].result
    BY <2>1 DEF Operation
  <2>3. EpochsGrow
    BY <2>1 DEF EpochsGrow
  <2> HIDE DEF k
  <2> QED
    BY <2>1, <2>2, <2>3, OneRow DEF Working
<1>5. ASSUME NEW o \in Op, NEW c \in Claim, ClaimContinuation(o, c)
      PROVE  RepoMoves
  <2> DEFINE k == [op[o] EXCEPT !.phase = "continuation_in_progress", !.claim = c]
  <2>1. Row(o) /\ op[o] \in Operation /\ op' = [op EXCEPT ![o] = k] /\ lease' = lease
        /\ op[o].phase = "continuation_pending"
    BY <1>5 DEF ClaimContinuation
  <2>2. /\ k.task = op[o].task /\ k.direction = op[o].direction /\ k.target = op[o].target
        /\ k.phase = "continuation_in_progress" /\ k.epoch = op[o].epoch
        /\ k.result = op[o].result
    BY <2>1 DEF Operation
  <2>3. EpochsGrow
    BY <2>1 DEF EpochsGrow
  <2> HIDE DEF k
  <2> QED
    BY <2>1, <2>2, <2>3, OneRow DEF Working
<1>6. ASSUME NEW t \in Task, NEW s \in Elsewhere, MoveTask(t, s)
      PROVE  RepoMoves
  BY <1>6, StillRepo DEF MoveTask
<1> QED
  BY <1>1, <1>2, <1>3, <1>4, <1>5, <1>6, OperationMoves, ActivationMoves DEF Next

-----------------------------------------------------------------------------
(* The order stays, and who comes last                                       *)

LEMMA RowsRemainRows ==
  ASSUME Inv, [Next]_vars, NEW o \in Op, Row(o)
  PROVE  Row(o)'
BY RowsRemain DEF Row

LEMMA RowsStayInOrder ==
  ASSUME IInv, IInv', RowsInOrder, RepoMoves
  PROVE  RowsInOrder'
<1> USE TypesOfRepo
<1>1. \A o \in Op : op'[o] # Absent => op'[o].target \in Target /\ op'[o].epoch \in Nat
  BY TypesOfRepo DEF IInv, TypeOK, Operation, Absent, Row, Epoch
<1>2. \A g \in Target : lease[g].epoch \in Nat /\ lease'[g].epoch \in Nat
                        /\ lease[g].epoch <= lease'[g].epoch
  BY EpochAssumption DEF RepoMoves, EpochsGrow, IInv, TypeOK, Lease, Epoch
<1>3. ASSUME NEW o \in Op, op'[o] # Absent, Placed(o)
      PROVE  /\ Row(o) /\ op'[o].epoch = op[o].epoch /\ op'[o].target = op[o].target
             /\ op'[o].epoch <= lease[op'[o].target].epoch
             /\ op'[o].bound => op'[o].phase # "programmatic"
  BY <1>3 DEF Placed, RepoMoves, RowsMove, RowMoves, RowsInOrder, RowInOrder
<1>4. ASSUME NEW o \in Op, Latest(o)
      PROVE  /\ op'[o].epoch = lease'[op'[o].target].epoch
             /\ op'[o].epoch = lease[op'[o].target].epoch + 1
             /\ op'[o].bound => op'[o].phase # "programmatic"
  BY <1>4 DEF Latest, RepoMoves, RowsMove, RowMoves, RowsInOrder, RowInOrder
<1>5. ASSUME NEW o \in Op, op'[o] # Absent
      PROVE  RowInOrder(o)'
  <2>1. op'[o].epoch <= lease'[op'[o].target].epoch /\ (op'[o].bound => op'[o].phase # "programmatic")
    <3>1. CASE Placed(o)
      BY <1>1, <1>2, <1>3, <1>5, <3>1
    <3>2. CASE Latest(o)
      BY <1>1, <1>2, <1>4, <1>5, <3>2
    <3> QED
      BY <3>1, <3>2 DEF RepoMoves, RowsAreDated
  <2>2. ASSUME NEW q \in Op, op'[q] # Absent, op'[q].target = op'[o].target,
               op'[q].epoch = op'[o].epoch, q # o
        PROVE  FALSE
    <3>1. CASE Placed(o) /\ Placed(q)
      BY <1>3, <1>5, <2>2, <3>1 DEF RowsInOrder, RowInOrder, Row
    <3>2. CASE Latest(o) /\ Placed(q)
      BY <1>1, <1>2, <1>3, <1>4, <1>5, <2>2, <3>2
    <3>3. CASE Placed(o) /\ Latest(q)
      BY <1>1, <1>2, <1>3, <1>4, <1>5, <2>2, <3>3
    <3> QED
      BY <2>2, <3>1, <3>2, <3>3 DEF RepoMoves, RowsAreDated
  <2> QED
    BY <2>1, <2>2 DEF RowInOrder, Row
<1> QED
  BY <1>5 DEF RowsInOrder, Row

LEMMA OrderStays ==
  ASSUME Inv, [Next]_vars, RowsInOrder, NEW q \in Op, NEW o \in Op, Row(q), Row(o)
  PROVE  Before(q, o)' <=> Before(q, o)
<1>1. IInv /\ RepoMoves /\ op'[q] # Absent /\ op'[o] # Absent
  BY TransactionsMove, RowsRemain DEF Inv, RInv, Row
<1>2. op'[q].target = op[q].target /\ op'[o].target = op[o].target
  BY <1>1 DEF RepoMoves, RowsMove, RowMoves
<1>3. /\ op[q].target \in Target /\ op[o].target \in Target
      /\ op[q].epoch \in Nat /\ op[o].epoch \in Nat
      /\ \A g \in Target : lease[g].epoch \in Nat
  BY <1>1, TypesOfRepo
<1>4. /\ op[q].epoch <= lease[op[q].target].epoch /\ op[o].epoch <= lease[op[o].target].epoch
      /\ op[q].target = op[o].target /\ op[q].epoch = op[o].epoch => q = o
  BY DEF RowsInOrder, RowInOrder
<1>5. CASE q = o
  <2>1. op'[o] \in Operation
    BY <1>1, NextIInv DEF IInv, TypeOK
  <2>2. op'[o].epoch \in Nat
    BY <2>1, EpochAssumption DEF Operation, Epoch
  <2> QED
    BY <1>3, <1>5, <2>2 DEF Before
<1>6. CASE Placed(q) /\ Placed(o)
  BY <1>1, <1>2, <1>6 DEF Before, Placed
<1>7. CASE Latest(o) /\ Placed(q) /\ q # o
  BY <1>1, <1>2, <1>3, <1>4, <1>7 DEF Before, Placed, Latest
<1>8. CASE Placed(o) /\ Latest(q) /\ q # o
  BY <1>1, <1>2, <1>3, <1>4, <1>8 DEF Before, Placed, Latest
<1> QED
  BY <1>1, <1>5, <1>6, <1>7, <1>8 DEF RepoMoves, RowsAreDated

LEMMA NewRowIsLast ==
  ASSUME Inv, [Next]_vars, RowsInOrder, NEW n \in Op, NEW q \in Op, ~Row(n), Row(q),
         op'[n] # Absent
  PROVE  ~Before(n, q)' /\ op'[n].result = Nil
<1>1. IInv /\ RepoMoves /\ op'[q] # Absent
  BY TransactionsMove, RowsRemain DEF Inv, RInv, Row
<1>2. Latest(n) /\ Placed(q)
  BY <1>1 DEF RepoMoves, RowsAreDated, Placed
<1>3. op'[q].epoch = op[q].epoch /\ op'[q].target = op[q].target
  BY <1>1, <1>2 DEF Placed, RepoMoves, RowsMove, RowMoves
<1>4. op[q].epoch \in Nat /\ op[q].epoch <= lease[op[q].target].epoch
      /\ op[q].target \in Target /\ lease[op[q].target].epoch \in Nat
  BY <1>1, TypesOfRepo DEF RowsInOrder, RowInOrder
<1> QED
  BY <1>2, <1>3, <1>4 DEF Latest, Before

\* An update at work is the last of its target.
LEMMA UnsettledIsLast ==
  ASSUME Inv, RowsInOrder, NEW o \in Op, NEW q \in Op, Unsettled(o), Row(q), q # o,
         op[q].target = op[o].target
  PROVE  Row(o) /\ Before(q, o)
<1>1. IInv
  BY DEF Inv, RInv
<1>2. Row(o)
  BY <1>1, TypesOfRepo DEF Unsettled, Open, Working
<1>3. op[o].epoch = lease[op[o].target].epoch
  BY <1>1 DEF IInv, UpdateHoldsTarget
<1>4. op[q].epoch <= lease[op[q].target].epoch /\ op[q].epoch # op[o].epoch
  BY <1>2 DEF RowsInOrder, RowInOrder
<1>5. op[q].epoch \in Nat /\ op[o].epoch \in Nat
  BY <1>1, <1>2, TypesOfRepo
<1> QED
  BY <1>2, <1>3, <1>4, <1>5 DEF Before

-----------------------------------------------------------------------------
(* What the runs do to the rows: who decides on an update, who gives it its  *)
(* result, who makes it wait for its continuation, and who opens one.        *)

\* From check to settle; before the merge is committed, and all of it.
Early == { "check", "look", "add", "merge", "block", "resolve" }
Merging == Early \cup { "gather", "stage", "commit", "note" } \cup Landing
Undecided == { "programmatic", "settled" }

Decides(r, o) ==
  /\ run[r] # Idle /\ run[r].op = o /\ run[r].pc \in { "resolve", "block", "settle" }
  /\ run'[r] = Idle \/ run'[r].pc \notin Merging
GivesResult(r, o) ==
  /\ run[r].pc = "note" /\ run[r].op = o
  /\ op[o].phase \in Working /\ op[o].result = Nil /\ op'[o].result = Tree(r).head
  /\ UNCHANGED disk
Settles(r, o) == run[r].pc = "settle" /\ run[r].op = o /\ op[o].phase \in Working

RowGoes(o) ==
  /\ op[o].phase = "programmatic" /\ op'[o].phase \notin Undecided =>
       \E r \in Runner : Decides(r, o)
  /\ op'[o].result # op[o].result => \E r \in Runner : GivesResult(r, o)
  /\ Awaiting(o)' => Awaiting(o) \/ \E r \in Runner : Settles(r, o) /\ UNCHANGED << op[o].result, disk >>

\* A new row has the commit its branch is at, or that of the row it replaces.
Opens(n) ==
  /\ ~Row(n) /\ op'[n].phase \in Working /\ UNCHANGED disk
  /\ \A x \in Op \ {n} : (op'[x] # Absent => Row(x)) /\ seen'[x] = seen[x]
  /\ \/ seen'[n] = tip[op'[n].target]
     \/ \E o \in Op : /\ Unsettled(o) /\ op[o].target = op'[n].target
                      /\ seen'[n] = seen[o]
NoneOpens == seen' = seen /\ \A x \in Op : op'[x] # Absent => Row(x)

RowsGo == /\ \A o \in Op : Row(o) => RowGoes(o)
          /\ NoneOpens \/ \E n \in Op : Opens(n)

LEMMA SameRows ==
  ASSUME op' = op, seen' = seen
  PROVE  RowsGo
BY DEF RowsGo, RowGoes, NoneOpens, Row, Undecided, Awaiting

LEMMA OneRowGoes ==
  ASSUME Inv, NEW o \in Op, Row(o), \A x \in Op \ {o} : op'[x] = op[x], seen' = seen, RowGoes(o)
  PROVE  RowsGo
<1>1. \A x \in Op \ {o} : RowGoes(x)
  BY DEF RowGoes, Undecided, Awaiting
<1> QED
  BY <1>1 DEF RowsGo, NoneOpens, Row

LEMMA StatementsGo ==
  ASSUME Inv, NEW r \in Runner, Step(r)
  PROVE  RowsGo
<1>0. run[r].op \in Op
  BY StatementOf
<1> PICK o \in Op : o = run[r].op
  BY <1>0
<1>1. /\ run[r] # Idle /\ run[r] \in Run /\ o \in Op /\ Row(o) /\ op[o] \in Operation
      /\ seen' = seen /\ op \in [Op -> Operation \cup {Absent}]
  BY StatementOf, RowsOfRuns DEF SameDisk, Row, Inv, RInv, IInv, TypeOK
<1>2. RunsWell /\ run \in [Runner -> Run \cup {Idle}]
  BY DEF Inv, RInv, RunsWell
<1>3. End(r) => run'[r] = Idle
  BY <1>2 DEF End
<1>4. ASSUME NEW p, p \notin Merging, Go(r, p)
      PROVE  run'[r].pc \notin Merging
  BY <1>1, <1>2, <1>4 DEF Go, Run
<1>5. CASE Refused(r) \/ Check(r) \/ Look(r) \/ Gather(r) \/ Tip(r) \/ Tidy(r)
           \/ Publish(r) \/ Confirm(r) \/ Resume(r)
  BY <1>1, <1>5, SameRows
  DEF Refused, Check, Look, Gather, Tip, Tidy, Publish, Confirm, Resume, Reads, repo
<1>6. CASE Resolve(r) /\ ~Refused(r)
  <2>1. /\ run[r].pc = "resolve" /\ run'[r] = Idle
        /\ op' = [op EXCEPT ![o].phase = "resolving", ![o].conflicts = TRUE]
    BY <1>3, <1>6 DEF Resolve, At, MarkResolving
  <2>2. /\ op'[o].phase = "resolving" /\ op'[o].result = op[o].result
        /\ \A x \in Op \ {o} : op'[x] = op[x]
    BY <1>1, <2>1 DEF Operation
  <2>3. RowGoes(o)
    BY <1>1, <2>1, <2>2 DEF RowGoes, Decides, Awaiting
  <2> QED
    BY <1>1, <2>2, <2>3, OneRowGoes
<1>7. CASE Block(r) /\ ~Refused(r)
  <2>1. /\ run[r].pc = "block" /\ run'[r] = Idle
        /\ op' = [op EXCEPT ![o].phase = "blocked", ![o].conflicts = FALSE]
    BY <1>3, <1>7 DEF Block, At, BlockOperation
  <2>2. /\ op'[o].phase = "blocked" /\ op'[o].result = op[o].result
        /\ \A x \in Op \ {o} : op'[x] = op[x]
    BY <1>1, <2>1 DEF Operation
  <2>3. RowGoes(o)
    BY <1>1, <2>1, <2>2 DEF RowGoes, Decides, Awaiting
  <2> QED
    BY <1>1, <2>2, <2>3, OneRowGoes
<1>8. CASE Note(r) /\ ~Refused(r)
  <2> DEFINE s == Tree(r).head
  <2>1. /\ run[r].pc = "note" /\ op[o].phase \in Working /\ op[o].result \in {Nil, s}
        /\ op' = [op EXCEPT ![o].result = s] /\ UNCHANGED disk
    BY <1>8 DEF Note, At, CheckpointResult, Writes
  <2>2. /\ op'[o].phase = op[o].phase /\ op'[o].result = s
        /\ \A x \in Op \ {o} : op'[x] = op[x]
    BY <1>1, <2>1 DEF Operation
  <2>3. RowGoes(o)
    BY <1>1, <2>1, <2>2 DEF RowGoes, GivesResult, Awaiting, Undecided
  <2> QED
    BY <1>1, <2>2, <2>3, OneRowGoes
<1>9. CASE Settle(r) /\ ~Refused(r)
  <2>1. /\ run[r].pc = "settle" /\ op[o].phase \in Working /\ UNCHANGED disk
        /\ op' = [op EXCEPT ![o].phase = "continuation_pending"]
        /\ Go(r, "publish") \/ End(r) \/ Go(r, "claim")
    BY <1>9 DEF Settle, At, SettleProgrammatic, SetPhase, Writes
  <2>2. /\ op'[o].phase = "continuation_pending" /\ op'[o].result = op[o].result
        /\ \A x \in Op \ {o} : op'[x] = op[x]
    BY <1>1, <2>1 DEF Operation
  <2>3. run'[r] = Idle \/ run'[r].pc \notin Merging
    BY <1>3, <1>4, <2>1 DEF Merging, Early, Landing
  <2>4. RowGoes(o)
    BY <1>1, <2>1, <2>2, <2>3 DEF RowGoes, Decides, Settles
  <2> QED
    BY <1>1, <2>2, <2>4, OneRowGoes
<1>10. CASE (ClaimNext(r) \/ Complete(r) \/ Transfer(r)) /\ ~Refused(r)
  <2>1. \/ /\ op' = [op EXCEPT ![o].phase = "continuation_in_progress", ![o].claim = r]
           /\ op[o].phase = "continuation_pending"
        \/ /\ op' = [op EXCEPT ![o].phase = "settled"]
        \/ /\ op' = [op EXCEPT ![o].epoch = run[r].epoch + 1]
    BY <1>10 DEF ClaimNext, ClaimContinuation, Complete, CompleteContinuation, SetPhase,
                 Transfer, TransferOperationLease
  <2>2. /\ op'[o].result = op[o].result
        /\ \A x \in Op \ {o} : op'[x] = op[x]
        /\ \/ op'[o].phase = "continuation_in_progress" /\ op[o].phase = "continuation_pending"
           \/ op'[o].phase = "settled"
           \/ op'[o].phase = op[o].phase
    BY <1>1, <2>1 DEF Operation
  <2>3. RowGoes(o)
    BY <2>2 DEF RowGoes, Awaiting, Undecided
  <2> QED
    BY <1>1, <2>2, <2>3, OneRowGoes
<1> QED
  BY <1>5, <1>6, <1>7, <1>8, <1>9, <1>10 DEF Step

LEMMA CommandsLeaveRows ==
  ASSUME NEW r \in Runner, CommandStep(r)
  PROVE  /\ op' = op /\ seen' = seen /\ tip' = tip /\ under' = under
         /\ app = "up" /\ run[r].pc \in Command
BY DEF CommandStep, Commands, Begin, BeginGitMutation, Spawn, SpawnFails, ClearsClaim,
       CompleteGitMutation, Bind, BindGitProcessGroup, BindFails, Exited, TimedOut, Clear,
       Refused, Writes, repo, disk

LEMMA UpdatesGo ==
  ASSUME Inv, NEW o \in Op, UpdateStep(o), RowsInOrder
  PROVE  RowsGo
<1>1. op \in [Op -> Operation \cup {Absent}] /\ seen' = seen
  BY DEF Inv, RInv, IInv, TypeOK, UpdateStep, StartResolver, ResolverEnds, ResolverReports,
         Pause, ResumeTask, StopTask
<1>2. \A x \in Op : op[x].phase # "none" => Row(x) /\ op[x] \in Operation
  BY NoRowIsAbsent, RowsAre DEF Row
<1>3. CASE ResumeTask(o)
  BY <1>1, <1>3, SameRows DEF ResumeTask, ResumeOperation
<1>4. CASE StartResolver(o) \/ ResolverEnds(o)
  <2>1. op[o].phase = "resolving" /\ \E b \in BOOLEAN : op' = [op EXCEPT ![o].bound = b]
    BY <1>4 DEF StartResolver, ResolverEnds, BindAgentRun, UnbindAgentRun
  <2>2. /\ op'[o].phase = "resolving" /\ op'[o].result = op[o].result
        /\ \A x \in Op \ {o} : op'[x] = op[x]
    BY <1>1, <1>2, <2>1 DEF Operation
  <2>3. RowGoes(o)
    BY <2>1, <2>2 DEF RowGoes, Awaiting, Undecided
  <2> QED
    BY <1>1, <1>2, <2>1, <2>2, <2>3, OneRowGoes
<1>5. CASE ResolverReports(o)
  <2>1. /\ op[o].bound /\ op[o].phase \in Working
        /\ \E b \in BOOLEAN : op' = [op EXCEPT ![o].phase = "blocked", ![o].conflicts = b]
    BY <1>5 DEF ResolverReports, Bound, BlockOperation
  <2>2. Row(o) /\ op[o] \in Operation
    BY <1>2, <2>1 DEF Working
  <2>3. /\ op'[o].phase = "blocked" /\ op'[o].result = op[o].result
        /\ \A x \in Op \ {o} : op'[x] = op[x]
    BY <1>1, <2>1, <2>2 DEF Operation
  <2>4. op[o].phase # "programmatic"
    BY <2>1, <2>2 DEF RowsInOrder, RowInOrder
  <2>5. RowGoes(o)
    BY <2>3, <2>4 DEF RowGoes, Awaiting, Undecided
  <2> QED
    BY <1>1, <2>2, <2>3, <2>5, OneRowGoes
<1>6. CASE Pause(o) \/ StopTask(o)
  <2>1. /\ op[o].phase \in Open
        /\ \/ op' = [op EXCEPT ![o].bound = FALSE]
           \/ op' = [op EXCEPT ![o].phase = "settled", ![o].bound = FALSE]
    BY <1>6 DEF Pause, StopTask, PauseOperation, StopOperation, Unsettled
  <2>2. Row(o) /\ op[o] \in Operation
    BY <1>2, <2>1 DEF Open, Working
  <2>3. /\ op'[o].phase \in {"settled", op[o].phase} /\ op'[o].result = op[o].result
        /\ \A x \in Op \ {o} : op'[x] = op[x]
    BY <1>1, <2>1, <2>2 DEF Operation
  <2>4. RowGoes(o)
    BY <2>3 DEF RowGoes, Awaiting, Undecided
  <2> QED
    BY <1>1, <2>2, <2>3, <2>4, OneRowGoes
<1> QED
  BY <1>3, <1>4, <1>5, <1>6 DEF UpdateStep

LEMMA CallersGo ==
  ASSUME Inv, NEW r \in Runner, CallerStep(r)
  PROVE  RowsGo
<1>1. op \in [Op -> Operation \cup {Absent}] /\ seen \in [Op -> Sha \cup {Nil}]
  BY DEF Inv, RInv, IInv, TypeOK, RunsTypeOK
<1>2. \A x \in Op : Row(x) <=> op[x].phase # "none"
  BY NoRowIsAbsent DEF Row
<1>3. CASE \E o \in Op : ResolverCompletes(r, o) \/ Reconcile(r, o)
  BY <1>3, SameRows DEF ResolverCompletes, Reconcile, Reads, repo
<1>4. ASSUME NEW o \in Op, NEW t \in Task, NEW g \in Target, NEW d \in Way, NEW k \in Continuation,
             StartUpdate(r, o, t, g, d, k)
      PROVE  RowsGo
  <2>1. /\ ~Row(o) /\ op'[o].phase = "programmatic" /\ op'[o].target = g
        /\ \A x \in Op \ {o} : op'[x] = op[x]
    BY <1>1, <1>2, <1>4 DEF StartUpdate, Activate
  <2>2. op'[o].phase \in Working
    BY <2>1 DEF Working
  <2>3. seen'[o] = tip[g] /\ UNCHANGED disk /\ \A x \in Op \ {o} : seen'[x] = seen[x]
    BY <1>1, <1>4 DEF StartUpdate
  <2>4. Opens(o)
    BY <2>1, <2>2, <2>3 DEF Opens, Row
  <2>5. \A x \in Op \ {o} : RowGoes(x)
    BY <2>1 DEF RowGoes, Awaiting, Undecided
  <2> QED
    BY <2>1, <2>4, <2>5 DEF RowsGo
<1>5. ASSUME NEW o \in Op, NEW n \in Op, Retry(r, o, n)
      PROVE  RowsGo
  <2> DEFINE k == [op[o] EXCEPT !.phase = IF op[o].conflicts THEN "resolving" ELSE "programmatic",
                                !.epoch = LeaseOf(o).epoch + 1, !.result = Nil, !.bound = FALSE,
                                !.claim = Nil]
  <2>1. /\ ~Row(n) /\ op[o].phase = "blocked" /\ n # o
        /\ op' = [op EXCEPT ![o].phase = "settled", ![n] = k]
    BY <1>2, <1>5 DEF Retry, RetryOperation
  <2>2. op[o] \in Operation
    BY <1>2, <2>1, RowsAre DEF Row
  <2>3. /\ k.target = op[o].target /\ k.phase \in {"resolving", "programmatic"}
    BY <2>2 DEF Operation
  <2>4. /\ op'[n] = k /\ op'[o].phase = "settled" /\ op'[o].result = op[o].result
        /\ \A x \in Op \ {o, n} : op'[x] = op[x]
    BY <1>1, <2>1, <2>2 DEF Operation
  <2> HIDE DEF k
  <2>5. op'[n].phase \in Working /\ op'[n].target = op[o].target
    BY <2>3, <2>4 DEF Working
  <2>6. seen'[n] = seen[o] /\ UNCHANGED disk /\ \A x \in Op \ {n} : seen'[x] = seen[x]
    BY <1>1, <1>5 DEF Retry
  <2>7. Row(o) /\ Unsettled(o)
    BY <1>2, <2>1 DEF Unsettled, Open
  <2>8. Opens(n)
    BY <2>1, <2>4, <2>5, <2>6, <2>7 DEF Opens, Row
  <2>9. \A x \in Op \ {n} : RowGoes(x)
    BY <2>1, <2>4 DEF RowGoes, Awaiting, Undecided
  <2> QED
    BY <2>1, <2>8, <2>9 DEF RowsGo
<1> QED
  BY <1>3, <1>4, <1>5 DEF CallerStep

LEMMA RowsGoOn ==
  ASSUME Inv, RowsInOrder, [RunsNext]_rvars
  PROVE  RowsGo
<1>1. CASE \E r \in Runner : CommandStep(r)
  BY <1>1, CommandsLeaveRows, SameRows
<1>2. CASE \E p \in live : Exit(p)
  BY <1>2, SameRows DEF Exit, repo
<1>3. CASE Crash \/ Restart \/ Ready
  BY <1>3, SameRows DEF Crash, Restart, Ready, repo
<1>4. CASE \E g \in Target : TerminateGroup(g) \/ RecoverClaim(g) \/ LeaveClaim(g) \/ OthersCommit(g)
  BY <1>4, SameRows DEF TerminateGroup, RecoverClaim, CompleteGitMutation, LeaveClaim,
                        OthersCommit, repo
<1>5. CASE \E t \in Task : TaskGoesOn(t)
  BY <1>5, SameRows DEF TaskGoesOn, MoveTask
<1>6. CASE UNCHANGED rvars
  BY <1>6, SameRows DEF rvars, repo
<1> QED
  BY <1>1, <1>2, <1>3, <1>4, <1>5, <1>6, StatementsGo, UpdatesGo, CallersGo DEF RunsNext

-----------------------------------------------------------------------------
(* The course of a run: where it can get from where it is                    *)

Programs(r, o) == run[r] # Idle /\ run[r].kind = "programmatic" /\ run[r].op = o

\* A run is where its kind of call gets, and while it merges for an update that
\* no agent was asked for, it is the only one.
RunInCourse(r) ==
  /\ run[r].pc \in Sending => run[r].kind = "publish"
  /\ run[r].pc \in Early => run[r].kind = "programmatic"
  /\ run[r].pc \in Merging => run[r].kind \in {"programmatic", "resolved"}
  /\ run[r].pc \in Merging /\ run[r].kind = "programmatic" => op[run[r].op].phase \in Undecided
  /\ run[r].kind = "resolved" => op[run[r].op].phase # "programmatic"
  /\ run[r].result \in {Nil, op[run[r].op].result}
  /\ \A q \in Runner : run[r].kind = "programmatic" /\ Programs(q, run[r].op) => q = r
RunsInCourse ==
  /\ app # "up" => \A r \in Runner : run[r] = Idle
  /\ \A r \in Runner : run[r] # Idle => RunInCourse(r)

\* The merge is committed, the tree holds it already, the result is in the branch.
Committed(r) == run[r].pc = "note" \/ (run[r].pc \in {"merge", "commit"} /\ run[r].out = "ok")
Merged(r) == Tree(r).head # Expected(r) /\ Expected(r) \in under[Tree(r).head]
Landed(r) ==
  run[r].pc \in {"tidy", "remove", "settle"} \/ (run[r].pc = "land" /\ run[r].out = "ok")

Waiting == { "ask", "begun" }
Takes(r) == BeginGitMutation(TargetOf(r), OwnerOf(r), run[r].epoch, r)
LandsFor(p) == /\ p.cmd = "land" /\ tip[op[p.op].target] = seen[p.op]
               /\ tip' = [tip EXCEPT ![op[p.op].target] = p.sha]

Continues(r) ==
  LET k == run[r]   n == run'[r] IN
  /\ k # Idle /\ n.op = k.op
  /\ n.kind \in {k.kind, "publish", "resume"}
  /\ n.result \in {k.result, op'[k.op].result}
  /\ n.pc \in Sending => n.kind = "publish"
  /\ n.pc \in Early => n.kind = "programmatic"
  /\ n.pc \in Merging => k.pc \in Merging /\ n.kind = k.kind
  /\ n.pc = "add" /\ n.stage \in Waiting =>
       (k.pc = "add" /\ k.stage \in Waiting) \/ (Tree(r).tree = "none" /\ UNCHANGED disk)
  /\ n.pc \in Command /\ n.stage \in Begun => n.pc = k.pc /\ (k.stage \in Begun \/ Takes(r))
  /\ (n.pc = "note" \/ (n.pc \in {"merge", "commit"} /\ n.out = "ok")) =>
       \/ Committed(r)
       \/ Merged(r) /\ UNCHANGED disk
       \/ \E p \in Mine(r) : p.cmd \in {"merge", "commit"} /\ Commits(p)
  /\ (n.pc \in {"tidy", "remove", "settle"} \/ (n.pc = "land" /\ n.out = "ok")) =>
       \/ Landed(r)
       \/ tip[TargetOf(r)] = k.result /\ k.result # Nil /\ UNCHANGED disk
       \/ \E p \in Mine(r) : LandsFor(p)

Begins(r) ==
  LET n == run'[r]   o == n.op IN
  /\ run[r] = Idle /\ n # Idle /\ OnlyRun(r) /\ app = "up" /\ o \in Op /\ n.stage = "ask"
  /\ \/ /\ n.pc = "check" /\ n.kind = "programmatic" /\ n.result = Nil
        /\ ~Row(o) /\ op'[o].phase = "programmatic"
     \/ /\ Row(o) /\ op' = op /\ n.result = op[o].result
        /\ \/ n.pc = "gather" /\ n.kind = "resolved" /\ op[o].phase = "resolving"
           \/ n.pc = n.kind /\ n.kind \in {"publish", "resume"}

RunGoes(r) == run'[r] = Idle \/ Begins(r) \/ Continues(r)
RunsGo == \A r \in Runner : RunGoes(r)

LEMMA SameRunGoes ==
  ASSUME RunsInCourse, NEW r \in Runner, run'[r] = run[r]
  PROVE  RunGoes(r)
BY DEF RunGoes, Continues, RunsInCourse, RunInCourse, Committed, Landed

LEMMA OneRunGoes ==
  ASSUME RunsInCourse, NEW r \in Runner, OnlyRun(r), RunGoes(r)
  PROVE  RunsGo
BY SameRunGoes DEF RunsGo, OnlyRun

LEMMA EndGoes ==
  ASSUME Inv, NEW r \in Runner, End(r)
  PROVE  OnlyRun(r) /\ RunGoes(r)
BY DEF End, OnlyRun, RunGoes, Inv, RInv, RunsWell

LEMMA PlacesApart ==
  /\ Early \subseteq Merging /\ Sending \cap Merging = {}
  /\ \A c \in Command : c \in Merging \/ c = "push"
  /\ \A p \in {"publish", "resume", "claim", "complete", "transfer", "push", "confirm"} :
       p \notin Merging /\ p \notin Early /\ p # "note" /\ p # "add" /\ p # "merge" /\ p # "commit"
       /\ p \notin {"tidy", "remove", "settle", "land"}
BY CommandNames DEF Early, Merging, Landing, Sending

LEMMA GoingOn ==
  ASSUME Inv, NEW r \in Runner, run[r] # Idle, NEW p, Go(r, p),
         p \in Sending => run[r].kind = "publish",
         p \in Early => run[r].kind = "programmatic",
         p \in Merging => run[r].pc \in Merging,
         p = "add" => Tree(r).tree = "none" /\ UNCHANGED disk,
         p = "note" => Committed(r) \/ (Merged(r) /\ UNCHANGED disk),
         p \in {"tidy", "remove", "settle"} =>
           Landed(r) \/ (tip[TargetOf(r)] = run[r].result /\ run[r].result # Nil /\ UNCHANGED disk)
  PROVE  OnlyRun(r) /\ RunGoes(r)
<1>1. run[r] \in Run /\ run \in [Runner -> Run \cup {Idle}]
  BY RowsOfRuns DEF Inv, RInv, RunsWell
<1>2. /\ run'[r].pc = p /\ run'[r].stage = "ask" /\ run'[r].out = "none"
      /\ run'[r].op = run[r].op /\ run'[r].kind = run[r].kind /\ run'[r].result = run[r].result
  BY <1>1 DEF Go, Run
<1>3. OnlyRun(r)
  BY <1>1 DEF Go, OnlyRun
<1>4. "ask" \notin Begun
  BY DEF Begun
<1>5. Continues(r)
  BY <1>2, <1>4 DEF Continues
<1> QED
  BY <1>3, <1>5 DEF RunGoes

LEMMA FailGoes ==
  ASSUME Inv, RunsInCourse, NEW r \in Runner, run[r] # Idle,
         run[r].pc \in Merging \/ run[r].pc \in Sending, Fail(r)
  PROVE  OnlyRun(r) /\ RunGoes(r)
<1>1. CASE run[r].kind = "programmatic"
  <2>1. run[r].pc \in Merging
    BY <1>1 DEF RunsInCourse, RunInCourse
  <2>2. Go(r, "block")
    BY <1>1 DEF Fail
  <2> QED
    BY <1>1, <2>1, <2>2, GoingOn DEF Sending
<1>2. CASE run[r].kind # "programmatic"
  BY <1>2, EndGoes DEF Fail
<1> QED
  BY <1>1, <1>2

LEMMA StatementsContinue ==
  ASSUME Inv, KInv, RunsInCourse, NEW r \in Runner, Step(r)
  PROVE  OnlyRun(r) /\ RunGoes(r)
<1>1. /\ run[r] # Idle /\ run[r] \in Run /\ run \in [Runner -> Run \cup {Idle}]
      /\ run[r].stage = "ask" /\ RunInCourse(r) /\ KnowsEnough(run[r])
      /\ tip \in [Target -> Sha] /\ TargetOf(r) \in Target
  BY StatementOf, RowsOfRuns DEF KInv, StatementsAsk, Inv, RInv, RunsWell, RunsTypeOK, RunsInCourse,
                                TargetOf
<1>2. CASE Refused(r)
  BY <1>2, EndGoes DEF Refused
<1>3. CASE Check(r)
  BY <1>1, <1>3, GoingOn DEF Check, At, Early, Merging, Sending, RunInCourse, Landing
<1>4. CASE Look(r)
  <2>1. run[r].pc = "look" /\ run[r].kind = "programmatic" /\ UNCHANGED disk
    BY <1>1, <1>4 DEF Look, At, Reads, RunInCourse, Early
  <2>2. \/ Go(r, "add") /\ Tree(r).tree = "none"
        \/ Go(r, "resolve") \/ Go(r, "block") \/ Go(r, "merge")
        \/ Go(r, "note") /\ Merged(r)
    BY <1>4 DEF Look, Merged
  <2> QED
    BY <1>1, <2>1, <2>2, GoingOn DEF Early, Merging, Sending, Landing
<1>5. CASE Gather(r)
  <2>1. run[r].pc = "gather" /\ UNCHANGED disk
    BY <1>5 DEF Gather, At, Reads
  <2>2. \/ End(r) \/ Go(r, "tip") \/ Go(r, "stage")
        \/ Go(r, "note") /\ Merged(r)
    BY <1>5 DEF Gather, Merged
  <2> QED
    BY <1>1, <2>1, <2>2, GoingOn, EndGoes DEF Early, Merging, Sending, Landing
<1>6. CASE Tip(r)
  <2>1. run[r].pc = "tip" /\ UNCHANGED disk
    BY <1>6 DEF Tip, At, Reads
  <2>2. \/ Go(r, "land") \/ Fail(r)
        \/ Go(r, "tidy") /\ tip[TargetOf(r)] = run[r].result
    BY <1>6 DEF Tip
  <2>3. run[r].result # Nil
    BY <1>1, <2>1 DEF KnowsEnough, Landing
  <2> QED
    BY <1>1, <2>1, <2>2, <2>3, GoingOn, FailGoes DEF Early, Merging, Sending, Landing
<1>7. CASE Tidy(r)
  <2>1. run[r].pc = "tidy" /\ Landed(r) /\ (Go(r, "settle") \/ Go(r, "remove"))
    BY <1>7 DEF Tidy, At, Landed
  <2> QED
    BY <1>1, <2>1, GoingOn DEF Early, Merging, Sending, Landing
<1>8. CASE (Resolve(r) \/ Block(r) \/ Complete(r)) /\ ~Refused(r)
  BY <1>8, EndGoes DEF Resolve, Block, Complete
<1>9. CASE Settle(r) /\ ~Refused(r)
  <2>1. End(r) \/ Go(r, "publish") \/ Go(r, "claim")
    BY <1>9 DEF Settle
  <2> QED
    BY <1>1, <2>1, GoingOn, EndGoes DEF Early, Merging, Sending, Landing
<1>10. CASE Note(r) /\ ~Refused(r)
  <2> PICK s : s = Tree(r).head
    OBVIOUS
  <2>1. /\ run[r].pc = "note" /\ run' = [run EXCEPT ![r].pc = "tip", ![r].result = s]
        /\ op' = [op EXCEPT ![run[r].op].result = s]
    BY <1>10 DEF Note, At, CheckpointResult
  <2>2. /\ run'[r].pc = "tip" /\ run'[r].stage = "ask"
        /\ run'[r].op = run[r].op /\ run'[r].kind = run[r].kind /\ run'[r].result = s
    BY <1>1, <2>1 DEF Run
  <2>3. op'[run[r].op].result = s
    BY <1>1, <2>1, RowsOfRuns DEF Inv, RInv, IInv, TypeOK, Operation
  <2>4. OnlyRun(r)
    BY <1>1, <2>1 DEF OnlyRun
  <2>5. "tip" \notin Command
    BY CommandNames
  <2>6. Continues(r)
    BY <1>1, <2>1, <2>2, <2>3, <2>5 DEF Continues, Early, Merging, Sending, Landing
  <2> QED
    BY <2>4, <2>6 DEF RunGoes
<1>11. CASE (ClaimNext(r) \/ Transfer(r)) /\ ~Refused(r)
  <2>1. PICK p \in {"complete", "push"} :
          /\ run'[r].pc = p /\ run'[r].stage = "ask" /\ OnlyRun(r)
          /\ run'[r].op = run[r].op /\ run'[r].kind = run[r].kind
          /\ run'[r].result = run[r].result
          /\ p = "push" => run[r].pc = "transfer"
    BY <1>1, <1>11 DEF ClaimNext, Transfer, At, OnlyRun, Run
  <2>2. "ask" \notin Begun
    BY DEF Begun
  <2>3. Continues(r)
    BY <1>1, <2>1, <2>2, PlacesApart DEF Continues, RunInCourse, Sending, Merging, Early, Landing
  <2> QED
    BY <2>1, <2>3 DEF RunGoes
<1>12. CASE Confirm(r)
  <2>1. run[r].pc = "confirm" /\ (End(r) \/ Go(r, "claim") \/ Go(r, "complete"))
    BY <1>12 DEF Confirm, At, ClaimOrComplete
  <2> QED
    BY <1>1, <2>1, GoingOn, EndGoes DEF Early, Merging, Sending, Landing
<1>13. CASE Publish(r) \/ Resume(r)
  <2>1. \/ End(r)
        \/ \E kind \in {"publish", "resume"}, p \in {"transfer", "push", "claim", "complete"} :
             Taken(r, kind, p) /\ (p \in Sending => kind = "publish")
    BY <1>13 DEF Publish, Resume, Sending
  <2>2. op' = op
    BY <1>13 DEF Publish, Resume, Reads, repo
  <2>3. ASSUME NEW kind \in {"publish", "resume"}, NEW p \in {"transfer", "push", "claim", "complete"},
               Taken(r, kind, p), p \in Sending => kind = "publish"
        PROVE  OnlyRun(r) /\ RunGoes(r)
    <3>1. /\ run'[r].pc = p /\ run'[r].stage = "ask" /\ OnlyRun(r)
          /\ run'[r].op = run[r].op /\ run'[r].kind = kind
          /\ run'[r].result = op[run[r].op].result
      BY <1>1, <2>3 DEF Taken, OnlyRun
    <3>2. "ask" \notin Begun
      BY DEF Begun
    <3>3. Continues(r)
      BY <1>1, <2>2, <2>3, <3>1, <3>2, PlacesApart DEF Continues
    <3> QED
      BY <3>1, <3>3 DEF RunGoes
  <2> QED
    BY <2>1, <2>3, EndGoes
<1> QED
  BY <1>2, <1>3, <1>4, <1>5, <1>6, <1>7, <1>8, <1>9, <1>10, <1>11, <1>12, <1>13 DEF Step

\* A command goes from stage to stage where it is.
LEMMA StagesGo ==
  ASSUME Inv, RunsInCourse, NEW r \in Runner, run[r].pc \in Command,
         NEW s \in {"begun", "spawned", "bound", "exited"},
         run' = [run EXCEPT ![r].stage = s, ![r].out = "killed"] \/ Reaches(r, s),
         \/ run[r].stage = "ask" /\ s = "begun" /\ Takes(r)
         \/ run[r].stage \in Begun /\ s # "begun"
  PROVE  OnlyRun(r) /\ RunGoes(r)
<1>1. run[r] # Idle /\ run[r] \in Run /\ run \in [Runner -> Run \cup {Idle}] /\ RunInCourse(r)
  BY CommandRuns, CommandNames DEF Idle, Inv, RInv, RunsWell, RunsInCourse
<1>2. /\ run'[r].pc = run[r].pc /\ run'[r].stage = s /\ OnlyRun(r)
      /\ run'[r].op = run[r].op /\ run'[r].kind = run[r].kind
      /\ run'[r].result = run[r].result /\ run'[r].out \in {run[r].out, "killed"}
  BY <1>1 DEF Reaches, OnlyRun, Run
<1>3. Continues(r)
  BY <1>1, <1>2 DEF Continues, RunInCourse, Waiting, Begun, Committed, Landed
<1> QED
  BY <1>2, <1>3 DEF RunGoes

LEMMA CommandsContinue ==
  ASSUME Inv, KInv, RunsInCourse, NEW r \in Runner, CommandStep(r)
  PROVE  OnlyRun(r) /\ RunGoes(r)
<1>1. run[r].pc \in Command
  BY CommandsLeaveRows
<1>2. run[r] # Idle /\ run[r] \in Run /\ run \in [Runner -> Run \cup {Idle}] /\ RunInCourse(r)
  BY <1>1, CommandRuns, CommandNames DEF Idle, Inv, RInv, RunsWell, RunsInCourse
<1>3. CASE Refused(r) \/ SpawnFails(r) \/ BindFails(r)
  BY <1>3, EndGoes DEF Refused, SpawnFails, BindFails
<1>4. CASE Begin(r) /\ ~Refused(r)
  <2>1. Takes(r) /\ Reaches(r, "begun") /\ run[r].stage = "ask"
    BY <1>4 DEF Begin, Takes, Commands
  <2> QED
    BY <1>1, <2>1, StagesGo
<1>5. CASE Spawn(r) \/ Bind(r) \/ Exited(r)
  <2>1. /\ run[r].stage \in Begun
        /\ Reaches(r, "spawned") \/ Reaches(r, "bound") \/ Reaches(r, "exited")
    BY <1>5 DEF Spawn, Bind, Exited, Commands, Begun
  <2> QED
    BY <1>1, <2>1, StagesGo
<1>6. CASE TimedOut(r)
  <2>1. /\ run[r].stage \in Begun
        /\ End(r) \/ run' = [run EXCEPT ![r].stage = "exited", ![r].out = "killed"]
    BY <1>6 DEF TimedOut, Commands, Begun
  <2> QED
    BY <1>1, <2>1, StagesGo, EndGoes
<1>7. CASE Clear(r)
  <2>1. \/ End(r) \/ Fail(r)
        \/ Go(r, "resolve") /\ run[r].pc = "merge"
        \/ Go(r, After[run[r].pc]) /\ run[r].out = "ok"
    BY <1>7 DEF Clear, Goes
  <2>2. run[r].pc \in Merging \/ run[r].pc \in Sending
    BY <1>1, CommandNames DEF Merging, Early, Landing, Sending
  <2>3. CASE Go(r, "resolve") /\ run[r].pc = "merge"
    BY <1>2, <2>3, GoingOn DEF RunInCourse, Early, Merging, Sending
  <2>4. CASE Go(r, After[run[r].pc]) /\ run[r].out = "ok"
    <3>1. \/ run[r].pc = "add" /\ Go(r, "merge")
          \/ run[r].pc = "merge" /\ Go(r, "note") /\ Committed(r)
          \/ run[r].pc = "stage" /\ Go(r, "commit")
          \/ run[r].pc = "commit" /\ Go(r, "note") /\ Committed(r)
          \/ run[r].pc = "land" /\ Go(r, "tidy") /\ Landed(r)
          \/ run[r].pc = "remove" /\ Go(r, "settle") /\ Landed(r)
          \/ run[r].pc = "push" /\ Go(r, "confirm")
      BY <1>1, <2>4, CommandNames DEF After, Committed, Landed
    <3> QED
      BY <1>2, <3>1, GoingOn DEF RunInCourse, Early, Merging, Sending, Landing
  <2> QED
    BY <1>2, <2>1, <2>2, <2>3, <2>4, EndGoes, FailGoes
<1> QED
  BY <1>3, <1>4, <1>5, <1>6, <1>7 DEF CommandStep

LEMMA CallersBegin ==
  ASSUME Inv, NEW r \in Runner, CallerStep(r), RunsInCourse
  PROVE  OnlyRun(r) /\ RunGoes(r)
<1>0. op \in [Op -> Operation \cup {Absent}]
  BY DEF Inv, RInv, IInv, TypeOK
<1>1. run \in [Runner -> Run \cup {Idle}] /\ \A x \in Op : Row(x) <=> op[x].phase # "none"
  BY NoRowIsAbsent DEF Row, Inv, RInv, RunsWell
<1>2. ASSUME NEW kind, NEW p, NEW o, NEW e, NEW s, Start(r, kind, p, o, e, s)
      PROVE  /\ OnlyRun(r)
             /\ run'[r].kind = kind /\ run'[r].pc = p /\ run'[r].op = o /\ run'[r].result = s
             /\ run'[r].stage = "ask" /\ (p # "idle" => run'[r] # Idle)
  BY <1>1, <1>2 DEF Start, OnlyRun, Idle
<1>3. ASSUME NEW o \in Op, ResolverCompletes(r, o)
      PROVE  OnlyRun(r) /\ RunGoes(r)
  <2>1. /\ run[r] = Idle /\ app = "up" /\ op' = op /\ op[o].phase = "resolving"
        /\ Start(r, "resolved", "gather", o, op[o].epoch, op[o].result)
    BY <1>3 DEF ResolverCompletes, Free, Reads, repo
  <2> QED
    BY <1>1, <1>2, <2>1 DEF RunGoes, Begins
<1>4. ASSUME NEW o \in Op, Reconcile(r, o)
      PROVE  OnlyRun(r) /\ RunGoes(r)
  <2>1. PICK k \in {"publish", "resume"} : Start(r, k, k, o, op[o].epoch, op[o].result)
    BY <1>4 DEF Reconcile
  <2>2. run[r] = Idle /\ app = "up" /\ op' = op /\ op[o].phase # "none"
    BY <1>4 DEF Reconcile, Free, Reads, repo, Awaiting
  <2> QED
    BY <1>1, <1>2, <2>1, <2>2 DEF RunGoes, Begins
<1>5. ASSUME NEW o \in Op, NEW t \in Task, NEW g \in Target, NEW d \in Way, NEW k \in Continuation,
             StartUpdate(r, o, t, g, d, k)
      PROVE  OnlyRun(r) /\ RunGoes(r)
  <2>1. /\ run[r] = Idle /\ app = "up" /\ ~Row(o) /\ op'[o].phase = "programmatic"
        /\ Start(r, "programmatic", "check", o, NextEpoch(g), Nil)
    BY <1>0, <1>1, <1>5 DEF StartUpdate, Free, Activate
  <2> QED
    BY <1>2, <2>1 DEF RunGoes, Begins
<1>6. ASSUME NEW o \in Op, NEW n \in Op, Retry(r, o, n)
      PROVE  OnlyRun(r) /\ RunGoes(r)
  <2>1. run[r] = Idle /\ app = "up" /\ ~Row(n) /\ op[o].phase = "blocked"
    BY <1>1, <1>6 DEF Retry, Free, RetryOperation
  <2>2. run' = run \/ (Start(r, "programmatic", "check", n, op[o].epoch + 1, Nil) /\ ~op[o].conflicts)
    BY <1>6 DEF Retry
  <2>3. op[o] \in Operation /\ n # o
    BY <1>1, <2>1, RowsAre DEF Row
  <2>4. ~op[o].conflicts => op'[n].phase = "programmatic"
    BY <1>0, <1>6, <2>3 DEF Retry, RetryOperation, Operation
  <2> QED
    BY <1>2, <2>1, <2>2, <2>4 DEF RunGoes, Begins, OnlyRun
<1> QED
  BY <1>3, <1>4, <1>5, <1>6 DEF CallerStep

LEMMA ExitGoes ==
  ASSUME Inv, KInv, RunsInCourse, NEW p \in live, Exit(p)
  PROVE  RunsGo
<1>1. run \in [Runner -> Run \cup {Idle}]
  BY DEF Inv, RInv, RunsWell
<1>2. ASSUME NEW q \in Runner, p \notin Mine(q)
      PROVE  RunGoes(q)
  <2>1. run'[q] = run[q]
    BY <1>2 DEF Exit
  <2> QED
    BY <2>1, SameRunGoes
<1>3. ASSUME NEW q \in Runner, p \in Mine(q)
      PROVE  RunGoes(q)
  <2>1. /\ p.claim = q /\ ~p.orphan
        /\ run[q] # Idle /\ run[q].pc = p.cmd /\ run[q].stage \in {"spawned", "bound"}
    BY <1>3 DEF Mine, KInv, GitIsWatched
  <2>2. run[q] \in Run /\ RunInCourse(q) /\ op' = op
    BY <1>1, <2>1 DEF RunsInCourse, Exit, repo
  <2>3. PICK out \in {"ok", "fail"} :
          /\ run' = [x \in Runner |-> IF x \in {y \in Runner : p \in Mine(y)}
                                        THEN [run[x] EXCEPT !.out = out] ELSE run[x]]
          /\ out = "ok" => Succeeds(p)
    BY DEF Exit
  <2>4. run'[q] = [run[q] EXCEPT !.out = out]
    BY <1>3, <2>3
  <2>5. /\ run'[q].pc = run[q].pc /\ run'[q].stage = run[q].stage /\ run'[q].op = run[q].op
        /\ run'[q].kind = run[q].kind /\ run'[q].result = run[q].result /\ run'[q].out = out
    BY <2>2, <2>4 DEF Run
  <2>6. /\ run[q].pc \in {"merge", "commit"} /\ out = "ok" =>
             p.cmd \in {"merge", "commit"} /\ Commits(p)
        /\ run[q].pc = "land" /\ out = "ok" => LandsFor(p)
    BY <2>1, <2>3 DEF Succeeds, LandsFor
  <2>7. run[q].stage \in Begun /\ run[q].stage \notin Waiting
    BY <2>1 DEF Begun, Waiting
  <2>8. Continues(q)
    BY <1>3, <2>1, <2>2, <2>5, <2>6, <2>7 DEF Continues, RunInCourse, Committed, Landed
  <2> QED
    BY <2>8 DEF RunGoes
<1> QED
  BY <1>2, <1>3 DEF RunsGo

LEMMA RunsGoOn ==
  ASSUME Inv, KInv, RunsInCourse, [RunsNext]_rvars
  PROVE  RunsGo
<1>1. CASE Crash
  BY <1>1 DEF Crash, RunsGo, RunGoes
<1>2. CASE run' = run
  BY <1>2, SameRunGoes DEF RunsGo
<1>3. CASE \E p \in live : Exit(p)
  BY <1>3, ExitGoes
<1>4. CASE \E r \in Runner : Step(r) \/ CommandStep(r) \/ CallerStep(r)
  BY <1>4, StatementsContinue, CommandsContinue, CallersBegin, OneRunGoes
<1>5. CASE \/ Restart \/ Ready \/ \E o \in Op : UpdateStep(o)
           \/ \E g \in Target : TerminateGroup(g) \/ RecoverClaim(g) \/ LeaveClaim(g) \/ OthersCommit(g)
           \/ \E t \in Task : TaskGoesOn(t)
  <2>1. run' = run
    BY <1>5 DEF Restart, Ready, UpdateStep, StartResolver, ResolverEnds, ResolverReports, Pause,
                ResumeTask, StopTask, TerminateGroup, RecoverClaim, LeaveClaim, OthersCommit, TaskGoesOn
  <2> QED
    BY <1>2, <2>1
<1>6. CASE UNCHANGED rvars
  BY <1>2, <1>6 DEF rvars
<1> QED
  BY <1>1, <1>3, <1>4, <1>5, <1>6 DEF RunsNext

-----------------------------------------------------------------------------
(* What becomes of the Git processes, the claims, the workspaces, the branch *)

Carried(m, p) ==
  /\ p.claim = m.claim /\ p.cmd = m.cmd /\ p.op = m.op /\ p.sha = m.sha
  /\ p.orphan => m.orphan \/ run'[m.claim] = Idle
Spawned(p) ==
  LET k == run[p.claim] IN
  /\ p.claim \in Runner /\ k.pc \in Command /\ k.stage = "begun"
  /\ p = [ claim |-> p.claim, cmd |-> k.pc, op |-> k.op, sha |-> k.result,
           bound |-> FALSE, orphan |-> FALSE ]
  /\ UNCHANGED << op, lease, disk >>
GitGoes == \E f : \A p \in live' : Spawned(p) \/ \E m \in live : p = f[m] /\ Carried(m, p)

\* A claim stays with its owner, but for the run that gives it back, and for the
\* recovery of a clean workspace.
GivenBack(g) ==
  \E r \in Runner :
    /\ r = lease[g].claim /\ Commanding(r) /\ TargetOf(r) = g
    /\ run[r].stage \in { "begun", "exited" } /\ (run'[r] = Idle \/ run'[r].stage = "ask")
Recovered(g) == app = "starting" /\ Inspected(lease[g].owner[2])
ClaimGoes(g) ==
  lease[g].claim # Nil =>
    \/ lease'[g].claim = lease[g].claim /\ lease'[g].owner = lease[g].owner
    \/ UNCHANGED ws /\ (GivenBack(g) \/ Recovered(g))

LEMMA SubsetGoes ==
  ASSUME Inv, live' \subseteq live
  PROVE  GitGoes
<1> DEFINE f == [m \in live |-> m]
<1>1. \A p \in live' : p \in live /\ p = f[p] /\ Carried(p, p)
  BY DEF Carried
<1> QED
  BY <1>1 DEF GitGoes

LEMMA SpawnGoes ==
  ASSUME Inv, NEW r \in Runner, Spawn(r)
  PROVE  GitGoes
<1> DEFINE f == [m \in live |-> m]
           n == [ claim |-> r, cmd |-> run[r].pc, op |-> run[r].op,
                  sha |-> run[r].result, bound |-> FALSE, orphan |-> FALSE ]
<1>1. live' = live \cup {n} /\ Spawned(n)
  BY DEF Spawn, Commands, Spawned, repo
<1>2. \A p \in live : p = f[p] /\ Carried(p, p)
  BY DEF Carried
<1> QED
  BY <1>1, <1>2 DEF GitGoes

\* Own processes get a flag, the others stay.
LEMMA FlagsGo ==
  ASSUME Inv, NEW r \in Runner, live' = (live \ Mine(r)) \cup {[p EXCEPT !.bound = TRUE] : p \in Mine(r)}
  PROVE  GitGoes
<1> DEFINE f == [m \in live |-> IF m \in Mine(r) THEN [m EXCEPT !.bound = TRUE] ELSE m]
<1>1. ASSUME NEW p \in live'
      PROVE  \E m \in live : p = f[m] /\ Carried(m, p)
  <2>1. CASE p \in live \ Mine(r)
    BY <2>1 DEF Carried
  <2>2. CASE p \in {[m EXCEPT !.bound = TRUE] : m \in Mine(r)}
    <3>1. PICK m \in Mine(r) : p = [m EXCEPT !.bound = TRUE]
      BY <2>2
    <3>2. m \in live /\ m \in Process
      BY PlacesOfGit DEF Mine
    <3>3. p = f[m] /\ Carried(m, p)
      BY <3>1, <3>2 DEF Carried, Process
    <3> QED
      BY <3>2, <3>3
  <2> QED
    BY <1>1, <2>1, <2>2
<1> HIDE DEF f
<1> QED
  BY <1>1 DEF GitGoes

LEMMA OrphansGo ==
  ASSUME Inv, NEW S, S \subseteq live, \A p \in S : run'[p.claim] = Idle,
         live' = (live \ S) \cup {[p EXCEPT !.orphan = TRUE] : p \in S}
  PROVE  GitGoes
<1> DEFINE f == [m \in live |-> IF m \in S THEN [m EXCEPT !.orphan = TRUE] ELSE m]
<1>1. ASSUME NEW p \in live'
      PROVE  \E m \in live : p = f[m] /\ Carried(m, p)
  <2>1. CASE p \in live \ S
    BY <2>1 DEF Carried
  <2>2. CASE p \in {[m EXCEPT !.orphan = TRUE] : m \in S}
    <3>1. PICK m \in S : p = [m EXCEPT !.orphan = TRUE]
      BY <2>2
    <3>2. m \in live /\ m \in Process
      BY PlacesOfGit
    <3>3. p = f[m] /\ Carried(m, p)
      BY <3>1, <3>2 DEF Carried, Process
    <3> QED
      BY <3>2, <3>3
  <2> QED
    BY <1>1, <2>1, <2>2
<1> HIDE DEF f
<1> QED
  BY <1>1 DEF GitGoes

LEMMA GitGoesOn ==
  ASSUME Inv, KInv, [RunsNext]_rvars
  PROVE  GitGoes
<1>1. ASSUME NEW r \in Runner, CommandStep(r)
      PROVE  GitGoes
  <2>1. CASE TimedOut(r) /\ ~(live' \subseteq live)
    <3>1. /\ live' = (live \ Mine(r)) \cup {[q EXCEPT !.orphan = TRUE] : q \in Mine(r)}
          /\ run' = [run EXCEPT ![r] = Idle]
      BY <2>1 DEF TimedOut, End
    <3>2. run'[r] = Idle /\ \A p \in Mine(r) : p.claim = r /\ p \in live
      BY <3>1 DEF Inv, RInv, RunsWell, Mine
    <3> QED
      BY <3>1, <3>2, OrphansGo
  <2>2. CASE Bind(r)
    BY <2>2, FlagsGo DEF Bind
  <2>3. CASE Begin(r) \/ SpawnFails(r) \/ BindFails(r) \/ Exited(r) \/ Clear(r)
    BY <2>3, SubsetGoes DEF Begin, SpawnFails, BindFails, Exited, Clear, Refused, Writes
  <2> QED
    BY <1>1, <2>1, <2>2, <2>3, SpawnGoes, SubsetGoes DEF CommandStep
<1>2. CASE Crash
  <2>1. live' = {[p EXCEPT !.orphan = TRUE] : p \in live} /\ \A r \in Runner : run'[r] = Idle
    BY <1>2 DEF Crash
  <2>2. \A p \in live : run'[p.claim] = Idle
    BY <2>1, PlacesOfGit DEF Process
  <2>3. live' = (live \ live) \cup {[p EXCEPT !.orphan = TRUE] : p \in live}
    BY <2>1
  <2> QED
    BY <2>2, <2>3, OrphansGo
<1>3. ASSUME NEW r \in Runner, Step(r) \/ CallerStep(r)
      PROVE  GitGoes
  <2>1. live' = live
    BY <1>3, StatementOf DEF SameDisk, CallerStep, StartUpdate, ResolverCompletes, Reconcile, Retry, Reads
  <2> QED
    BY <2>1, SubsetGoes
<1>4. CASE \/ Restart \/ Ready \/ \E o \in Op : UpdateStep(o)
           \/ \E g \in Target : RecoverClaim(g) \/ LeaveClaim(g) \/ OthersCommit(g)
           \/ \E t \in Task : TaskGoesOn(t)
           \/ UNCHANGED rvars
  <2>1. live' = live
    BY <1>4 DEF Restart, Ready, UpdateStep, StartResolver, ResolverEnds, ResolverReports, Pause,
                ResumeTask, StopTask, RecoverClaim, LeaveClaim, OthersCommit, TaskGoesOn, rvars
  <2> QED
    BY <2>1, SubsetGoes
<1>5. CASE (\E p \in live : Exit(p)) \/ (\E g \in Target : TerminateGroup(g))
  <2>1. live' \subseteq live
    BY <1>5 DEF Exit, TerminateGroup
  <2> QED
    BY <2>1, SubsetGoes
<1> QED
  BY <1>1, <1>2, <1>3, <1>4, <1>5 DEF RunsNext

LEMMA ClaimsGoOn ==
  ASSUME Inv, KInv, [RunsNext]_rvars, NEW g \in Target
  PROVE  ClaimGoes(g)
<1>1. lease \in [Target -> Lease] /\ RunsWell
  BY DEF Inv, RInv, IInv, TypeOK
<1>2. ClaimsStay => ClaimGoes(g)
  BY DEF ClaimsStay, Stays, ClaimGoes
<1>3. UNCHANGED lease => ClaimGoes(g)
  BY DEF ClaimGoes
<1>4. ASSUME NEW r \in Runner, CommandStep(r)
      PROVE  ClaimGoes(g)
  <2>1. run[r].pc \in Command
    BY <1>4, CommandsLeaveRows
  <2>2. run[r] # Idle /\ run[r] \in Run /\ TargetOf(r) \in Target /\ run \in [Runner -> Run \cup {Idle}]
    BY <1>1, <2>1, TargetsOfRuns, CommandRuns DEF RunsWell
  <2>3. CASE Begin(r) /\ ~Refused(r)
    <3>1. /\ lease[TargetOf(r)].claim = Nil
          /\ lease' = [lease EXCEPT ![TargetOf(r)].claim = r, ![TargetOf(r)].group = FALSE]
      BY <2>3 DEF Begin, BeginGitMutation, Quiet
    <3> QED
      BY <1>1, <2>2, <3>1 DEF ClaimGoes
  <2>4. CASE Bind(r)
    <3>1. lease' = [lease EXCEPT ![TargetOf(r)].group = TRUE]
      BY <2>4 DEF Bind, BindGitProcessGroup
    <3> QED
      BY <1>1, <2>2, <3>1 DEF ClaimGoes, Lease
  <2>5. CASE (SpawnFails(r) \/ Clear(r)) /\ ClearsClaim(r)
    <3>1. /\ lease[TargetOf(r)].claim = r
          /\ lease' = [lease EXCEPT ![TargetOf(r)].claim = Nil, ![TargetOf(r)].group = FALSE]
      BY <2>5 DEF ClearsClaim, CompleteGitMutation
    <3>2. CASE g # TargetOf(r)
      BY <1>1, <2>2, <3>1, <3>2 DEF ClaimGoes
    <3>3. CASE g = TargetOf(r)
      <4>1. run[r].stage \in {"begun", "exited"} /\ Commanding(r) /\ UNCHANGED ws
        BY <2>1, <2>5 DEF SpawnFails, Clear, Commands, Commanding, Begun, Writes, disk
      <4>2. End(r) \/ \E p : Go(r, p)
        BY <2>5 DEF SpawnFails, Clear, Goes, Fail
      <4>3. run'[r] = Idle \/ run'[r].stage = "ask"
        BY <2>2, <4>2 DEF End, Go, Run
      <4>4. GivenBack(g)
        BY <3>1, <3>3, <4>1, <4>3 DEF GivenBack
      <4> QED
        BY <4>1, <4>4 DEF ClaimGoes
    <3> QED
      BY <3>2, <3>3
  <2>6. CASE Refused(r) \/ Spawn(r) \/ BindFails(r) \/ Exited(r) \/ TimedOut(r)
    BY <1>3, <2>6 DEF Refused, Spawn, BindFails, Exited, TimedOut, repo
  <2>7. CASE (SpawnFails(r) \/ Clear(r)) /\ ~ClearsClaim(r)
    BY <1>3, <2>7 DEF SpawnFails, Clear, repo
  <2> QED
    BY <1>4, <2>3, <2>4, <2>5, <2>6, <2>7 DEF CommandStep, Begin
<1>5. ASSUME NEW h \in Target, RecoverClaim(h)
      PROVE  ClaimGoes(g)
  <2>1. /\ lease' = [lease EXCEPT ![h].claim = Nil, ![h].group = FALSE]
        /\ app = "starting" /\ Inspected(lease[h].owner[2]) /\ UNCHANGED ws
    BY <1>5 DEF RecoverClaim, CompleteGitMutation, Clearable, disk
  <2> QED
    BY <1>1, <2>1 DEF ClaimGoes, Recovered
<1>6. CASE \/ Crash \/ Restart \/ Ready \/ \E p \in live : Exit(p)
           \/ \E h \in Target : TerminateGroup(h) \/ LeaveClaim(h)
           \/ UNCHANGED rvars
  BY <1>3, <1>6 DEF Crash, Restart, Ready, Exit, TerminateGroup, LeaveClaim, rvars, repo
<1> QED
  BY <1>2, <1>4, <1>5, <1>6, StatementsLeaveClaims, CallersLeaveClaims, OthersLeaveClaims DEF RunsNext

Stopped(p) ==
  \/ app = "starting"
  \/ \E r \in Runner :
       /\ p \in Mine(r)
       /\ run'[r] = Idle \/ (run'[r].pc = run[r].pc /\ run'[r].out = "killed")

\* The head of a workspace changes only by a Git process of its own, which is
\* then gone, and it has a tree again only by an add.
TreeGoes(x) ==
  \/ ws'[x] = ws[x]
  \/ ws[x].tree # "none" /\ ws'[x].head = ws[x].head
  \/ \E p \in live :
       /\ PlaceOf(p.op) = x /\ live' \subseteq live \ {p} /\ UNCHANGED op
       /\ \/ p.cmd = "add" /\ ws[x].tree = "none"
          \/ p.cmd \in {"merge", "commit"} /\ ws[x].tree # "none" /\ Commits(p)
          \/ p.cmd = "remove" /\ ws[x].tree # "none" /\ ws'[x] = NoTree
          \/ p.cmd \in {"merge", "remove"} /\ ws[x].tree # "none" /\ Stopped(p)

\* The branch moves with a process that lands a result; else commits are added.
BranchGoes ==
  \/ UNCHANGED << tip, under >>
  \/ UNCHANGED << under, op, seen >> /\ \E p \in live : LandsFor(p)
  \/ /\ UNCHANGED << op, seen >>
     /\ \E s \in Sha, h \in Sha \cup {Nil} :
          /\ ~Made(s) /\ under' = [under EXCEPT ![s] = under[h] \cup {s}]
          /\ \/ tip' = tip
             \/ \E g \in Target : h = tip[g] /\ tip' = [tip EXCEPT ![g] = s]
DiskGoes == BranchGoes /\ \A x \in Place : TreeGoes(x)

LEMMA SameDiskGoes ==
  ASSUME UNCHANGED << tip, under, ws >>
  PROVE  DiskGoes
BY DEF DiskGoes, BranchGoes, TreeGoes

LEMMA KillsGo ==
  ASSUME Inv, NEW p \in live, Killed(p), live' \subseteq live \ {p}, UNCHANGED << tip, under, op >>, Stopped(p)
  PROVE  DiskGoes
<1>1. ws \in [Place -> Workspace]
  BY DEF Inv, RInv, RunsTypeOK
<1>2. ASSUME NEW x \in Place
      PROVE  TreeGoes(x)
  BY <1>1, <1>2 DEF Killed, TreeGoes
<1> QED
  BY <1>2 DEF DiskGoes, BranchGoes

LEMMA ExitChangesDisk ==
  ASSUME Inv, NEW p \in live, Exit(p)
  PROVE  DiskGoes
<1>1. /\ ws \in [Place -> Workspace] /\ PlaceOf(p.op) \in Place
      /\ live' \subseteq live \ {p} /\ UNCHANGED << op, seen >>
  BY PlacesOfGit DEF Inv, RInv, RunsTypeOK, Exit, repo
<1> PICK x \in Place : x = PlaceOf(p.op)
  BY <1>1
<1>2. ASSUME NEW y \in Place, y # x, ws' = ws \/ \E k : ws' = [ws EXCEPT ![x] = k]
      PROVE  TreeGoes(y)
  <2>1. ws'[y] = ws[y]
    BY <1>1, <1>2
  <2> QED
    BY <2>1 DEF TreeGoes
<1>3. ASSUME NEW tree, NEW head, Sets(p, tree, head)
      PROVE  ws' = [ws EXCEPT ![x] = [tree |-> tree, head |-> head]]
             /\ ws'[x] = [tree |-> tree, head |-> head]
  BY <1>1, <1>3 DEF Sets
<1>4. CASE p.cmd \in {"merge", "commit"} /\ ws[x].tree # "none" /\ Commits(p) /\ tip' = tip
  <2>1. PICK s \in Sha \ Outside :
          /\ ~Made(s) /\ under' = [under EXCEPT ![s] = under[ws[x].head] \cup {s}]
          /\ Sets(p, "clean", s)
    BY <1>4 DEF Commits
  <2>2. ws[x].head \in Sha \cup {Nil}
    BY <1>1 DEF Workspace
  <2>3. BranchGoes
    BY <1>1, <1>4, <2>1, <2>2 DEF BranchGoes
  <2>4. TreeGoes(x)
    BY <1>1, <1>4 DEF TreeGoes
  <2> QED
    BY <1>2, <1>3, <2>1, <2>3, <2>4 DEF DiskGoes
<1>5. CASE UNCHANGED << tip, under >> /\ ws[x].tree # "none" /\ \E tree : Sets(p, tree, ws[x].head)
  <2> PICK tree : Sets(p, tree, ws[x].head)
    BY <1>5
  <2>1. /\ ws'[x].head = ws[x].head
        /\ ws' = [ws EXCEPT ![x] = [tree |-> tree, head |-> ws[x].head]]
    BY <1>3
  <2>2. TreeGoes(x)
    BY <1>5, <2>1 DEF TreeGoes
  <2> QED
    BY <1>2, <1>5, <2>1, <2>2 DEF DiskGoes, BranchGoes
<1>6. CASE p.cmd = "add" /\ ws[x].tree = "none" /\ Sets(p, "clean", seen[p.op]) /\ UNCHANGED << tip, under >>
  <2>1. TreeGoes(x)
    BY <1>1, <1>6 DEF TreeGoes
  <2> QED
    BY <1>2, <1>3, <1>6, <2>1 DEF DiskGoes, BranchGoes
<1>7. CASE /\ p.cmd = "remove" /\ ws[x].tree # "none" /\ ws' = [ws EXCEPT ![x] = NoTree]
           /\ UNCHANGED << tip, under >>
  <2>1. TreeGoes(x)
    BY <1>1, <1>7 DEF TreeGoes
  <2> QED
    BY <1>2, <1>7, <2>1 DEF DiskGoes, BranchGoes
<1>8. CASE LandsFor(p) /\ UNCHANGED << under, ws >>
  BY <1>1, <1>8 DEF DiskGoes, BranchGoes, TreeGoes
<1>9. CASE UNCHANGED << tip, under, ws >>
  BY <1>9, SameDiskGoes
<1>10. CASE Succeeds(p)
  BY <1>4, <1>5, <1>6, <1>7, <1>8, <1>9, <1>10 DEF Succeeds, LandsFor
<1>11. CASE Fails(p)
  BY <1>5, <1>9, <1>11 DEF Fails, disk
<1> QED
  BY <1>10, <1>11 DEF Exit

LEMMA DiskGoesOn ==
  ASSUME Inv, KInv, [RunsNext]_rvars
  PROVE  DiskGoes
<1>1. ASSUME NEW r \in Runner, CommandStep(r)
      PROVE  DiskGoes
  <2>1. UNCHANGED << tip, under, op >> /\ run[r].pc \in Command
    BY <1>1, CommandsLeaveRows
  <2>2. run[r] \in Run /\ run \in [Runner -> Run \cup {Idle}]
    BY <2>1, CommandRuns DEF Inv, RInv, RunsWell
  <2>3. CASE BindFails(r)
    <3>1. run'[r] = Idle
      BY <2>2, <2>3 DEF BindFails, End
    <3>2. ASSUME NEW p \in Mine(r), Killed(p)
          PROVE  DiskGoes
      BY <2>1, <2>3, <3>1, <3>2, KillsGo DEF BindFails, Stopped, Mine
    <3> QED
      BY <2>1, <2>3, <3>2, SameDiskGoes DEF BindFails
  <2>4. CASE TimedOut(r)
    <3>1. ASSUME NEW p \in Mine(r), Killed(p), live' = live \ Mine(r),
                 run' = [run EXCEPT ![r].stage = "exited", ![r].out = "killed"]
          PROVE  DiskGoes
      <4>1. run'[r].pc = run[r].pc /\ run'[r].out = "killed"
        BY <2>2, <3>1 DEF Run
      <4> QED
        BY <2>1, <3>1, <4>1, KillsGo DEF Stopped, Mine
    <3> QED
      BY <2>1, <2>4, <3>1, SameDiskGoes DEF TimedOut
  <2>5. CASE Begin(r) \/ Spawn(r) \/ SpawnFails(r) \/ Bind(r) \/ Exited(r) \/ Clear(r)
    <3>1. ws' = ws
      BY <2>5 DEF Begin, Spawn, SpawnFails, Bind, Exited, Clear, Refused, Writes, disk
    <3> QED
      BY <2>1, <3>1, SameDiskGoes
  <2> QED
    BY <1>1, <2>3, <2>4, <2>5 DEF CommandStep
<1>2. ASSUME NEW g \in Target, TerminateGroup(g)
      PROVE  DiskGoes
  BY <1>2, KillsGo DEF TerminateGroup, Stopped, GroupOf, repo
<1>3. ASSUME NEW g \in Target, OthersCommit(g)
      PROVE  DiskGoes
  <2>1. PICK s \in Outside : /\ ~Made(s) /\ under' = [under EXCEPT ![s] = under[tip[g]] \cup {s}]
                             /\ tip' = [tip EXCEPT ![g] = s]
    BY <1>3 DEF OthersCommit
  <2>2. s \in Sha /\ tip[g] \in Sha \cup {Nil}
    BY ShaAssumption DEF Inv, RInv, RunsTypeOK
  <2>3. BranchGoes
    BY <1>3, <2>1, <2>2 DEF BranchGoes, OthersCommit, repo
  <2> QED
    BY <1>3, <2>3 DEF DiskGoes, TreeGoes, OthersCommit
<1>4. ASSUME NEW r \in Runner, Step(r) \/ CallerStep(r)
      PROVE  DiskGoes
  BY <1>4, StatementOf, SameDiskGoes
  DEF SameDisk, CallerStep, StartUpdate, ResolverCompletes, Reconcile, Retry, Reads, disk
<1>5. CASE \/ Crash \/ Restart \/ Ready \/ \E o \in Op : UpdateStep(o)
           \/ \E g \in Target : RecoverClaim(g) \/ LeaveClaim(g)
           \/ \E t \in Task : TaskGoesOn(t)
           \/ UNCHANGED rvars
  BY <1>5, SameDiskGoes
  DEF Crash, Restart, Ready, UpdateStep, StartResolver, ResolverEnds, ResolverReports, Pause,
      ResumeTask, StopTask, RecoverClaim, LeaveClaim, TaskGoesOn, rvars, disk
<1> QED
  BY <1>1, <1>2, <1>3, <1>4, <1>5, ExitChangesDisk DEF RunsNext

-----------------------------------------------------------------------------
(* Runs and Git processes stay in their courses                              *)

\* A process merges for an update that no agent was asked for, and once it is an
\* orphan no run does; what it moves the branch to is the result of its update.
GitInCourse(p) ==
  /\ p.cmd \in {"add", "merge"} => op[p.op].phase \in Undecided
  /\ p.cmd \in {"add", "merge"} /\ p.orphan => \A r \in Runner : ~Programs(r, p.op)
  /\ p.sha \in {Nil, op[p.op].result}
  /\ p.cmd \in {"land", "remove"} => p.sha # Nil
ProcessesInCourse == \A p \in live : GitInCourse(p)

Courses == PInv /\ KInv /\ RowsInOrder /\ RunsInCourse /\ ProcessesInCourse

LEMMA MovesOf ==
  ASSUME Courses, [RunsNext]_rvars
  PROVE  /\ Inv /\ IInv /\ KInv /\ [Next]_vars /\ Inv' /\ PInv' /\ KInv' /\ IInv'
         /\ RepoMoves /\ RowsGo /\ RunsGo /\ GitGoes /\ DiskGoes
         /\ \A g \in Target : ClaimGoes(g)
         /\ RowsInOrder'
<1>1. Inv /\ KInv /\ IInv /\ RowsInOrder /\ RunsInCourse
  BY DEF Courses, PInv, Inv, RInv
<1>2. [Next]_vars /\ Inv' /\ IInv'
  BY <1>1, RunsNextInv DEF Inv, RInv
<1>3. RepoMoves
  BY <1>1, <1>2, TransactionsMove
<1>4. PInv' /\ KInv'
  BY <1>1, PublishedStill, ClaimsAreKept DEF Courses
<1> QED
  BY <1>1, <1>2, <1>3, <1>4, RowsGoOn, RunsGoOn, GitGoesOn, DiskGoesOn, ClaimsGoOn, RowsStayInOrder

LEMMA AppGoes ==
  ASSUME [RunsNext]_rvars, app' # "up"
  PROVE  app # "up" \/ \A r \in Runner : run'[r] = Idle
<1>1. CASE app' = app
  BY <1>1
<1>2. CASE Crash
  BY <1>2 DEF Crash
<1>3. CASE Restart \/ Ready
  BY <1>3 DEF Restart, Ready
<1>4. ASSUME NEW r \in Runner, Step(r) \/ CommandStep(r) \/ CallerStep(r)
      PROVE  app' = app
  BY <1>4 DEF Step, Check, Look, Resolve, Block, Gather, Note, Tip, Tidy, Settle, ClaimNext,
              Complete, Publish, Transfer, Confirm, Resume, Reads, Writes, Refused,
              CommandStep, Begin, Spawn, SpawnFails, Bind, BindFails, Exited, TimedOut, Clear,
              CallerStep, StartUpdate, ResolverCompletes, Reconcile, Retry, host
<1>5. CASE \/ \E o \in Op : UpdateStep(o)
           \/ \E p \in live : Exit(p)
           \/ \E g \in Target : TerminateGroup(g) \/ RecoverClaim(g) \/ LeaveClaim(g) \/ OthersCommit(g)
           \/ \E t \in Task : TaskGoesOn(t)
           \/ UNCHANGED rvars
  BY <1>1, <1>5
  DEF UpdateStep, StartResolver, ResolverEnds, ResolverReports, Pause, ResumeTask, StopTask, Exit,
      TerminateGroup, RecoverClaim, LeaveClaim, OthersCommit, TaskGoesOn, rvars, host
<1> QED
  BY <1>1, <1>2, <1>3, <1>4, <1>5 DEF RunsNext

\* The decision on an update no agent was asked for is taken by its one run.
LEMMA DeciderIsProgram ==
  ASSUME Courses, NEW o \in Op, op[o].phase = "programmatic", NEW d \in Runner, Decides(d, o)
  PROVE  Programs(d, o)
BY DEF Courses, RunsInCourse, RunInCourse, Decides, Programs, Merging, Early, Landing

LEMMA RunsStayInCourse ==
  ASSUME Courses, [RunsNext]_rvars
  PROVE  RunsInCourse'
<1>1. Inv /\ RepoMoves /\ RowsGo /\ RunsGo /\ Courses
  BY MovesOf
<1>2. ASSUME app' # "up", NEW r \in Runner
      PROVE  run'[r] = Idle
  BY <1>1, <1>2, AppGoes DEF Courses, RunsInCourse, RunsGo, RunGoes, Begins, Continues
<1>3. ASSUME NEW r \in Runner, run'[r] # Idle, Begins(r)
      PROVE  RunInCourse(r)'
  <2> PICK o \in Op : o = run'[r].op
    BY <1>3 DEF Begins
  <2>1. CASE run'[r].pc = "check"
    <3>1. /\ run'[r].kind = "programmatic" /\ run'[r].result = Nil /\ ~Row(o)
          /\ op'[o].phase = "programmatic" /\ OnlyRun(r)
      BY <1>3, <2>1 DEF Begins
    <3>2. ASSUME NEW q \in Runner, q # r, run'[q] # Idle, run'[q].op = o
          PROVE  FALSE
      <4>1. run'[q] = run[q]
        BY <3>1, <3>2 DEF OnlyRun
      <4> QED
        BY <1>1, <3>1, <3>2, <4>1, RowsOfRuns DEF Row
    <3> QED
      BY <2>1, <3>1, <3>2 DEF RunInCourse, Programs, Sending, Early, Merging, Landing, Undecided
  <2>2. CASE run'[r].pc # "check"
    <3>1. /\ Row(o) /\ op' = op /\ run'[r].result = op[o].result
          /\ \/ run'[r].pc = "gather" /\ run'[r].kind = "resolved" /\ op[o].phase = "resolving"
             \/ run'[r].pc = run'[r].kind /\ run'[r].kind \in {"publish", "resume"}
      BY <1>3, <2>2 DEF Begins
    <3>2. RunInCourse(r)' <=>
            /\ run'[r].pc \in Sending => run'[r].kind = "publish"
            /\ run'[r].pc \in Early => run'[r].kind = "programmatic"
            /\ run'[r].pc \in Merging => run'[r].kind \in {"programmatic", "resolved"}
            /\ run'[r].pc \in Merging /\ run'[r].kind = "programmatic" => op'[o].phase \in Undecided
            /\ run'[r].kind = "resolved" => op'[o].phase # "programmatic"
            /\ run'[r].result \in {Nil, op'[o].result}
            /\ \A q \in Runner : run'[r].kind = "programmatic" /\ Programs(q, run[r].op)' => q = r
      BY DEF RunInCourse
    <3> QED
      BY <3>1, <3>2 DEF Sending, Early, Merging, Landing
  <2> QED
    BY <2>1, <2>2
<1>4. ASSUME NEW r \in Runner, run'[r] # Idle, Continues(r)
      PROVE  RunInCourse(r)'
  <2>1. run[r] # Idle /\ run'[r].op = run[r].op /\ RunInCourse(r)
    BY <1>1, <1>4 DEF Continues, Courses, RunsInCourse
  <2>2. run[r].op \in Op /\ Row(run[r].op)
    BY <1>1, <2>1, RowsOfRuns DEF Row
  <2> PICK o \in Op : o = run[r].op
    BY <2>2
  <2>3. RowMoves(o) /\ RowGoes(o)
    BY <1>1, <2>2 DEF RepoMoves, RowsMove, RowsGo
  <2>4. /\ run'[r].pc \in Sending => run'[r].kind = "publish"
        /\ run'[r].pc \in Early => run'[r].kind = "programmatic"
        /\ run'[r].pc \in Merging => run[r].pc \in Merging /\ run'[r].kind = run[r].kind
        /\ run'[r].kind \in {run[r].kind, "publish", "resume"}
        /\ run'[r].result \in {run[r].result, op'[o].result}
    BY <1>4 DEF Continues
  <2>5. ASSUME run'[r].pc \in Merging, run'[r].kind = "programmatic"
        PROVE  op'[o].phase \in Undecided
    <3>1. /\ Programs(r, o) /\ op[o].phase \in Undecided
      BY <2>1, <2>4, <2>5 DEF RunInCourse, Programs
    <3>2. CASE op[o].phase = "settled"
      BY <2>3, <3>2 DEF RowMoves, Undecided
    <3>3. CASE op[o].phase = "programmatic" /\ op'[o].phase \notin Undecided
      <4>1. PICK d \in Runner : Decides(d, o)
        BY <2>3, <3>3 DEF RowGoes
      <4>2. Programs(d, o)
        BY <3>3, <4>1, DeciderIsProgram
      <4>3. d = r
        BY <2>1, <3>1, <4>2 DEF RunInCourse, Programs
      <4> QED
        BY <1>4, <2>5, <4>1, <4>3 DEF Decides
    <3> QED
      BY <3>1, <3>2, <3>3 DEF Undecided
  <2>6. run'[r].kind = "resolved" => op'[o].phase # "programmatic"
    BY <2>1, <2>3, <2>4 DEF RunInCourse, RowMoves
  <2>7. run'[r].result \in {Nil, op'[o].result}
    BY <2>1, <2>3, <2>4 DEF RunInCourse, RowMoves
  <2>8. ASSUME run'[r].kind = "programmatic", NEW q \in Runner, run'[q] # Idle,
               run'[q].kind = "programmatic", run'[q].op = o
        PROVE  q = r
    <3>1. ~Begins(q)
      BY <2>2, <2>8 DEF Begins
    <3>2. run[q] # Idle /\ run[q].op = o /\ run[q].kind = "programmatic"
      BY <1>1, <2>8, <3>1 DEF RunsGo, RunGoes, Continues
    <3>3. run[r].kind = "programmatic"
      BY <2>4, <2>8
    <3> QED
      BY <2>1, <3>2, <3>3 DEF RunInCourse, Programs
  <2> QED
    BY <2>1, <2>4, <2>5, <2>6, <2>7, <2>8 DEF RunInCourse, Programs
<1> QED
  BY <1>1, <1>2, <1>3, <1>4 DEF RunsInCourse, RunsGo, RunGoes

LEMMA ProcessesStayInCourse ==
  ASSUME Courses, [RunsNext]_rvars
  PROVE  ProcessesInCourse'
<1>1. Inv /\ KInv /\ RepoMoves /\ RowsGo /\ RunsGo /\ GitGoes /\ Courses /\ RunsInCourse
      /\ ProcessesInCourse
  BY MovesOf DEF Courses
<1>2. ASSUME NEW p \in live', Spawned(p)
      PROVE  GitInCourse(p)'
  <2> PICK r \in Runner : r = p.claim
    BY <1>2 DEF Spawned
  <2>1. /\ run[r].pc \in Command /\ p.cmd = run[r].pc /\ p.op = run[r].op /\ p.sha = run[r].result
        /\ ~p.orphan /\ op' = op
    BY <1>2 DEF Spawned
  <2>2. run[r] # Idle
    BY <2>1, CommandNames DEF Idle
  <2>3. RunInCourse(r) /\ KnowsEnough(run[r])
    BY <1>1, <2>2 DEF RunsInCourse, Inv, RInv, RunsWell
  <2>4. p.cmd \in {"add", "merge"} => run[r].pc \in Merging /\ run[r].kind = "programmatic"
    BY <2>1, <2>3 DEF RunInCourse, Early, Merging
  <2>5. p.cmd \in {"land", "remove"} => p.sha # Nil
    BY <2>1, <2>3 DEF KnowsEnough, Landing
  <2> QED
    BY <2>1, <2>3, <2>4, <2>5 DEF GitInCourse, RunInCourse
<1>3. ASSUME NEW p \in live', NEW m \in live, Carried(m, p)
      PROVE  GitInCourse(p)'
  <2>1. /\ GitInCourse(m) /\ m \in Process /\ m.op \in Op /\ m.claim \in Runner /\ Row(m.op)
        /\ p.claim = m.claim /\ p.cmd = m.cmd /\ p.op = m.op /\ p.sha = m.sha
        /\ p.orphan => m.orphan \/ run'[m.claim] = Idle
    <3>1. m \in Process /\ op[m.op] \in Operation
      BY <1>1, PlacesOfGit DEF Inv, RowsKept
    <3> QED
      BY <1>1, <1>3, <3>1, RowsAre DEF Carried, Process, ProcessesInCourse, Row
  <2> PICK o \in Op : o = m.op
    BY <2>1
  <2> PICK r \in Runner : r = m.claim
    BY <2>1
  <2>2. RowMoves(o) /\ RowGoes(o)
    BY <1>1, <2>1 DEF RepoMoves, RowsMove, RowsGo
  \* A merge whose run waits for it: the one that works on the update.
  <2>3. ASSUME m.cmd \in {"add", "merge"}, ~m.orphan
        PROVE  Programs(r, o) /\ run[r].pc = m.cmd /\ RunInCourse(r)
    <3>1. run[r] # Idle /\ run[r].pc = m.cmd /\ run[r].op = o
      BY <1>1, <2>3 DEF KInv, GitIsWatched
    <3> QED
      BY <1>1, <2>3, <3>1 DEF RunsInCourse, RunInCourse, Early, Programs
  <2>4. ASSUME m.cmd \in {"add", "merge"}
        PROVE  op'[o].phase \in Undecided
    <3>1. CASE op[o].phase = "settled"
      BY <2>2, <3>1 DEF RowMoves, Undecided
    <3>2. CASE op[o].phase = "programmatic" /\ op'[o].phase \notin Undecided
      <4>1. PICK d \in Runner : Decides(d, o)
        BY <2>2, <3>2 DEF RowGoes
      <4>2. Programs(d, o)
        BY <3>2, <4>1, DeciderIsProgram
      <4>3. ~m.orphan
        BY <2>1, <2>4, <4>2 DEF GitInCourse
      <4>4. d = r
        BY <2>3, <2>4, <4>2, <4>3 DEF RunInCourse, Programs
      <4> QED
        BY <2>3, <2>4, <4>1, <4>3, <4>4 DEF Decides
    <3> QED
      BY <2>1, <2>4, <3>1, <3>2 DEF GitInCourse, Undecided
  <2>5. ASSUME m.cmd \in {"add", "merge"}, p.orphan, NEW q \in Runner,
               run'[q] # Idle, run'[q].kind = "programmatic", run'[q].op = o
        PROVE  FALSE
    <3>1. ~Begins(q)
      BY <2>1, <2>5 DEF Begins
    <3>2. Programs(q, o)
      BY <1>1, <2>5, <3>1 DEF RunsGo, RunGoes, Continues, Programs
    <3>3. ~m.orphan
      BY <2>1, <2>5, <3>2 DEF GitInCourse
    <3>4. q = r
      BY <2>3, <2>5, <3>2, <3>3 DEF RunInCourse, Programs
    <3> QED
      BY <2>1, <2>5, <3>3, <3>4
  <2>6. p.sha \in {Nil, op'[o].result}
    BY <2>1, <2>2 DEF GitInCourse, RowMoves
  <2> QED
    BY <2>1, <2>4, <2>5, <2>6 DEF GitInCourse, Programs
<1> QED
  BY <1>1, <1>2, <1>3 DEF ProcessesInCourse, GitGoes

LEMMA CoursesGoOn ==
  ASSUME Courses, [RunsNext]_rvars
  PROVE  Courses'
BY MovesOf, RunsStayInCourse, ProcessesStayInCourse DEF Courses

-----------------------------------------------------------------------------
(* Claims, and the workspaces that wait for their trees                      *)

ClaimIn(o, c) == LET l == lease[op[o].target] IN l.claim = c /\ l.owner \in OwnersOf(o)
CommandsHaveClaims == \A r \in Runner : Commanding(r) => ClaimIn(run[r].op, r)

\* An add has the claim for its update and the place, which is empty, for itself.
AddIsAlone(p) ==
  /\ ClaimIn(p.op, p.claim)
  /\ ws[PlaceOf(p.op)].tree = "none"
  /\ \A q \in live : q.cmd = "add" /\ PlaceOf(q.op) = PlaceOf(p.op) => q = p
  /\ p.orphan => \A r \in Runner : Commanding(r) => TargetOf(r) # op[p.op].target
AddsAreAlone == \A p \in live : p.cmd = "add" => AddIsAlone(p)

NothingToAddTo ==
  \A r \in Runner :
    run[r].pc = "add" /\ run[r].stage \in Waiting /\ Unsettled(run[r].op) => Tree(r).tree = "none"

Claims == CommandsHaveClaims /\ AddsAreAlone /\ NothingToAddTo

LEMMA ClaimsOfUpdates ==
  ASSUME Inv, NEW o \in Op, Row(o), NEW c \in Claim, ClaimIn(o, c)
  PROVE  Unsettled(o)
<1>1. IInv /\ op[o].target \in Target /\ c # Nil
  BY RowsAre, NilIsNothing DEF Inv, RInv, Row, Operation
<1> QED
  BY <1>1 DEF ClaimIn, IInv, LeaseInUse, NoLeaseLeftBehind

LEMMA UnsettledRows ==
  ASSUME Inv, NEW o \in Op, Unsettled(o)
  PROVE  Row(o) /\ op[o] \in Operation /\ op[o].target \in Target
BY RowsAre, NoRowIsAbsent DEF Row, Unsettled, Open, Working, Operation

\* Updates at work in one place are the same.
LEMMA OnePlaceOneUpdate ==
  ASSUME Inv, NEW o \in Op, NEW q \in Op, Unsettled(o), Unsettled(q), PlaceOf(o) = PlaceOf(q)
  PROVE  o = q
BY DEF Inv, RInv, IInv, OneUpdatePerTask, PlaceOf

LEMMA StaysUnsettled ==
  ASSUME Inv, RepoMoves, NEW o \in Op, Row(o), Unsettled(o)'
  PROVE  Unsettled(o)
<1>1. op[o] \in Operation /\ RowMoves(o)
  BY RowsAre DEF Row, RepoMoves, RowsMove
<1> QED
  BY <1>1 DEF RowMoves, Unsettled, Operation, Open, Working

LEMMA ProcessRows ==
  ASSUME Inv, NEW p \in live
  PROVE  /\ p \in Process /\ p.op \in Op /\ Row(p.op) /\ p.claim \in Runner /\ p.claim \in Claim
         /\ op[p.op].target \in Target /\ PlaceOf(p.op) \in Place
BY PlacesOfGit, RowsAre, RunnerAssumption DEF Row, Inv, RowsKept, Process

\* An add for an update at work is the one its run waits for, or no run is there.
LEMMA AddsOfUpdates ==
  ASSUME Courses, Claims, NEW p \in live, p.cmd = "add", NEW o \in Op, Unsettled(o),
         PlaceOf(p.op) = PlaceOf(o)
  PROVE  /\ p.op = o /\ op[o].phase = "programmatic"
         /\ p.orphan => \A r \in Runner : ~Programs(r, o)
         /\ ~p.orphan => /\ Programs(p.claim, o) /\ run[p.claim].pc = "add"
                         /\ run[p.claim].stage \notin Waiting
<1>1. Inv /\ KInv /\ RunsInCourse /\ GitInCourse(p) /\ AddIsAlone(p)
  BY DEF Courses, PInv, Claims, AddsAreAlone, ProcessesInCourse
<1>2. p.op \in Op /\ Row(p.op) /\ p.claim \in Claim /\ p.claim \in Runner
  BY <1>1, ProcessRows
<1>3. Unsettled(p.op)
  BY <1>1, <1>2, ClaimsOfUpdates DEF AddIsAlone
<1>4. p.op = o
  BY <1>1, <1>2, <1>3, OnePlaceOneUpdate
<1>5. op[o].phase = "programmatic"
  BY <1>1, <1>3, <1>4 DEF GitInCourse, Undecided, Unsettled, Open, Working
<1>6. ASSUME ~p.orphan
      PROVE  /\ Programs(p.claim, o) /\ run[p.claim].pc = "add"
             /\ run[p.claim].stage \notin Waiting
  <2>1. /\ run[p.claim] # Idle /\ run[p.claim].pc = "add" /\ run[p.claim].op = o
        /\ run[p.claim].stage \in {"spawned", "bound"}
    BY <1>1, <1>4, <1>6 DEF KInv, GitIsWatched
  <2> QED
    BY <1>1, <1>2, <2>1 DEF RunsInCourse, RunInCourse, Early, Programs, Waiting
<1> QED
  BY <1>1, <1>4, <1>5, <1>6 DEF GitInCourse

LEMMA CommandsKeepClaims ==
  ASSUME Courses, Claims, [RunsNext]_rvars
  PROVE  CommandsHaveClaims'
<1> USE DEF Claims
<1>1. Inv /\ RepoMoves /\ RunsGo /\ RunsInCourse /\ \A g \in Target : ClaimGoes(g)
  BY MovesOf DEF Courses
<1>2. ASSUME NEW r \in Runner, Commanding(r)'
      PROVE  ClaimIn(run[r].op, r)'
  <2>1. Continues(r)
    BY <1>1, <1>2, CommandNames DEF Commanding, RunsGo, RunGoes, Begins, Idle, Begun
  <2>2. /\ run[r] # Idle /\ run'[r].op = run[r].op /\ run[r].pc \in Command
        /\ Commanding(r) \/ Takes(r)
    BY <1>2, <2>1 DEF Continues, Commanding
  <2> PICK o \in Op : o = run[r].op
    BY <1>1, <2>2, RowsOfRuns
  <2> DEFINE g == op[o].target
  <2>3. g \in Target /\ op'[o].target = op[o].target
    BY <1>1, <2>2, RowsOfRuns DEF RepoMoves, RowsMove, RowMoves, Row
  <2>4. CASE Takes(r)
    <3>1. /\ lease[g].owner = OwnerOf(r) /\ lease' = [lease EXCEPT ![g].claim = r, ![g].group = FALSE]
      BY <2>4 DEF Takes, BeginGitMutation, Current, TargetOf
    <3>2. OwnerOf(r) \in OwnersOf(o)
      BY DEF OwnerOf, OwnersOf
    <3>3. lease'[g].claim = r /\ lease'[g].owner = lease[g].owner
      BY <1>1, <2>3, <3>1 DEF Inv, RInv, IInv, TypeOK, Lease
    <3> QED
      BY <2>2, <2>3, <3>1, <3>2, <3>3 DEF ClaimIn
  <2>5. CASE Commanding(r)
    <3>1. lease[g].claim = r /\ lease[g].owner \in OwnersOf(o) /\ r # Nil
      BY <2>5, RunnerAssumption, NilIsNothing DEF CommandsHaveClaims, ClaimIn
    <3>2. ~GivenBack(g)
      BY <1>2, <3>1, CommandNames DEF GivenBack, Commanding, Begun, Idle
    <3>3. ~Recovered(g)
      BY <1>1, <2>2 DEF Recovered, RunsInCourse
    <3> HIDE DEF g
    <3>4. lease'[g].claim = r /\ lease'[g].owner \in OwnersOf(o)
      BY <1>1, <2>3, <3>1, <3>2, <3>3 DEF ClaimGoes
    <3> QED
      BY <2>2, <2>3, <3>4 DEF ClaimIn, g
  <2> QED
    BY <2>2, <2>4, <2>5
<1> QED
  BY <1>2 DEF CommandsHaveClaims

LEMMA StillNothingToAddTo ==
  ASSUME Courses, Claims, [RunsNext]_rvars
  PROVE  NothingToAddTo'
<1>1. Inv /\ RepoMoves /\ RunsGo /\ RunsInCourse /\ DiskGoes
  BY MovesOf DEF Courses
<1>2. ASSUME NEW r \in Runner, run'[r].pc = "add", run'[r].stage \in Waiting, Unsettled(run[r].op)'
      PROVE  Tree(r)'.tree = "none"
  <2>1. Continues(r)
    BY <1>1, <1>2 DEF RunsGo, RunGoes, Begins, Idle
  <2>2. run[r] # Idle /\ run'[r].op = run[r].op
    BY <2>1 DEF Continues
  <2> PICK o \in Op : o = run[r].op
    BY <1>1, <2>2, RowsOfRuns
  <2> PICK x \in Place : x = PlaceOf(o)
    BY <1>1, <2>2, RowsOfRuns DEF Place, PlaceOf, Operation
  <2>3. Row(o) /\ RowMoves(o)
    BY <1>1, <2>2, RowsOfRuns DEF RepoMoves, RowsMove, Row
  <2>4. Unsettled(o)
    BY <1>1, <1>2, <2>2, <2>3, StaysUnsettled
  <2>5. Tree(r) = ws[x] /\ Tree(r)' = ws'[x]
    BY <2>2, <2>3 DEF Tree, PlaceOf, RowMoves
  <2>6. CASE run[r].pc = "add" /\ run[r].stage \in Waiting
    <3>1. ws[x].tree = "none" /\ Programs(r, o)
      BY <1>1, <2>2, <2>4, <2>5, <2>6
      DEF Claims, NothingToAddTo, RunsInCourse, RunInCourse, Early, Programs
    <3>2. ASSUME NEW p \in live, p.cmd = "add", PlaceOf(p.op) = x
          PROVE  FALSE
      <4>1. /\ p.orphan => ~Programs(r, o)
            /\ ~p.orphan => Programs(p.claim, o) /\ run[p.claim].stage \notin Waiting
        BY <2>4, <3>2, AddsOfUpdates
      <4>2. p.claim \in Runner
        BY <1>1, ProcessRows
      <4> QED
        BY <1>1, <2>6, <3>1, <4>1, <4>2 DEF RunsInCourse, RunInCourse, Programs
    <3>3. ws'[x] = ws[x]
      BY <1>1, <3>1, <3>2 DEF DiskGoes, TreeGoes
    <3> QED
      BY <2>5, <3>1, <3>3
  <2>7. CASE Tree(r).tree = "none" /\ UNCHANGED disk
    BY <2>5, <2>7 DEF disk
  <2> QED
    BY <1>2, <2>1, <2>6, <2>7 DEF Continues
<1> QED
  BY <1>2 DEF NothingToAddTo

\* A process that was there still has the claim, as only its run gives it back.
LEMMA AddKeepsClaim ==
  ASSUME Courses, Claims, [RunsNext]_rvars, NEW m \in live, m.cmd = "add"
  PROVE  ClaimIn(m.op, m.claim)'
<1>1. Inv /\ KInv /\ RepoMoves /\ (\A g \in Target : ClaimGoes(g)) /\ AddIsAlone(m)
  BY MovesOf DEF Claims, AddsAreAlone
<1> PICK o \in Op : o = m.op
  BY <1>1, ProcessRows
<1> PICK g \in Target : g = op[o].target
  BY <1>1, ProcessRows
<1>2. op'[o].target = g /\ m.claim \in Runner /\ m.claim # Nil /\ m.claim \in Claim
  BY <1>1, ProcessRows, NilIsNothing DEF RepoMoves, RowsMove, RowMoves
<1>3. lease[g].claim = m.claim /\ lease[g].owner \in OwnersOf(o) /\ ws[PlaceOf(o)].tree = "none"
  BY <1>1 DEF AddIsAlone, ClaimIn
<1>4. ~GivenBack(g)
  BY <1>1, <1>2, <1>3 DEF GivenBack, KInv, GitIsWatched, AddIsAlone
<1>5. ~Recovered(g)
  BY <1>3 DEF Recovered, Inspected, OwnersOf
<1> QED
  BY <1>1, <1>2, <1>3, <1>4, <1>5 DEF ClaimGoes, ClaimIn

\* A new add is beside no other.
LEMMA SpawnedIsAlone ==
  ASSUME Courses, Claims, NEW p, Spawned(p), p.cmd = "add"
  PROVE  /\ p.op \in Op /\ ClaimIn(p.op, p.claim) /\ ws[PlaceOf(p.op)].tree = "none"
         /\ \A m \in live : m.cmd = "add" => PlaceOf(m.op) # PlaceOf(p.op)
         /\ \A q : Spawned(q) /\ q.cmd = "add" /\ PlaceOf(q.op) = PlaceOf(p.op) => q = p
<1>1. Inv /\ KInv /\ RunsInCourse
  BY DEF Courses, PInv
<1>2. ASSUME NEW q, Spawned(q), q.cmd = "add"
      PROVE  /\ q.claim \in Runner /\ q.op \in Op /\ Unsettled(q.op) /\ ClaimIn(q.op, q.claim)
             /\ ws[PlaceOf(q.op)].tree = "none" /\ Programs(q.claim, q.op)
             /\ run[q.claim].pc = "add" /\ run[q.claim].stage \in Waiting
             /\ q = [ claim |-> q.claim, cmd |-> "add", op |-> q.op, sha |-> run[q.claim].result,
                      bound |-> FALSE, orphan |-> FALSE ]
  <2> PICK r \in Runner : r = q.claim
    BY <1>2 DEF Spawned
  <2>1. /\ run[r].pc = "add" /\ run[r].stage = "begun"
        /\ q = [ claim |-> r, cmd |-> "add", op |-> run[r].op, sha |-> run[r].result,
                 bound |-> FALSE, orphan |-> FALSE ]
    BY <1>2 DEF Spawned
  <2>2. run[r] # Idle /\ Commanding(r) /\ q.op = run[r].op
    BY <2>1, CommandNames DEF Idle, Commanding, Begun
  <2>3. run[r].op \in Op /\ Row(run[r].op) /\ ClaimIn(run[r].op, r) /\ r \in Claim
    BY <1>1, <2>2, RowsOfRuns, RunnerAssumption DEF Claims, CommandsHaveClaims, Row
  <2>4. Unsettled(run[r].op)
    BY <1>1, <2>3, ClaimsOfUpdates
  <2>5. Tree(r).tree = "none"
    BY <2>1, <2>4 DEF Claims, NothingToAddTo, Waiting
  <2>6. Programs(r, run[r].op)
    BY <1>1, <2>1, <2>2 DEF RunsInCourse, RunInCourse, Early, Programs
  <2> QED
    BY <2>1, <2>2, <2>3, <2>4, <2>5, <2>6 DEF Tree, Waiting
<1>3. ASSUME NEW m \in live, m.cmd = "add", PlaceOf(m.op) = PlaceOf(p.op)
      PROVE  FALSE
  <2>1. /\ m.orphan => ~Programs(p.claim, p.op)
        /\ ~m.orphan => Programs(m.claim, p.op) /\ run[m.claim].stage \notin Waiting
    BY <1>2, <1>3, AddsOfUpdates
  <2>2. m.claim \in Runner
    BY <1>1, ProcessRows
  <2> QED
    BY <1>1, <1>2, <2>1, <2>2 DEF RunsInCourse, RunInCourse, Programs
<1>4. ASSUME NEW q, Spawned(q), q.cmd = "add", PlaceOf(q.op) = PlaceOf(p.op)
      PROVE  q = p
  <2>1. q.op = p.op
    BY <1>1, <1>2, <1>4, OnePlaceOneUpdate
  <2>2. q.claim = p.claim
    BY <1>2, <1>4, <2>1 DEF ClaimIn
  <2> PICK c, o : c = p.claim /\ o = p.op
    OBVIOUS
  <2> DEFINE k == [ claim |-> c, cmd |-> "add", op |-> o, sha |-> run[c].result,
                    bound |-> FALSE, orphan |-> FALSE ]
  <2>3. p = k
    BY <1>2
  <2>4. q = k
    BY <1>2, <1>4, <2>1, <2>2
  <2> QED
    BY <2>3, <2>4
<1> QED
  BY <1>2, <1>3, <1>4

LEMMA AddsStayAlone ==
  ASSUME Courses, Claims, [RunsNext]_rvars
  PROVE  AddsAreAlone'
<1>1. Inv /\ KInv /\ RepoMoves /\ RunsGo /\ RunsInCourse /\ DiskGoes /\ GitGoes
  BY MovesOf DEF Courses
<1>2. \A o \in Op : Row(o) => PlaceOf(o)' = PlaceOf(o) /\ op'[o].target = op[o].target
  BY <1>1 DEF RepoMoves, RowsMove, RowMoves, PlaceOf
<1> PICK f : \A p \in live' : Spawned(p) \/ \E m \in live : p = f[m] /\ Carried(m, p)
  BY <1>1 DEF GitGoes
<1>3. ASSUME NEW p \in live', p.cmd = "add", Spawned(p)
      PROVE  AddIsAlone(p)'
  <2>1. /\ p.op \in Op /\ ClaimIn(p.op, p.claim) /\ ws[PlaceOf(p.op)].tree = "none"
        /\ UNCHANGED << op, lease, ws >> /\ ~p.orphan
    BY <1>3, SpawnedIsAlone DEF Spawned, disk
  <2>2. ASSUME NEW q \in live', q.cmd = "add", PlaceOf(q.op)' = PlaceOf(p.op)'
        PROVE  q = p
    <3>1. PlaceOf(q.op) = PlaceOf(p.op)
      BY <2>1, <2>2 DEF PlaceOf
    <3>2. CASE Spawned(q)
      BY <1>3, <2>2, <3>1, <3>2, SpawnedIsAlone
    <3>3. ASSUME NEW m \in live, Carried(m, q)
          PROVE  FALSE
      BY <1>3, <2>2, <3>1, <3>3, SpawnedIsAlone DEF Carried
    <3> QED
      BY <3>2, <3>3
  <2>3. ClaimIn(p.op, p.claim)' /\ ws'[PlaceOf(p.op)'].tree = "none"
    BY <2>1 DEF ClaimIn, PlaceOf
  <2> QED
    BY <2>1, <2>2, <2>3 DEF AddIsAlone
<1>4. ASSUME NEW p \in live', p.cmd = "add", NEW m \in live, p = f[m], Carried(m, p)
      PROVE  AddIsAlone(p)'
  <2>1. /\ m.cmd = "add" /\ m.op = p.op /\ m.claim = p.claim /\ AddIsAlone(m)
        /\ p.orphan => m.orphan \/ run'[m.claim] = Idle
    BY <1>4 DEF Carried, Claims, AddsAreAlone
  <2> PICK o \in Op : o = m.op
    BY <1>1, ProcessRows
  <2> PICK x \in Place : x = PlaceOf(o)
    BY <1>1, ProcessRows
  <2>2. /\ Row(o) /\ PlaceOf(o)' = x /\ op'[o].target = op[o].target
        /\ m.claim \in Runner /\ m.claim \in Claim /\ m.claim # Nil
    BY <1>1, <1>2, ProcessRows, NilIsNothing
  <2>3. ClaimIn(p.op, p.claim)'
    BY <2>1, AddKeepsClaim
  <2>4. ws'[x].tree = "none"
    <3>1. ws[x].tree = "none"
      BY <2>1 DEF AddIsAlone
    <3>2. ASSUME NEW q \in live, PlaceOf(q.op) = x, live' \subseteq live \ {q}, q.cmd = "add"
          PROVE  FALSE
      <4>1. p \in live /\ AddIsAlone(p) /\ PlaceOf(p.op) = x
        BY <1>4, <2>1, <3>2 DEF Claims, AddsAreAlone
      <4> QED
        BY <1>4, <3>2, <4>1 DEF AddIsAlone
    <3>3. ws'[x] = ws[x]
      BY <1>1, <3>1, <3>2 DEF DiskGoes, TreeGoes
    <3> QED
      BY <3>1, <3>3
  <2>5. ASSUME NEW q \in live', q.cmd = "add", PlaceOf(q.op)' = PlaceOf(p.op)'
        PROVE  q = p
    <3>1. CASE Spawned(q)
      <4>1. q.op \in Op /\ op' = op
        BY <2>5, <3>1, SpawnedIsAlone DEF Spawned
      <4>2. PlaceOf(q.op) = PlaceOf(m.op)
        BY <2>1, <2>5, <4>1 DEF PlaceOf
      <4> QED
        BY <2>1, <2>5, <3>1, <4>2, SpawnedIsAlone
    <3>2. ASSUME NEW n \in live, q = f[n], Carried(n, q)
          PROVE  q = p
      <4>1. n.cmd = "add" /\ n.op = q.op /\ n.op \in Op /\ Row(n.op)
        BY <1>1, <2>5, <3>2, ProcessRows DEF Carried
      <4>2. PlaceOf(n.op) = PlaceOf(m.op)
        BY <1>2, <2>1, <2>2, <2>5, <4>1
      <4>3. n = m
        BY <2>1, <4>1, <4>2 DEF AddIsAlone
      <4> QED
        BY <1>4, <3>2, <4>3
    <3> QED
      BY <3>1, <3>2
  <2>6. ASSUME p.orphan, NEW r \in Runner, Commanding(r)', TargetOf(r)' = op'[o].target
        PROVE  FALSE
    <3>1. Continues(r)
      BY <1>1, <2>6, CommandNames DEF Commanding, RunsGo, RunGoes, Begins, Idle, Begun
    <3>2. /\ run[r] # Idle /\ run'[r].op = run[r].op /\ run[r].pc \in Command
          /\ Commanding(r) \/ Takes(r)
      BY <2>6, <3>1 DEF Continues, Commanding
    <3>3. TargetOf(r) = op[o].target
      BY <1>1, <1>2, <2>2, <2>6, <3>2, RowsOfRuns DEF TargetOf, Row
    <3>4. lease[op[o].target].claim = m.claim
      BY <2>1 DEF AddIsAlone, ClaimIn
    <3>5. Commanding(r)
      BY <2>2, <3>2, <3>3, <3>4 DEF Takes, BeginGitMutation, Quiet
    <3>6. r = m.claim
      BY <3>3, <3>4, <3>5 DEF Claims, CommandsHaveClaims, ClaimIn, TargetOf
    <3>7. run'[r] # Idle
      BY <2>6, CommandNames DEF Commanding, Idle
    <3> QED
      BY <2>1, <2>6, <3>3, <3>5, <3>6, <3>7 DEF AddIsAlone
  <2> QED
    BY <2>1, <2>2, <2>3, <2>4, <2>5, <2>6 DEF AddIsAlone
<1> QED
  BY <1>3, <1>4 DEF AddsAreAlone

LEMMA ClaimsGoOnWell ==
  ASSUME Courses, Claims, [RunsNext]_rvars
  PROVE  Claims'
BY CommandsKeepClaims, StillNothingToAddTo, AddsStayAlone DEF Claims

-----------------------------------------------------------------------------
(* The commits in the rows                                                   *)

Antisymmetric == \A x, y \in Sha : x \in under[y] /\ y \in under[x] => x = y

\* The commit is later than those the update and the ones before it started from.
Beyond(s, o) == \A q \in Op : Row(q) /\ (q = o \/ Before(q, o)) => s \notin under[seen[q]]

\* An update starts from no commit older than those before it, and the branch is
\* at no older one; what the update results in is new.
RowHistory(o) ==
  LET t == tip[op[o].target] IN
  /\ seen[o] \in under[seen[o]]
  /\ op[o].result # Nil => Beyond(op[o].result, o)
  /\ t \in under[seen[o]] => t = seen[o]
  /\ \A q \in Op : Row(q) /\ Before(q, o) =>
       /\ seen[o] \in under[seen[q]] => seen[o] = seen[q]
       /\ t = seen[q] => seen[o] = seen[q]
Histories == \A o \in Op : Row(o) => RowHistory(o)

\* The head of the workspace is new where a run has committed the merge and the
\* row does not say so yet.
NewResults ==
  \A r \in Runner :
    Committed(r) /\ op[run[r].op].phase \in Working /\ op[run[r].op].result = Nil
      => Beyond(Tree(r).head, run[r].op)

LEMMA FreshCommit ==
  ASSUME Inv, Nested, NEW s \in Sha, ~Made(s), NEW h \in Sha \cup {Nil},
         under' = [under EXCEPT ![s] = under[h] \cup {s}]
  PROVE  /\ \A y \in Sha \cup {Nil} : s \notin under[y] /\ (y # s => under'[y] = under[y])
         /\ \A y \in Sha \cup {Nil} : y \in under[y] => y # s
         /\ under'[s] = under[h] \cup {s}
<1>1. under \in [Sha \cup {Nil} -> SUBSET Sha] /\ under[s] = {}
  BY DEF Inv, RInv, RunsTypeOK, Made
<1> QED
  BY <1>1 DEF Nested

LEMMA StillAntisymmetric ==
  ASSUME Courses, Antisymmetric, [RunsNext]_rvars
  PROVE  Antisymmetric'
<1>1. Inv /\ Nested /\ BranchGoes
  BY MovesOf DEF Courses, PInv, AllMade, DiskGoes
<1>2. CASE under' = under
  BY <1>2 DEF Antisymmetric
<1>3. ASSUME NEW s \in Sha, NEW h \in Sha \cup {Nil}, ~Made(s),
             under' = [under EXCEPT ![s] = under[h] \cup {s}]
      PROVE  Antisymmetric'
  <2>1. \A y \in Sha : s \notin under[y] /\ (y # s => under'[y] = under[y])
    BY <1>1, <1>3, FreshCommit
  <2> QED
    BY <2>1 DEF Antisymmetric
<1> QED
  BY <1>1, <1>2, <1>3 DEF BranchGoes

\* What is in the row of an update and of those before it stays as it is.
LEMMA PastStays ==
  ASSUME Courses, Histories, [RunsNext]_rvars, NEW o \in Op, Row(o)
  PROVE  /\ Row(o)' /\ seen'[o] = seen[o] /\ op'[o].target = op[o].target
         /\ under'[seen[o]] = under[seen[o]]
         /\ \A q \in Op : Row(q)' /\ Before(q, o)' <=> Row(q) /\ Before(q, o)
<1>1. /\ Inv /\ [Next]_vars /\ RowsInOrder /\ RowsGo /\ Nested /\ BranchGoes
      /\ RepoMoves
  BY MovesOf DEF Courses, PInv, AllMade, DiskGoes
<1>2. Row(o)'
  BY <1>1, RowsRemainRows
<1>3. seen'[o] = seen[o]
  BY <1>1 DEF RowsGo, NoneOpens, Opens
<1>4. op'[o].target = op[o].target
  BY <1>1 DEF RepoMoves, RowsMove, RowMoves
<1>5. under'[seen[o]] = under[seen[o]]
  <2>1. seen[o] \in under[seen[o]] /\ seen[o] \in Sha \cup {Nil}
    BY <1>1 DEF Histories, RowHistory, Inv, RInv, RunsTypeOK
  <2>2. ASSUME NEW s \in Sha, NEW h \in Sha \cup {Nil}, ~Made(s),
               under' = [under EXCEPT ![s] = under[h] \cup {s}]
        PROVE  under'[seen[o]] = under[seen[o]]
    BY <1>1, <2>1, <2>2, FreshCommit
  <2> QED
    BY <1>1, <2>2 DEF BranchGoes
<1>6. ASSUME NEW q \in Op
      PROVE  Row(q)' /\ Before(q, o)' <=> Row(q) /\ Before(q, o)
  <2>1. CASE Row(q)
    <3>1. Row(q)' /\ (Before(q, o)' <=> Before(q, o))
      BY <1>1, <2>1, RowsRemainRows, OrderStays
    <3> QED
      BY <2>1, <3>1
  <2>2. CASE ~Row(q) /\ Row(q)'
    <3>1. ~Before(q, o)'
      BY <1>1, <2>2, NewRowIsLast DEF Row
    <3> QED
      BY <2>2, <3>1
  <2> QED
    BY <2>1, <2>2
<1> QED
  BY <1>2, <1>3, <1>4, <1>5, <1>6

LEMMA BeyondStays ==
  ASSUME Courses, Histories, [RunsNext]_rvars, NEW o \in Op, Row(o), NEW s, Beyond(s, o)
  PROVE  Beyond(s, o)'
<1> SUFFICES ASSUME NEW q \in Op, Row(q)', q = o \/ Before(q, o)'
             PROVE  s \notin under'[seen'[q]]
  BY DEF Beyond
<1>1. Row(q) /\ (q = o \/ Before(q, o))
  BY PastStays
<1>2. seen'[q] = seen[q] /\ under'[seen[q]] = under[seen[q]]
  BY <1>1, PastStays
<1> QED
  BY <1>1, <1>2 DEF Beyond

\* A commit that a process has made is new to every row.
LEMMA FreshIsBeyond ==
  ASSUME Courses, Histories, [RunsNext]_rvars, NEW p \in live, Commits(p),
         NEW o \in Op, Row(o), NEW x \in Place, x = PlaceOf(p.op)
  PROVE  \E s \in Sha : ws'[x].head = s /\ Beyond(s, o)'
<1>1. Inv /\ Nested /\ ws \in [Place -> Workspace]
  BY DEF Courses, PInv, AllMade, Inv, RInv, RunsTypeOK
<1> PICK h : h = ws[x].head
  OBVIOUS
<1>2. h \in Sha \cup {Nil}
  BY <1>1 DEF Workspace
<1>3. PICK s \in Sha \ Outside :
        /\ ~Made(s) /\ under' = [under EXCEPT ![s] = under[h] \cup {s}]
        /\ Sets(p, "clean", s)
  BY DEF Commits
<1>4. ws'[x].head = s
  BY <1>1, <1>3 DEF Sets
<1>5. \A y \in Sha \cup {Nil} : s \notin under[y]
  BY <1>1, <1>2, <1>3, FreshCommit
<1>6. ASSUME NEW q \in Op, Row(q)', q = o \/ Before(q, o)'
      PROVE  s \notin under'[seen'[q]]
  <2>1. Row(q)
    BY <1>6, PastStays
  <2>2. seen'[q] = seen[q] /\ under'[seen[q]] = under[seen[q]] /\ seen[q] \in Sha \cup {Nil}
    BY <1>1, <2>1, PastStays DEF Inv, RInv, RunsTypeOK
  <2> QED
    BY <1>5, <2>2
<1> QED
  BY <1>3, <1>4, <1>6 DEF Beyond

LEMMA NilIsBeyond ==
  ASSUME Inv, NEW o \in Op
  PROVE  Beyond(Nil, o)
<1>1. \A q \in Op : under[seen[q]] \subseteq Sha
  BY DEF Inv, RInv, RunsTypeOK
<1> QED
  BY <1>1, NilIsNothing DEF Beyond

\* The row of an update has a result that is new.
LEMMA ResultsAreNew ==
  ASSUME Courses, Histories, NewResults, [RunsNext]_rvars, NEW o \in Op, Row(o),
         NEW s, s = op'[o].result, s # Nil
  PROVE  Beyond(s, o)
<1>1. RowGoes(o) /\ Inv
  BY MovesOf DEF RowsGo
<1>2. CASE op'[o].result = op[o].result
  BY <1>2 DEF Histories, RowHistory
<1>3. ASSUME NEW r \in Runner, GivesResult(r, o)
      PROVE  Beyond(s, o)
  BY <1>3 DEF GivesResult, NewResults, Committed
<1> QED
  BY <1>1, <1>2, <1>3 DEF RowGoes

\* What a process lands is in the row of no update of the target.
LEMMA LandsBeyondAll ==
  ASSUME Courses, Histories, NEW p \in live, LandsFor(p), NEW o \in Op, Row(o),
         op[o].target = op[p.op].target
  PROVE  /\ p.sha \notin under[seen[o]] /\ p.sha = op[p.op].result /\ p.sha # Nil
<1>1. Inv /\ GitInCourse(p) /\ RowsInOrder
  BY DEF Courses, PInv, ProcessesInCourse
<1> PICK b \in Op : b = p.op
  BY <1>1, ProcessRows
<1>2. p.sha # Nil /\ p.sha = op[b].result
  BY <1>1 DEF GitInCourse, LandsFor
<1>3. Row(b) /\ tip[op[b].target] = seen[b] /\ op[o].target = op[b].target
  BY <1>1, ProcessRows DEF LandsFor
<1>4. Beyond(p.sha, b)
  BY <1>2, <1>3 DEF Histories, RowHistory
<1>5. o = b \/ Before(o, b) \/ Before(b, o)
  <2>1. op[o].epoch \in Nat /\ op[b].epoch \in Nat
    BY <1>1, <1>3, TypesOfRepo DEF Inv, RInv
  <2>2. op[o].epoch = op[b].epoch => o = b
    BY <1>1, <1>3 DEF RowsInOrder, RowInOrder
  <2> QED
    BY <1>3, <2>1, <2>2 DEF Before
<1>6. Before(b, o) => seen[o] = seen[b]
  BY <1>3 DEF Histories, RowHistory
<1>7. p.sha \notin under[seen[o]]
  BY <1>3, <1>4, <1>5, <1>6 DEF Beyond
<1> QED
  BY <1>2, <1>7

\* Where the branch is stays out of the rows, or is what is in them.
LEMMA TipsStay ==
  ASSUME Courses, Histories, [RunsNext]_rvars, NEW o \in Op, Row(o), NEW t,
         t = tip'[op[o].target]
  PROVE  t = tip[op[o].target] \/ (t \notin under[seen[o]] /\ t # seen[o])
<1>1. Inv /\ Nested /\ BranchGoes /\ op[o].target \in Target /\ op[o] \in Operation
  BY MovesOf, RowsAre DEF Courses, PInv, AllMade, DiskGoes, Row, Operation
<1>2. seen[o] \in under[seen[o]] /\ seen[o] \in Sha \cup {Nil} /\ tip \in [Target -> Sha]
  BY <1>1 DEF Histories, RowHistory, Inv, RInv, RunsTypeOK
<1>3. ASSUME NEW p \in live, LandsFor(p)
      PROVE  t = tip[op[o].target] \/ (t \notin under[seen[o]] /\ t # seen[o])
  <2>1. CASE op[o].target # op[p.op].target
    BY <1>1, <1>2, <1>3, <2>1 DEF LandsFor
  <2>2. CASE op[o].target = op[p.op].target
    <3>1. t = p.sha
      BY <1>1, <1>2, <1>3, <2>2 DEF LandsFor
    <3>2. p.sha \notin under[seen[o]]
      BY <1>3, <2>2, LandsBeyondAll
    <3> QED
      BY <1>2, <3>1, <3>2
  <2> QED
    BY <2>1, <2>2
<1>4. ASSUME NEW s \in Sha, NEW h \in Sha \cup {Nil}, ~Made(s),
             under' = [under EXCEPT ![s] = under[h] \cup {s}],
             NEW g \in Target, tip' = [tip EXCEPT ![g] = s]
      PROVE  t = tip[op[o].target] \/ (t \notin under[seen[o]] /\ t # seen[o])
  <2>1. s \notin under[seen[o]] /\ s # seen[o]
    BY <1>1, <1>2, <1>4, FreshCommit
  <2> QED
    BY <1>1, <1>2, <1>4, <2>1
<1> QED
  BY <1>1, <1>3, <1>4 DEF BranchGoes

LEMMA OldRowHistory ==
  ASSUME Courses, Histories, NewResults, [RunsNext]_rvars, NEW o \in Op, Row(o)
  PROVE  RowHistory(o)'
<1>1. Inv /\ RowHistory(o)
  BY DEF Courses, PInv, Histories
<1>2. /\ seen'[o] = seen[o] /\ op'[o].target = op[o].target
      /\ under'[seen[o]] = under[seen[o]]
      /\ \A q \in Op : Row(q)' /\ Before(q, o)' <=> Row(q) /\ Before(q, o)
  BY PastStays
<1> PICK t : t = tip'[op[o].target]
  OBVIOUS
<1>3. seen'[o] \in under'[seen'[o]]
  BY <1>1, <1>2 DEF RowHistory
<1>4. ASSUME op'[o].result # Nil
      PROVE  Beyond(op[o].result, o)'
  <2> PICK s : s = op'[o].result
    OBVIOUS
  <2>1. Beyond(s, o)
    BY <1>4, ResultsAreNew
  <2>2. Beyond(s, o)'
    BY <2>1, BeyondStays
  <2> QED
    BY <2>2 DEF Beyond
<1>5. t \in under'[seen'[o]] => t = seen'[o]
  BY <1>1, <1>2, TipsStay DEF RowHistory
<1>6. ASSUME NEW q \in Op, Row(q)', Before(q, o)'
      PROVE  /\ seen'[o] \in under'[seen'[q]] => seen'[o] = seen'[q]
             /\ t = seen'[q] => seen'[o] = seen'[q]
  <2>1. Row(q) /\ Before(q, o) /\ op[q].target = op[o].target
    BY <1>2, <1>6 DEF Before
  <2>2. seen'[q] = seen[q] /\ under'[seen[q]] = under[seen[q]]
    BY <2>1, PastStays
  <2>3. t = tip[op[q].target] \/ t # seen[q]
    BY <2>1, TipsStay
  <2> QED
    BY <1>1, <1>2, <2>1, <2>2, <2>3 DEF RowHistory
<1> QED
  BY <1>2, <1>3, <1>4, <1>5, <1>6 DEF RowHistory

LEMMA NewRowHistory ==
  ASSUME Courses, Histories, [RunsNext]_rvars, NEW n \in Op, ~Row(n), Row(n)'
  PROVE  RowHistory(n)'
<1>1. /\ Inv /\ [Next]_vars /\ RowsInOrder /\ RowsGo /\ Inv' /\ IInv' /\ AllMade /\ RepoMoves
  BY MovesOf DEF Courses, PInv
<1>2. /\ Opens(n) /\ UNCHANGED << tip, under >>
      /\ \A x \in Op \ {n} : (Row(x)' => Row(x)) /\ seen'[x] = seen[x]
  BY <1>1 DEF RowsGo, NoneOpens, Opens, Row, disk
<1>3. op'[n].result = Nil
  BY <1>1 DEF RepoMoves, RowsAreDated, Placed, Latest, Row
<1> PICK g : g = op'[n].target
  OBVIOUS
<1>4. g \in Target /\ tip \in [Target -> Sha] /\ Sound(tip[g])
  <2>1. op'[n] \in Operation
    BY <1>1 DEF IInv, TypeOK, Row
  <2>2. g \in Target
    BY <2>1 DEF Operation
  <2> QED
    BY <1>1, <2>2 DEF AllMade, Inv, RInv, RunsTypeOK
<1>5. ASSUME NEW q \in Op, Row(q)', Before(q, n)'
      PROVE  /\ Row(q) /\ q # n /\ seen'[q] = seen[q] /\ op[q].target = g
  <2>1. q # n
    <3>1. op'[n] \in Operation
      BY <1>1 DEF IInv, TypeOK, Row
    <3>2. op'[n].epoch \in Nat
      BY <3>1, EpochAssumption DEF Operation, Epoch
    <3> QED
      BY <1>5, <3>2 DEF Before
  <2>2. Row(q) /\ seen'[q] = seen[q]
    BY <1>2, <1>5, <2>1
  <2>3. op'[q].target = op[q].target
    BY <1>1, <2>2 DEF RepoMoves, RowsMove, RowMoves
  <2> QED
    BY <1>5, <2>1, <2>2, <2>3 DEF Before
<1>6. ASSUME seen'[n] = tip[g]
      PROVE  RowHistory(n)'
  <2>1. tip[g] \in under[tip[g]]
    BY <1>4, NilIsNothing DEF Sound
  <2>2. ASSUME NEW q \in Op, Row(q)', Before(q, n)', tip[g] \in under[seen'[q]]
        PROVE  tip[g] = seen'[q]
    BY <1>5, <2>2 DEF Histories, RowHistory
  <2> QED
    BY <1>2, <1>3, <1>6, <2>1, <2>2 DEF RowHistory
<1>7. ASSUME NEW o \in Op, Unsettled(o), op[o].target = g, seen'[n] = seen[o]
      PROVE  RowHistory(n)'
  <2>1. Row(o) /\ RowHistory(o)
    BY <1>1, <1>7, UnsettledRows DEF Histories
  <2>2. ASSUME NEW q \in Op, Row(q)', Before(q, n)'
        PROVE  q = o \/ (Row(q) /\ Before(q, o))
    BY <1>1, <1>5, <1>7, <2>2, UnsettledIsLast
  <2>3. seen'[n] \in under'[seen'[n]]
    BY <1>2, <1>7, <2>1 DEF RowHistory
  <2>4. tip'[g] \in under'[seen'[n]] => tip'[g] = seen'[n]
    BY <1>2, <1>7, <2>1 DEF RowHistory
  <2>5. ASSUME NEW q \in Op, Row(q)', Before(q, n)'
        PROVE  /\ seen'[n] \in under'[seen'[q]] => seen'[n] = seen'[q]
               /\ tip'[g] = seen'[q] => seen'[n] = seen'[q]
    <3>1. seen'[q] = seen[q]
      BY <1>5, <2>5
    <3> QED
      BY <1>2, <1>7, <2>1, <2>2, <2>5, <3>1 DEF RowHistory
  <2> QED
    BY <1>3, <2>3, <2>4, <2>5 DEF RowHistory
<1> QED
  BY <1>2, <1>6, <1>7 DEF Opens

LEMMA HistoriesGoOn ==
  ASSUME Courses, Histories, NewResults, [RunsNext]_rvars
  PROVE  Histories'
BY OldRowHistory, NewRowHistory DEF Histories

-----------------------------------------------------------------------------
(* The head of a workspace, and the result in the branch                     *)

\* The head of the workspace stays new, until the row has it.
LEMMA HeadStaysNew ==
  ASSUME Courses, Claims, Histories, [RunsNext]_rvars,
         NEW r \in Runner, Committed(r), Committed(r)', NEW o \in Op, Row(o), run[r].op = o,
         Unsettled(o), op[o].result = Nil, NEW x \in Place, x = PlaceOf(o),
         NEW h, h = ws[x].head, Beyond(h, o)
  PROVE  \E s : s = ws'[x].head /\ Beyond(s, o)'
<1>1. Inv /\ KInv /\ RunsInCourse /\ TreeGoes(x) /\ Inv'
  BY MovesOf DEF Courses, DiskGoes
<1>2. run[r] # Idle /\ RunInCourse(r) /\ run'[r] # Idle
  BY <1>1 DEF Committed, Idle, RunsInCourse
<1>3. run[r].kind = "programmatic" \/ op[o].phase # "programmatic"
  BY <1>2 DEF RunInCourse, Committed, Merging, Early
<1>4. CASE ws'[x].head = h
  BY <1>4, BeyondStays
<1>5. ASSUME NEW p \in live, PlaceOf(p.op) = x, p.cmd = "add"
      PROVE  FALSE
  <2>1. /\ op[o].phase = "programmatic"
        /\ p.orphan => ~Programs(r, o)
        /\ ~p.orphan => Programs(p.claim, o) /\ run[p.claim].pc = "add"
    BY <1>5, AddsOfUpdates
  <2>2. Programs(r, o)
    BY <1>2, <1>3, <2>1 DEF Programs
  <2>3. p.claim \in Runner
    BY <1>1, ProcessRows
  <2>4. Programs(p.claim, o) => p.claim = r
    BY <1>2, <2>2, <2>3 DEF RunInCourse, Programs
  <2> QED
    BY <2>1, <2>2, <2>4 DEF Committed
<1>6. ASSUME NEW p \in live, PlaceOf(p.op) = x, Commits(p)
      PROVE  \E s : s = ws'[x].head /\ Beyond(s, o)'
  BY <1>6, FreshIsBeyond
<1>7. CASE ws'[x] = NoTree
  <2>1. ws'[x].head = Nil
    BY <1>7 DEF NoTree
  <2>2. Beyond(Nil, o)'
    <3>1. Beyond(Nil, o)
      BY <1>1, NilIsBeyond
    <3> QED
      BY <3>1, BeyondStays
  <2> QED
    BY <2>1, <2>2
<1>8. ASSUME NEW p \in live, PlaceOf(p.op) = x, p.cmd \in {"merge", "remove"}, Stopped(p)
      PROVE  FALSE
  <2>1. PICK q \in Runner :
          /\ p \in Mine(q)
          /\ run'[q] = Idle \/ (run'[q].pc = run[q].pc /\ run'[q].out = "killed")
    BY <1>1, <1>2, <1>8 DEF Stopped, RunsInCourse
  <2>2. /\ ~p.orphan /\ p.claim = q /\ run[q] # Idle /\ run[q].pc = p.cmd /\ run[q].op = p.op
        /\ run[q].stage \in {"spawned", "bound"}
    BY <1>1, <2>1 DEF Mine, KInv, GitIsWatched
  <2>3. Commanding(q)
    BY <1>8, <2>2, CommandNames DEF Commanding, Begun
  <2>4. ClaimIn(p.op, q)
    BY <2>2, <2>3 DEF Claims, CommandsHaveClaims
  <2>5. p.op \in Op /\ Row(p.op) /\ q \in Claim
    BY <1>1, ProcessRows, RunnerAssumption
  <2>6. Unsettled(p.op)
    BY <1>1, <2>4, <2>5, ClaimsOfUpdates
  <2>7. p.op = o
    BY <1>1, <1>8, <2>5, <2>6, OnePlaceOneUpdate
  <2>8. GitInCourse(p) /\ RunInCourse(q)
    BY <1>1, <2>2 DEF Courses, ProcessesInCourse, RunsInCourse
  <2>9. p.cmd = "merge"
    BY <1>8, <2>7, <2>8 DEF GitInCourse
  <2>10. Programs(q, o) /\ op[o].phase = "programmatic"
    BY <2>2, <2>6, <2>7, <2>8, <2>9
    DEF RunInCourse, Early, Programs, GitInCourse, Undecided, Unsettled, Open, Working
  <2>11. q = r
    BY <1>2, <1>3, <2>10 DEF RunInCourse, Programs
  <2> QED
    BY <1>2, <2>1, <2>2, <2>9, <2>11 DEF Committed
<1> QED
  BY <1>1, <1>4, <1>5, <1>6, <1>7, <1>8 DEF TreeGoes

\* A head that has taken in what the update started from is new.
LEMMA MergedIsBeyond ==
  ASSUME Courses, Antisymmetric, Histories, NEW r \in Runner, Merged(r),
         NEW o \in Op, Row(o), run[r].op = o, NEW h, h = Tree(r).head, h \in Sha \cup {Nil}
  PROVE  Beyond(h, o)
<1>1. Inv /\ Nested /\ under \in [Sha \cup {Nil} -> SUBSET Sha] /\ seen \in [Op -> Sha \cup {Nil}]
  BY DEF Courses, PInv, AllMade, Inv, RInv, RunsTypeOK
<1>2. h # seen[o] /\ seen[o] \in under[h]
  BY DEF Merged, Expected
<1>3. ASSUME NEW q \in Op, Row(q), q = o \/ Before(q, o), h \in under[seen[q]]
      PROVE  FALSE
  <2>1. seen[o] \in under[seen[q]]
    BY <1>1, <1>2, <1>3 DEF Nested
  <2>2. seen[o] = seen[q]
    BY <1>3, <2>1 DEF Histories, RowHistory
  <2>3. h \in Sha /\ seen[o] \in Sha
    BY <1>1, <1>2, <1>3
  <2> QED
    BY <1>2, <1>3, <2>2, <2>3 DEF Antisymmetric
<1> QED
  BY <1>3 DEF Beyond

LEMMA NewResultsGoOn ==
  ASSUME Courses, Claims, Antisymmetric, Histories, NewResults, [RunsNext]_rvars
  PROVE  NewResults'
<1>1. Inv /\ KInv /\ RepoMoves /\ RunsGo /\ [Next]_vars
  BY MovesOf
<1>2. ASSUME NEW r \in Runner, Committed(r)', op'[run'[r].op].phase \in Working,
             op'[run'[r].op].result = Nil
      PROVE  Beyond(Tree(r).head, run[r].op)'
  <2>1. Continues(r)
    BY <1>1, <1>2 DEF Committed, Idle, RunsGo, RunGoes, Begins
  <2>2. run[r] # Idle /\ run'[r].op = run[r].op
    BY <2>1 DEF Continues
  <2> PICK o \in Op : o = run[r].op
    BY <1>1, <2>2, RowsOfRuns
  <2> PICK x \in Place : x = PlaceOf(o)
    BY <1>1, <2>2, RowsOfRuns DEF Place, PlaceOf, Operation
  <2>3. Row(o) /\ RowMoves(o)
    BY <1>1, <2>2, RowsOfRuns DEF RepoMoves, RowsMove, Row
  <2>4. op[o].phase \in Working /\ op[o].result = Nil /\ Unsettled(o)
    BY <1>2, <2>2, <2>3 DEF RowMoves, Unsettled, Open
  <2>5. Tree(r) = ws[x] /\ Tree(r)' = ws'[x]
    BY <2>2, <2>3 DEF Tree, PlaceOf, RowMoves
  <2> PICK h : h = ws[x].head
    OBVIOUS
  <2>6. h \in Sha \cup {Nil}
    BY <1>1 DEF Inv, RInv, RunsTypeOK, Workspace
  <2>7. \E s : s = ws'[x].head /\ Beyond(s, o)'
    <3>1. CASE Committed(r)
      <4>1. Beyond(h, o)
        BY <2>4, <2>5, <3>1 DEF NewResults
      <4> QED
        BY <1>2, <2>3, <2>4, <3>1, <4>1, HeadStaysNew
    <3>2. CASE Merged(r) /\ UNCHANGED disk
      <4>1. Beyond(h, o)
        BY <2>3, <2>5, <2>6, <3>2, MergedIsBeyond
      <4>2. ws'[x].head = h
        BY <3>2 DEF disk
      <4> QED
        BY <2>3, <4>1, <4>2, BeyondStays
    <3>3. ASSUME NEW p \in Mine(r), Commits(p)
          PROVE  \E s : s = ws'[x].head /\ Beyond(s, o)'
      <4>1. p \in live /\ p.op = o
        BY <1>1 DEF Mine, KInv, GitIsWatched
      <4> QED
        BY <2>3, <3>3, <4>1, FreshIsBeyond
    <3> QED
      BY <1>2, <2>1, <3>1, <3>2, <3>3 DEF Continues, Committed
  <2> PICK s : s = ws'[x].head /\ Beyond(s, o)'
    BY <2>7
  <2> QED
    BY <2>2, <2>5 DEF Beyond
<1> QED
  BY <1>2 DEF NewResults

\* Once a run has landed the merge the result is in the branch, if the update is
\* still at work.
InBranch(o) == op[o].result \in under[tip[op[o].target]]
ResultsLanded == \A r \in Runner : Landed(r) /\ Unsettled(run[r].op) => InBranch(run[r].op)

LEMMA CommitsGrow ==
  ASSUME Courses, [RunsNext]_rvars, NEW y \in Sha \cup {Nil}
  PROVE  under[y] \subseteq under'[y]
<1>1. Inv /\ Nested /\ BranchGoes
  BY MovesOf DEF Courses, PInv, AllMade, DiskGoes
<1>2. ASSUME NEW s \in Sha, NEW h \in Sha \cup {Nil}, ~Made(s),
             under' = [under EXCEPT ![s] = under[h] \cup {s}]
      PROVE  under[y] \subseteq under'[y]
  BY <1>1, <1>2, FreshCommit DEF Made
<1> QED
  BY <1>1, <1>2 DEF BranchGoes

\* The branch of an update at work keeps its result.
LEMMA KeepsResult ==
  ASSUME Courses, Histories, [RunsNext]_rvars, NEW o \in Op, Unsettled(o), InBranch(o)
  PROVE  InBranch(o)'
<1>1. Inv /\ AllMade /\ Nested /\ BranchGoes /\ RepoMoves /\ RowsInOrder
  BY MovesOf DEF Courses, PInv, AllMade, DiskGoes
<1>2. Row(o) /\ op[o].target \in Target
  BY <1>1, UnsettledRows
<1> PICK g \in Target : g = op[o].target
  BY <1>2
<1> PICK s : s = op[o].result
  OBVIOUS
<1>3. /\ tip \in [Target -> Sha] /\ under \in [Sha \cup {Nil} -> SUBSET Sha]
      /\ seen \in [Op -> Sha \cup {Nil}]
  BY <1>1 DEF Inv, RInv, RunsTypeOK
<1>4. s \in under[tip[g]] /\ s \in Sha /\ s # Nil
  BY <1>3, NilIsNothing DEF InBranch
<1>5. op'[o].target = g /\ op'[o].result = s
  BY <1>1, <1>2, <1>4 DEF RepoMoves, RowsMove, RowMoves
<1>6. s \in under[s]
  BY <1>1, <1>3, <1>4 DEF Nested
<1>7. \A y \in Sha \cup {Nil} : under[y] \subseteq under'[y]
  BY CommitsGrow
<1>8. CASE tip'[g] = tip[g]
  BY <1>3, <1>4, <1>5, <1>7, <1>8 DEF InBranch
<1>9. ASSUME NEW p \in live, LandsFor(p)
      PROVE  InBranch(o)'
  <2> PICK b \in Op : b = p.op
    BY <1>1, ProcessRows
  <2>1. Row(b) /\ tip[op[b].target] = seen[b] /\ tip' = [tip EXCEPT ![op[b].target] = p.sha]
    BY <1>1, <1>9, ProcessRows DEF LandsFor
  <2>2. CASE op[b].target # g
    BY <1>3, <1>8, <2>1, <2>2
  <2>3. CASE op[b].target = g /\ b = o
    <3>1. tip'[g] = p.sha /\ p.sha = s
      BY <1>2, <1>3, <1>9, <2>1, <2>3, LandsBeyondAll
    <3> QED
      BY <1>4, <1>5, <1>6, <1>7, <3>1 DEF InBranch
  <2>4. CASE op[b].target = g /\ b # o
    <3>1. Before(b, o)
      BY <1>1, <2>1, <2>4, UnsettledIsLast
    <3>2. Beyond(s, o)
      BY <1>2, <1>4 DEF Histories, RowHistory
    <3>3. s \notin under[seen[b]]
      BY <2>1, <3>1, <3>2 DEF Beyond
    <3> QED
      BY <1>4, <2>1, <2>4, <3>3
  <2> QED
    BY <2>2, <2>3, <2>4
<1>10. ASSUME NEW c \in Sha, NEW h \in Sha \cup {Nil}, ~Made(c),
              under' = [under EXCEPT ![c] = under[h] \cup {c}],
              NEW k \in Target, h = tip[k], tip' = [tip EXCEPT ![k] = c]
       PROVE  InBranch(o)'
  <2>1. CASE k # g
    BY <1>3, <1>8, <1>10, <2>1
  <2>2. CASE k = g
    <3>1. tip'[g] = c /\ under'[c] = under[tip[g]] \cup {c}
      BY <1>3, <1>10, <2>2
    <3> QED
      BY <1>4, <1>5, <3>1 DEF InBranch
  <2> QED
    BY <2>1, <2>2
<1> QED
  BY <1>1, <1>8, <1>9, <1>10 DEF BranchGoes

LEMMA ResultsStayLanded ==
  ASSUME Courses, Histories, ResultsLanded, [RunsNext]_rvars
  PROVE  ResultsLanded'
<1>1. Inv /\ KInv /\ AllMade /\ RunsInCourse /\ RepoMoves /\ RunsGo
  BY MovesOf DEF Courses, PInv
<1>2. ASSUME NEW r \in Runner, Landed(r)', Unsettled(run[r].op)'
      PROVE  InBranch(run[r].op)'
  <2>1. Continues(r)
    BY <1>1, <1>2 DEF Landed, Idle, RunsGo, RunGoes, Begins
  <2>2. run[r] # Idle /\ run'[r].op = run[r].op
    BY <2>1 DEF Continues
  <2> PICK o \in Op : o = run[r].op
    BY <1>1, <2>2, RowsOfRuns
  <2> PICK g \in Target : g = op[o].target
    BY <1>1, <2>2, RowsOfRuns
  <2> PICK s : s = op[o].result
    OBVIOUS
  <2>3. Row(o) /\ RowMoves(o) /\ RunInCourse(r) /\ op[o] \in Operation
    BY <1>1, <2>2, RowsOfRuns DEF RepoMoves, RowsMove, Row, RunsInCourse
  <2>4. Unsettled(o)
    BY <1>1, <1>2, <2>2, <2>3, StaysUnsettled
  <2>5. op'[o].target = g /\ (s # Nil => op'[o].result = s)
    BY <2>3 DEF RowMoves
  <2>6. /\ tip \in [Target -> Sha] /\ under \in [Sha \cup {Nil} -> SUBSET Sha] /\ s \in Sha \cup {Nil}
    BY <1>1, <2>3 DEF Inv, RInv, RunsTypeOK, Operation
  <2>7. CASE Landed(r)
    <3>1. InBranch(o)
      BY <2>4, <2>7 DEF ResultsLanded
    <3>2. InBranch(o)'
      BY <2>4, <3>1, KeepsResult
    <3> QED
      BY <2>2, <3>2 DEF InBranch
  <2>8. ASSUME s # Nil, s \in under'[s], tip'[g] = s
        PROVE  InBranch(run[r].op)'
    BY <2>2, <2>5, <2>8 DEF InBranch
  <2>9. s # Nil => s \in under'[s]
    <3>1. s # Nil => s \in under[s]
      BY <1>1, <2>3 DEF AllMade, Sound, Row
    <3> QED
      BY <2>6, <3>1, CommitsGrow
  <2>10. CASE tip[g] = run[r].result /\ run[r].result # Nil /\ UNCHANGED disk
    <3>1. s # Nil /\ tip'[g] = s
      BY <2>3, <2>10 DEF RunInCourse, disk
    <3> QED
      BY <2>8, <2>9, <3>1
  <2>11. ASSUME NEW p \in Mine(r), LandsFor(p)
         PROVE  InBranch(run[r].op)'
    <3>1. p \in live /\ p.op = o
      BY <1>1, <2>2 DEF Mine, KInv, GitIsWatched
    <3>2. p.sha = s /\ s # Nil
      BY <2>3, <2>11, <3>1, LandsBeyondAll
    <3>3. tip'[g] = s
      BY <2>6, <2>11, <3>1, <3>2 DEF LandsFor
    <3> QED
      BY <2>8, <2>9, <3>2, <3>3
  <2> QED
    BY <1>2, <2>1, <2>7, <2>10, <2>11 DEF Continues, Landed, TargetOf
<1> QED
  BY <1>2 DEF ResultsLanded

LEMMA ResultsStayInBranch ==
  ASSUME Courses, Histories, ResultsLanded, ResultIsInBranch, [RunsNext]_rvars
  PROVE  ResultIsInBranch'
<1>1. Inv /\ RowsGo
  BY MovesOf
<1>2. ASSUME NEW o \in Op, Awaiting(o)'
      PROVE  InBranch(o)'
  <2>1. Row(o)
    <3>1. op'[o] # Absent /\ op'[o].phase \notin Working
      BY <1>2 DEF Awaiting, Absent, Working
    <3> QED
      BY <1>1, <3>1 DEF RowsGo, NoneOpens, Opens
  <2>2. CASE Awaiting(o)
    <3>1. Unsettled(o) /\ InBranch(o)
      BY <2>2 DEF ResultIsInBranch, InBranch, Awaiting, Unsettled, Open
    <3> QED
      BY <3>1, KeepsResult
  <2>3. ASSUME NEW r \in Runner, Settles(r, o)
        PROVE  InBranch(o)'
    <3>1. Landed(r) /\ run[r].op = o /\ Unsettled(o)
      BY <2>3 DEF Settles, Landed, Unsettled, Open
    <3>2. InBranch(o)
      BY <3>1 DEF ResultsLanded
    <3> QED
      BY <3>1, <3>2, KeepsResult
  <2> QED
    BY <1>1, <1>2, <2>1, <2>2, <2>3 DEF RowsGo, RowGoes
<1> QED
  BY <1>2 DEF ResultIsInBranch, InBranch

-----------------------------------------------------------------------------
HInv == /\ Courses /\ Claims
        /\ Antisymmetric /\ Histories /\ NewResults
        /\ ResultsLanded /\ ResultIsInBranch

LEMMA OrderAtFirst == RunsInit => HInv
<1> SUFFICES ASSUME RunsInit PROVE HInv
  OBVIOUS
<1>1. PInv /\ KInv
  <2>1. RunsInit => PInv
    BY PublishedAtFirst
  <2>2. RunsInit => KInv
    BY CommandNames DEF RunsInit, KInv, KnownGitIsClaimed, GitIsWatched, ClaimIsSole, StatementsAsk,
           Commanding, Statement, Idle
  <2> QED
    BY <2>1, <2>2
<1>2. /\ \A o \in Op : op[o] = Absent
      /\ \A r \in Runner : run[r] = Idle
      /\ live = {}
      /\ under = [s \in Sha \cup {Nil} |-> IF s = Root THEN {Root} ELSE {}]
  BY DEF RunsInit, Init
<1>3. Courses
  BY <1>1, <1>2 DEF Courses, RowsInOrder, Row, RunsInCourse, ProcessesInCourse
<1>4. Claims
  BY <1>2, CommandNames
  DEF Claims, CommandsHaveClaims, Commanding, AddsAreAlone, NothingToAddTo, Idle
<1>5. Antisymmetric
  BY <1>2 DEF Antisymmetric
<1>6. Histories
  BY <1>2 DEF Histories, Row
<1>7. NewResults /\ ResultsLanded
  BY <1>2 DEF NewResults, Committed, ResultsLanded, Landed, Idle
<1>8. ResultIsInBranch
  BY <1>2 DEF ResultIsInBranch, Awaiting, Absent
<1> QED
  BY <1>3, <1>4, <1>5, <1>6, <1>7, <1>8 DEF HInv

LEMMA OrderStill ==
  ASSUME HInv, [RunsNext]_rvars
  PROVE  HInv'
<1>1. Courses' /\ Claims'
  BY CoursesGoOn, ClaimsGoOnWell DEF HInv
<1>2. Antisymmetric' /\ Histories' /\ NewResults'
  BY StillAntisymmetric, HistoriesGoOn, NewResultsGoOn DEF HInv
<1>3. ResultsLanded' /\ ResultIsInBranch'
  BY ResultsStayLanded, ResultsStayInBranch DEF HInv
<1> QED
  BY <1>1, <1>2, <1>3 DEF HInv

\* While an update waits for its continuation its result is in the branch,
\* whichever runs raced, were paused, retried or cut off by a crash: no late
\* process of an earlier update or of the same takes the branch back.
THEOREM ResultsStayInTheBranch == RunsSpec => []ResultIsInBranch
<1>1. RunsSpec => []HInv
  BY OrderAtFirst, OrderStill, PTL DEF RunsSpec
<1>2. HInv => ResultIsInBranch
  BY DEF HInv
<1> QED
  BY <1>1, <1>2, PTL
=============================================================================
