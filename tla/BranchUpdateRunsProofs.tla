----------------------- MODULE BranchUpdateRunsProofs -----------------------
(***************************************************************************)
(* Proofs about the runs of the executor, for any number of runs, updates, *)
(* targets and crashes: every step they take is a transaction of the       *)
(* repository or leaves it alone, and a Git process whose group is known   *)
(* to the repository keeps its claim until it is gone.                     *)
(***************************************************************************)
EXTENDS BranchUpdateRuns, BranchUpdateRepoProofs

\* From here to the settlement a run has a result.
Landing == { "tip", "land", "tidy", "remove", "settle" }

KnowsEnough(k) == /\ k.pc \in Landing => k.result # Nil
                  /\ k.pc = "complete" => k.claim # Nil

RunsWell == /\ run \in [Runner -> Run \cup {Idle}]
            /\ \A r \in Runner : KnowsEnough(run[r])

\* A process that moves the branch has a commit to move it to.
Informed == { p \in Process : p.cmd = "land" => p.sha # Nil }

RInv == IInv /\ RunsTypeOK /\ RunsWell /\ live \subseteq Informed

-----------------------------------------------------------------------------
(* The courses of the runs *)

LEMMA CommandNames ==
  Command = { "add", "merge", "stage", "commit", "land", "remove", "push" }
BY DEF Command, After

\* Where a run goes on after a command is a place of the course, and it needs
\* to know no more than before.
LEMMA AfterCommands ==
  ASSUME NEW c \in Command
  PROVE  /\ After[c] \in Command \cup Statement
         /\ After[c] \in Landing => c \in Landing
         /\ After[c] # "complete"
BY CommandNames DEF After, Statement, Landing

LEMMA AtWork ==
  ASSUME RunsWell, NEW r \in Runner, run[r].pc \in Command \cup Statement
  PROVE  /\ run[r] \in Run
         /\ run[r].op \in Op /\ run[r].epoch \in Epoch
         /\ run[r].result \in Sha \cup {Nil} /\ run[r].claim \in Claim \cup {Nil}
         /\ KnowsEnough(run[r])
<1>1. run[r] # Idle
  BY CommandNames DEF Idle, Statement
<1> QED
  BY <1>1 DEF RunsWell, Run

LEMMA Going ==
  ASSUME RunsWell, NEW r \in Runner, run[r].pc \in Command \cup Statement,
         NEW p \in Command \cup Statement,
         p \in Landing => run[r].result # Nil,
         p = "complete" => run[r].claim # Nil,
         Go(r, p)
  PROVE  RunsWell'
<1> DEFINE k == [run[r] EXCEPT !.pc = p, !.stage = "ask", !.out = "none"]
<1>1. run[r] \in Run
  BY AtWork
<1>2. k \in Run /\ k.pc = p /\ k.result = run[r].result /\ k.claim = run[r].claim
  BY <1>1 DEF Run
<1>3. run' = [run EXCEPT ![r] = k]
  BY DEF Go
<1> QED
  BY <1>2, <1>3 DEF RunsWell, KnowsEnough

LEMMA Ending ==
  ASSUME RunsWell, NEW r \in Runner, End(r)
  PROVE  RunsWell'
BY DEF RunsWell, End, Idle, KnowsEnough, Landing

LEMMA Failing ==
  ASSUME RunsWell, NEW r \in Runner, run[r].pc \in Command \cup Statement, Fail(r)
  PROVE  RunsWell'
BY Going, Ending DEF Fail, Statement, Landing

LEMMA Starting ==
  ASSUME RunsWell, NEW r \in Runner,
         NEW kind \in {"programmatic", "resolved", "publish", "resume"},
         NEW p \in Statement \ (Landing \cup {"complete"}),
         NEW o \in Op, NEW e \in Epoch, NEW s \in Sha \cup {Nil},
         Start(r, kind, p, o, e, s)
  PROVE  RunsWell'
BY DEF RunsWell, Start, Run, KnowsEnough

-----------------------------------------------------------------------------
(* What is left to show of a step *)

LEMMA Writing ==
  ASSUME RInv, [Next]_vars, RunsWell', Writes
  PROVE  RInv'
<1>1. IInv'
  BY NextIInv DEF RInv
<1> QED
  BY <1>1 DEF RInv, IInv, RunsTypeOK, RunsWell, Writes, disk, host

LEMMA Reading ==
  ASSUME RInv, RunsWell', Reads
  PROVE  RInv' /\ UNCHANGED vars
BY Writing DEF Reads, Writes, repo, vars

LEMMA Refusing ==
  ASSUME RInv, NEW r \in Runner, Refused(r)
  PROVE  RInv' /\ UNCHANGED vars
BY Ending, Reading DEF RInv, Refused, Reads

-----------------------------------------------------------------------------
(* Every statement of the executor is a transaction of the repository, or    *)
(* leaves it alone                                                           *)

LEMMA RepositoryStep ==
  ASSUME NEW o \in Op, NEW w \in Owner, NEW e \in Epoch, OperationStep(o, w, e)
  PROVE  Next
BY DEF Next

LEMMA OwnersOfRuns ==
  ASSUME RunsWell, NEW r \in Runner, run[r].pc \in Command \cup Statement
  PROVE  OwnerOf(r) \in Owner
<1>1. run[r].op \in Op
  BY AtWork
<1> QED
  BY <1>1, OwnersAreOwners DEF OwnerOf, OwnersOf

LEMMA ChecksRead ==
  ASSUME RInv, NEW r \in Runner, Check(r) \/ Look(r) \/ Gather(r) \/ Tip(r) \/ Tidy(r)
  PROVE  RInv' /\ UNCHANGED vars
<1>1. RunsWell
  BY DEF RInv
<1>2. Reads /\ run[r].pc \in Command \cup Statement
  BY DEF Check, Look, Gather, Tip, Tidy, At, Statement
<1>3. CASE Check(r)
  <2>1. \E p \in {"look", "block"} : Go(r, p)
    BY <1>3 DEF Check
  <2>2. RunsWell'
    BY <1>1, <1>2, <2>1, Going DEF Statement, Landing
  <2> QED
    BY <1>2, <2>2, Reading
<1>4. CASE Look(r)
  <2>1. PICK p \in {"add", "resolve", "block", "merge", "note"} : Go(r, p)
    BY <1>4 DEF Look
  <2>2. p \in Command \cup Statement /\ p \notin Landing \cup {"complete"}
    BY CommandNames DEF Statement, Landing
  <2>3. RunsWell'
    BY <1>1, <1>2, <2>1, <2>2, Going
  <2> QED
    BY <1>2, <2>3, Reading
<1>5. CASE Gather(r)
  <2>1. \/ \E p \in {"stage", "note"} : Go(r, p)
        \/ run[r].result # Nil /\ Go(r, "tip")
        \/ End(r)
    BY <1>5 DEF Gather
  <2>2. \A p \in {"stage", "note", "tip"} : p \in Command \cup Statement /\ p # "complete"
    BY CommandNames DEF Statement
  <2>3. RunsWell'
    <3>1. CASE \E p \in {"stage", "note"} : Go(r, p)
      BY <1>1, <1>2, <2>2, <3>1, Going DEF Landing
    <3>2. CASE run[r].result # Nil /\ Go(r, "tip")
      BY <1>1, <1>2, <2>2, <3>2, Going
    <3> QED
      BY <1>1, <2>1, <3>1, <3>2, Ending
  <2> QED
    BY <1>2, <2>3, Reading
<1>6. CASE Tip(r)
  <2>1. (\E p \in {"land", "tidy"} : Go(r, p)) \/ Fail(r)
    BY <1>6 DEF Tip
  <2>2. run[r].result # Nil
    BY <1>1, <1>6 DEF Tip, At, RunsWell, KnowsEnough, Landing
  <2>3. RunsWell'
    BY <1>1, <1>2, <2>1, <2>2, Going, Failing, CommandNames DEF Statement, Landing
  <2> QED
    BY <1>2, <2>3, Reading
<1>7. CASE Tidy(r)
  <2>1. \E p \in {"settle", "remove"} : Go(r, p)
    BY <1>7 DEF Tidy
  <2>2. run[r].result # Nil
    BY <1>1, <1>7 DEF Tidy, At, RunsWell, KnowsEnough, Landing
  <2>3. RunsWell'
    BY <1>1, <1>2, <2>1, <2>2, Going, CommandNames DEF Statement, Landing
  <2> QED
    BY <1>2, <2>3, Reading
<1> QED
  BY <1>3, <1>4, <1>5, <1>6, <1>7

LEMMA ResolveBlockWrite ==
  ASSUME RInv, NEW r \in Runner, Resolve(r) \/ Block(r)
  PROVE  RInv' /\ [Next]_vars
<1> DEFINE o == run[r].op
           e == run[r].epoch
<1>1. RunsWell /\ run[r].pc \in Command \cup Statement
  BY DEF RInv, Resolve, Block, At, Statement
<1>2. o \in Op /\ e \in Epoch /\ OwnerOf(r) \in Owner
  BY <1>1, AtWork, OwnersOfRuns
<1>3. CASE Refused(r)
  BY <1>3, Refusing
<1>4. ASSUME MarkResolving(o, OwnerOf(r), e) \/ BlockOperation(o, OwnerOf(r), e, FALSE),
             End(r), Writes
      PROVE  RInv' /\ Next
  <2>1. Next
    BY <1>2, <1>4, RepositoryStep DEF OperationStep
  <2> QED
    BY <1>1, <1>4, <2>1, Ending, Writing
<1> QED
  BY <1>3, <1>4 DEF Resolve, Block

LEMMA NoteWrites ==
  ASSUME RInv, NEW r \in Runner, Note(r)
  PROVE  RInv' /\ [Next]_vars
<1> DEFINE o == run[r].op
           e == run[r].epoch
           s == Tree(r).head
<1>1. RunsWell /\ run[r].pc \in Command \cup Statement
  BY DEF RInv, Note, At, Statement
<1>2. run[r] \in Run /\ o \in Op /\ e \in Epoch /\ OwnerOf(r) \in Owner
  BY <1>1, AtWork, OwnersOfRuns
<1>3. CASE Refused(r)
  BY <1>3, Refusing
<1>4. ASSUME s # Nil, CheckpointResult(o, OwnerOf(r), e, s),
             run' = [run EXCEPT ![r].pc = "tip", ![r].result = s], Writes
      PROVE  RInv' /\ Next
  <2>1. op[o] \in Operation
    BY <1>2, <1>4 DEF RInv, IInv, TypeOK, CheckpointResult, Working, Absent
  <2>2. s \in Sha
    <3>1. PlaceOf(o) \in Place /\ ws[PlaceOf(o)] \in Workspace
      BY <1>2, <2>1 DEF PlaceOf, Place, Operation, RInv, RunsTypeOK
    <3> QED
      BY <1>4, <3>1 DEF Workspace, Tree
  <2>3. Next
    BY <1>2, <1>4, <2>2, RepositoryStep DEF OperationStep
  <2>4. RunsWell'
    BY <1>1, <1>2, <1>4, <2>2 DEF RunsWell, Run, KnowsEnough, Statement, Landing
  <2> QED
    BY <1>4, <2>3, <2>4, Writing
<1> QED
  BY <1>3, <1>4 DEF Note

LEMMA SettleWrites ==
  ASSUME RInv, NEW r \in Runner, Settle(r)
  PROVE  RInv' /\ [Next]_vars
<1> DEFINE o == run[r].op
           e == run[r].epoch
           s == run[r].result
<1>1. RunsWell /\ run[r].pc = "settle" /\ run[r].pc \in Command \cup Statement
  BY DEF RInv, Settle, At, Statement
<1>2. o \in Op /\ e \in Epoch /\ OwnerOf(r) \in Owner /\ s \in Sha
  BY <1>1, AtWork, OwnersOfRuns DEF KnowsEnough, Landing
<1>3. CASE Refused(r)
  BY <1>3, Refusing
<1>4. ASSUME SettleProgrammatic(o, OwnerOf(r), e, s),
             Go(r, "publish") \/ End(r) \/ Go(r, "claim"), Writes
      PROVE  RInv' /\ Next
  <2>1. Next
    BY <1>2, <1>4, RepositoryStep DEF OperationStep
  <2>2. RunsWell'
    BY <1>1, <1>4, Going, Ending DEF Statement, Landing
  <2> QED
    BY <2>1, <2>2, <1>4, Writing
<1> QED
  BY <1>3, <1>4 DEF Settle

LEMMA ClaimNextWrites ==
  ASSUME RInv, NEW r \in Runner, ClaimNext(r)
  PROVE  RInv' /\ [Next]_vars
<1> DEFINE o == run[r].op
<1>1. RunsWell /\ run[r].pc \in Command \cup Statement
  BY DEF RInv, ClaimNext, At, Statement
<1>2. run[r] \in Run /\ o \in Op
  BY <1>1, AtWork
<1>3. CASE Refused(r)
  BY <1>3, Refusing
<1>4. ASSUME ClaimContinuation(o, r),
             run' = [run EXCEPT ![r].pc = "complete", ![r].claim = r], Writes
      PROVE  RInv' /\ Next
  <2>1. r \in Claim /\ r # Nil
    BY RunnerAssumption, NilAssumption
  <2>2. Next
    BY <1>2, <1>4, <2>1 DEF Next
  <2>3. RunsWell'
    BY <1>1, <1>2, <1>4, <2>1 DEF RunsWell, Run, KnowsEnough, Statement, Landing
  <2> QED
    BY <1>4, <2>2, <2>3, Writing
<1> QED
  BY <1>3, <1>4 DEF ClaimNext

LEMMA CompleteWrites ==
  ASSUME RInv, NEW r \in Runner, Complete(r)
  PROVE  RInv' /\ [Next]_vars
<1> DEFINE o == run[r].op
           e == run[r].epoch
           c == run[r].claim
<1>1. RunsWell /\ run[r].pc = "complete" /\ run[r].pc \in Command \cup Statement
  BY DEF RInv, Complete, At, Statement
<1>2. o \in Op /\ e \in Epoch /\ OwnerOf(r) \in Owner /\ c \in Claim
  BY <1>1, AtWork, OwnersOfRuns DEF KnowsEnough
<1>3. CASE Refused(r)
  BY <1>3, Refusing
<1>4. ASSUME CompleteContinuation(o, OwnerOf(r), e, c), End(r), Writes
      PROVE  RInv' /\ Next
  <2>1. Next
    BY <1>2, <1>4, RepositoryStep DEF OperationStep
  <2> QED
    BY <2>1, <1>1, <1>4, Ending, Writing
<1> QED
  BY <1>3, <1>4 DEF Complete

\* A run that reads its operation again finds a row there.
LEMMA TakingUp ==
  ASSUME RInv, NEW r \in Runner, run[r].pc \in Command \cup Statement,
         NEW kind \in {"publish", "resume"},
         NEW p \in {"transfer", "push", "claim", "complete"},
         Awaiting(run[r].op), p = "complete" => op[run[r].op].claim # Nil,
         Taken(r, kind, p)
  PROVE  RunsWell'
<1> DEFINE o == run[r].op
           k == [ kind |-> kind, pc |-> p, stage |-> "ask", op |-> o,
                  epoch |-> op[o].epoch, result |-> op[o].result,
                  claim |-> op[o].claim, out |-> "none" ]
<1>1. RunsWell /\ o \in Op
  BY AtWork DEF RInv
<1>2. op[o] \in Operation
  BY <1>1 DEF RInv, IInv, TypeOK, Awaiting, Absent
<1>3. p \in Command \cup Statement
  BY CommandNames DEF Statement
<1>4. k \in Run
  BY <1>1, <1>2, <1>3 DEF Run, Operation
<1>5. KnowsEnough(k)
  BY DEF KnowsEnough, Landing
<1>6. run' = [run EXCEPT ![r] = k]
  BY DEF Taken
<1> QED
  BY <1>1, <1>4, <1>5, <1>6 DEF RunsWell

LEMMA PublishReads ==
  ASSUME RInv, NEW r \in Runner, Publish(r)
  PROVE  RInv' /\ UNCHANGED vars
<1>1. RunsWell /\ run[r].pc \in Command \cup Statement /\ Reads
  BY DEF RInv, Publish, At, Statement
<1>2. \/ End(r)
      \/ /\ Awaiting(run[r].op)
         /\ \E p \in {"transfer", "push"} : Taken(r, "publish", p)
  BY DEF Publish
<1>3. RunsWell'
  BY <1>1, <1>2, Ending, TakingUp
<1> QED
  BY <1>1, <1>3, Reading

LEMMA ResumeReads ==
  ASSUME RInv, NEW r \in Runner, Resume(r)
  PROVE  RInv' /\ UNCHANGED vars
<1>1. RunsWell /\ run[r].pc \in Command \cup Statement /\ Reads
  BY DEF RInv, Resume, At, Statement
<1>2. \/ End(r)
      \/ /\ Awaiting(run[r].op)
         /\ \E p \in {"claim", "complete"} :
              Taken(r, "resume", p) /\ (p = "complete" => op[run[r].op].claim # Nil)
  BY DEF Resume
<1>3. RunsWell'
  BY <1>1, <1>2, Ending, TakingUp
<1> QED
  BY <1>1, <1>3, Reading

LEMMA ConfirmReads ==
  ASSUME RInv, NEW r \in Runner, Confirm(r)
  PROVE  RInv' /\ UNCHANGED vars
<1>1. RunsWell /\ run[r].pc \in Command \cup Statement /\ Reads
  BY DEF RInv, Confirm, At, Statement
<1>2. \/ End(r)
      \/ Go(r, "claim")
      \/ run[r].claim # Nil /\ Go(r, "complete")
  BY DEF Confirm, ClaimOrComplete
<1>3. RunsWell'
  BY <1>1, <1>2, Ending, Going DEF Statement, Landing
<1> QED
  BY <1>1, <1>3, Reading

LEMMA TransferWrites ==
  ASSUME RInv, NEW r \in Runner, Transfer(r)
  PROVE  RInv' /\ [Next]_vars
<1> DEFINE o == run[r].op
           e == run[r].epoch
           w == << "branch", o >>
<1>1. RunsWell /\ run[r].pc \in Command \cup Statement
  BY DEF RInv, Transfer, At, Statement
<1>2. run[r] \in Run /\ o \in Op /\ e \in Epoch /\ w \in Owner
  BY <1>1, AtWork, OwnersAreOwners DEF OwnersOf
<1>3. CASE Refused(r)
  BY <1>3, Refusing
<1>4. ASSUME TransferOperationLease(o, w, e), Writes,
             run' = [run EXCEPT ![r].pc = "push", ![r].epoch = @ + 1]
      PROVE  RInv' /\ Next
  <2>1. Next
    BY <1>2, <1>4, RepositoryStep DEF OperationStep
  <2>2. e + 1 \in Epoch
    <3>1. e + 1 <= MaxEpoch
      BY <1>4 DEF TransferOperationLease, Guarded, Current, NextEpoch
    <3> QED
      BY <1>2, <3>1, EpochAssumption DEF Epoch
  <2>3. RunsWell'
    <3> DEFINE k == [run[r] EXCEPT !.pc = "push", !.epoch = e + 1]
    <3>1. "push" \in Command /\ "push" \notin Landing
      BY CommandNames DEF Landing
    <3>2. k \in Run /\ k.pc = "push"
      BY <1>2, <2>2, <3>1 DEF Run
    <3>3. run' = [run EXCEPT ![r] = k]
      BY <1>1, <1>2, <1>4 DEF RunsWell, Run
    <3> QED
      BY <1>1, <3>1, <3>2, <3>3 DEF RunsWell, KnowsEnough
  <2> QED
    BY <1>4, <2>1, <2>3, Writing
<1> QED
  BY <1>3, <1>4 DEF Transfer

LEMMA StepsUseRepository ==
  ASSUME RInv, NEW r \in Runner, Step(r)
  PROVE  RInv' /\ [Next]_vars
BY ChecksRead, ResolveBlockWrite, NoteWrites, SettleWrites, ClaimNextWrites,
   CompleteWrites, PublishReads, ResumeReads, ConfirmReads, TransferWrites DEF Step

-----------------------------------------------------------------------------
(* So is every step of a Git command                                         *)

LEMMA Staging ==
  ASSUME RunsWell, NEW r \in Runner, run[r] \in Run,
         NEW stage \in {"ask", "begun", "spawned", "bound", "exited"},
         NEW out \in {"none", "ok", "fail", "killed"},
         run' = [run EXCEPT ![r].stage = stage, ![r].out = out]
         \/ Reaches(r, stage)
  PROVE  RunsWell'
<1>1. CASE Reaches(r, stage)
  <2> DEFINE k == [run[r] EXCEPT !.stage = stage]
  <2>1. k \in Run /\ k.pc = run[r].pc /\ k.result = run[r].result /\ k.claim = run[r].claim
    BY DEF Run
  <2>2. run' = [run EXCEPT ![r] = k]
    BY <1>1 DEF Reaches
  <2> QED
    BY <2>1, <2>2 DEF RunsWell, KnowsEnough
<1>2. CASE run' = [run EXCEPT ![r].stage = stage, ![r].out = out]
  <2> DEFINE k == [run[r] EXCEPT !.stage = stage, !.out = out]
  <2>1. k \in Run /\ k.pc = run[r].pc /\ k.result = run[r].result /\ k.claim = run[r].claim
    BY DEF Run
  <2>2. run' = [run EXCEPT ![r] = k]
    BY <1>2 DEF RunsWell
  <2> QED
    BY <2>1, <2>2 DEF RunsWell, KnowsEnough
<1> QED
  BY <1>1, <1>2

\* A step of a command that changes at most the Git processes and a workspace.
LEMMA OnGit ==
  ASSUME RInv, RunsWell', [Next]_vars,
         live' \subseteq Informed, ws' \in [Place -> Workspace],
         UNCHANGED << seen, tip, origin, under, host >>
  PROVE  RInv'
<1>1. IInv'
  BY NextIInv DEF RInv
<1> QED
  BY <1>1 DEF RInv, IInv, RunsTypeOK, RunsWell, Informed, host

LEMMA CommandRuns ==
  ASSUME RInv, NEW r \in Runner, run[r].pc \in Command
  PROVE  /\ RunsWell /\ run[r] \in Run /\ run[r].op \in Op /\ run[r].epoch \in Epoch
         /\ run[r].result \in Sha \cup {Nil}
         /\ OwnerOf(r) \in Owner /\ r \in Claim
BY AtWork, OwnersOfRuns, RunnerAssumption DEF RInv

\* A run on a target that is leased to it works on an operation with a row.
LEMMA LeaseStepOf ==
  ASSUME RInv, NEW r \in Runner, run[r].pc \in Command,
         NEW e \in Epoch,
         \/ BeginGitMutation(TargetOf(r), OwnerOf(r), e, r)
         \/ BindGitProcessGroup(TargetOf(r), OwnerOf(r), e, r)
         \/ CompleteGitMutation(TargetOf(r), OwnerOf(r), e, r),
         TargetOf(r) \in Target
  PROVE  Next
<1>1. LeaseStep(TargetOf(r), OwnerOf(r), e)
  BY CommandRuns DEF LeaseStep
<1> QED
  BY <1>1, CommandRuns DEF Next

-----------------------------------------------------------------------------
(* The rows of the operations stay, and so do their targets                  *)

\* A run and a Git process work on an operation that has a row.
RowsKept == /\ \A r \in Runner : run[r] # Idle => op[run[r].op] \in Operation
            /\ \A p \in live : op[p.op] \in Operation

LEMMA RowsStay ==
  ASSUME IInv, [Next]_vars, NEW o \in Op, op[o] \in Operation
  PROVE  op'[o] \in Operation /\ op'[o].target = op[o].target
<1>1. TypeOK /\ TypeOK'
  BY NextIInv DEF IInv
<1>2. op[o].phase # "none"
  BY DEF Operation, Open, Working
<1>3. op'[o].phase # "none" /\ op'[o].target = op[o].target
  <2>1. CASE UNCHANGED vars
    BY <1>2, <2>1 DEF vars
  <2>2. ASSUME NEW x \in Op, NEW w \in Owner, NEW e \in Epoch, OperationStep(x, w, e)
        PROVE  op'[o].phase # "none" /\ op'[o].target = op[o].target
    <3>1. CASE \E n \in Op : RetryOperation(x, n, w, e)
      BY <1>1, <1>2, <3>1 DEF TypeOK, Operation, RetryOperation, Absent
    <3>2. CASE \E s \in Sha : CheckpointResult(x, w, e, s) \/ SettleProgrammatic(x, w, e, s)
      BY <1>1, <1>2, <3>2 DEF TypeOK, CheckpointResult, SettleProgrammatic, SetPhase, Operation, Absent
    <3>3. CASE \E b \in BOOLEAN : BlockOperation(x, w, e, b)
      BY <1>1, <1>2, <3>3 DEF TypeOK, BlockOperation, Operation, Absent
    <3>4. CASE MarkResolving(x, w, e) \/ TransferOperationLease(x, w, e)
      BY <1>1, <1>2, <3>4 DEF TypeOK, MarkResolving, TransferOperationLease, Operation, Absent
    <3>5. CASE \E c \in Claim : CompleteContinuation(x, w, e, c)
      BY <1>1, <1>2, <3>5 DEF TypeOK, CompleteContinuation, SetPhase, Operation, Absent
    <3>6. CASE PauseOperation(x, w, e) \/ ResumeOperation(x, w, e) \/ StopOperation(x, w, e)
      BY <1>1, <1>2, <3>6
      DEF TypeOK, PauseOperation, ResumeOperation, StopOperation, Operation, Absent
    <3> QED
      BY <2>2, <3>1, <3>2, <3>3, <3>4, <3>5, <3>6 DEF OperationStep
  <2>3. ASSUME NEW g \in Target, NEW w \in Owner, NEW e \in Epoch,
               LeaseStep(g, w, e) \/ TenantStep(g, w, e)
        PROVE  op' = op
    BY <2>3 DEF LeaseStep, TenantStep, BeginGitMutation, BindGitProcessGroup,
                CompleteGitMutation, AcquireTargetLease, ReleaseTargetLease
  <2>4. ASSUME NEW x \in Op, NEW t \in Task, NEW g \in Target, NEW d \in Direction,
               NEW k \in Continuation, Activate(x, t, g, d, k)
        PROVE  op'[o] = op[o]
    BY <1>1, <1>2, <2>4 DEF TypeOK, Activate
  <2>5. ASSUME NEW x \in Op, BindAgentRun(x) \/ UnbindAgentRun(x)
        PROVE  op'[o].phase = op[o].phase /\ op'[o].target = op[o].target
    BY <1>1, <2>5 DEF TypeOK, BindAgentRun, UnbindAgentRun, Operation, Absent
  <2>6. ASSUME NEW x \in Op, NEW c \in Claim, ClaimContinuation(x, c)
        PROVE  op'[o].phase # "none" /\ op'[o].target = op[o].target
    BY <1>1, <1>2, <2>6 DEF TypeOK, ClaimContinuation, Operation, Absent
  <2>7. ASSUME NEW t \in Task, NEW s \in Elsewhere, MoveTask(t, s)
        PROVE  op' = op
    BY <2>7 DEF MoveTask
  <2>8. \A w \in {"tenant"} \X Tenant : w \in Owner
    BY DEF Owner
  <2> QED
    BY <1>2, <2>1, <2>2, <2>3, <2>4, <2>5, <2>6, <2>7, <2>8 DEF Next
<1> QED
  BY <1>1, <1>3 DEF TypeOK, Absent

\* The runs go on with the updates they have.
SameUpdates ==
  \A q \in Runner : run'[q] = Idle \/ (run[q] # Idle /\ run'[q].op = run[q].op)

LEMMA StatementsKeepUpdate ==
  ASSUME RInv, NEW r \in Runner, Step(r)
  PROVE  SameUpdates /\ live' = live
<1>1. RunsWell /\ run[r] # Idle /\ run[r] \in Run
  <2>1. run[r].pc \in Statement
    BY DEF Step, Check, Look, Resolve, Block, Gather, Note, Tip, Tidy, Settle, ClaimNext,
           Complete, Publish, Transfer, Confirm, Resume, At, Statement
  <2> QED
    BY <2>1, AtWork, CommandNames DEF RInv, Idle, Statement
<1>2. live' = live
  BY DEF Step, Check, Look, Resolve, Block, Gather, Note, Tip, Tidy, Settle, ClaimNext,
         Complete, Publish, Transfer, Confirm, Resume, Reads, Writes, Refused
<1>3. ASSUME NEW p, Go(r, p)
      PROVE  SameUpdates
  BY <1>1, <1>3 DEF Go, SameUpdates, RunsWell, Run
<1>4. End(r) => SameUpdates
  BY <1>1 DEF End, SameUpdates, RunsWell
<1>5. ASSUME NEW kind, NEW p, Taken(r, kind, p)
      PROVE  SameUpdates
  BY <1>1, <1>5 DEF Taken, SameUpdates, RunsWell
<1>6. Note(r) \/ ClaimNext(r) \/ Transfer(r) => SameUpdates
  BY <1>1, <1>4 DEF Note, ClaimNext, Transfer, Refused, SameUpdates, RunsWell, Run
<1>7. Check(r) \/ Look(r) \/ Tip(r) \/ Tidy(r) \/ Gather(r) \/ Confirm(r) => SameUpdates
  BY <1>3, <1>4 DEF Check, Look, Tip, Tidy, Gather, Confirm, Fail
<1>8. Resolve(r) \/ Block(r) \/ Settle(r) \/ Complete(r) => SameUpdates
  BY <1>3, <1>4 DEF Resolve, Block, Settle, Complete, Refused
<1>9. Publish(r) \/ Resume(r) => SameUpdates
  BY <1>4, <1>5 DEF Publish, Resume
<1> QED
  BY <1>2, <1>6, <1>7, <1>8, <1>9 DEF Step

LEMMA RowsKeep ==
  ASSUME RInv, RowsKept, [Next]_vars, RInv',
         \A q \in Runner : \/ run'[q] = Idle
                           \/ run[q] # Idle /\ run'[q].op = run[q].op
                           \/ op'[run'[q].op] \in Operation,
         \A p \in live' : \/ \E m \in live : m.op = p.op
                          \/ \E q \in Runner : run[q] # Idle /\ run[q].op = p.op
  PROVE  RowsKept'
<1>1. IInv /\ RunsTypeOK
  BY DEF RInv
<1>2. ASSUME NEW q \in Runner, run[q] # Idle
      PROVE  op'[run[q].op] \in Operation
  <2>1. run[q].op \in Op
    BY <1>1, <1>2 DEF RunsTypeOK, Run
  <2> QED
    BY <1>1, <1>2, <2>1, RowsStay DEF RowsKept
<1>3. ASSUME NEW p \in live
      PROVE  op'[p.op] \in Operation
  <2>1. p.op \in Op
    BY <1>1 DEF RunsTypeOK, Process
  <2> QED
    BY <1>1, <2>1, RowsStay DEF RowsKept
<1>4. ASSUME NEW q \in Runner, run'[q] # Idle
      PROVE  op'[run'[q].op] \in Operation
  BY <1>2, <1>4
<1>5. ASSUME NEW p \in live'
      PROVE  op'[p.op] \in Operation
  BY <1>2, <1>3
<1> QED
  BY <1>4, <1>5 DEF RowsKept

LEMMA StatementsKeep ==
  ASSUME RInv, RowsKept, NEW r \in Runner, Step(r)
  PROVE  RInv' /\ RowsKept' /\ [Next]_vars
BY StepsUseRepository, StatementsKeepUpdate, RowsKeep DEF SameUpdates

-----------------------------------------------------------------------------
(* Every step of a Git command is a step of a lease, or leaves it alone      *)

Inv == RInv /\ RowsKept

LEMMA TargetsOfRuns ==
  ASSUME Inv, NEW r \in Runner, run[r].pc \in Command
  PROVE  run[r] # Idle /\ TargetOf(r) \in Target /\ PlaceOf(run[r].op) \in Place
<1>1. run[r] # Idle
  BY CommandNames DEF Idle
<1>2. op[run[r].op] \in Operation
  BY <1>1 DEF Inv, RowsKept
<1> QED
  BY <1>1, <1>2 DEF TargetOf, PlaceOf, Place, Operation

LEMMA PlacesOfGit ==
  ASSUME Inv, NEW p \in live
  PROVE  p \in Process /\ PlaceOf(p.op) \in Place /\ op[p.op].target \in Target
BY DEF Inv, RInv, RunsTypeOK, RowsKept, PlaceOf, Place, Operation

LEMMA KilledTrees ==
  ASSUME Inv, NEW p \in live, Killed(p)
  PROVE  ws' \in [Place -> Workspace]
<1>1. ws \in [Place -> Workspace] /\ PlaceOf(p.op) \in Place /\ seen[p.op] \in Sha \cup {Nil}
  BY PlacesOfGit DEF Inv, RInv, RunsTypeOK, Process
<1> QED
  BY <1>1 DEF Killed, Workspace

LEMMA CommandsKeep ==
  ASSUME Inv, NEW r \in Runner, CommandStep(r)
  PROVE  Inv' /\ [Next]_vars /\ SameUpdates
<1> DEFINE e == run[r].epoch
           g == TargetOf(r)
<1>1. app = "up" /\ run[r].pc \in Command
  BY DEF CommandStep, Begin, Spawn, SpawnFails, Bind, BindFails, Exited, TimedOut, Clear,
         Commands
<1>2. /\ RInv /\ RunsWell /\ run[r] \in Run /\ run[r] # Idle /\ run[r].op \in Op
      /\ e \in Epoch /\ r \in Claim /\ g \in Target /\ run[r].result \in Sha \cup {Nil}
      /\ OwnerOf(r) \in Owner
  BY <1>1, CommandRuns, TargetsOfRuns DEF Inv
<1>3. live \subseteq Informed /\ ws \in [Place -> Workspace]
  BY <1>2 DEF RInv, RunsTypeOK
<1>4. Mine(r) \subseteq live
  BY DEF Mine
<1>5. /\ End(r) => RunsWell' /\ SameUpdates
      /\ Fail(r) => RunsWell' /\ SameUpdates
      /\ \A s \in {"begun", "spawned", "bound", "exited"} :
           Reaches(r, s) => RunsWell' /\ SameUpdates
  <2>1. End(r) => SameUpdates
    BY <1>2 DEF End, SameUpdates, RunsWell
  <2>2. Fail(r) => SameUpdates
    BY <1>2, <2>1 DEF Fail, Go, SameUpdates, RunsWell, Run
  <2>3. \A s \in {"begun", "spawned", "bound", "exited"} : Reaches(r, s) => SameUpdates
    BY <1>2 DEF Reaches, SameUpdates, RunsWell, Run
  <2>4. ASSUME NEW s \in {"begun", "spawned", "bound", "exited"}, Reaches(r, s)
        PROVE  RunsWell'
    BY <1>2, <2>4, Staging
  <2> QED
    BY <1>1, <1>2, <2>1, <2>2, <2>3, <2>4, Ending, Failing
<1>6. CASE Begin(r)
  <2>1. CASE Refused(r)
    BY <1>2, <1>5, <2>1, Refusing, RowsKeep DEF Refused, Inv, disk, host, SameUpdates
  <2>2. CASE BeginGitMutation(g, OwnerOf(r), e, r) /\ Reaches(r, "begun") /\ Writes
    <3>1. Next
      BY <1>1, <1>2, <2>2, LeaseStepOf
    <3>2. RInv' /\ live' = live
      BY <1>2, <1>5, <2>2, <3>1, Writing DEF Writes
    <3> QED
      BY <1>2, <1>5, <2>2, <3>1, <3>2, RowsKeep DEF Inv, SameUpdates
  <2> QED
    BY <1>6, <2>1, <2>2 DEF Begin
<1>7. CASE Spawn(r)
  <2> DEFINE p == [ claim |-> r, cmd |-> run[r].pc, op |-> run[r].op,
                    sha |-> run[r].result, bound |-> FALSE, orphan |-> FALSE ]
  <2>1. /\ live' = live \cup {p} /\ Reaches(r, "spawned")
        /\ UNCHANGED << repo, seen, disk, host >>
    BY <1>7 DEF Spawn
  <2>2. p \in Informed
    BY <1>1, <1>2 DEF Process, Informed, RunsWell, KnowsEnough, Landing
  <2>3. RInv' /\ UNCHANGED vars
    BY <1>2, <1>3, <1>5, <2>1, <2>2, OnGit DEF repo, disk, vars
  <2> QED
    BY <1>2, <1>5, <2>1, <2>3, RowsKeep DEF Inv, SameUpdates
<1>8. CASE SpawnFails(r)
  <2>1. CASE ClearsClaim(r)
    <3>1. Next
      BY <1>1, <1>2, <2>1, LeaseStepOf DEF ClearsClaim
    <3>2. RInv' /\ live' = live
      BY <1>2, <1>5, <1>8, <3>1, Writing DEF SpawnFails, Writes
    <3> QED
      BY <1>2, <1>5, <1>8, <3>1, <3>2, RowsKeep DEF Inv, SameUpdates, SpawnFails
  <2>2. CASE UNCHANGED repo
    <3>1. RInv' /\ UNCHANGED vars /\ live' = live
      BY <1>2, <1>5, <1>8, <2>2, Reading DEF SpawnFails, Reads, Writes
    <3> QED
      BY <1>2, <1>5, <1>8, <3>1, RowsKeep DEF Inv, SameUpdates, SpawnFails
  <2> QED
    BY <1>8, <2>1, <2>2 DEF SpawnFails
<1>9. CASE Bind(r)
  <2>1. /\ BindGitProcessGroup(g, OwnerOf(r), e, r)
        /\ live' = (live \ Mine(r)) \cup {[p EXCEPT !.bound = TRUE] : p \in Mine(r)}
        /\ Reaches(r, "bound") /\ UNCHANGED << seen, disk, host >>
    BY <1>9 DEF Bind
  <2>2. Next
    BY <1>1, <1>2, <2>1, LeaseStepOf
  <2>3. \A p \in live' : p \in Informed /\ \E m \in live : m.op = p.op
    <3>1. \A m \in Mine(r) : LET p == [m EXCEPT !.bound = TRUE] IN
                                p \in Informed /\ p.op = m.op
      BY <1>3, <1>4 DEF Informed, Process
    <3> QED
      BY <1>3, <1>4, <2>1, <3>1
  <2>4. RInv'
    BY <1>2, <1>3, <1>5, <2>1, <2>2, <2>3, OnGit DEF disk
  <2> QED
    BY <1>2, <1>5, <2>1, <2>2, <2>3, <2>4, RowsKeep DEF Inv, SameUpdates
<1>10. CASE BindFails(r)
  <2>1. /\ live' = live \ Mine(r) /\ End(r)
        /\ UNCHANGED << repo, seen, tip, origin, under, host >>
    BY <1>10 DEF BindFails
  <2>2. ws' \in [Place -> Workspace]
    BY <1>3, <1>4, <1>10, KilledTrees DEF BindFails
  <2>3. RInv' /\ UNCHANGED vars
    BY <1>2, <1>3, <1>5, <2>1, <2>2, OnGit DEF repo, vars
  <2> QED
    BY <1>2, <1>5, <2>1, <2>3, RowsKeep DEF Inv, SameUpdates
<1>11. CASE Exited(r)
  <2>1. Reaches(r, "exited") /\ live' = live /\ Reads
    BY <1>11 DEF Exited, Reads
  <2>2. RInv' /\ UNCHANGED vars
    BY <1>2, <1>5, <2>1, Reading
  <2> QED
    BY <1>2, <1>5, <2>1, <2>2, RowsKeep DEF Inv, SameUpdates
<1>12. CASE TimedOut(r)
  <2>1. PICK p \in Mine(r) :
          \/ /\ live' = live \ Mine(r)
             /\ Killed(p)
             /\ run' = [run EXCEPT ![r].stage = "exited", ![r].out = "killed"]
          \/ /\ live' = (live \ Mine(r)) \cup {[q EXCEPT !.orphan = TRUE] : q \in Mine(r)}
             /\ End(r) /\ UNCHANGED ws
    BY <1>12 DEF TimedOut
  <2>2. p \in live /\ p \in Informed
    BY <1>3, <1>4
  <2>3. ws' \in [Place -> Workspace]
    BY <1>3, <2>1, <2>2, KilledTrees
  <2>4. \A q \in live' : q \in Informed /\ \E m \in live : m.op = q.op
    <3>1. \A m \in Mine(r) : LET q == [m EXCEPT !.orphan = TRUE] IN
                                q \in Informed /\ q.op = m.op
      BY <1>3, <1>4 DEF Process, Informed
    <3>2. \A q \in live' : \/ q \in live
                            \/ \E m \in Mine(r) : q = [m EXCEPT !.orphan = TRUE]
      BY <2>1
    <3> QED
      BY <1>3, <1>4, <3>1, <3>2
  <2>5. RunsWell' /\ SameUpdates
    <3>1. CASE End(r)
      BY <1>5, <3>1
    <3>2. CASE run' = [run EXCEPT ![r].stage = "exited", ![r].out = "killed"]
      BY <1>2, <3>2, Staging DEF SameUpdates, RunsWell, Run
    <3> QED
      BY <2>1, <3>1, <3>2
  <2>6. RInv' /\ UNCHANGED vars
    BY <1>2, <1>12, <2>3, <2>4, <2>5, OnGit DEF TimedOut, repo, vars
  <2> QED
    BY <1>2, <2>4, <2>5, <2>6, RowsKeep DEF Inv, SameUpdates
<1>13. CASE Clear(r)
  <2>1. CASE ClearsClaim(r) /\ Goes(r)
    <3>1. Next
      BY <1>1, <1>2, <2>1, LeaseStepOf DEF ClearsClaim
    <3>2. PICK p \in Command \cup Statement :
            /\ p \in Landing => run[r].result # Nil
            /\ p # "complete"
            /\ Go(r, p) \/ Fail(r) \/ End(r)
      <4>1. /\ After[run[r].pc] \in Command \cup Statement
            /\ After[run[r].pc] \in Landing => run[r].result # Nil
            /\ After[run[r].pc] # "complete"
        BY <1>1, <1>2, AfterCommands DEF RunsWell, KnowsEnough
      <4>2. "resolve" \in Statement \ Landing
        BY DEF Statement, Landing
      <4> QED
        BY <2>1, <4>1, <4>2 DEF Goes
    <3>3. RunsWell' /\ SameUpdates
      <4>1. Go(r, p) => SameUpdates
        BY <1>2 DEF Go, SameUpdates, RunsWell, Run
      <4> QED
        BY <1>1, <1>2, <1>5, <3>2, <4>1, Going
    <3>4. RInv' /\ live' = live
      BY <1>2, <1>13, <3>1, <3>3, Writing DEF Clear, Writes
    <3> QED
      BY <1>2, <3>1, <3>3, <3>4, RowsKeep DEF Inv, SameUpdates
  <2>2. CASE End(r) /\ UNCHANGED repo
    <3>1. RInv' /\ UNCHANGED vars /\ live' = live
      BY <1>2, <1>5, <1>13, <2>2, Reading DEF Clear, Reads, Writes
    <3> QED
      BY <1>2, <1>5, <2>2, <3>1, RowsKeep DEF Inv, SameUpdates
  <2> QED
    BY <1>13, <2>1, <2>2 DEF Clear
<1> QED
  BY <1>6, <1>7, <1>8, <1>9, <1>10, <1>11, <1>12, <1>13 DEF CommandStep

-----------------------------------------------------------------------------
(* Git processes, crashes and recovery                                       *)

\* A step that leaves the tables alone.
LEMMA Beside ==
  ASSUME Inv, UNCHANGED vars, RunsWell', SameUpdates,
         live' \subseteq Informed, \A p \in live' : \E m \in live : m.op = p.op,
         RunsTypeOK'
  PROVE  Inv' /\ [Next]_vars
<1>1. RInv'
  BY NextIInv DEF Inv, RInv
<1> QED
  BY <1>1, RowsKeep DEF Inv, SameUpdates

LEMMA TreesStay ==
  ASSUME Inv, NEW p \in live, NEW tree \in {"none", "clean", "conflicts", "staged", "dirty"},
         NEW head \in Sha \cup {Nil}, Sets(p, tree, head)
  PROVE  ws' \in [Place -> Workspace]
<1>1. ws \in [Place -> Workspace] /\ PlaceOf(p.op) \in Place
  BY PlacesOfGit DEF Inv, RInv, RunsTypeOK
<1> QED
  BY <1>1 DEF Sets, Workspace

LEMMA CommitsStay ==
  ASSUME Inv, NEW p \in live, Commits(p)
  PROVE  under' \in [Sha \cup {Nil} -> SUBSET Sha] /\ ws' \in [Place -> Workspace]
<1> DEFINE h == ws[PlaceOf(p.op)].head
<1>1. PICK s \in Sha \ Outside :
        /\ under' = [under EXCEPT ![s] = under[h] \cup {s}]
        /\ Sets(p, "clean", s)
  BY DEF Commits
<1>2. h \in Sha \cup {Nil} /\ under \in [Sha \cup {Nil} -> SUBSET Sha]
  BY PlacesOfGit DEF Inv, RInv, RunsTypeOK, Workspace
<1>3. under[h] \cup {s} \subseteq Sha
  BY <1>2
<1> QED
  BY <1>1, <1>2, <1>3, TreesStay

LEMMA ExitKeeps ==
  ASSUME Inv, NEW p \in live, Exit(p)
  PROVE  Inv' /\ [Next]_vars
<1> DEFINE w == ws[PlaceOf(p.op)]
           g == op[p.op].target
           Keeps == /\ tip' \in [Target -> Sha] /\ origin' \in [Target -> Sha]
                    /\ under' \in [Sha \cup {Nil} -> SUBSET Sha]
                    /\ ws' \in [Place -> Workspace]
<1>1. RInv /\ RunsTypeOK /\ RunsWell /\ live \subseteq Informed /\ UNCHANGED vars
  BY DEF Inv, RInv, Exit, repo, vars
<1>2. /\ p \in Process /\ g \in Target /\ p.sha \in Sha \cup {Nil}
      /\ p.cmd = "land" => p.sha # Nil
      /\ w \in Workspace /\ w.head \in Sha \cup {Nil}
      /\ seen[p.op] \in Sha \cup {Nil}
  BY <1>1, PlacesOfGit DEF RunsTypeOK, Informed, Process, Workspace
<1>3. Succeeds(p) => Keeps
  <2>1. p.cmd = "add" /\ Sets(p, "clean", seen[p.op]) /\ UNCHANGED << tip, origin, under >>
          => Keeps
    BY <1>1, <1>2, TreesStay DEF RunsTypeOK
  <2>2. Commits(p) /\ UNCHANGED << tip, origin >> => Keeps
    BY <1>1, CommitsStay DEF RunsTypeOK
  <2>3. Sets(p, "staged", w.head) /\ UNCHANGED << tip, origin, under >> => Keeps
    BY <1>1, <1>2, TreesStay DEF RunsTypeOK
  <2>4. p.cmd = "land" /\ tip' = [tip EXCEPT ![g] = p.sha] /\ UNCHANGED << origin, under, ws >>
          => Keeps
    BY <1>1, <1>2 DEF RunsTypeOK
  <2>5. ws' = [ws EXCEPT ![PlaceOf(p.op)] = NoTree] /\ UNCHANGED << tip, origin, under >>
          => Keeps
    BY <1>1, PlacesOfGit DEF RunsTypeOK, NoTree, Workspace
  <2>6. origin' = [origin EXCEPT ![g] = tip[g]] /\ UNCHANGED << tip, under, ws >> => Keeps
    BY <1>1, <1>2 DEF RunsTypeOK
  <2> QED
    BY <2>1, <2>2, <2>3, <2>4, <2>5, <2>6 DEF Succeeds
<1>4. Fails(p) => Keeps
  <2>1. \A t \in {"conflicts", "staged"} :
          Sets(p, t, w.head) /\ UNCHANGED << tip, origin, under >> => Keeps
    BY <1>1, <1>2, TreesStay DEF RunsTypeOK
  <2>2. UNCHANGED disk => Keeps
    BY <1>1 DEF RunsTypeOK, disk
  <2> QED
    BY <2>1, <2>2 DEF Fails
<1>5. RunsWell' /\ SameUpdates
  <2>1. PICK out \in {"ok", "fail"} :
          run' = [r \in Runner |-> IF p \in Mine(r) THEN [run[r] EXCEPT !.out = out]
                                                  ELSE run[r]]
    BY DEF Exit
  <2>2. ASSUME NEW r \in Runner
        PROVE  /\ run'[r] \in Run \cup {Idle} /\ KnowsEnough(run'[r])
               /\ run'[r] = Idle \/ (run[r] # Idle /\ run'[r].op = run[r].op)
    <3>1. CASE run[r] = Idle
      <4>1. [Idle EXCEPT !.out = out] = Idle
        BY DEF Idle
      <4> QED
        BY <1>1, <2>1, <3>1, <4>1 DEF RunsWell
    <3>2. CASE run[r] \in Run
      <4> DEFINE k == [run[r] EXCEPT !.out = out]
      <4>1. /\ k \in Run /\ k.pc = run[r].pc /\ k.result = run[r].result
            /\ k.claim = run[r].claim /\ k.op = run[r].op
        BY <3>2 DEF Run
      <4>2. run[r] # Idle
        BY <3>2, CommandNames DEF Run, Idle, Statement
      <4> QED
        BY <1>1, <2>1, <3>2, <4>1, <4>2 DEF RunsWell, KnowsEnough
    <3> QED
      BY <1>1, <3>1, <3>2 DEF RunsWell
  <2> QED
    BY <2>1, <2>2 DEF RunsWell, SameUpdates
<1>6. live' = live \ {p}
  BY DEF Exit
<1>7. RunsTypeOK'
  <2>1. IInv'
    BY <1>1, NextIInv DEF RInv
  <2>2. Keeps
    BY <1>3, <1>4 DEF Exit
  <2> QED
    BY <1>1, <1>5, <1>6, <2>1, <2>2 DEF Exit, RunsTypeOK, IInv, RunsWell, host
<1> QED
  BY <1>1, <1>5, <1>6, <1>7, Beside

LEMMA CrashKeeps ==
  ASSUME Inv, Crash \/ Restart \/ Ready
  PROVE  Inv' /\ [Next]_vars
<1>1. RInv /\ RunsTypeOK /\ RunsWell /\ live \subseteq Informed /\ UNCHANGED vars
  BY DEF Inv, RInv, Crash, Restart, Ready, repo, vars
<1>2. IInv'
  BY <1>1, NextIInv DEF RInv
<1>3. CASE Crash
  <2>1. /\ live' = {[p EXCEPT !.orphan = TRUE] : p \in live}
        /\ run' = [r \in Runner |-> Idle]
    BY <1>3 DEF Crash
  <2>2. \A m \in live : LET p == [m EXCEPT !.orphan = TRUE] IN p \in Informed /\ p.op = m.op
    BY <1>1 DEF Informed, Process
  <2>3. live' \subseteq Informed /\ \A p \in live' : \E m \in live : m.op = p.op
    BY <2>1, <2>2
  <2>4. RunsWell' /\ SameUpdates
    BY <2>1 DEF RunsWell, SameUpdates, KnowsEnough, Idle, Landing
  <2>5. crashes' \in 0 .. MaxCrashes
    BY <1>1, <1>3, CrashAssumption DEF RunsTypeOK, Crash
  <2>6. RunsTypeOK'
    BY <1>1, <1>2, <1>3, <2>3, <2>4, <2>5
    DEF RunsTypeOK, IInv, RunsWell, Informed, Crash, disk
  <2> QED
    BY <1>1, <2>3, <2>4, <2>6, Beside
<1>4. CASE Restart \/ Ready
  <2>1. live' = live /\ run' = run
    BY <1>4 DEF Restart, Ready
  <2>2. RunsTypeOK'
    BY <1>1, <1>2, <1>4, <2>1 DEF RunsTypeOK, IInv, Restart, Ready, disk
  <2> QED
    BY <1>1, <2>1, <2>2, Beside DEF RunsWell, SameUpdates
<1> QED
  BY <1>3, <1>4

LEMMA RecoveryKeeps ==
  ASSUME Inv, NEW g \in Target, TerminateGroup(g) \/ RecoverClaim(g) \/ LeaveClaim(g)
  PROVE  Inv' /\ [Next]_vars
<1>1. RInv /\ IInv /\ RunsTypeOK /\ RunsWell /\ live \subseteq Informed
  BY DEF Inv, RInv
<1>2. run' = run
  BY DEF TerminateGroup, RecoverClaim, LeaveClaim, host
<1>3. RunsWell' /\ SameUpdates
  BY <1>1, <1>2 DEF RunsWell, SameUpdates
<1>4. CASE TerminateGroup(g)
  <2>1. PICK p \in GroupOf(g) : live' = live \ {p} /\ Killed(p)
    BY <1>4 DEF TerminateGroup
  <2>2. UNCHANGED vars /\ p \in live
    BY <1>4 DEF TerminateGroup, GroupOf, repo, vars
  <2>3. IInv' /\ ws' \in [Place -> Workspace]
    BY <1>1, <2>1, <2>2, NextIInv, KilledTrees
  <2>4. RunsTypeOK'
    BY <1>1, <1>4, <2>1, <2>3 DEF RunsTypeOK, IInv, TerminateGroup, host
  <2> QED
    BY <1>1, <1>3, <2>1, <2>2, <2>4, Beside
<1>5. CASE LeaveClaim(g)
  <2>1. UNCHANGED vars /\ live' = live
    BY <1>5 DEF LeaveClaim, repo, vars
  <2>2. RunsTypeOK'
    BY <1>1, <1>2, <1>5, <2>1, NextIInv DEF RunsTypeOK, IInv, LeaveClaim, disk
  <2> QED
    BY <1>1, <1>3, <2>1, <2>2, Beside
<1>6. CASE RecoverClaim(g)
  <2> DEFINE l == lease[g]
  <2>1. /\ CompleteGitMutation(g, l.owner, l.epoch, l.claim) /\ l.claim # Nil
        /\ live' = live
    BY <1>6 DEF RecoverClaim, Clearable, Quiet
  <2>2. l.owner \in Owner /\ l.epoch \in Epoch /\ l.claim \in Claim
    BY <1>1, <2>1 DEF IInv, TypeOK, LeaseInUse, Lease
  <2>3. Next
    BY <2>1, <2>2 DEF LeaseStep, Next
  <2>4. IInv'
    BY <1>1, <2>3, NextIInv
  <2>5. RunsTypeOK'
    BY <1>1, <1>2, <1>6, <2>4 DEF RunsTypeOK, IInv, RecoverClaim, disk
  <2>6. RInv'
    BY <1>1, <1>3, <2>1, <2>4, <2>5 DEF RInv
  <2> QED
    BY <1>1, <1>3, <2>1, <2>3, <2>6, RowsKeep DEF Inv, SameUpdates
<1> QED
  BY <1>4, <1>5, <1>6

-----------------------------------------------------------------------------
(* The callers                                                               *)

\* A new run: the others go on with their updates, and its row is there.
LEMMA NewRun ==
  ASSUME Inv, [Next]_vars, NEW r \in Runner, NEW o \in Op, NEW e \in Epoch,
         NEW kind \in {"programmatic", "resolved", "publish", "resume"},
         NEW p \in Statement \ (Landing \cup {"complete"}),
         NEW s \in Sha \cup {Nil},
         Start(r, kind, p, o, e, s),
         op'[o] \in Operation,
         seen' \in [Op -> Sha \cup {Nil}],
         UNCHANGED << disk, live, host >>
  PROVE  Inv'
<1>1. RInv /\ IInv /\ RunsTypeOK /\ RunsWell /\ live \subseteq Informed
  BY DEF Inv, RInv
<1>2. RunsWell'
  BY <1>1, Starting
<1>3. IInv'
  BY <1>1, NextIInv
<1>4. RInv'
  BY <1>1, <1>2, <1>3 DEF RInv, RunsTypeOK, IInv, RunsWell, disk, host
<1>5. \A q \in Runner : \/ run[q] # Idle /\ run'[q].op = run[q].op
                        \/ run'[q] = Idle
                        \/ op'[run'[q].op] \in Operation
  BY <1>1 DEF Start, RunsWell
<1> QED
  BY <1>1, <1>4, <1>5, RowsKeep DEF Inv

\* A transaction of a caller that starts no run.
LEMMA SameRuns ==
  ASSUME Inv, Next, UNCHANGED << seen, disk, live, run, host >>
  PROVE  Inv'
<1>1. RInv /\ IInv /\ RunsTypeOK /\ RunsWell /\ live \subseteq Informed
  BY DEF Inv, RInv
<1>2. IInv'
  BY <1>1, NextIInv
<1>3. RInv'
  BY <1>1, <1>2 DEF RInv, RunsTypeOK, IInv, RunsWell, disk, host
<1> QED
  BY <1>1, <1>3, RowsKeep DEF Inv

LEMMA UpdateStarts ==
  ASSUME Inv, NEW r \in Runner, NEW o \in Op, NEW t \in Task, NEW g \in Target,
         NEW d \in Way, NEW k \in Continuation, StartUpdate(r, o, t, g, d, k)
  PROVE  Inv' /\ [Next]_vars
<1>1. IInv /\ RunsTypeOK
  BY DEF Inv, RInv
<1>2. Activate(o, t, g, d, k) /\ d \in Direction
  BY WayAssumption DEF StartUpdate
<1>3. Next
  BY <1>2 DEF Next
<1>4. NextEpoch(g) \in Epoch
  <2>1. lease[g].epoch \in Nat /\ lease[g].epoch + 1 <= MaxEpoch
    BY <1>1, <1>2, EpochAssumption DEF IInv, TypeOK, Lease, Epoch, Activate, NextEpoch
  <2> QED
    BY <2>1, EpochAssumption DEF NextEpoch, Epoch
<1>5. op'[o] \in Operation
  <2>1. TypeOK' /\ op'[o].phase = "programmatic"
    BY <1>1, <1>2, <1>3, NextIInv DEF IInv, TypeOK, Activate
  <2> QED
    BY <2>1 DEF TypeOK, Absent
<1>6. seen' \in [Op -> Sha \cup {Nil}]
  BY <1>1 DEF RunsTypeOK, StartUpdate
<1>7. /\ Start(r, "programmatic", "check", o, NextEpoch(g), Nil)
      /\ UNCHANGED << disk, live, host >>
  BY DEF StartUpdate
<1>8. "check" \in Statement \ (Landing \cup {"complete"})
  BY DEF Statement, Landing
<1> QED
  BY <1>3, <1>4, <1>5, <1>6, <1>7, <1>8, NewRun

LEMMA RunsStart ==
  ASSUME Inv, NEW r \in Runner, NEW o \in Op, ResolverCompletes(r, o) \/ Reconcile(r, o)
  PROVE  Inv' /\ [Next]_vars
<1>1. IInv /\ RunsTypeOK
  BY DEF Inv, RInv
<1>2. op[o].phase # "none"
  BY DEF ResolverCompletes, Bound, Reconcile, Unsettled, Open, Working
<1>3. op[o] \in Operation /\ op[o].epoch \in Epoch /\ op[o].result \in Sha \cup {Nil}
  BY <1>1, <1>2, OpenRows DEF IInv, Operation
<1>4. \E kind \in {"resolved", "publish", "resume"}, p \in {"gather", "publish", "resume"} :
        Start(r, kind, p, o, op[o].epoch, op[o].result)
  BY DEF ResolverCompletes, Reconcile
<1>5. Reads
  BY DEF ResolverCompletes, Reconcile
<1>6. \A p \in {"gather", "publish", "resume"} : p \in Statement \ (Landing \cup {"complete"})
  BY DEF Statement, Landing
<1>7. /\ UNCHANGED vars /\ op' = op
      /\ seen' \in [Op -> Sha \cup {Nil}] /\ UNCHANGED << disk, live, host >>
  BY <1>1, <1>5 DEF Reads, repo, vars, RunsTypeOK
<1> QED
  BY <1>3, <1>4, <1>6, <1>7, NewRun

LEMMA LeasesOfUpdates ==
  ASSUME Inv, NEW o \in Op, op[o].phase # "none",
         Guarded(o, LeaseOf(o).owner, LeaseOf(o).epoch)
  PROVE  LeaseOf(o).owner \in Owner /\ LeaseOf(o).epoch \in Epoch
<1>1. IInv
  BY DEF Inv, RInv
<1>2. op[o].target \in Target
  BY <1>1, OpenRows DEF IInv, Operation
<1> QED
  BY <1>1, <1>2 DEF IInv, TypeOK, LeaseInUse, Lease, LeaseOf, Guarded, Current

LEMMA RetryStarts ==
  ASSUME Inv, NEW r \in Runner, NEW o \in Op, NEW n \in Op, Retry(r, o, n)
  PROVE  Inv' /\ [Next]_vars
<1> DEFINE w == LeaseOf(o).owner
           e == LeaseOf(o).epoch
<1>1. IInv /\ RunsTypeOK
  BY DEF Inv, RInv
<1>2. RetryOperation(o, n, w, e) /\ op[o].phase = "blocked"
  BY DEF Retry, RetryOperation
<1>3. w \in Owner /\ e \in Epoch
  BY <1>2, LeasesOfUpdates DEF RetryOperation
<1>4. Next
  BY <1>2, <1>3, RepositoryStep DEF OperationStep
<1>5. op[o] \in Operation /\ op[o].epoch = e /\ e + 1 <= MaxEpoch
  <2>1. op[o] \in Operation
    BY <1>1, <1>2, OpenRows DEF IInv
  <2> QED
    BY <1>2, <2>1 DEF RetryOperation, Guarded, Current, NextEpoch, LeaseOf
<1>6. op[o].epoch + 1 \in Epoch
  BY <1>3, <1>5, EpochAssumption DEF Epoch
<1>7. op'[n] \in Operation
  <2>1. TypeOK' /\ op'[n].phase # "none"
    BY <1>1, <1>2, <1>4, NextIInv DEF IInv, TypeOK, RetryOperation, Operation
  <2> QED
    BY <2>1 DEF TypeOK, Absent
<1>8. seen' \in [Op -> Sha \cup {Nil}] /\ UNCHANGED << disk, live, host >>
  BY <1>1 DEF RunsTypeOK, Retry
<1>9. CASE run' = run
  <2>1. RInv'
    <3>1. IInv'
      BY <1>1, <1>4, NextIInv
    <3> QED
      BY <1>8, <1>9, <3>1 DEF Inv, RInv, RunsTypeOK, IInv, RunsWell, disk, host
  <2> QED
    BY <1>4, <1>8, <1>9, <2>1, RowsKeep DEF Inv, RInv, RunsWell
<1>10. CASE Start(r, "programmatic", "check", n, op[o].epoch + 1, Nil)
  <2>1. "check" \in Statement \ (Landing \cup {"complete"})
    BY DEF Statement, Landing
  <2> QED
    BY <1>4, <1>6, <1>7, <1>8, <1>10, <2>1, NewRun
<1> QED
  BY <1>9, <1>10 DEF Retry

LEMMA UpdatesKeep ==
  ASSUME Inv, NEW o \in Op, UpdateStep(o)
  PROVE  Inv' /\ [Next]_vars
<1> DEFINE w == LeaseOf(o).owner
           e == LeaseOf(o).epoch
<1>1. UNCHANGED << seen, disk, live, run, host >>
  BY DEF UpdateStep, StartResolver, ResolverEnds, ResolverReports, Pause, ResumeTask, StopTask
<1>2. CASE StartResolver(o) \/ ResolverEnds(o)
  <2>1. Next
    BY <1>2 DEF StartResolver, ResolverEnds, Next
  <2> QED
    BY <1>1, <2>1, SameRuns
<1>3. CASE ResolverReports(o)
  <2>1. PICK b \in BOOLEAN : BlockOperation(o, << "branch", o >>, op[o].epoch, b)
    BY <1>3 DEF ResolverReports
  <2>2. op[o] \in Operation
    BY <2>1, OpenRows DEF Inv, RInv, IInv, BlockOperation, Working
  <2>3. << "branch", o >> \in Owner /\ op[o].epoch \in Epoch
    BY <2>2, OwnersAreOwners DEF OwnersOf, Operation
  <2>4. Next
    BY <2>1, <2>3, RepositoryStep DEF OperationStep
  <2> QED
    BY <1>1, <2>4, SameRuns
<1>4. CASE Pause(o) \/ ResumeTask(o) \/ StopTask(o)
  <2>1. /\ PauseOperation(o, w, e) \/ ResumeOperation(o, w, e) \/ StopOperation(o, w, e)
        /\ op[o].phase # "none" /\ Guarded(o, w, e)
    BY <1>4 DEF Pause, ResumeTask, StopTask, PauseOperation, ResumeOperation, StopOperation,
                Unsettled, Open, Working
  <2>2. Next
    BY <2>1, LeasesOfUpdates, RepositoryStep DEF OperationStep
  <2> QED
    BY <1>1, <2>2, SameRuns
<1> QED
  BY <1>2, <1>3, <1>4 DEF UpdateStep

LEMMA OthersKeep ==
  ASSUME Inv, (\E g \in Target : OthersCommit(g)) \/ (\E t \in Task : TaskGoesOn(t))
  PROVE  Inv' /\ [Next]_vars
<1>1. RInv /\ IInv /\ RunsTypeOK /\ RunsWell /\ live \subseteq Informed
  BY DEF Inv, RInv
<1>2. ASSUME NEW t \in Task, TaskGoesOn(t)
      PROVE  Inv' /\ Next
  <2>1. Next /\ UNCHANGED << seen, disk, live, run, host >>
    BY <1>2 DEF TaskGoesOn, Next
  <2> QED
    BY <2>1, SameRuns
<1>3. ASSUME NEW g \in Target, OthersCommit(g)
      PROVE  Inv' /\ UNCHANGED vars
  <2>1. PICK s \in Outside : /\ under' = [under EXCEPT ![s] = under[tip[g]] \cup {s}]
                             /\ tip' = [tip EXCEPT ![g] = s]
    BY <1>3 DEF OthersCommit
  <2>2. s \in Sha /\ under[tip[g]] \cup {s} \subseteq Sha
    BY <1>1, ShaAssumption DEF RunsTypeOK
  <2>3. UNCHANGED vars /\ live' = live /\ run' = run
    BY <1>3 DEF OthersCommit, repo, vars
  <2>4. RunsTypeOK'
    BY <1>1, <1>3, <2>1, <2>2, <2>3, NextIInv DEF RunsTypeOK, IInv, OthersCommit, host
  <2> QED
    BY <1>1, <2>3, <2>4, Beside DEF RunsWell, SameUpdates
<1> QED
  BY <1>2, <1>3

-----------------------------------------------------------------------------
LEMMA RunsInitInv == RunsInit => Inv
<1> SUFFICES ASSUME RunsInit PROVE Inv
  OBVIOUS
<1>1. IInv
  BY InitIInv DEF RunsInit
<1>2. RunsTypeOK
  BY <1>1, ShaAssumption, CrashAssumption DEF RunsInit, RunsTypeOK, IInv, Workspace, NoTree
<1>3. RunsWell
  BY DEF RunsInit, RunsWell, KnowsEnough, Idle, Landing
<1> QED
  BY <1>1, <1>2, <1>3 DEF RunsInit, Inv, RInv, RowsKept

LEMMA RunsNextInv ==
  ASSUME Inv, [RunsNext]_rvars
  PROVE  Inv' /\ [Next]_vars
<1>1. CASE UNCHANGED rvars
  <2>1. UNCHANGED vars /\ UNCHANGED << seen, disk, live, run, host >>
    BY <1>1 DEF rvars, repo, vars
  <2>2. IInv'
    BY <2>1, NextIInv DEF Inv, RInv
  <2> QED
    BY <2>1, <2>2 DEF Inv, RInv, RunsTypeOK, IInv, RunsWell, RowsKept, disk, host, vars
<1>2. CASE \E r \in Runner : Step(r) \/ CommandStep(r) \/ CallerStep(r)
  BY <1>2, StatementsKeep, CommandsKeep, UpdateStarts, RunsStart, RetryStarts
  DEF Inv, CallerStep
<1>3. CASE \E o \in Op : UpdateStep(o)
  BY <1>3, UpdatesKeep
<1>4. CASE \E p \in live : Exit(p)
  BY <1>4, ExitKeeps
<1>5. CASE Crash \/ Restart \/ Ready
  BY <1>5, CrashKeeps
<1>6. CASE \E g \in Target : TerminateGroup(g) \/ RecoverClaim(g) \/ LeaveClaim(g)
  BY <1>6, RecoveryKeeps
<1>7. CASE (\E g \in Target : OthersCommit(g)) \/ (\E t \in Task : TaskGoesOn(t))
  BY <1>7, OthersKeep
<1> QED
  BY <1>1, <1>2, <1>3, <1>4, <1>5, <1>6, <1>7 DEF RunsNext

LEMMA RunsAreConsistent == RunsSpec => []Inv /\ [][Next]_vars
<1>1. RunsSpec => []Inv
  BY RunsInitInv, RunsNextInv, PTL DEF RunsSpec
<1>2. Inv /\ [RunsNext]_rvars => [Next]_vars
  BY RunsNextInv
<1> QED
  BY <1>1, <1>2, PTL DEF RunsSpec

\* Runs, Git processes, workspaces and branches keep their types, with any
\* number of runs and crashes.
THEOREM RunsHaveTheirTypes == RunsSpec => []RunsTypeOK
<1>1. Inv => RunsTypeOK
  BY DEF Inv, RInv
<1> QED
  BY <1>1, RunsAreConsistent, PTL

\* Whatever the executor, its callers, Git and recovery do to the three tables
\* is a sequence of transactions of the repository, each of them with an owner
\* and an epoch that the statement checks.
THEOREM RunsImplementRepository == RunsSpec => RunsUseRepository
<1>1. RunsInit => Init
  BY DEF RunsInit
<1> QED
  BY <1>1, RunsAreConsistent, PTL DEF RunsSpec, RunsUseRepository, Spec

\* So the promises of the repository hold while updates are carried out.
THEOREM RunsKeepThePromises ==
  RunsSpec => [](UpdateHoldsTarget /\ NoLeaseLeftBehind /\ OneUpdatePerTask /\ TaskFollowsUpdate)
<1>1. Inv => UpdateHoldsTarget /\ NoLeaseLeftBehind /\ OneUpdatePerTask /\ TaskFollowsUpdate
  BY DEF Inv, RInv, IInv
<1> QED
  BY <1>1, RunsAreConsistent, PTL

-----------------------------------------------------------------------------
(* A Git process whose group is known keeps its claim                        *)

\* A process that is no orphan is the command its run waits for.
GitIsWatched ==
  \A p \in live : ~p.orphan =>
    LET k == run[p.claim] IN
    k # Idle /\ k.pc = p.cmd /\ k.op = p.op /\ k.stage \in {"spawned", "bound"}

\* A command that has the claim shares the branch with no other known process.
Begun == { "begun", "spawned", "bound", "exited" }
Commanding(r) == run[r].pc \in Command /\ run[r].stage \in Begun
ClaimIsSole ==
  \A r \in Runner : Commanding(r) /\ HasClaim(r) =>
    \A p \in live : p.bound /\ op[p.op].target = TargetOf(r) => p.claim = r /\ ~p.orphan

StatementsAsk == \A r \in Runner : run[r].pc \in Statement => run[r].stage = "ask"

KInv == KnownGitIsClaimed /\ GitIsWatched /\ ClaimIsSole /\ StatementsAsk

\* Transactions other than those of a Git command leave the claims alone.
Stays(g) == IF lease[g].claim = Nil THEN lease'[g].claim = Nil
                                    ELSE lease'[g] = lease[g]
ClaimsStay == \A g \in Target : Stays(g)

\* No process known to the repository is at work on the target.
Vacant(g) == \A p \in live : p.bound => op[p.op].target # g

LEMMA UpdatesLeaveClaims ==
  ASSUME IInv, NEW o \in Op, NEW w, NEW e, OperationStep(o, w, e)
  PROVE  ClaimsStay
<1>1. lease \in [Target -> Lease]
  BY DEF IInv, TypeOK
<1>2. CASE \E c \in Claim : CompleteContinuation(o, w, e, c)
  BY <1>1, <1>2 DEF CompleteContinuation, FreeAll, Quiet, ClaimsStay, Stays, Lease
<1>3. CASE TransferOperationLease(o, w, e)
  BY <1>1, <1>3 DEF TransferOperationLease, Guarded, Quiet, ClaimsStay, Stays, Lease
<1>4. CASE StopOperation(o, w, e)
  BY <1>1, <1>4 DEF StopOperation, Guarded, Quiet, ClaimsStay, Stays, Lease
<1>5. CASE \E n \in Op : RetryOperation(o, n, w, e)
  BY <1>1, <1>5 DEF RetryOperation, Guarded, Quiet, ClaimsStay, Stays, Lease
<1>6. CASE UNCHANGED lease
  BY <1>6 DEF ClaimsStay, Stays
<1> QED
  BY <1>2, <1>3, <1>4, <1>5, <1>6
  DEF OperationStep, CheckpointResult, SettleProgrammatic, BlockOperation, MarkResolving,
      PauseOperation, ResumeOperation

LEMMA ActivationLeavesClaims ==
  ASSUME IInv, NEW o, NEW t, NEW g \in Target, NEW d, NEW k, Activate(o, t, g, d, k)
  PROVE  ClaimsStay
BY DEF IInv, TypeOK, LeaseInUse, Activate, Grant, ClaimsStay, Stays, Lease

LEMMA ClaimsHold ==
  ASSUME Inv, KInv, [Next]_vars, Inv', GitIsWatched', StatementsAsk',
         \A g \in Target : Stays(g) \/ Vacant(g),
         \A p \in live' : p.bound =>
           \E m \in live : /\ m.bound /\ m.op = p.op /\ m.claim = p.claim
                           /\ p.orphan => m.orphan \/ run'[p.claim] = Idle,
         \A r \in Runner : Commanding(r)' =>
           /\ run[r].pc \in Command /\ (Commanding(r) \/ Vacant(TargetOf(r)))
           /\ run'[r].op = run[r].op /\ run'[r].kind = run[r].kind
           /\ run'[r].epoch = run[r].epoch
  PROVE  KInv'
<1>1. IInv /\ lease \in [Target -> Lease] /\ live \subseteq Process
  BY DEF Inv, RInv, RunsTypeOK, IInv, TypeOK
<1>2. ASSUME NEW m \in live
      PROVE  /\ m.op \in Op /\ m.claim # Nil /\ op'[m.op].target = op[m.op].target
             /\ op[m.op].target \in Target
  <2>1. m.op \in Op /\ m.claim \in Runner /\ op[m.op] \in Operation
    BY <1>1 DEF Process, Inv, RowsKept
  <2> QED
    BY <1>1, <2>1, RowsStay, RunnerAssumption, NilAssumption DEF Operation
<1>3. KnownGitIsClaimed'
  <2> SUFFICES ASSUME NEW p \in live', p.bound
               PROVE  LET l == lease'[op'[p.op].target] IN l.claim = p.claim /\ l.group
    BY DEF KnownGitIsClaimed
  <2>1. PICK m \in live : m.bound /\ m.op = p.op /\ m.claim = p.claim
    OBVIOUS
  <2>2. lease[op[m.op].target].claim = m.claim /\ lease[op[m.op].target].group
    BY <2>1 DEF KInv, KnownGitIsClaimed
  <2>3. ~Vacant(op[m.op].target)
    BY <2>1 DEF Vacant
  <2> QED
    BY <1>2, <2>1, <2>2, <2>3 DEF Stays
<1>4. ClaimIsSole'
  <2> SUFFICES ASSUME NEW r \in Runner, Commanding(r)', HasClaim(r)',
                      NEW p \in live', p.bound, op'[p.op].target = TargetOf(r)'
               PROVE  p.claim = r /\ ~p.orphan
    BY DEF ClaimIsSole
  <2>1. PICK m \in live : /\ m.bound /\ m.op = p.op /\ m.claim = p.claim
                          /\ p.orphan => m.orphan \/ run'[p.claim] = Idle
    OBVIOUS
  <2>2. run[r].pc \in Command
    OBVIOUS
  <2>3. TargetOf(r)' = TargetOf(r) /\ TargetOf(r) \in Target /\ OwnerOf(r)' = OwnerOf(r)
    <3>1. run[r].op \in Op /\ op[run[r].op] \in Operation
      BY <2>2, CommandRuns, TargetsOfRuns DEF Inv, RowsKept
    <3> QED
      BY <1>1, <3>1, RowsStay DEF TargetOf, OwnerOf, Operation
  <2>4. r # Nil
    BY RunnerAssumption, NilAssumption
  <2>5. HasClaim(r) /\ Commanding(r)
    <3>1. ~Vacant(TargetOf(r))
      BY <1>2, <2>1, <2>3 DEF Vacant
    <3> QED
      BY <2>3, <2>4, <3>1 DEF HasClaim, Current, Stays
  <2>6. m.claim = r /\ ~m.orphan
    BY <1>2, <2>1, <2>2, <2>3, <2>5 DEF KInv, ClaimIsSole
  <2>7. run'[r] # Idle
    BY CommandNames DEF Commanding, Idle
  <2> QED
    BY <2>1, <2>6, <2>7
<1> QED
  BY <1>3, <1>4 DEF KInv

LEMMA NobodyElse ==
  ASSUME Inv, KInv, NEW r \in Runner, run[r].pc \in Statement \/ run[r].stage = "ask"
                                      \/ run[r].stage = "begun" \/ run[r] = Idle
  PROVE  Mine(r) = {}
<1>1. run[r].pc \in Statement => run[r].stage = "ask"
  BY DEF KInv, StatementsAsk
<1> QED
  BY <1>1 DEF KInv, GitIsWatched, Mine

\* A step of one run that ends it or begins its next statement or command.
LEMMA OneRunMoves ==
  ASSUME Inv, KInv, NEW r \in Runner, Inv', [Next]_vars,
         \A g \in Target : Stays(g) \/ Vacant(g),
         live' = live, Mine(r) = {},
         \A q \in Runner \ {r} : run'[q] = run[q],
         run'[r] = Idle \/ run'[r].stage = "ask"
  PROVE  KInv'
<1>1. \A p \in live : p.claim \in Runner /\ (~p.orphan => p.claim # r)
  BY DEF Mine, Inv, RInv, RunsTypeOK, Process
<1>2. GitIsWatched'
  BY <1>1 DEF KInv, GitIsWatched
<1>3. StatementsAsk'
  BY DEF KInv, StatementsAsk, Idle, Statement
<1>4. ~Commanding(r)'
  BY CommandNames DEF Commanding, Begun, Idle
<1>5. \A q \in Runner : Commanding(q)' =>
        /\ Commanding(q) /\ run'[q].op = run[q].op /\ run'[q].kind = run[q].kind
        /\ run'[q].epoch = run[q].epoch
  BY <1>4 DEF Commanding
<1> QED
  BY <1>2, <1>3, <1>5, ClaimsHold DEF Commanding

LEMMA StatementsLeaveClaims ==
  ASSUME Inv, KInv, NEW r \in Runner, Step(r)
  PROVE  ClaimsStay
<1>1. run[r].pc \in Statement
  BY DEF Step, Check, Look, Resolve, Block, Gather, Note, Tip, Tidy, Settle, ClaimNext,
         Complete, Publish, Transfer, Confirm, Resume, At, Statement
<1>2. /\ RunsWell /\ IInv /\ run[r] \in Run /\ run[r].op \in Op /\ run[r].stage = "ask"
      /\ run[r].claim \in Claim \cup {Nil}
  BY <1>1, AtWork DEF Inv, RInv, KInv, StatementsAsk
<1>3. UNCHANGED lease => ClaimsStay
  BY DEF ClaimsStay, Stays
<1>4. CASE Complete(r)
  <2>1. CASE Refused(r)
    BY <1>3, <2>1 DEF Refused, repo
  <2>2. CASE CompleteContinuation(run[r].op, OwnerOf(r), run[r].epoch, run[r].claim)
    <3>1. run[r].claim \in Claim
      BY <1>2, <1>4 DEF RunsWell, KnowsEnough, Complete, At
    <3> QED
      BY <1>2, <2>2, <3>1, UpdatesLeaveClaims DEF OperationStep
  <2> QED
    BY <1>4, <2>1, <2>2 DEF Complete
<1>5. CASE Transfer(r)
  <2>1. CASE Refused(r)
    BY <1>3, <2>1 DEF Refused, repo
  <2>2. CASE TransferOperationLease(run[r].op, << "branch", run[r].op >>, run[r].epoch)
    BY <1>2, <2>2, UpdatesLeaveClaims DEF OperationStep
  <2> QED
    BY <1>5, <2>1, <2>2 DEF Transfer
<1>6. Resolve(r) \/ Block(r) \/ Note(r) \/ Settle(r) \/ ClaimNext(r) => UNCHANGED lease
  BY DEF Resolve, Block, Note, Settle, ClaimNext, MarkResolving, BlockOperation,
         CheckpointResult, SettleProgrammatic, ClaimContinuation, Refused, repo
<1>7. \/ Check(r) \/ Look(r) \/ Gather(r) \/ Tip(r) \/ Tidy(r) \/ Publish(r)
      \/ Confirm(r) \/ Resume(r)
      => UNCHANGED lease
  BY DEF Check, Look, Gather, Tip, Tidy, Publish, Confirm, Resume, Reads, repo
<1> QED
  BY <1>3, <1>4, <1>5, <1>6, <1>7 DEF Step

LEMMA StatementsMove ==
  ASSUME Inv, KInv, NEW r \in Runner, Step(r)
  PROVE  KInv'
<1>1. run[r].pc \in Statement
  BY DEF Step, Check, Look, Resolve, Block, Gather, Note, Tip, Tidy, Settle, ClaimNext,
         Complete, Publish, Transfer, Confirm, Resume, At, Statement
<1>2. /\ RunsWell /\ IInv /\ run[r] \in Run /\ run[r].op \in Op /\ run[r].stage = "ask"
      /\ run[r].claim \in Claim \cup {Nil}
  BY <1>1, AtWork DEF Inv, RInv, KInv, StatementsAsk
<1>3. Inv' /\ [Next]_vars /\ live' = live
  BY StatementsKeep, StatementsKeepUpdate DEF Inv
<1>4. ClaimsStay
  BY StatementsLeaveClaims
<1>5. (\A q \in Runner \ {r} : run'[q] = run[q]) /\ (run'[r] = Idle \/ run'[r].stage = "ask")
  <2> DEFINE Moved == /\ \A q \in Runner \ {r} : run'[q] = run[q]
                      /\ run'[r] = Idle \/ run'[r].stage = "ask"
  <2>1. End(r) => Moved
    BY <1>2 DEF End, RunsWell
  <2>2. ASSUME NEW p, Go(r, p)
        PROVE  Moved
    BY <1>2, <2>2 DEF Go, RunsWell, Run
  <2>3. ASSUME NEW kind, NEW p, Taken(r, kind, p)
        PROVE  Moved
    BY <1>2, <2>3 DEF Taken, RunsWell
  <2>4. Note(r) \/ ClaimNext(r) \/ Transfer(r) => Moved
    BY <1>2, <2>1 DEF Note, ClaimNext, Transfer, Refused, RunsWell, Run
  <2>5. Check(r) \/ Look(r) \/ Tip(r) \/ Tidy(r) \/ Gather(r) \/ Confirm(r) => Moved
    BY <2>1, <2>2 DEF Check, Look, Tip, Tidy, Gather, Confirm, Fail
  <2>6. Resolve(r) \/ Block(r) \/ Settle(r) \/ Complete(r) => Moved
    BY <2>1, <2>2 DEF Resolve, Block, Settle, Complete, Refused
  <2>7. Publish(r) \/ Resume(r) => Moved
    BY <2>1, <2>3 DEF Publish, Resume
  <2> QED
    BY <2>4, <2>5, <2>6, <2>7 DEF Step
<1>6. Mine(r) = {}
  BY <1>1, NobodyElse
<1> QED
  BY <1>3, <1>4, <1>5, <1>6, OneRunMoves DEF ClaimsStay

\* The steps of a command change the record of its run alone.
OnlyRun(r) == \A q \in Runner \ {r} : run'[q] = run[q]

LEMMA Staged ==
  ASSUME RunsWell, NEW r \in Runner, run[r] \in Run,
         NEW s \in {"begun", "spawned", "bound", "exited"}, Reaches(r, s)
  PROVE  /\ OnlyRun(r)
         /\ run'[r].pc = run[r].pc /\ run'[r].op = run[r].op /\ run'[r].kind = run[r].kind
         /\ run'[r].epoch = run[r].epoch /\ run'[r].stage = s
BY DEF RunsWell, Run, Reaches, OnlyRun

LEMMA NoCommandNoAsk ==
  ASSUME KInv, NEW r \in Runner, OnlyRun(r), run'[r].pc \in Command
  PROVE  StatementsAsk'
BY CommandNames DEF KInv, StatementsAsk, OnlyRun, Statement

LEMMA OwnProcesses ==
  ASSUME Inv, KInv, NEW r \in Runner, NEW p \in live, p \in Mine(r) \/ (p.claim = r /\ ~p.orphan)
  PROVE  /\ p \in Mine(r) /\ p.op = run[r].op /\ op[p.op].target = TargetOf(r)
         /\ run[r].stage \in {"spawned", "bound"}
BY DEF Mine, KInv, GitIsWatched, TargetOf

\* With no process of its own at work, who has the claim has the branch.
LEMMA ClaimOfNone ==
  ASSUME Inv, KInv, NEW r \in Runner, Commanding(r), HasClaim(r), Mine(r) = {}
  PROVE  Vacant(TargetOf(r))
BY DEF KInv, ClaimIsSole, Vacant, Mine

LEMMA QuietIsVacant ==
  ASSUME Inv, KInv, NEW g \in Target, Quiet(g)
  PROVE  Vacant(g)
<1>1. \A p \in live : p.claim # Nil
  BY RunnerAssumption, NilAssumption DEF Inv, RInv, RunsTypeOK, Process
<1> QED
  BY <1>1 DEF KInv, KnownGitIsClaimed, Vacant, Quiet

\* A Git statement of a run touches the lease of its target alone.
LEMMA OneLease ==
  ASSUME Inv, NEW r \in Runner, run[r].pc \in Command,
         \/ BeginGitMutation(TargetOf(r), OwnerOf(r), run[r].epoch, r)
         \/ CompleteGitMutation(TargetOf(r), OwnerOf(r), run[r].epoch, r),
         Vacant(TargetOf(r))
  PROVE  \A g \in Target : Stays(g) \/ Vacant(g)
<1>1. \A g \in Target : g = TargetOf(r) \/ lease'[g] = lease[g]
  BY DEF BeginGitMutation, CompleteGitMutation, Inv, RInv, IInv, TypeOK
<1> QED
  BY <1>1 DEF Stays

LEMMA BeginMoves ==
  ASSUME Inv, KInv, NEW r \in Runner, Begin(r)
  PROVE  KInv'
<1> DEFINE g == TargetOf(r)
<1>1. run[r].pc \in Command /\ run[r].stage = "ask"
  BY DEF Begin, Commands
<1>2. Inv' /\ [Next]_vars
  BY CommandsKeep DEF CommandStep
<1>3. RunsWell /\ run[r] \in Run /\ Mine(r) = {} /\ g \in Target
  BY <1>1, CommandRuns, NobodyElse, TargetsOfRuns DEF Inv
<1>4. CASE Refused(r)
  <2>1. live' = live /\ ClaimsStay /\ OnlyRun(r) /\ run'[r] = Idle
    BY <1>3, <1>4 DEF Refused, End, RunsWell, OnlyRun, repo, ClaimsStay, Stays
  <2> QED
    BY <1>2, <1>3, <2>1, OneRunMoves DEF OnlyRun, ClaimsStay
<1>5. CASE BeginGitMutation(g, OwnerOf(r), run[r].epoch, r) /\ Reaches(r, "begun") /\ Writes
  <2>1. Vacant(g)
    BY <1>3, <1>5, QuietIsVacant DEF BeginGitMutation
  <2>2. live' = live
    BY <1>5 DEF Writes
  <2>3. /\ OnlyRun(r) /\ run'[r].pc = run[r].pc /\ run'[r].op = run[r].op
        /\ run'[r].kind = run[r].kind /\ run'[r].epoch = run[r].epoch
    BY <1>3, <1>5, Staged
  <2>4. GitIsWatched'
    <3>1. \A p \in live : p.claim \in Runner /\ (~p.orphan => p.claim # r)
      BY <1>3 DEF Mine, Inv, RInv, RunsTypeOK, Process
    <3> QED
      BY <2>2, <2>3, <3>1 DEF KInv, GitIsWatched, OnlyRun
  <2>5. StatementsAsk'
    BY <1>1, <2>3, NoCommandNoAsk
  <2>6. \A h \in Target : Stays(h) \/ Vacant(h)
    BY <1>1, <1>5, <2>1, OneLease
  <2>7. \A q \in Runner : Commanding(q)' =>
          /\ run[q].pc \in Command /\ (Commanding(q) \/ Vacant(TargetOf(q)))
          /\ run'[q].op = run[q].op /\ run'[q].kind = run[q].kind
          /\ run'[q].epoch = run[q].epoch
    BY <1>1, <2>1, <2>3 DEF Commanding, OnlyRun
  <2> QED
    BY <1>2, <2>2, <2>4, <2>5, <2>6, <2>7, ClaimsHold
<1> QED
  BY <1>4, <1>5 DEF Begin

LEMMA SpawnMoves ==
  ASSUME Inv, KInv, NEW r \in Runner, Spawn(r)
  PROVE  KInv'
<1> DEFINE p == [ claim |-> r, cmd |-> run[r].pc, op |-> run[r].op,
                  sha |-> run[r].result, bound |-> FALSE, orphan |-> FALSE ]
<1>1. /\ run[r].pc \in Command /\ run[r].stage = "begun" /\ live' = live \cup {p}
      /\ Reaches(r, "spawned") /\ ClaimsStay
  BY DEF Spawn, Commands, repo, ClaimsStay, Stays
<1>2. Inv' /\ [Next]_vars
  BY CommandsKeep DEF CommandStep
<1>3. RunsWell /\ run[r] \in Run /\ Mine(r) = {} /\ run[r] # Idle
  BY <1>1, CommandRuns, NobodyElse, TargetsOfRuns DEF Inv
<1>4. /\ OnlyRun(r) /\ run'[r].pc = run[r].pc /\ run'[r].op = run[r].op
      /\ run'[r].kind = run[r].kind /\ run'[r].epoch = run[r].epoch /\ run'[r].stage = "spawned"
  BY <1>1, <1>3, Staged
<1>5. GitIsWatched'
  <2>1. \A m \in live : m.claim \in Runner /\ (~m.orphan => m.claim # r)
    BY <1>3 DEF Mine, Inv, RInv, RunsTypeOK, Process
  <2>2. run'[r] # Idle
    BY <1>1, <1>4, CommandNames DEF Idle
  <2> QED
    BY <1>1, <1>4, <2>1, <2>2 DEF KInv, GitIsWatched, OnlyRun
<1>6. StatementsAsk'
  BY <1>1, <1>4, NoCommandNoAsk
<1>7. \A q \in Runner : Commanding(q)' =>
        /\ run[q].pc \in Command /\ Commanding(q)
        /\ run'[q].op = run[q].op /\ run'[q].kind = run[q].kind
        /\ run'[q].epoch = run[q].epoch
  BY <1>1, <1>4 DEF Commanding, OnlyRun, Begun
<1>8. \A m \in live' : m.bound => m \in live
  BY <1>1
<1> QED
  BY <1>1, <1>2, <1>5, <1>6, <1>7, <1>8, ClaimsHold DEF ClaimsStay

\* A command that its run gives up, or that is over: its processes are gone, or
\* are nobody's any more.
LEMMA GitStops ==
  ASSUME Inv, KInv, NEW r \in Runner, Inv', [Next]_vars, UNCHANGED lease,
         Commanding(r), OnlyRun(r),
         \/ run'[r] = Idle
         \/ /\ live' \subseteq live
            /\ run'[r].pc = run[r].pc /\ run'[r].op = run[r].op
            /\ run'[r].kind = run[r].kind /\ run'[r].epoch = run[r].epoch,
         \A p \in live' : \/ p \in live \ Mine(r)
                           \/ \E m \in Mine(r) : p = [m EXCEPT !.orphan = TRUE]
  PROVE  KInv'
<1>1. \A m \in live : m \in Process
  BY DEF Inv, RInv, RunsTypeOK
<1>2. \A p \in live' : \E m \in live :
        /\ m.bound = p.bound /\ m.op = p.op /\ m.claim = p.claim
        /\ p = m \/ (p.orphan /\ p.claim = r)
  BY <1>1 DEF Mine, Process
<1>3. \A p \in live' : ~p.orphan => p \in live /\ p.claim # r /\ p.claim \in Runner
  BY <1>1 DEF Mine, Process
<1>4. GitIsWatched'
  BY <1>3 DEF KInv, GitIsWatched, OnlyRun
<1>5. StatementsAsk'
  BY CommandNames DEF KInv, StatementsAsk, OnlyRun, Commanding, Statement, Idle
<1>6. \A q \in Runner : Commanding(q)' =>
        /\ Commanding(q) /\ run'[q].op = run[q].op /\ run'[q].kind = run[q].kind
        /\ run'[q].epoch = run[q].epoch
  BY CommandNames DEF Commanding, OnlyRun, Idle
<1>7. \A p \in live' : p.bound =>
        \E m \in live : /\ m.bound /\ m.op = p.op /\ m.claim = p.claim
                        /\ p.orphan => m.orphan \/ run'[p.claim] = Idle
  <2> SUFFICES ASSUME NEW p \in live', p.bound
               PROVE  \E m \in live : /\ m.bound /\ m.op = p.op /\ m.claim = p.claim
                                      /\ p.orphan => m.orphan \/ run'[p.claim] = Idle
    OBVIOUS
  <2>1. CASE p \in live
    BY <2>1
  <2>2. CASE p \notin live
    BY <1>2, <2>2
  <2> QED
    BY <2>1, <2>2
<1> QED
  BY <1>4, <1>5, <1>6, <1>7, ClaimsHold DEF ClaimsStay, Stays, Commanding

LEMMA StopsMove ==
  ASSUME Inv, KInv, NEW r \in Runner, BindFails(r) \/ Exited(r) \/ TimedOut(r)
  PROVE  KInv'
<1>1. run[r].pc \in Command /\ Commanding(r)
  BY DEF BindFails, Exited, TimedOut, Commands, Commanding, Begun
<1>2. Inv' /\ [Next]_vars
  BY CommandsKeep DEF CommandStep
<1>3. RunsWell /\ run[r] \in Run /\ UNCHANGED lease
  BY <1>1, CommandRuns DEF Inv, BindFails, Exited, TimedOut, repo
<1>4. End(r) => OnlyRun(r) /\ run'[r] = Idle
  BY <1>3 DEF End, RunsWell, OnlyRun
<1>5. CASE BindFails(r)
  BY <1>1, <1>2, <1>3, <1>4, <1>5, GitStops DEF BindFails
<1>6. CASE Exited(r)
  <2>1. Reaches(r, "exited") /\ live' = live /\ Mine(r) = {}
    BY <1>6 DEF Exited
  <2> QED
    BY <1>1, <1>2, <1>3, <2>1, Staged, GitStops
<1>7. CASE TimedOut(r)
  <2>1. CASE /\ live' = live \ Mine(r)
             /\ run' = [run EXCEPT ![r].stage = "exited", ![r].out = "killed"]
    <3>1. /\ OnlyRun(r) /\ run'[r].pc = run[r].pc /\ run'[r].op = run[r].op
          /\ run'[r].kind = run[r].kind /\ run'[r].epoch = run[r].epoch
      BY <1>3, <2>1 DEF OnlyRun, RunsWell, Run
    <3> QED
      BY <1>1, <1>2, <1>3, <2>1, <3>1, GitStops
  <2>2. CASE /\ live' = (live \ Mine(r)) \cup {[q EXCEPT !.orphan = TRUE] : q \in Mine(r)}
             /\ End(r)
    BY <1>1, <1>2, <1>3, <1>4, <2>2, GitStops
  <2> QED
    BY <1>7, <2>1, <2>2 DEF TimedOut
<1> QED
  BY <1>5, <1>6, <1>7

\* A claim is cleared only by who has it, and with nothing at work.
LEMMA ClearsMove ==
  ASSUME Inv, KInv, NEW r \in Runner, SpawnFails(r) \/ Clear(r)
  PROVE  KInv'
<1>1. /\ run[r].pc \in Command /\ Commanding(r) /\ live' = live
      /\ run[r].stage \in {"begun", "exited"}
  BY DEF SpawnFails, Clear, Commands, Commanding, Begun, Writes
<1>2. Inv' /\ [Next]_vars
  BY CommandsKeep DEF CommandStep
<1>3. RunsWell /\ run[r] \in Run
  BY <1>1, CommandRuns DEF Inv
<1>4. Mine(r) = {}
  BY <1>1, OwnProcesses, NobodyElse DEF Mine
<1>5. \A g \in Target : Stays(g) \/ Vacant(g)
  <2>1. CASE UNCHANGED repo
    BY <2>1 DEF repo, Stays
  <2>2. CASE ClearsClaim(r)
    <3>1. HasClaim(r)
      BY <2>2 DEF ClearsClaim, CompleteGitMutation, HasClaim
    <3>2. Vacant(TargetOf(r))
      BY <1>1, <1>4, <3>1, ClaimOfNone
    <3> QED
      BY <1>1, <2>2, <3>2, OneLease DEF ClearsClaim
  <2> QED
    BY <2>1, <2>2 DEF SpawnFails, Clear
<1>6. OnlyRun(r) /\ (run'[r] = Idle \/ run'[r].stage = "ask")
  <2> DEFINE Moved == OnlyRun(r) /\ (run'[r] = Idle \/ run'[r].stage = "ask")
  <2>1. End(r) => Moved
    BY <1>3 DEF End, RunsWell, OnlyRun
  <2>2. \A p : Go(r, p) => Moved
    BY <1>3 DEF Go, RunsWell, Run, OnlyRun
  <2> QED
    BY <2>1, <2>2 DEF SpawnFails, Clear, Goes, Fail
<1> QED
  BY <1>1, <1>2, <1>4, <1>5, <1>6, OneRunMoves DEF OnlyRun

LEMMA BindMoves ==
  ASSUME Inv, KInv, NEW r \in Runner, Bind(r)
  PROVE  KInv'
<1> DEFINE g == TargetOf(r)
<1>1. /\ run[r].pc \in Command /\ run[r].stage = "spawned" /\ Reaches(r, "bound")
      /\ BindGitProcessGroup(g, OwnerOf(r), run[r].epoch, r)
      /\ live' = (live \ Mine(r)) \cup {[p EXCEPT !.bound = TRUE] : p \in Mine(r)}
  BY DEF Bind, Commands
<1>2. IInv /\ lease \in [Target -> Lease] /\ \A p \in live : p \in Process
  BY DEF Inv, RInv, RunsTypeOK, IInv, TypeOK
<1>3. RunsWell /\ run[r] \in Run /\ g \in Target
  BY <1>1, CommandRuns, TargetsOfRuns DEF Inv
<1>4. /\ OnlyRun(r) /\ run'[r].pc = run[r].pc /\ run'[r].op = run[r].op
      /\ run'[r].kind = run[r].kind /\ run'[r].epoch = run[r].epoch /\ run'[r].stage = "bound"
  BY <1>1, <1>3, Staged
<1>5. /\ op' = op /\ HasClaim(r) /\ lease'[g] = [lease[g] EXCEPT !.group = TRUE]
      /\ \A h \in Target \ {g} : lease'[h] = lease[h]
  BY <1>1, <1>2, <1>3 DEF BindGitProcessGroup, HasClaim
<1>6. \A p \in live' :
        \/ p \in live \ Mine(r)
        \/ /\ p.claim = r /\ ~p.orphan /\ p.op = run[r].op /\ p.cmd = run[r].pc
           /\ run[r] # Idle
  <2>1. \A m \in Mine(r) : LET p == [m EXCEPT !.bound = TRUE] IN
                              /\ p.claim = r /\ ~p.orphan /\ p.op = run[r].op
                              /\ p.cmd = run[r].pc /\ run[r] # Idle
    BY <1>2 DEF Mine, Process, KInv, GitIsWatched
  <2> QED
    BY <1>1, <2>1
<1>7. lease'[g].claim = r /\ lease'[g].group
  BY <1>2, <1>3, <1>5 DEF HasClaim, Lease
<1>8. KnownGitIsClaimed'
  <2> SUFFICES ASSUME NEW p \in live', p.bound
               PROVE  LET l == lease'[op[p.op].target] IN l.claim = p.claim /\ l.group
    BY <1>5 DEF KnownGitIsClaimed
  <2>1. CASE p \in live \ Mine(r)
    <3>1. op[p.op].target \in Target
      BY <2>1, PlacesOfGit
    <3>2. lease[op[p.op].target].claim = p.claim /\ lease[op[p.op].target].group
      BY <2>1 DEF KInv, KnownGitIsClaimed
    <3> QED
      BY <1>2, <1>5, <1>7, <3>1, <3>2 DEF HasClaim
  <2>2. CASE p.claim = r /\ p.op = run[r].op
    BY <1>7, <2>2 DEF TargetOf
  <2> QED
    BY <1>6, <2>1, <2>2
<1>9. GitIsWatched'
  <2>1. run'[r] # Idle
    BY <1>1, <1>4, CommandNames DEF Idle
  <2>2. \A p \in live \ Mine(r) : p.claim \in Runner /\ (~p.orphan => p.claim # r)
    BY <1>2 DEF Mine, Process
  <2> QED
    BY <1>4, <1>6, <2>1, <2>2 DEF KInv, GitIsWatched, OnlyRun
<1>10. ClaimIsSole'
  <2> SUFFICES ASSUME NEW q \in Runner, Commanding(q)', HasClaim(q)',
                      NEW p \in live', p.bound, op[p.op].target = TargetOf(q)'
               PROVE  p.claim = q /\ ~p.orphan
    BY <1>5 DEF ClaimIsSole
  <2>1. /\ Commanding(q) /\ TargetOf(q)' = TargetOf(q) /\ OwnerOf(q)' = OwnerOf(q)
        /\ run'[q].epoch = run[q].epoch
    BY <1>1, <1>4, <1>5 DEF Commanding, OnlyRun, TargetOf, OwnerOf, Begun
  <2>2. TargetOf(q) \in Target
    BY <2>1, TargetsOfRuns DEF Commanding
  <2>3. HasClaim(q)
    BY <1>2, <1>3, <1>5, <2>1, <2>2 DEF HasClaim, Current, Lease
  <2>4. CASE p \in live \ Mine(r)
    BY <2>1, <2>3, <2>4 DEF KInv, ClaimIsSole
  <2>5. CASE p.claim = r /\ ~p.orphan /\ p.op = run[r].op
    <3>1. lease[g].claim = q
      BY <2>1, <2>3, <2>5 DEF HasClaim, TargetOf
    <3> QED
      BY <1>5, <2>5, <3>1 DEF HasClaim
  <2> QED
    BY <1>6, <2>4, <2>5
<1>11. StatementsAsk'
  BY <1>1, <1>4, NoCommandNoAsk
<1> QED
  BY <1>8, <1>9, <1>10, <1>11 DEF KInv

LEMMA CommandsMove ==
  ASSUME Inv, KInv, NEW r \in Runner, CommandStep(r)
  PROVE  KInv'
BY BeginMoves, SpawnMoves, BindMoves, StopsMove, ClearsMove DEF CommandStep

-----------------------------------------------------------------------------
(* The other actors                                                          *)

\* A step that ends no command: each run is where it was.
LEMMA RunsStand ==
  ASSUME Inv, KInv, Inv', [Next]_vars,
         \A g \in Target : Stays(g) \/ Vacant(g),
         live' \subseteq live,
         \A q \in Runner :
           \/ run'[q] = run[q]
           \/ /\ run[q] # Idle /\ run'[q] # Idle
              /\ run'[q].pc = run[q].pc /\ run'[q].stage = run[q].stage
              /\ run'[q].op = run[q].op /\ run'[q].kind = run[q].kind
              /\ run'[q].epoch = run[q].epoch
  PROVE  KInv'
<1>1. \A p \in live : p.claim \in Runner
  BY DEF Inv, RInv, RunsTypeOK, Process
<1>2. GitIsWatched'
  BY <1>1 DEF KInv, GitIsWatched
<1>3. StatementsAsk'
  BY DEF KInv, StatementsAsk
<1>4. \A q \in Runner : Commanding(q)' =>
        /\ Commanding(q) /\ run'[q].op = run[q].op /\ run'[q].kind = run[q].kind
        /\ run'[q].epoch = run[q].epoch
  BY DEF Commanding
<1> QED
  BY <1>2, <1>3, <1>4, ClaimsHold DEF Commanding

LEMMA ExitMoves ==
  ASSUME Inv, KInv, NEW p \in live, Exit(p)
  PROVE  KInv'
<1>1. Inv' /\ [Next]_vars
  BY ExitKeeps
<1>2. live' \subseteq live /\ UNCHANGED lease
  BY DEF Exit, repo
<1>3. PICK out \in {"ok", "fail"} :
        run' = [r \in Runner |-> IF p \in Mine(r) THEN [run[r] EXCEPT !.out = out]
                                                ELSE run[r]]
  BY DEF Exit
<1>4. ASSUME NEW q \in Runner, p \in Mine(q)
      PROVE  /\ run[q] # Idle /\ run'[q] # Idle
             /\ run'[q].pc = run[q].pc /\ run'[q].stage = run[q].stage
             /\ run'[q].op = run[q].op /\ run'[q].kind = run[q].kind
             /\ run'[q].epoch = run[q].epoch
  <2>1. run[q] # Idle
    BY <1>4 DEF Mine, KInv, GitIsWatched
  <2>2. run[q] \in Run
    BY <2>1 DEF Inv, RInv, RunsWell
  <2>3. run'[q] = [run[q] EXCEPT !.out = out]
    BY <1>3, <1>4
  <2>4. /\ run'[q].pc = run[q].pc /\ run'[q].stage = run[q].stage
        /\ run'[q].op = run[q].op /\ run'[q].kind = run[q].kind
        /\ run'[q].epoch = run[q].epoch /\ run[q].pc \in Command \cup Statement
    BY <2>2, <2>3 DEF Run
  <2> QED
    BY <2>1, <2>4, CommandNames DEF Idle, Statement
<1> QED
  BY <1>1, <1>2, <1>3, <1>4, RunsStand DEF Stays

LEMMA CrashMoves ==
  ASSUME Inv, KInv, Crash \/ Restart \/ Ready
  PROVE  KInv'
<1>1. Inv' /\ [Next]_vars /\ UNCHANGED lease
  BY CrashKeeps DEF Crash, Restart, Ready, repo
<1>2. CASE Crash
  <2>1. /\ live' = {[p EXCEPT !.orphan = TRUE] : p \in live}
        /\ run' = [r \in Runner |-> Idle]
    BY <1>2 DEF Crash
  <2>2. ASSUME NEW p \in live'
        PROVE  /\ p.orphan /\ p.claim \in Runner
               /\ \E m \in live : m.bound = p.bound /\ m.op = p.op /\ m.claim = p.claim
    <3>1. PICK m \in live : p = [m EXCEPT !.orphan = TRUE]
      BY <2>1
    <3>2. m \in Process
      BY DEF Inv, RInv, RunsTypeOK
    <3>3. /\ p.orphan /\ p.claim \in Runner
          /\ m.bound = p.bound /\ m.op = p.op /\ m.claim = p.claim
      BY <3>1, <3>2 DEF Process
    <3> QED
      BY <3>3
  <2>3. GitIsWatched' /\ StatementsAsk'
    BY <2>1, <2>2 DEF GitIsWatched, StatementsAsk, Statement, Idle
  <2>4. \A r \in Runner : ~Commanding(r)'
    BY <2>1, CommandNames DEF Commanding, Idle
  <2> QED
    BY <1>1, <2>1, <2>2, <2>3, <2>4, ClaimsHold DEF Stays
<1>3. CASE Restart \/ Ready
  BY <1>1, <1>3, RunsStand DEF Restart, Ready, Stays
<1> QED
  BY <1>2, <1>3

\* Recovery clears the claim of a target whose group it has found gone.
LEMMA RecoveryMoves ==
  ASSUME Inv, KInv, NEW g \in Target, TerminateGroup(g) \/ RecoverClaim(g) \/ LeaveClaim(g)
  PROVE  KInv'
<1>1. Inv' /\ [Next]_vars /\ run' = run /\ live' \subseteq live
  BY RecoveryKeeps DEF TerminateGroup, RecoverClaim, LeaveClaim, host
<1>2. CASE UNCHANGED lease
  BY <1>1, <1>2, RunsStand DEF Stays
<1>3. CASE RecoverClaim(g)
  <2>1. Vacant(g)
    BY <1>3 DEF RecoverClaim, Clearable, Terminated, GroupOf, KInv, KnownGitIsClaimed, Vacant
  <2>2. \A h \in Target : h = g \/ lease'[h] = lease[h]
    BY <1>3 DEF RecoverClaim, CompleteGitMutation, Inv, RInv, IInv, TypeOK
  <2> QED
    BY <1>1, <2>1, <2>2, RunsStand DEF Stays
<1> QED
  BY <1>2, <1>3 DEF TerminateGroup, LeaveClaim, repo

LEMMA CallersLeaveClaims ==
  ASSUME Inv, NEW r \in Runner, CallerStep(r)
  PROVE  ClaimsStay
<1>1. IInv
  BY DEF Inv, RInv
<1>2. ASSUME NEW o \in Op, NEW t \in Task, NEW g \in Target, NEW d \in Way,
             NEW k \in Continuation, StartUpdate(r, o, t, g, d, k)
      PROVE  ClaimsStay
  BY <1>1, <1>2, ActivationLeavesClaims DEF StartUpdate
<1>3. ASSUME NEW o \in Op, ResolverCompletes(r, o) \/ Reconcile(r, o)
      PROVE  ClaimsStay
  BY <1>3 DEF ResolverCompletes, Reconcile, Reads, repo, ClaimsStay, Stays
<1>4. ASSUME NEW o \in Op, NEW n \in Op, Retry(r, o, n)
      PROVE  ClaimsStay
  BY <1>1, <1>4, UpdatesLeaveClaims DEF Retry, OperationStep
<1> QED
  BY <1>2, <1>3, <1>4 DEF CallerStep

LEMMA StartsMove ==
  ASSUME Inv, KInv, NEW r \in Runner, CallerStep(r)
  PROVE  KInv'
<1>1. Inv' /\ [Next]_vars
  BY UpdateStarts, RunsStart, RetryStarts DEF CallerStep
<1>2. live' = live /\ Mine(r) = {} /\ run \in [Runner -> Run \cup {Idle}] /\ IInv
  BY NobodyElse DEF CallerStep, StartUpdate, ResolverCompletes, Reconcile, Retry, Reads, Free,
                    Inv, RInv, RunsWell
<1>3. ClaimsStay
  BY CallersLeaveClaims
<1>4. CASE run' = run
  BY <1>1, <1>2, <1>3, <1>4, RunsStand DEF ClaimsStay
<1>5. CASE OnlyRun(r) /\ run'[r].stage = "ask"
  BY <1>1, <1>2, <1>3, <1>5, OneRunMoves DEF ClaimsStay, OnlyRun
<1>6. run' = run \/ (OnlyRun(r) /\ run'[r].stage = "ask")
  <2>1. ASSUME NEW kind, NEW p, NEW o, NEW e, NEW s, Start(r, kind, p, o, e, s)
        PROVE  OnlyRun(r) /\ run'[r].stage = "ask"
    BY <1>2, <2>1 DEF Start, OnlyRun
  <2> QED
    BY <2>1 DEF CallerStep, StartUpdate, ResolverCompletes, Reconcile, Retry
<1> QED
  BY <1>4, <1>5, <1>6

LEMMA OthersLeaveClaims ==
  ASSUME Inv,
         \/ \E o \in Op : UpdateStep(o)
         \/ \E g \in Target : OthersCommit(g)
         \/ \E t \in Task : TaskGoesOn(t)
  PROVE  ClaimsStay
<1>1. IInv
  BY DEF Inv, RInv
<1>2. ASSUME NEW o \in Op, UpdateStep(o)
      PROVE  ClaimsStay
  <2>1. CASE StopTask(o)
    BY <1>1, <2>1, UpdatesLeaveClaims DEF StopTask, OperationStep
  <2>2. CASE UNCHANGED lease
    BY <2>2 DEF ClaimsStay, Stays
  <2> QED
    BY <1>2, <2>1, <2>2
    DEF UpdateStep, StartResolver, ResolverEnds, ResolverReports, Pause, ResumeTask,
        BindAgentRun, UnbindAgentRun, BlockOperation, PauseOperation, ResumeOperation
<1> QED
  BY <1>2 DEF OthersCommit, TaskGoesOn, MoveTask, repo, ClaimsStay, Stays

LEMMA OthersMove ==
  ASSUME Inv, KInv,
         \/ \E o \in Op : UpdateStep(o)
         \/ \E g \in Target : OthersCommit(g)
         \/ \E t \in Task : TaskGoesOn(t)
  PROVE  KInv'
<1>1. Inv' /\ [Next]_vars
  BY UpdatesKeep, OthersKeep
<1>2. live' = live /\ run' = run /\ IInv
  BY DEF UpdateStep, StartResolver, ResolverEnds, ResolverReports, Pause, ResumeTask, StopTask,
         OthersCommit, TaskGoesOn, Inv, RInv
<1>3. ClaimsStay
  BY OthersLeaveClaims
<1> QED
  BY <1>1, <1>2, <1>3, RunsStand DEF ClaimsStay

LEMMA ClaimsAreKept ==
  ASSUME Inv, KInv, [RunsNext]_rvars
  PROVE  KInv'
<1>1. CASE UNCHANGED rvars
  <2>1. Inv' /\ [Next]_vars
    BY RunsNextInv
  <2>2. live' = live /\ run' = run /\ UNCHANGED lease
    BY <1>1 DEF rvars, repo
  <2> QED
    BY <2>1, <2>2, RunsStand DEF Stays
<1>2. CASE RunsNext
  BY <1>2, StatementsMove, CommandsMove, StartsMove, OthersMove, ExitMoves, CrashMoves,
     RecoveryMoves
  DEF RunsNext
<1> QED
  BY <1>1, <1>2

\* A Git process whose group is known to the repository has its claim in flight
\* for as long as it lives, with any number of runs and targets, whatever times
\* out, fails or is cut off by a crash: BeginGitMutation of anybody else on the
\* branch is refused until the process is gone.
THEOREM KnownGitKeepsItsClaim == RunsSpec => []KnownGitIsClaimed
<1>1. RunsInit => KInv
  BY CommandNames DEF RunsInit, KInv, KnownGitIsClaimed, GitIsWatched, ClaimIsSole, StatementsAsk,
         Commanding, Statement, Idle
<1>2. Inv /\ KInv /\ [RunsNext]_rvars => KInv'
  BY ClaimsAreKept
<1>3. KInv => KnownGitIsClaimed
  BY DEF KInv
<1> QED
  BY <1>1, <1>2, <1>3, RunsAreConsistent, PTL DEF RunsSpec
=============================================================================
