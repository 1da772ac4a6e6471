---------------------- MODULE BranchUpdatePublishProofs ----------------------
(***************************************************************************)
(* A task whose update is to be published goes on as merged only with its  *)
(* result at the remote: the proof, for any number of runs, updates,       *)
(* targets, commits and crashes.  What it rests on is that commits only    *)
(* add up: one that exists is never changed and contains what its parents  *)
(* contain, so that a push can only add to the remote.                     *)
(***************************************************************************)
EXTENDS BranchUpdateRunsProofs

\* A commit contains itself and all that its own commits contain.
Nested ==
  \A y \in Sha \cup {Nil} : \A x \in under[y] : x \in under[x] /\ under[x] \subseteq under[y]

\* Whatever names a commit names one that was made.
Sound(s) == s = Nil \/ s \in under[s]
AllMade ==
  /\ Nested
  /\ \A g \in Target : Sound(tip[g]) /\ Sound(origin[g])
  /\ \A o \in Op : Sound(seen[o]) /\ (op[o] # Absent => Sound(op[o].result))
  /\ \A p \in Place : Sound(ws[p].head)
  /\ \A r \in Runner : run[r] # Idle => Sound(run[r].result)
  /\ \A p \in live : Sound(p.sha)

Published(o) == op[o].result \in under[origin[op[o].target]]

\* From the hand-over on a run knows the result of its operation, and the
\* continuation is claimed when that is at the remote.
Sending == { "transfer", "push", "confirm" }
Late == Sending \cup { "claim", "complete" }
ClaimIsPublished(o) ==
  op[o] # Absent /\ op[o].claim # Nil /\ ToPublish(o) => Published(o)
RunKnows(r) ==
  /\ run[r].pc \in {"claim", "complete"} /\ ToPublish(run[r].op) => Published(run[r].op)
  /\ run[r].pc \in Sending => /\ run[r].result = op[run[r].op].result
                              /\ run[r].result # Nil
PublishedFirst == /\ \A o \in Op : ClaimIsPublished(o)
                  /\ \A r \in Runner : RunKnows(r)

PInv == Inv /\ AllMade /\ PublishedFirst

-----------------------------------------------------------------------------
(* Steps that change neither a commit nor what an operation has             *)

OpsCalm ==
  \A o \in Op : op'[o] # Absent =>
    \/ op[o] = Absent /\ op'[o].result = Nil /\ op'[o].claim = Nil
    \/ /\ op[o] # Absent
       /\ op'[o].target = op[o].target /\ op'[o].continuation = op[o].continuation
       /\ op'[o].result = op[o].result /\ op'[o].claim = op[o].claim

RowStays(o) ==
  /\ op'[o].target = op[o].target /\ op'[o].continuation = op[o].continuation
  /\ op[o].result # Nil => op'[o].result = op[o].result

\* A run begins before the late part, or goes on in it where it was.
RunCalm(q) ==
  \/ run'[q] = Idle
  \/ /\ run[q] # Idle
     /\ run'[q].op = run[q].op /\ run'[q].result = run[q].result
     /\ run'[q].pc = run[q].pc \/ run'[q].pc \notin Late
  \/ /\ run'[q].pc \notin Late
     /\ run'[q].result = Nil \/ (op[run'[q].op] # Absent /\ run'[q].op \in Op
                                 /\ run'[q].result = op[run'[q].op].result)
RunsCalm == \A q \in Runner : RunCalm(q)

Grows == \A g \in Target : under[origin[g]] \subseteq under'[origin'[g]]

LEMMA RowsAre ==
  ASSUME Inv, NEW o \in Op
  PROVE  op[o] # Absent <=> op[o] \in Operation
BY DEF Inv, RInv, IInv, TypeOK, Operation, Open, Working, Absent

LEMMA NilIsNothing == Nil \notin Sha /\ Nil \notin Claim
BY NilAssumption

LEMMA IdleIsIdle == Idle.pc \notin Late /\ Absent.phase = "none"
BY DEF Idle, Late, Sending, Absent

LEMMA RowsOfRuns ==
  ASSUME Inv, NEW r \in Runner, run[r] # Idle
  PROVE  /\ run[r] \in Run /\ run[r].op \in Op
         /\ op[run[r].op] \in Operation /\ op[run[r].op] # Absent
         /\ op[run[r].op].target \in Target
<1>1. run[r] \in Run /\ run[r].op \in Op
  BY DEF Inv, RInv, RunsWell, Run
<1>2. op[run[r].op] \in Operation
  BY DEF Inv, RowsKept
<1> QED
  BY <1>1, <1>2, RowsAre DEF Operation

\* A row that is there stays, under every step of the runs.
LEMMA RowsRemain ==
  ASSUME Inv, [Next]_vars, NEW o \in Op, op[o] # Absent
  PROVE  op'[o] # Absent
<1>1. op[o] \in Operation /\ IInv
  BY RowsAre DEF Inv, RInv
<1>2. op'[o] \in Operation
  BY <1>1, RowsStay
<1> QED
  BY <1>2 DEF Operation, Open, Working, Absent

\* A published result stays published.
LEMMA StaysPublished ==
  ASSUME Inv, Grows, NEW o \in Op, op[o] # Absent, RowStays(o), Published(o)
  PROVE  Published(o)'
<1>1. op[o] \in Operation /\ op[o].target \in Target
  BY RowsAre DEF Operation
<1>2. op[o].result # Nil
  <2>1. origin[op[o].target] \in Sha /\ under \in [Sha \cup {Nil} -> SUBSET Sha]
    BY <1>1 DEF Inv, RInv, RunsTypeOK
  <2> QED
    BY <2>1, NilIsNothing DEF Published
<1> QED
  BY <1>1, <1>2 DEF RowStays, Grows, Published

LEMMA KeepsPublished ==
  ASSUME Inv, PublishedFirst, Grows, [Next]_vars,
         \A o \in Op : op[o] # Absent => RowStays(o),
         \A o \in Op : op'[o] # Absent /\ op'[o].claim # Nil =>
                         (op[o] # Absent /\ op[o].claim # Nil) \/ ClaimIsPublished(o)',
         \A q \in Runner : RunCalm(q) \/ RunKnows(q)'
  PROVE  PublishedFirst'
<1>1. ASSUME NEW o \in Op
      PROVE  ClaimIsPublished(o)'
  <2>1. CASE op'[o] # Absent /\ op'[o].claim # Nil /\ ToPublish(o)'
             /\ op[o] # Absent /\ op[o].claim # Nil
    <3>1. ToPublish(o)
      BY <2>1 DEF ToPublish, RowStays
    <3>2. Published(o)
      BY <2>1, <3>1 DEF PublishedFirst, ClaimIsPublished
    <3> QED
      BY <2>1, <3>2, StaysPublished DEF ClaimIsPublished
  <2> QED
    BY <2>1 DEF ClaimIsPublished
<1>2. ASSUME NEW q \in Runner, RunCalm(q), run'[q].pc \in Late
      PROVE  /\ run'[q].pc = run[q].pc /\ run'[q].op = run[q].op
             /\ run'[q].result = run[q].result
             /\ run[q].op \in Op /\ op[run[q].op] # Absent
  <2>1. /\ run[q] # Idle /\ run'[q].op = run[q].op
        /\ run'[q].result = run[q].result /\ run'[q].pc = run[q].pc
    BY <1>2, IdleIsIdle DEF RunCalm
  <2> QED
    BY <2>1, RowsOfRuns
<1>3. ASSUME NEW q \in Runner, RunCalm(q), run'[q].pc \in {"claim", "complete"},
             NEW o \in Op, o = run'[q].op, ToPublish(o)'
      PROVE  Published(o)'
  <2>1. run[q].pc \in {"claim", "complete"} /\ o = run[q].op /\ op[o] # Absent
    BY <1>2, <1>3 DEF Late
  <2>2. ToPublish(o)
    BY <1>3, <2>1 DEF ToPublish, RowStays
  <2>3. Published(o)
    BY <2>1, <2>2 DEF PublishedFirst, RunKnows
  <2> QED
    BY <2>1, <2>3, StaysPublished
<1>4. ASSUME NEW q \in Runner, RunCalm(q), run'[q].pc \in Sending
      PROVE  run'[q].result = op'[run'[q].op].result /\ run'[q].result # Nil
  <2>1. /\ run[q].pc \in Sending /\ run[q].result = op[run[q].op].result
        /\ run[q].result # Nil
    BY <1>2, <1>4 DEF PublishedFirst, RunKnows, Late
  <2> QED
    BY <1>2, <1>4, <2>1 DEF Late, RowStays
<1>5. ASSUME NEW q \in Runner, RunCalm(q), run'[q].pc \in {"claim", "complete"},
             ToPublish(run[q].op)'
      PROVE  Published(run[q].op)'
  <2>1. run'[q].op \in Op
    BY <1>2, <1>5 DEF Late
  <2> QED
    BY <1>3, <1>5, <2>1 DEF ToPublish, Published
<1>6. ASSUME NEW q \in Runner, RunCalm(q)
      PROVE  RunKnows(q)'
  BY <1>4, <1>5, <1>6 DEF RunKnows
<1> QED
  BY <1>1, <1>6 DEF PublishedFirst

SameDisk == UNCHANGED << seen, disk, live >>

LEMMA KeepsMade ==
  ASSUME AllMade, SameDisk,
         \A o \in Op : op'[o] # Absent => Sound(op'[o].result),
         \A q \in Runner : run'[q] # Idle => Sound(run'[q].result)
  PROVE  AllMade'
BY DEF AllMade, Nested, Sound, SameDisk, disk

\* What calm runs and rows name was there before.
LEMMA CalmIsSound ==
  ASSUME AllMade
  PROVE  /\ \A o \in Op : OpsCalm /\ op'[o] # Absent => Sound(op'[o].result)
         /\ \A q \in Runner : RunCalm(q) /\ run'[q] # Idle => Sound(run'[q].result)
BY DEF OpsCalm, RunCalm, AllMade, Sound

LEMMA CalmRowsStay ==
  ASSUME Inv, [Next]_vars, OpsCalm, NEW o \in Op
  PROVE  /\ op[o] # Absent => RowStays(o)
         /\ op'[o] # Absent /\ op'[o].claim # Nil => op[o] # Absent /\ op[o].claim # Nil
BY RowsRemain DEF OpsCalm, RowStays

LEMMA CalmSteps ==
  ASSUME PInv, [RunsNext]_rvars, SameDisk, OpsCalm, RunsCalm
  PROVE  PInv'
<1>1. Inv' /\ [Next]_vars
  BY RunsNextInv DEF PInv
<1>2. Grows
  BY DEF SameDisk, disk, Grows
<1> QED
  BY <1>1, <1>2, KeepsPublished, KeepsMade, CalmIsSound, CalmRowsStay DEF PInv, RunsCalm

-----------------------------------------------------------------------------
(* The statements of a run                                                   *)

LEMMA SameOps ==
  ASSUME op' = op
  PROVE  OpsCalm
BY DEF OpsCalm

LEMMA CalmCourses ==
  ASSUME Inv, NEW r \in Runner, run[r] # Idle,
         \/ End(r)
         \/ Fail(r)
         \/ \E p \in Command \cup Statement : Go(r, p) /\ p \notin Late
         \/ \E s \in {"ask", "begun", "spawned", "bound", "exited"} : Reaches(r, s)
  PROVE  RunsCalm
<1>1. run[r] \in Run /\ run \in [Runner -> Run \cup {Idle}]
  BY RowsOfRuns DEF Inv, RInv, RunsWell
<1>2. ASSUME NEW p \in Command \cup Statement, p \notin Late, Go(r, p)
      PROVE  RunsCalm
  BY <1>1, <1>2 DEF Go, RunsCalm, RunCalm, Run
<1>3. End(r) => RunsCalm
  BY <1>1 DEF End, RunsCalm, RunCalm
<1>4. Fail(r) => RunsCalm
  BY <1>2, <1>3 DEF Fail, Statement, Late, Sending
<1>5. ASSUME NEW s \in {"ask", "begun", "spawned", "bound", "exited"}, Reaches(r, s)
      PROVE  RunsCalm
  BY <1>1, <1>5 DEF Reaches, RunsCalm, RunCalm, Run
<1> QED
  BY <1>2, <1>3, <1>4, <1>5

\* All transactions of the repository but those that note a result or claim a
\* continuation.
LEMMA CalmTransactions ==
  ASSUME Inv, NEW o \in Op, op[o] # Absent, NEW w, NEW e,
         \/ \E s \in Sha : SettleProgrammatic(o, w, e, s)
         \/ \E b \in BOOLEAN : BlockOperation(o, w, e, b)
         \/ MarkResolving(o, w, e)
         \/ \E c \in Claim : CompleteContinuation(o, w, e, c)
         \/ TransferOperationLease(o, w, e)
         \/ PauseOperation(o, w, e)
         \/ ResumeOperation(o, w, e)
         \/ StopOperation(o, w, e)
         \/ BindAgentRun(o)
         \/ UnbindAgentRun(o)
  PROVE  OpsCalm
<1>1. op \in [Op -> Operation \cup {Absent}] /\ op[o] \in Operation
  BY RowsAre DEF Inv, RInv, IInv, TypeOK
<1> DEFINE Same(x) == /\ x.target = op[o].target /\ x.continuation = op[o].continuation
                      /\ x.result = op[o].result /\ x.claim = op[o].claim
<1>2. ASSUME NEW x, op' = [op EXCEPT ![o] = x], Same(x)
      PROVE  OpsCalm
  BY <1>1, <1>2 DEF OpsCalm
<1>3. CASE \E s \in Sha : SettleProgrammatic(o, w, e, s)
  <2> DEFINE x == [op[o] EXCEPT !.phase = "continuation_pending"]
  <2>1. op' = [op EXCEPT ![o] = x] /\ Same(x)
    BY <1>1, <1>3 DEF SettleProgrammatic, SetPhase, Operation
  <2> QED
    BY <1>2, <2>1
<1>4. CASE \E b \in BOOLEAN : BlockOperation(o, w, e, b)
  <2>1. PICK b \in BOOLEAN : BlockOperation(o, w, e, b)
    BY <1>4
  <2> DEFINE x == [op[o] EXCEPT !.phase = "blocked", !.conflicts = b]
  <2>2. op' = [op EXCEPT ![o] = x] /\ Same(x)
    BY <1>1, <2>1 DEF BlockOperation, Operation
  <2> QED
    BY <1>2, <2>2
<1>5. CASE MarkResolving(o, w, e)
  <2> DEFINE x == [op[o] EXCEPT !.phase = "resolving", !.conflicts = TRUE]
  <2>1. op' = [op EXCEPT ![o] = x] /\ Same(x)
    BY <1>1, <1>5 DEF MarkResolving, Operation
  <2> QED
    BY <1>2, <2>1
<1>6. CASE \E c \in Claim : CompleteContinuation(o, w, e, c)
  <2> DEFINE x == [op[o] EXCEPT !.phase = "settled"]
  <2>1. op' = [op EXCEPT ![o] = x] /\ Same(x)
    BY <1>1, <1>6 DEF CompleteContinuation, SetPhase, Operation
  <2> QED
    BY <1>2, <2>1
<1>7. CASE TransferOperationLease(o, w, e)
  <2> DEFINE x == [op[o] EXCEPT !.epoch = e + 1]
  <2>1. op' = [op EXCEPT ![o] = x] /\ Same(x)
    BY <1>1, <1>7 DEF TransferOperationLease, Operation
  <2> QED
    BY <1>2, <2>1
<1>8. CASE PauseOperation(o, w, e)
  <2> DEFINE x == [op[o] EXCEPT !.bound = FALSE]
  <2>1. op' = [op EXCEPT ![o] = x] /\ Same(x)
    BY <1>1, <1>8 DEF PauseOperation, Operation
  <2> QED
    BY <1>2, <2>1
<1>9. CASE ResumeOperation(o, w, e)
  BY <1>9, SameOps DEF ResumeOperation
<1>10. CASE StopOperation(o, w, e)
  <2> DEFINE x == [op[o] EXCEPT !.phase = "settled", !.bound = FALSE]
  <2>1. op' = [op EXCEPT ![o] = x] /\ Same(x)
    BY <1>1, <1>10 DEF StopOperation, Operation
  <2> QED
    BY <1>2, <2>1
<1>11. CASE BindAgentRun(o) \/ UnbindAgentRun(o)
  <2>1. PICK b \in BOOLEAN : op' = [op EXCEPT ![o].bound = b]
    BY <1>11 DEF BindAgentRun, UnbindAgentRun
  <2> DEFINE x == [op[o] EXCEPT !.bound = b]
  <2>2. op' = [op EXCEPT ![o] = x] /\ Same(x)
    BY <1>1, <2>1 DEF Operation
  <2> QED
    BY <1>2, <2>2
<1> QED
  BY <1>3, <1>4, <1>5, <1>6, <1>7, <1>8, <1>9, <1>10, <1>11

LEMMA StatementOf ==
  ASSUME Inv, NEW r \in Runner, Step(r)
  PROVE  /\ run[r] # Idle /\ run[r].pc \in Statement /\ app = "up"
         /\ SameDisk /\ op[run[r].op] # Absent /\ run[r].op \in Op
<1>1. run[r].pc \in Statement /\ app = "up"
  BY DEF Step, Check, Look, Resolve, Block, Gather, Note, Tip, Tidy, Settle, ClaimNext,
         Complete, Publish, Transfer, Confirm, Resume, At, Statement
<1>2. run[r] # Idle
  BY <1>1 DEF Idle, Statement
<1>3. SameDisk
  BY DEF Step, Check, Look, Resolve, Block, Gather, Note, Tip, Tidy, Settle, ClaimNext,
         Complete, Publish, Transfer, Confirm, Resume, Reads, Writes, Refused, SameDisk
<1> QED
  BY <1>1, <1>2, <1>3, RowsOfRuns

\* The statements before the settlement, and the last.
LEMMA CalmStatements ==
  ASSUME PInv, [RunsNext]_rvars, NEW r \in Runner, Step(r),
         \/ Check(r) \/ Look(r) \/ Gather(r) \/ Tip(r) \/ Tidy(r)
         \/ Resolve(r) \/ Block(r) \/ Complete(r) \/ Refused(r)
  PROVE  PInv'
<1> DEFINE o == run[r].op
<1>1. /\ Inv /\ run[r] # Idle /\ SameDisk /\ op[o] # Absent /\ o \in Op
  BY StatementOf DEF PInv
<1>2. CASE Check(r) \/ Look(r) \/ Gather(r) \/ Tip(r) \/ Tidy(r)
  <2>1. OpsCalm
    BY <1>2, SameOps DEF Check, Look, Gather, Tip, Tidy, Reads, repo
  <2>2. \/ End(r) \/ Fail(r)
        \/ \E p \in {"look", "block", "add", "resolve", "merge", "note", "stage", "tip",
                     "land", "tidy", "settle", "remove"} : Go(r, p)
    BY <1>2 DEF Check, Look, Gather, Tip, Tidy
  <2>3. RunsCalm
    BY <1>1, <2>2, CalmCourses, CommandNames DEF Statement, Late, Sending
  <2> QED
    BY <1>1, <2>1, <2>3, CalmSteps
<1>3. CASE Refused(r)
  <2>1. OpsCalm /\ RunsCalm
    BY <1>1, <1>3, SameOps, CalmCourses DEF Refused, repo
  <2> QED
    BY <1>1, <2>1, CalmSteps
<1>4. CASE ~Refused(r) /\ (Resolve(r) \/ Block(r) \/ Complete(r))
  <2>1. /\ End(r)
        /\ \/ MarkResolving(o, OwnerOf(r), run[r].epoch)
           \/ BlockOperation(o, OwnerOf(r), run[r].epoch, FALSE)
           \/ CompleteContinuation(o, OwnerOf(r), run[r].epoch, run[r].claim)
              /\ run[r].claim \in Claim
    <3>1. Complete(r) => run[r].claim \in Claim
      BY <1>1, RowsOfRuns DEF Inv, RInv, RunsWell, KnowsEnough, Run, Complete, At
    <3> QED
      BY <1>4, <3>1 DEF Resolve, Block, Complete
  <2>2. OpsCalm
    BY <1>1, <2>1, CalmTransactions
  <2>3. RunsCalm
    BY <1>1, <2>1, CalmCourses
  <2> QED
    BY <1>1, <2>2, <2>3, CalmSteps
<1> QED
  BY <1>2, <1>3, <1>4

\* A step of one run, that does not stay calm, in tables that do.
LEMMA RunSteps ==
  ASSUME PInv, [RunsNext]_rvars, SameDisk, OpsCalm, NEW r \in Runner,
         \A q \in Runner \ {r} : run'[q] = run[q],
         RunKnows(r)', Sound(run'[r].result)
  PROVE  PInv'
<1>1. Inv' /\ [Next]_vars
  BY RunsNextInv DEF PInv
<1>2. Grows
  BY DEF SameDisk, disk, Grows
<1>3. \A q \in Runner \ {r} : RunCalm(q)
  BY DEF RunCalm
<1> QED
  BY <1>1, <1>2, <1>3, KeepsPublished, KeepsMade, CalmIsSound, CalmRowsStay DEF PInv

LEMMA NotesResult ==
  ASSUME PInv, [RunsNext]_rvars, NEW r \in Runner, Note(r)
  PROVE  PInv'
<1> DEFINE o == run[r].op
           s == Tree(r).head
<1>1. Step(r) /\ Inv /\ Inv' /\ [Next]_vars
  BY RunsNextInv DEF PInv, Step
<1>2. /\ run[r] # Idle /\ run[r] \in Run /\ SameDisk
      /\ op[o] # Absent /\ op[o] \in Operation /\ o \in Op
  BY <1>1, StatementOf, RowsOfRuns
<1>3. CASE Refused(r)
  BY <1>1, <1>3, CalmStatements
<1>4. CASE ~Refused(r)
  <2>1. /\ s # Nil /\ op[o].result \in {Nil, s}
        /\ op' = [op EXCEPT ![o].result = s]
        /\ run' = [run EXCEPT ![r].pc = "tip", ![r].result = s]
    BY <1>4 DEF Note, CheckpointResult
  <2>2. Sound(s)
    <3>1. PlaceOf(o) \in Place
      BY <1>2 DEF PlaceOf, Place, Operation
    <3> QED
      BY <3>1 DEF PInv, AllMade, Tree
  <2>3. /\ run'[r].pc = "tip" /\ run'[r].result = s
        /\ \A q \in Runner \ {r} : run'[q] = run[q]
    BY <1>1, <1>2, <2>1 DEF Inv, RInv, RunsWell, Run
  <2>4. op \in [Op -> Operation \cup {Absent}]
    BY <1>1 DEF Inv, RInv, IInv, TypeOK
  <2>5. /\ \A x \in Op \ {o} : op'[x] = op[x]
        /\ op'[o].result = s /\ op'[o].claim = op[o].claim
        /\ op'[o].target = op[o].target /\ op'[o].continuation = op[o].continuation
    BY <1>2, <2>1, <2>4 DEF Operation
  <2>6. \A x \in Op : op[x] # Absent => RowStays(x)
    BY <2>1, <2>5 DEF RowStays
  <2>7. \A x \in Op : op'[x] # Absent /\ op'[x].claim # Nil => op[x] # Absent /\ op[x].claim # Nil
    BY <1>2, <2>5
  <2>8. \A q \in Runner : RunCalm(q) \/ RunKnows(q)'
    BY <2>3 DEF RunCalm, RunKnows, Sending
  <2>9. PublishedFirst'
    <3>1. Grows
      BY <1>2 DEF SameDisk, disk, Grows
    <3> QED
      BY <1>1, <2>6, <2>7, <2>8, <3>1, KeepsPublished DEF PInv
  <2>10. AllMade'
    <3>1. \A x \in Op : op'[x] # Absent => Sound(op'[x].result)
      BY <2>2, <2>5 DEF PInv, AllMade
    <3>2. \A q \in Runner : run'[q] # Idle => Sound(run'[q].result)
      BY <2>2, <2>3 DEF PInv, AllMade
    <3> QED
      BY <1>2, <3>1, <3>2, KeepsMade DEF PInv
  <2> QED
    BY <1>1, <2>9, <2>10 DEF PInv
<1> QED
  BY <1>3, <1>4

LEMMA SettlesCalmly ==
  ASSUME PInv, [RunsNext]_rvars, NEW r \in Runner, Settle(r)
  PROVE  PInv'
<1> DEFINE o == run[r].op
<1>1. Step(r) /\ Inv
  BY DEF PInv, Step
<1>2. /\ run[r] # Idle /\ run[r] \in Run /\ SameDisk
      /\ op[o] # Absent /\ op[o] \in Operation /\ o \in Op
  BY <1>1, StatementOf, RowsOfRuns
<1>3. CASE Refused(r)
  BY <1>1, <1>3, CalmStatements
<1>4. CASE ~Refused(r)
  <2>1. /\ SettleProgrammatic(o, OwnerOf(r), run[r].epoch, run[r].result)
        /\ \/ Go(r, "publish") \/ End(r)
           \/ Go(r, "claim") /\ op[o].continuation # "FinalizePostMergePrPublication"
    BY <1>4 DEF Settle
  <2>2. run[r].result \in Sha
    BY <1>1, <1>2 DEF Inv, RInv, RunsWell, KnowsEnough, Landing, Settle, At, Run
  <2>3. OpsCalm
    BY <1>1, <1>2, <2>1, <2>2, CalmTransactions
  <2>4. CASE Go(r, "publish") \/ End(r)
    <3>1. RunsCalm
      BY <1>1, <1>2, <2>4, CalmCourses DEF Statement, Late, Sending
    <3> QED
      BY <1>2, <2>3, <3>1, CalmSteps
  <2>5. CASE Go(r, "claim") /\ op[o].continuation # "FinalizePostMergePrPublication"
    <3>1. /\ run'[r].pc = "claim" /\ run'[r].op = o /\ run'[r].result = run[r].result
          /\ \A q \in Runner \ {r} : run'[q] = run[q]
      BY <1>1, <1>2, <2>5 DEF Inv, RInv, RunsWell, Run, Go
    <3>2. op'[o].continuation = op[o].continuation
      <4>1. op' = [op EXCEPT ![o].phase = "continuation_pending"]
        BY <2>1 DEF SettleProgrammatic, SetPhase
      <4> QED
        BY <1>1, <1>2, <4>1 DEF Inv, RInv, IInv, TypeOK, Operation
    <3>3. RunKnows(r)'
      BY <2>5, <3>1, <3>2 DEF RunKnows, ToPublish, Sending
    <3>4. Sound(run'[r].result)
      BY <1>2, <3>1 DEF PInv, AllMade
    <3> QED
      BY <1>2, <2>3, <3>1, <3>3, <3>4, RunSteps
  <2> QED
    BY <2>1, <2>4, <2>5
<1> QED
  BY <1>3, <1>4

LEMMA ClaimsPublished ==
  ASSUME PInv, [RunsNext]_rvars, NEW r \in Runner, ClaimNext(r)
  PROVE  PInv'
<1> DEFINE o == run[r].op
<1>1. Step(r) /\ Inv /\ Inv' /\ [Next]_vars
  BY RunsNextInv DEF PInv, Step
<1>2. /\ run[r] # Idle /\ run[r] \in Run /\ SameDisk
      /\ op[o] # Absent /\ op[o] \in Operation /\ o \in Op
  BY <1>1, StatementOf, RowsOfRuns
<1>3. CASE Refused(r)
  BY <1>1, <1>3, CalmStatements
<1>4. CASE ~Refused(r)
  <2>1. /\ op' = [op EXCEPT ![o].phase = "continuation_in_progress", ![o].claim = r]
        /\ run' = [run EXCEPT ![r].pc = "complete", ![r].claim = r]
    BY <1>4 DEF ClaimNext, ClaimContinuation
  <2>2. /\ run'[r].pc = "complete" /\ run'[r].op = o /\ run'[r].result = run[r].result
        /\ \A q \in Runner \ {r} : run'[q] = run[q]
    BY <1>1, <1>2, <2>1 DEF Inv, RInv, RunsWell, Run
  <2>3. op \in [Op -> Operation \cup {Absent}]
    BY <1>1 DEF Inv, RInv, IInv, TypeOK
  <2>4. /\ \A x \in Op \ {o} : op'[x] = op[x]
        /\ op'[o].result = op[o].result
        /\ op'[o].target = op[o].target /\ op'[o].continuation = op[o].continuation
    BY <1>2, <2>1, <2>3 DEF Operation
  <2>5. Grows /\ UNCHANGED << origin, under >>
    BY <1>2 DEF SameDisk, disk, Grows
  <2>6. ToPublish(o) => Published(o)
    BY <1>4 DEF PInv, PublishedFirst, RunKnows, ClaimNext, At
  <2>7. \A x \in Op : x = o /\ ToPublish(x)' => Published(x)'
    BY <2>4, <2>5, <2>6 DEF ToPublish, Published
  <2>8. \A x \in Op : op[x] # Absent => RowStays(x)
    BY <2>4 DEF RowStays
  <2>9. \A x \in Op : op'[x] # Absent /\ op'[x].claim # Nil =>
                        (op[x] # Absent /\ op[x].claim # Nil) \/ ClaimIsPublished(x)'
    BY <2>4, <2>7 DEF ClaimIsPublished, ToPublish, Published
  <2>10. RunKnows(r)'
    BY <1>2, <2>2, <2>7 DEF RunKnows, Sending, ToPublish, Published
  <2>11. PublishedFirst'
    BY <1>1, <2>2, <2>5, <2>8, <2>9, <2>10, KeepsPublished DEF PInv, RunCalm
  <2>12. AllMade'
    <3>1. \A x \in Op : op'[x] # Absent => Sound(op'[x].result)
      BY <1>2, <2>4 DEF PInv, AllMade
    <3>2. \A q \in Runner : run'[q] # Idle => Sound(run'[q].result)
      BY <1>2, <2>2 DEF PInv, AllMade
    <3> QED
      BY <1>2, <3>1, <3>2, KeepsMade DEF PInv
  <2> QED
    BY <1>1, <2>11, <2>12 DEF PInv
<1> QED
  BY <1>3, <1>4

\* Publish finds the result in the branch; Resume is for ordinary updates.
LEMMA TakesUpPublished ==
  ASSUME PInv, [RunsNext]_rvars, NEW r \in Runner, Publish(r) \/ Resume(r)
  PROVE  PInv'
<1> DEFINE o == run[r].op
<1>1. Step(r) /\ Inv /\ op' = op
  BY DEF PInv, Step, Publish, Resume, Reads, repo
<1>2. /\ run[r] # Idle /\ run[r] \in Run /\ SameDisk /\ OpsCalm
      /\ op[o] # Absent /\ op[o] \in Operation /\ o \in Op
  BY <1>1, StatementOf, RowsOfRuns, SameOps
<1>3. CASE End(r)
  <2>1. RunsCalm
    BY <1>1, <1>2, <1>3, CalmCourses
  <2> QED
    BY <1>2, <2>1, CalmSteps
<1>4. ASSUME NEW p \in {"transfer", "push", "claim", "complete"},
             NEW kind \in {"publish", "resume"}, Taken(r, kind, p),
             \/ p \in {"transfer", "push"} /\ tip[op[o].target] = op[o].result
             \/ p \in {"claim", "complete"} /\ ~ToPublish(o)
      PROVE  PInv'
  <2>1. /\ run'[r].pc = p /\ run'[r].op = o /\ run'[r].result = op[o].result
        /\ \A q \in Runner \ {r} : run'[q] = run[q]
    BY <1>1, <1>4 DEF Taken, Inv, RInv, RunsWell
  <2>2. p \in {"transfer", "push"} => op[o].result # Nil
    <3>1. tip[op[o].target] \in Sha
      BY <1>1, <1>2 DEF Inv, RInv, RunsTypeOK, Operation
    <3> QED
      BY <1>4, <3>1, NilIsNothing
  <2>3. RunKnows(r)'
    BY <1>1, <1>4, <2>1, <2>2 DEF RunKnows, ToPublish, Sending
  <2>4. Sound(run'[r].result)
    BY <1>2, <2>1 DEF PInv, AllMade
  <2> QED
    BY <1>2, <2>1, <2>3, <2>4, RunSteps
<1> QED
  BY <1>3, <1>4 DEF Publish, Resume, Leased

LEMMA SendsPublished ==
  ASSUME PInv, [RunsNext]_rvars, NEW r \in Runner, Transfer(r) \/ Confirm(r)
  PROVE  PInv'
<1> DEFINE o == run[r].op
<1>1. Step(r) /\ Inv
  BY DEF PInv, Step
<1>2. /\ run[r] # Idle /\ run[r] \in Run /\ SameDisk
      /\ op[o] # Absent /\ op[o] \in Operation /\ o \in Op
  BY <1>1, StatementOf, RowsOfRuns
<1>3. run[r].result = op[o].result /\ run[r].result # Nil
  BY DEF PInv, PublishedFirst, RunKnows, Sending, Transfer, Confirm, At
<1>4. CASE Refused(r)
  BY <1>1, <1>4, CalmStatements
<1>5. CASE Transfer(r) /\ ~Refused(r)
  <2>1. /\ TransferOperationLease(o, << "branch", o >>, run[r].epoch)
        /\ run' = [run EXCEPT ![r].pc = "push", ![r].epoch = @ + 1]
    BY <1>5 DEF Transfer
  <2>2. OpsCalm
    BY <1>1, <1>2, <2>1, CalmTransactions
  <2>3. op'[o].result = op[o].result
    BY <1>1, <1>2, <2>1 DEF TransferOperationLease, Inv, RInv, IInv, TypeOK, Operation
  <2>4. /\ run'[r].pc = "push" /\ run'[r].op = o /\ run'[r].result = run[r].result
        /\ \A q \in Runner \ {r} : run'[q] = run[q]
    BY <1>1, <1>2, <2>1 DEF Inv, RInv, RunsWell, Run
  <2>5. RunKnows(r)'
    BY <1>3, <2>3, <2>4 DEF RunKnows
  <2>6. Sound(run'[r].result)
    BY <1>2, <2>4 DEF PInv, AllMade
  <2> QED
    BY <1>2, <2>2, <2>4, <2>5, <2>6, RunSteps
<1>6. CASE Confirm(r) /\ ~Refused(r)
  <2>1. OpsCalm /\ UNCHANGED << op, origin, under >>
    BY <1>6, SameOps DEF Confirm, Reads, repo, disk
  <2>2. CASE End(r)
    <3>1. RunsCalm
      BY <1>1, <1>2, <2>2, CalmCourses
    <3> QED
      BY <1>2, <2>1, <3>1, CalmSteps
  <2>3. ASSUME NEW p \in {"claim", "complete"}, Go(r, p), origin[op[o].target] = run[r].result
        PROVE  PInv'
    <3>1. /\ run'[r].pc = p /\ run'[r].op = o /\ run'[r].result = run[r].result
          /\ \A q \in Runner \ {r} : run'[q] = run[q]
      BY <1>1, <1>2, <2>3 DEF Inv, RInv, RunsWell, Run, Go
    <3>2. Published(o)
      BY <1>2, <1>3, <2>3 DEF PInv, AllMade, Sound, Published, Operation
    <3>3. RunKnows(r)'
      BY <2>1, <3>1, <3>2 DEF RunKnows, Published, Sending
    <3>4. Sound(run'[r].result)
      BY <1>2, <3>1 DEF PInv, AllMade
    <3> QED
      BY <1>2, <2>1, <3>1, <3>3, <3>4, RunSteps
  <2> QED
    BY <1>6, <2>2, <2>3 DEF Confirm, ClaimOrComplete, TargetOf
<1> QED
  BY <1>4, <1>5, <1>6

LEMMA StatementsPublish ==
  ASSUME PInv, [RunsNext]_rvars, NEW r \in Runner, Step(r)
  PROVE  PInv'
BY CalmStatements, NotesResult, SettlesCalmly, ClaimsPublished, TakesUpPublished,
   SendsPublished DEF Step

-----------------------------------------------------------------------------
(* Git commands and processes                                                *)

\* No commit that was made is lost.
Kept == \A s \in Sha : s \in under[s] => s \in under'[s]

LEMMA DiskSteps ==
  ASSUME PInv, [RunsNext]_rvars, OpsCalm, RunsCalm, Grows, Kept, Nested',
         \A g \in Target : Sound(tip[g])' /\ Sound(origin[g])',
         \A o \in Op : Sound(seen[o])',
         \A p \in Place : Sound(ws[p].head)',
         \A p \in live' : Sound(p.sha)'
  PROVE  PInv'
<1>1. Inv /\ Inv' /\ [Next]_vars
  BY RunsNextInv DEF PInv
<1>2. PublishedFirst'
  BY <1>1, KeepsPublished, CalmRowsStay DEF PInv, RunsCalm
<1>3. RunsTypeOK' /\ run' \in [Runner -> Run \cup {Idle}]
      /\ op' \in [Op -> Operation \cup {Absent}]
  BY <1>1 DEF Inv, RInv, RunsTypeOK, IInv, TypeOK
<1>4. ASSUME NEW o \in Op, op'[o] # Absent
      PROVE  Sound(op[o].result)'
  <2>1. op'[o].result \in Sha \cup {Nil} /\ Sound(op'[o].result)
    BY <1>3, <1>4, CalmIsSound DEF PInv, Operation
  <2> QED
    BY <2>1 DEF Sound, Kept
<1>5. ASSUME NEW q \in Runner, run'[q] # Idle
      PROVE  Sound(run[q].result)'
  <2>1. run'[q].result \in Sha \cup {Nil} /\ Sound(run'[q].result)
    BY <1>3, <1>5, CalmIsSound DEF PInv, RunsCalm, Run
  <2> QED
    BY <2>1 DEF Sound, Kept
<1>6. AllMade'
  BY <1>4, <1>5 DEF AllMade
<1> QED
  BY <1>1, <1>2, <1>6 DEF PInv

\* The same, where no commit is made and no ref moves.
LEMMA TreeSteps ==
  ASSUME PInv, [RunsNext]_rvars, OpsCalm, RunsCalm, UNCHANGED << tip, origin, under >>,
         \A o \in Op : Sound(seen'[o]),
         \A p \in Place : Sound(ws'[p].head),
         \A p \in live' : Sound(p.sha)
  PROVE  PInv'
<1>1. Grows /\ Kept /\ Nested'
  BY DEF Grows, Kept, Nested, PInv, AllMade
<1>2. \A g \in Target : Sound(tip[g])' /\ Sound(origin[g])'
  BY DEF PInv, AllMade, Sound
<1>3. /\ \A o \in Op : Sound(seen[o])'
      /\ \A p \in Place : Sound(ws[p].head)'
      /\ \A p \in live' : Sound(p.sha)'
  BY DEF Sound
<1> QED
  BY <1>1, <1>2, <1>3, DiskSteps

LEMMA KilledIsSound ==
  ASSUME PInv, NEW p \in live, Killed(p)
  PROVE  \A x \in Place : Sound(ws'[x].head)
<1>1. /\ ws \in [Place -> Workspace] /\ PlaceOf(p.op) \in Place /\ p.op \in Op
      /\ Sound(seen[p.op]) /\ \A x \in Place : Sound(ws[x].head)
  BY PlacesOfGit DEF PInv, AllMade, Inv, RInv, RunsTypeOK, Process
<1> QED
  BY <1>1 DEF Killed

LEMMA SameNames ==
  ASSUME PInv
  PROVE  /\ seen' = seen => \A o \in Op : Sound(seen'[o])
         /\ ws' = ws => \A p \in Place : Sound(ws'[p].head)
         /\ live' \subseteq live => \A p \in live' : Sound(p.sha)
BY DEF PInv, AllMade

LEMMA CommandsPublish ==
  ASSUME PInv, [RunsNext]_rvars, NEW r \in Runner, CommandStep(r)
  PROVE  PInv'
<1>1. Inv /\ run[r].pc \in Command
  BY DEF PInv, CommandStep, Begin, Spawn, SpawnFails, Bind, BindFails, Exited, TimedOut,
         Clear, Commands
<1>2. /\ run[r] # Idle /\ run[r] \in Run /\ run \in [Runner -> Run \cup {Idle}]
      /\ Sound(run[r].result) /\ Mine(r) \subseteq live
  BY <1>1, CommandRuns, TargetsOfRuns DEF Inv, RInv, RunsWell, PInv, AllMade, Mine
<1>3. OpsCalm
  <2>1. op' = op
    BY DEF CommandStep, Begin, Spawn, SpawnFails, Bind, BindFails, Exited, TimedOut, Clear,
           BeginGitMutation, BindGitProcessGroup, CompleteGitMutation, ClearsClaim, Refused, repo
  <2> QED
    BY <2>1, SameOps
<1>4. /\ End(r) => RunsCalm
      /\ \A s \in {"begun", "spawned", "bound", "exited"} : Reaches(r, s) => RunsCalm
  BY <1>1, <1>2, CalmCourses
<1>5. CASE Begin(r) \/ SpawnFails(r) \/ Exited(r)
  <2>1. SameDisk /\ RunsCalm
    BY <1>4, <1>5 DEF Begin, SpawnFails, Exited, Writes, Refused, SameDisk
  <2> QED
    BY <1>3, <2>1, CalmSteps
<1>6. CASE Spawn(r)
  <2>1. /\ RunsCalm /\ UNCHANGED << seen, tip, origin, under, ws >>
        /\ \A p \in live' : p \in live \/ p.sha = run[r].result
    BY <1>4, <1>6 DEF Spawn, disk
  <2>2. \A p \in live' : Sound(p.sha)
    BY <1>2, <2>1 DEF PInv, AllMade
  <2> QED
    BY <1>3, <2>1, <2>2, TreeSteps, SameNames
<1>7. CASE Bind(r)
  <2>1. /\ RunsCalm /\ UNCHANGED << seen, tip, origin, under, ws >>
        /\ live' = (live \ Mine(r)) \cup {[p EXCEPT !.bound = TRUE] : p \in Mine(r)}
    BY <1>4, <1>7 DEF Bind, disk
  <2>2. \A p \in live : [p EXCEPT !.bound = TRUE].sha = p.sha
    BY <1>1 DEF Inv, RInv, RunsTypeOK, Process
  <2>3. \A p \in live' : Sound(p.sha)
    BY <1>2, <2>1, <2>2 DEF PInv, AllMade
  <2> QED
    BY <1>3, <2>1, <2>3, TreeSteps, SameNames
<1>8. CASE BindFails(r)
  <2>1. /\ RunsCalm /\ UNCHANGED << seen, tip, origin, under >> /\ live' \subseteq live
        /\ ws' = ws \/ \E p \in live : Killed(p)
    BY <1>2, <1>4, <1>8 DEF BindFails
  <2> QED
    BY <1>3, <2>1, TreeSteps, SameNames, KilledIsSound
<1>9. CASE TimedOut(r)
  <2>1. /\ UNCHANGED << seen, tip, origin, under >>
        /\ \E p \in live :
             \/ /\ live' = live \ Mine(r)
                /\ Killed(p)
                /\ run' = [run EXCEPT ![r].stage = "exited", ![r].out = "killed"]
             \/ /\ live' = (live \ Mine(r)) \cup {[q EXCEPT !.orphan = TRUE] : q \in Mine(r)}
                /\ End(r) /\ UNCHANGED ws
    BY <1>2, <1>9 DEF TimedOut
  <2>2. \A p \in live : [p EXCEPT !.orphan = TRUE].sha = p.sha
    BY <1>1 DEF Inv, RInv, RunsTypeOK, Process
  <2>3. \A p \in live' : Sound(p.sha)
    <3>1. live' \subseteq live \cup {[q EXCEPT !.orphan = TRUE] : q \in Mine(r)}
      BY <2>1
    <3>2. \A p \in live : Sound(p.sha)
      BY DEF PInv, AllMade
    <3> QED
      BY <1>2, <2>2, <3>1, <3>2
  <2>4. RunsCalm
    <3>1. run' = [run EXCEPT ![r].stage = "exited", ![r].out = "killed"] => RunsCalm
      BY <1>2 DEF RunsCalm, RunCalm, Run
    <3> QED
      BY <1>4, <2>1, <3>1
  <2>5. \A p \in Place : Sound(ws'[p].head)
    BY <2>1, SameNames, KilledIsSound
  <2> QED
    BY <1>3, <2>1, <2>3, <2>4, <2>5, TreeSteps, SameNames
<1>10. CASE Clear(r)
  <2>1. SameDisk /\ (Goes(r) \/ End(r))
    BY <1>10 DEF Clear, Writes, SameDisk
  <2>2. \/ End(r) \/ Fail(r) \/ Go(r, "resolve")
        \/ Go(r, After[run[r].pc])
    BY <2>1 DEF Goes
  <2>3. CASE ~(run[r].pc = "push" /\ Go(r, "confirm"))
    <3>1. run[r].pc # "push" => After[run[r].pc] \in (Command \cup Statement) \ Late
      BY <1>1, CommandNames, AfterCommands DEF After, Late, Sending
    <3>2. "resolve" \in Statement \ Late /\ After["push"] = "confirm"
      BY DEF Statement, Late, Sending, After
    <3>3. RunsCalm
      BY <1>1, <1>2, <2>2, <2>3, <3>1, <3>2, CalmCourses
    <3> QED
      BY <1>3, <2>1, <3>3, CalmSteps
  <2>4. CASE run[r].pc = "push" /\ Go(r, "confirm")
    <3>1. run[r].result = op[run[r].op].result /\ run[r].result # Nil
      BY <2>4 DEF PInv, PublishedFirst, RunKnows, Sending
    <3>2. /\ run'[r].pc = "confirm" /\ run'[r].op = run[r].op
          /\ run'[r].result = run[r].result
          /\ \A q \in Runner \ {r} : run'[q] = run[q]
      BY <1>2, <2>4 DEF Go, Run
    <3>3. op' = op
      BY <1>10 DEF Clear, CompleteGitMutation, ClearsClaim, repo
    <3>4. RunKnows(r)'
      BY <3>1, <3>2, <3>3 DEF RunKnows
    <3> QED
      BY <1>2, <1>3, <2>1, <3>2, <3>4, RunSteps
  <2> QED
    BY <2>3, <2>4
<1> QED
  BY <1>5, <1>6, <1>7, <1>8, <1>9, <1>10 DEF CommandStep

-----------------------------------------------------------------------------
(* What a Git process does                                                   *)

\* A new commit takes over what its own commit contains, and leaves the others.
LEMMA NewCommit ==
  ASSUME Nested, under \in [Sha \cup {Nil} -> SUBSET Sha],
         NEW s \in Sha, ~Made(s), NEW h \in Sha \cup {Nil},
         under' = [under EXCEPT ![s] = under[h] \cup {s}]
  PROVE  /\ Nested' /\ Kept /\ s \in under'[s]
         /\ \A y \in Sha \cup {Nil} : under[y] \subseteq under'[y]
         /\ \A y \in Sha \cup {Nil} : Sound(y) => Sound(y)'
<1>1. under[s] = {} /\ under'[s] = under[h] \cup {s}
      /\ \A y \in Sha \cup {Nil} : y # s => under'[y] = under[y]
  BY DEF Made
<1>2. \A y \in Sha \cup {Nil} : \A x \in under[y] : x \in Sha /\ x # s
  BY <1>1 DEF Nested
<1>3. ASSUME NEW y \in Sha \cup {Nil}, NEW x \in under'[y]
      PROVE  x \in under'[x] /\ under'[x] \subseteq under'[y]
  <2>1. CASE x = s
    <3>1. y = s
      BY <1>1, <1>2, <2>1
    <3> QED
      BY <1>1, <2>1, <3>1
  <2>2. CASE x # s /\ y = s
    <3>1. x \in under[h]
      BY <1>1, <1>3, <2>2
    <3>2. x \in under[x] /\ under[x] \subseteq under[h] /\ under'[x] = under[x]
      BY <1>1, <1>2, <2>2, <3>1 DEF Nested
    <3> QED
      BY <1>1, <2>2, <3>2
  <2>3. CASE x # s /\ y # s
    <3>1. x \in under[y] /\ under'[y] = under[y]
      BY <1>1, <1>3, <2>3
    <3>2. x \in under[x] /\ under[x] \subseteq under[y] /\ under'[x] = under[x]
      BY <1>1, <1>2, <2>3, <3>1 DEF Nested
    <3> QED
      BY <3>1, <3>2
  <2> QED
    BY <2>1, <2>2, <2>3
<1>4. Nested'
  BY <1>3 DEF Nested
<1>5. \A y \in Sha \cup {Nil} : under[y] \subseteq under'[y]
  BY <1>1
<1> QED
  BY <1>1, <1>4, <1>5 DEF Kept, Sound

\* The commits a command makes, and the workspace it leaves.
LEMMA CommitsAreSound ==
  ASSUME PInv, NEW p \in live, Commits(p)
  PROVE  /\ Nested' /\ Kept
         /\ \A y \in Sha \cup {Nil} : under[y] \subseteq under'[y]
         /\ \A y \in Sha \cup {Nil} : Sound(y) => Sound(y)'
         /\ \A x \in Place : Sound(ws[x].head)'
<1> DEFINE h == ws[PlaceOf(p.op)].head
<1>1. /\ under \in [Sha \cup {Nil} -> SUBSET Sha] /\ ws \in [Place -> Workspace]
      /\ PlaceOf(p.op) \in Place
  BY PlacesOfGit DEF PInv, Inv, RInv, RunsTypeOK
<1>2. h \in Sha \cup {Nil} /\ \A x \in Place : ws[x].head \in Sha \cup {Nil}
  BY <1>1 DEF Workspace
<1>3. PICK s \in Sha \ Outside :
        /\ ~Made(s)
        /\ under' = [under EXCEPT ![s] = under[h] \cup {s}]
        /\ Sets(p, "clean", s)
  BY DEF Commits
<1>4. /\ Nested' /\ Kept /\ s \in under'[s]
      /\ \A y \in Sha \cup {Nil} : under[y] \subseteq under'[y]
      /\ \A y \in Sha \cup {Nil} : Sound(y) => Sound(y)'
  BY <1>1, <1>2, <1>3, NewCommit DEF PInv, AllMade
<1>5. ASSUME NEW x \in Place
      PROVE  Sound(ws[x].head)'
  <2>1. CASE x = PlaceOf(p.op)
    <3>1. ws'[x].head = s
      BY <1>1, <1>3, <2>1 DEF Sets
    <3> QED
      BY <1>4, <3>1 DEF Sound
  <2>2. CASE x # PlaceOf(p.op)
    <3>1. ws'[x] = ws[x] /\ Sound(ws[x].head)
      BY <1>1, <1>3, <2>2 DEF Sets, PInv, AllMade
    <3> QED
      BY <1>2, <1>4, <3>1 DEF Sound
  <2> QED
    BY <2>1, <2>2
<1> QED
  BY <1>4, <1>5

LEMMA ExitPublishes ==
  ASSUME PInv, [RunsNext]_rvars, NEW p \in live, Exit(p)
  PROVE  PInv'
<1> DEFINE w == ws[PlaceOf(p.op)]
           g == op[p.op].target
<1>1. /\ op' = op /\ seen' = seen /\ live' \subseteq live /\ Inv
      /\ Succeeds(p) \/ Fails(p)
  BY DEF Exit, repo, PInv
<1>2. OpsCalm
  BY <1>1, SameOps
<1>3. RunsCalm
  <2>1. PICK out \in {"ok", "fail"} :
          run' = [r \in Runner |-> IF p \in Mine(r) THEN [run[r] EXCEPT !.out = out]
                                                  ELSE run[r]]
    BY DEF Exit
  <2>2. run \in [Runner -> Run \cup {Idle}] /\ [Idle EXCEPT !.out = out] = Idle
    BY <1>1 DEF Inv, RInv, RunsWell, Idle
  <2>3. ASSUME NEW r \in Runner
        PROVE  RunCalm(r)
    <3>1. CASE run[r] = Idle
      BY <2>1, <2>2, <3>1 DEF RunCalm
    <3>2. CASE run[r] \in Run /\ run[r] # Idle
      <4> DEFINE k == [run[r] EXCEPT !.out = out]
      <4>1. k.pc = run[r].pc /\ k.result = run[r].result /\ k.op = run[r].op
        BY <3>2 DEF Run
      <4> QED
        BY <2>1, <3>2, <4>1 DEF RunCalm
    <3> QED
      BY <2>2, <3>1, <3>2
  <2> QED
    BY <2>3 DEF RunsCalm
<1>4. /\ ws \in [Place -> Workspace] /\ PlaceOf(p.op) \in Place /\ p \in Process
      /\ tip \in [Target -> Sha] /\ origin \in [Target -> Sha] /\ g \in Target
      /\ seen \in [Op -> Sha \cup {Nil}]
      /\ live \subseteq Process
  BY <1>1, PlacesOfGit DEF Inv, RInv, RunsTypeOK
<1>5. /\ \A x \in Place : Sound(ws[x].head)
      /\ \A x \in Target : Sound(tip[x]) /\ Sound(origin[x])
      /\ \A o \in Op : Sound(seen[o])
      /\ \A q \in live : Sound(q.sha)
      /\ Nested
  BY DEF PInv, AllMade
<1>6. ASSUME UNCHANGED << tip, origin, under >>,
             \/ ws' = ws
             \/ \E tree \in {"clean", "staged", "conflicts"}, s \in {w.head, seen[p.op]} :
                  Sets(p, tree, s)
             \/ ws' = [ws EXCEPT ![PlaceOf(p.op)] = NoTree]
      PROVE  PInv'
  <2>1. Sound(w.head) /\ Sound(seen[p.op]) /\ Sound(NoTree.head)
    BY <1>4, <1>5 DEF Process, Sound, NoTree
  <2>2. \A x \in Place : Sound(ws'[x].head)
    BY <1>4, <1>5, <1>6, <2>1 DEF Sets
  <2> QED
    BY <1>1, <1>2, <1>3, <1>6, <2>2, TreeSteps, SameNames
<1>7. ASSUME Commits(p), UNCHANGED << tip, origin >>
      PROVE  PInv'
  <2>1. /\ Nested' /\ Kept
        /\ \A y \in Sha \cup {Nil} : under[y] \subseteq under'[y]
        /\ \A y \in Sha \cup {Nil} : Sound(y) => Sound(y)'
        /\ \A x \in Place : Sound(ws[x].head)'
    BY <1>7, CommitsAreSound
  <2>2. Grows
    BY <1>4, <1>7, <2>1 DEF Grows
  <2>3. \A x \in Target : Sound(tip[x])' /\ Sound(origin[x])'
    BY <1>4, <1>5, <1>7, <2>1 DEF Sound
  <2>4. \A o \in Op : Sound(seen[o])'
    BY <1>1, <1>4, <1>5, <2>1 DEF Sound
  <2>5. \A q \in live' : Sound(q.sha)'
    <3>1. \A q \in live : q.sha \in Sha \cup {Nil}
      BY <1>4 DEF Process
    <3> QED
      BY <1>1, <1>5, <2>1, <3>1
  <2> QED
    BY <1>2, <1>3, <2>1, <2>2, <2>3, <2>4, <2>5, DiskSteps
<1>8. ASSUME UNCHANGED << under, ws >>, Grows,
             \A x \in Target : Sound(tip'[x]) /\ Sound(origin'[x])
      PROVE  PInv'
  <2>1. Kept /\ Nested'
    BY <1>5, <1>8 DEF Kept, Nested
  <2>2. /\ \A x \in Target : Sound(tip[x])' /\ Sound(origin[x])'
        /\ \A o \in Op : Sound(seen[o])'
        /\ \A x \in Place : Sound(ws[x].head)'
        /\ \A q \in live' : Sound(q.sha)'
    BY <1>1, <1>5, <1>8 DEF Sound
  <2> QED
    BY <1>2, <1>3, <1>8, <2>1, <2>2, DiskSteps
<1>9. CASE p.cmd = "land" /\ tip' = [tip EXCEPT ![g] = p.sha] /\ UNCHANGED << origin, under, ws >>
  <2>1. Grows /\ \A x \in Target : Sound(tip'[x]) /\ Sound(origin'[x])
    BY <1>4, <1>5, <1>9 DEF Grows
  <2> QED
    BY <1>8, <1>9, <2>1
<1>10. CASE /\ origin[g] \in under[tip[g]]
            /\ origin' = [origin EXCEPT ![g] = tip[g]] /\ UNCHANGED << tip, under, ws >>
  <2>1. under[origin[g]] \subseteq under[tip[g]]
    BY <1>4, <1>5, <1>10 DEF Nested
  <2>2. Grows /\ \A x \in Target : Sound(tip'[x]) /\ Sound(origin'[x])
    BY <1>4, <1>5, <1>10, <2>1 DEF Grows
  <2> QED
    BY <1>8, <1>10, <2>2
<1>11. CASE Fails(p)
  BY <1>6, <1>11 DEF Fails, disk
<1>12. CASE Succeeds(p)
  BY <1>6, <1>7, <1>9, <1>10, <1>12 DEF Succeeds
<1> QED
  BY <1>1, <1>11, <1>12

-----------------------------------------------------------------------------
(* Crashes, recovery, and the callers                                        *)

LEMMA StopsPublish ==
  ASSUME PInv, [RunsNext]_rvars, Crash \/ Restart \/ Ready
  PROVE  PInv'
<1>1. UNCHANGED << op, seen, tip, origin, under, ws >>
  BY DEF Crash, Restart, Ready, repo, disk
<1>2. OpsCalm
  BY <1>1, SameOps
<1>3. CASE Crash
  <2>1. /\ live' = {[p EXCEPT !.orphan = TRUE] : p \in live}
        /\ run' = [r \in Runner |-> Idle]
    BY <1>3 DEF Crash
  <2>2. \A p \in live : [p EXCEPT !.orphan = TRUE].sha = p.sha /\ Sound(p.sha)
    BY DEF PInv, AllMade, Inv, RInv, RunsTypeOK, Process
  <2>3. RunsCalm /\ \A p \in live' : Sound(p.sha)
    BY <2>1, <2>2 DEF RunsCalm, RunCalm
  <2> QED
    BY <1>1, <1>2, <2>3, TreeSteps, SameNames
<1>4. CASE Restart \/ Ready
  <2>1. SameDisk /\ run' = run
    BY <1>4 DEF Restart, Ready, SameDisk
  <2>2. RunsCalm
    BY <2>1 DEF RunsCalm, RunCalm
  <2> QED
    BY <1>2, <2>1, <2>2, CalmSteps
<1> QED
  BY <1>3, <1>4

LEMMA RecoveryPublishes ==
  ASSUME PInv, [RunsNext]_rvars, NEW g \in Target,
         TerminateGroup(g) \/ RecoverClaim(g) \/ LeaveClaim(g)
  PROVE  PInv'
<1>1. op' = op /\ run' = run
  BY DEF TerminateGroup, RecoverClaim, LeaveClaim, CompleteGitMutation, repo, host
<1>2. OpsCalm /\ RunsCalm
  BY <1>1, SameOps DEF RunsCalm, RunCalm
<1>3. CASE RecoverClaim(g) \/ LeaveClaim(g)
  <2>1. SameDisk
    BY <1>3 DEF RecoverClaim, LeaveClaim, SameDisk
  <2> QED
    BY <1>2, <2>1, CalmSteps
<1>4. CASE TerminateGroup(g)
  <2>1. /\ UNCHANGED << seen, tip, origin, under >> /\ live' \subseteq live
        /\ \E p \in live : Killed(p)
    BY <1>4 DEF TerminateGroup, GroupOf
  <2> QED
    BY <1>2, <2>1, TreeSteps, SameNames, KilledIsSound
<1> QED
  BY <1>3, <1>4

LEMMA OthersPublish ==
  ASSUME PInv, [RunsNext]_rvars,
         (\E g \in Target : OthersCommit(g)) \/ (\E t \in Task : TaskGoesOn(t))
  PROVE  PInv'
<1>1. op' = op /\ run' = run /\ Inv
  BY DEF OthersCommit, TaskGoesOn, MoveTask, repo, PInv
<1>2. OpsCalm /\ RunsCalm
  BY <1>1, SameOps DEF RunsCalm, RunCalm
<1>3. ASSUME NEW t \in Task, TaskGoesOn(t)
      PROVE  PInv'
  <2>1. SameDisk
    BY <1>3 DEF TaskGoesOn, SameDisk
  <2> QED
    BY <1>2, <2>1, CalmSteps
<1>4. ASSUME NEW g \in Target, OthersCommit(g)
      PROVE  PInv'
  <2>1. PICK s \in Outside : /\ ~Made(s)
                             /\ under' = [under EXCEPT ![s] = under[tip[g]] \cup {s}]
                             /\ tip' = [tip EXCEPT ![g] = s]
    BY <1>4 DEF OthersCommit
  <2>2. /\ tip \in [Target -> Sha] /\ origin \in [Target -> Sha]
        /\ under \in [Sha \cup {Nil} -> SUBSET Sha] /\ seen \in [Op -> Sha \cup {Nil}]
        /\ ws \in [Place -> Workspace] /\ live \subseteq Process /\ s \in Sha
    BY <1>1, ShaAssumption DEF Inv, RInv, RunsTypeOK
  <2>3. UNCHANGED << seen, origin, ws, live >>
    BY <1>4 DEF OthersCommit
  <2>4. /\ Nested' /\ Kept /\ s \in under'[s]
        /\ \A y \in Sha \cup {Nil} : under[y] \subseteq under'[y]
        /\ \A y \in Sha \cup {Nil} : Sound(y) => Sound(y)'
    BY <2>1, <2>2, NewCommit DEF PInv, AllMade
  <2>5. /\ \A x \in Target : Sound(tip[x]) /\ Sound(origin[x])
        /\ \A o \in Op : Sound(seen[o])
        /\ \A x \in Place : Sound(ws[x].head)
        /\ \A q \in live : Sound(q.sha)
    BY DEF PInv, AllMade
  <2>6. Grows
    BY <2>2, <2>3, <2>4 DEF Grows
  <2>7. ASSUME NEW x \in Target
        PROVE  Sound(tip[x])' /\ Sound(origin[x])'
    <3>1. Sound(origin[x])'
      BY <2>2, <2>3, <2>4, <2>5 DEF Sound
    <3>2. Sound(tip[x])'
      <4>1. CASE x = g
        BY <2>1, <2>2, <2>4, <4>1 DEF Sound
      <4>2. CASE x # g
        <5>1. tip'[x] = tip[x]
          BY <2>1, <2>2, <4>2
        <5> QED
          BY <2>2, <2>4, <2>5, <5>1 DEF Sound
      <4> QED
        BY <4>1, <4>2
    <3> QED
      BY <3>1, <3>2
  <2>8. \A o \in Op : Sound(seen[o])'
    BY <2>2, <2>3, <2>4, <2>5 DEF Sound
  <2>9. \A x \in Place : Sound(ws[x].head)'
    <3>1. \A x \in Place : ws[x].head \in Sha \cup {Nil}
      BY <2>2 DEF Workspace
    <3> QED
      BY <2>3, <2>4, <2>5, <3>1 DEF Sound
  <2>10. \A q \in live' : Sound(q.sha)'
    <3>1. \A q \in live : q.sha \in Sha \cup {Nil}
      BY <2>2 DEF Process
    <3> QED
      BY <2>3, <2>4, <2>5, <3>1
  <2> QED
    BY <1>2, <2>4, <2>6, <2>7, <2>8, <2>9, <2>10, DiskSteps
<1> QED
  BY <1>3, <1>4

LEMMA NoRowIsAbsent ==
  ASSUME Inv, NEW o \in Op
  PROVE  op[o].phase = "none" <=> op[o] = Absent
BY DEF Inv, RInv, IInv, TypeOK, Operation, Open, Working, Absent

LEMMA UpdatesPublish ==
  ASSUME PInv, [RunsNext]_rvars, NEW o \in Op, UpdateStep(o)
  PROVE  PInv'
<1>1. SameDisk /\ run' = run /\ Inv
  BY DEF UpdateStep, StartResolver, ResolverEnds, ResolverReports, Pause, ResumeTask,
         StopTask, SameDisk, PInv
<1>2. \E w, e :
        \/ \E b \in BOOLEAN : BlockOperation(o, w, e, b)
        \/ PauseOperation(o, w, e)
        \/ ResumeOperation(o, w, e)
        \/ StopOperation(o, w, e)
        \/ BindAgentRun(o)
        \/ UnbindAgentRun(o)
  BY DEF UpdateStep, StartResolver, ResolverEnds, ResolverReports, Pause, ResumeTask, StopTask
<1>3. op[o] # Absent
  BY <1>2 DEF BlockOperation, PauseOperation, ResumeOperation, StopOperation, BindAgentRun,
              UnbindAgentRun, Unsettled, Open, Working, Absent
<1>4. OpsCalm
  BY <1>1, <1>2, <1>3, CalmTransactions
<1>5. RunsCalm
  BY <1>1 DEF RunsCalm, RunCalm
<1> QED
  BY <1>1, <1>4, <1>5, CalmSteps

LEMMA StartsAreCalm ==
  ASSUME Inv, NEW r \in Runner, NEW kind, NEW e, NEW o \in Op,
         NEW p \in {"check", "gather", "publish", "resume"}, NEW s,
         s = Nil \/ (op[o] # Absent /\ s = op[o].result),
         Start(r, kind, p, o, e, s)
  PROVE  RunsCalm
<1>1. run \in [Runner -> Run \cup {Idle}]
  BY DEF Inv, RInv, RunsWell
<1>2. /\ run'[r].pc = p /\ run'[r].op = o /\ run'[r].result = s
      /\ \A q \in Runner \ {r} : run'[q] = run[q]
  BY <1>1 DEF Start
<1> QED
  BY <1>2 DEF RunsCalm, RunCalm, Late, Sending

LEMMA CallersPublish ==
  ASSUME PInv, [RunsNext]_rvars, NEW r \in Runner, CallerStep(r)
  PROVE  PInv'
<1>1. Inv /\ op \in [Op -> Operation \cup {Absent}] /\ seen \in [Op -> Sha \cup {Nil}]
  BY DEF PInv, Inv, RInv, IInv, TypeOK, RunsTypeOK
<1>2. ASSUME NEW o \in Op, NEW t \in Task, NEW g \in Target, NEW d \in Way,
             NEW k \in Continuation, StartUpdate(r, o, t, g, d, k)
      PROVE  PInv'
  <2>1. /\ UNCHANGED << tip, origin, under, ws, live >> /\ seen' = [seen EXCEPT ![o] = tip[g]]
        /\ Start(r, "programmatic", "check", o, NextEpoch(g), Nil)
        /\ Activate(o, t, g, d, k)
    BY <1>2 DEF StartUpdate, disk
  <2>2. op[o] = Absent
    BY <1>1, <2>1, NoRowIsAbsent DEF Activate
  <2>3. OpsCalm
    BY <1>1, <2>1, <2>2 DEF Activate, OpsCalm
  <2>4. RunsCalm
    BY <1>1, <2>1, StartsAreCalm
  <2>5. \A x \in Op : Sound(seen'[x])
    BY <1>1, <2>1 DEF PInv, AllMade
  <2> QED
    BY <2>1, <2>3, <2>4, <2>5, TreeSteps, SameNames
<1>3. ASSUME NEW o \in Op, ResolverCompletes(r, o) \/ Reconcile(r, o)
      PROVE  PInv'
  <2>1. SameDisk /\ op' = op
    BY <1>3 DEF ResolverCompletes, Reconcile, Reads, SameDisk, repo
  <2>2. op[o] # Absent
    BY <1>3 DEF ResolverCompletes, Reconcile, Bound, Unsettled, Open, Working, Absent
  <2>3. RunsCalm
    BY <1>1, <1>3, <2>2, StartsAreCalm DEF ResolverCompletes, Reconcile
  <2> QED
    BY <2>1, <2>3, SameOps, CalmSteps
<1>4. ASSUME NEW o \in Op, NEW n \in Op, Retry(r, o, n)
      PROVE  PInv'
  <2>1. /\ UNCHANGED << tip, origin, under, ws, live >> /\ seen' = [seen EXCEPT ![n] = seen[o]]
        /\ \/ run' = run
           \/ Start(r, "programmatic", "check", n, op[o].epoch + 1, Nil)
        /\ RetryOperation(o, n, LeaseOf(o).owner, LeaseOf(o).epoch)
    BY <1>4 DEF Retry, disk
  <2>2. op[n] = Absent /\ op[o] \in Operation /\ n # o
    BY <1>1, <2>1, NoRowIsAbsent, RowsAre DEF RetryOperation, Absent
  <2>3. OpsCalm
    <3> DEFINE e == LeaseOf(o).epoch
               x == [op[o] EXCEPT !.phase = IF op[o].conflicts THEN "resolving" ELSE "programmatic",
                                  !.epoch = e + 1, !.result = Nil, !.bound = FALSE, !.claim = Nil]
               y == [op[o] EXCEPT !.phase = "settled"]
    <3>1. op' = [[op EXCEPT ![o] = y] EXCEPT ![n] = x]
      BY <1>1, <2>1, <2>2 DEF RetryOperation
    <3>2. /\ x.result = Nil /\ x.claim = Nil
          /\ y.target = op[o].target /\ y.continuation = op[o].continuation
          /\ y.result = op[o].result /\ y.claim = op[o].claim
      BY <2>2 DEF Operation
    <3>3. op'[n] = x /\ op'[o] = y /\ \A z \in Op \ {o, n} : op'[z] = op[z]
      BY <1>1, <2>2, <3>1
    <3>4. op[o] # Absent
      BY <1>1, <2>2, RowsAre
    <3> HIDE DEF x, y
    <3> QED
      BY <2>2, <3>2, <3>3, <3>4 DEF OpsCalm
  <2>4. RunsCalm
    BY <1>1, <2>1, StartsAreCalm DEF RunsCalm, RunCalm
  <2>5. \A z \in Op : Sound(seen'[z])
    BY <1>1, <2>1 DEF PInv, AllMade
  <2> QED
    BY <2>1, <2>3, <2>4, <2>5, TreeSteps, SameNames
<1> QED
  BY <1>2, <1>3, <1>4 DEF CallerStep

-----------------------------------------------------------------------------
LEMMA PublishedAtFirst == RunsInit => PInv
<1> SUFFICES ASSUME RunsInit PROVE PInv
  OBVIOUS
<1>1. Inv
  BY RunsInitInv
<1>2. /\ Nil \notin Sha /\ Root \in Sha
      /\ under = [s \in Sha \cup {Nil} |-> IF s = Root THEN {Root} ELSE {}]
  BY NilIsNothing, ShaAssumption DEF RunsInit
<1>3. Nested
  BY <1>2 DEF Nested
<1>4. Sound(Root)
  BY <1>2 DEF Sound
<1>5. /\ \A o \in Op : op[o] = Absent /\ seen[o] = Nil
      /\ \A g \in Target : tip[g] = Root /\ origin[g] = Root
      /\ \A p \in Place : ws[p].head = Nil
      /\ \A r \in Runner : run[r] = Idle
      /\ live = {}
  BY DEF RunsInit, Init, NoTree
<1>6. AllMade
  BY <1>3, <1>4, <1>5 DEF AllMade, Sound
<1>7. PublishedFirst
  BY <1>5, IdleIsIdle DEF PublishedFirst, ClaimIsPublished, RunKnows, Late
<1> QED
  BY <1>1, <1>6, <1>7 DEF PInv

LEMMA PublishedStill ==
  ASSUME PInv, [RunsNext]_rvars
  PROVE  PInv'
<1>1. CASE UNCHANGED rvars
  <2>1. SameDisk /\ op' = op /\ run' = run
    BY <1>1 DEF rvars, repo, SameDisk
  <2>2. OpsCalm /\ RunsCalm
    BY <2>1, SameOps DEF RunsCalm, RunCalm
  <2> QED
    BY <2>1, <2>2, CalmSteps
<1>2. CASE \E r \in Runner : Step(r) \/ CommandStep(r) \/ CallerStep(r)
  BY <1>2, StatementsPublish, CommandsPublish, CallersPublish
<1>3. CASE \E o \in Op : UpdateStep(o)
  BY <1>3, UpdatesPublish
<1>4. CASE \E p \in live : Exit(p)
  BY <1>4, ExitPublishes
<1>5. CASE Crash \/ Restart \/ Ready
  BY <1>5, StopsPublish
<1>6. CASE \E g \in Target : TerminateGroup(g) \/ RecoverClaim(g) \/ LeaveClaim(g)
  BY <1>6, RecoveryPublishes
<1>7. CASE (\E g \in Target : OthersCommit(g)) \/ (\E t \in Task : TaskGoesOn(t))
  BY <1>7, OthersPublish
<1> QED
  BY <1>1, <1>2, <1>3, <1>4, <1>5, <1>6, <1>7 DEF RunsNext

\* A task whose publication is settled as merged has its result at the remote,
\* whichever runs raced for the hand-over, were refused, retried or cut off by a
\* crash between push, confirmation and claim.
THEOREM MergesArePublished == RunsSpec => []MergedIsPublished
<1>1. RunsSpec => []PInv
  BY PublishedAtFirst, PublishedStill, PTL DEF RunsSpec
<1>2. PInv => MergedIsPublished
  BY DEF PInv, PublishedFirst, ClaimIsPublished, Published, MergedIsPublished, Absent
<1> QED
  BY <1>1, <1>2, PTL
=============================================================================
