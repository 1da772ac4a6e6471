-------------------------- MODULE BranchUpdateRuns --------------------------
(***************************************************************************)
(* The runs that carry out branch updates on top of the repository: the    *)
(* executor, its Git processes (which outlive the application), the agent   *)
(* that resolves conflicts, the user's commands, and recovery at startup.   *)
(* A run is one call of an entry point of the executor.  Between any two of *)
(* its statements and Git commands the other actors move and the            *)
(* application may stop.                                                    *)
(***************************************************************************)
EXTENDS BranchUpdateRepo

CONSTANTS
  Runner,      \* runs at the same time; a name is also the ids of its claims
  Root,        \* the commit every branch starts at
  Outside,     \* commits made by others
  Way,         \* directions of the updates
  MaxCrashes   \* bound on the stops of the application

ASSUME RunnerAssumption == Runner \subseteq Claim
ASSUME ShaAssumption == Root \in Sha /\ Outside \subseteq Sha \ {Root}
ASSUME WayAssumption == Way \subseteq Direction
ASSUME CrashAssumption == MaxCrashes \in Nat

VARIABLES
  seen,     \* observed_target_sha of the operations
  tip,      \* the ref of each target
  origin,   \* the same ref at the remote
  under,    \* the commits a commit contains, {} while it is not made
  ws,       \* the workspace of a task and direction
  live,     \* Git processes
  run,      \* runs
  app,      \* the application
  todo,     \* targets whose claims the startup has not looked at
  crashes

repo  == << status, op, lease >>
disk  == << tip, origin, under, ws >>
host  == << app, todo, crashes >>
rvars == << repo, seen, disk, live, run, host >>

-----------------------------------------------------------------------------
Place == Task \X Direction
PlaceOf(o) == << op[o].task, op[o].direction >>

\* dirty: a tree that a killed command left unfinished
Workspace == [ tree : {"none", "clean", "conflicts", "staged", "dirty"},
               head : Sha \cup {Nil} ]
NoTree == [ tree |-> "none", head |-> Nil ]

\* The Git commands a run gives, and where it goes on after each.
AfterUnnoted == [ add |-> "merge", merge |-> "tip", stage |-> "commit",
                  commit |-> "tip", land |-> "tidy", remove |-> "settle",
                  push |-> "confirm" ]
After == [ add |-> "merge", merge |-> "note", stage |-> "commit",
           commit |-> "note", land |-> "tidy", remove |-> "settle",
           push |-> "confirm" ]
Command == DOMAIN After
Statement == { "check", "look", "gather", "note", "tip", "tidy", "settle", "claim",
               "complete", "block", "resolve", "publish", "transfer", "confirm",
               "resume" }

\* stage: how far the command at pc is
Run == [ kind : {"programmatic", "resolved", "publish", "resume"},
         pc : Command \cup Statement,
         stage : {"ask", "begun", "spawned", "bound", "exited"},
         op : Op, epoch : Epoch, result : Sha \cup {Nil},
         claim : Claim \cup {Nil}, out : {"none", "ok", "fail", "killed"} ]
Idle == [ pc |-> "idle" ]

Process == [ claim : Runner, cmd : Command, op : Op, sha : Sha \cup {Nil},
             bound : BOOLEAN, orphan : BOOLEAN ]

RunsTypeOK ==
  /\ TypeOK
  /\ seen \in [Op -> Sha \cup {Nil}]
  /\ tip \in [Target -> Sha] /\ origin \in [Target -> Sha]
  /\ under \in [Sha \cup {Nil} -> SUBSET Sha]
  /\ ws \in [Place -> Workspace]
  /\ live \subseteq Process
  /\ run \in [Runner -> Run \cup {Idle}]
  /\ app \in {"up", "down", "starting"}
  /\ todo \subseteq Target
  /\ crashes \in 0 .. MaxCrashes

RunsInit ==
  /\ Init
  /\ seen = [o \in Op |-> Nil]
  /\ tip = [g \in Target |-> Root] /\ origin = [g \in Target |-> Root]
  /\ under = [s \in Sha \cup {Nil} |-> IF s = Root THEN {Root} ELSE {}]
  /\ ws = [p \in Place |-> NoTree]
  /\ live = {}
  /\ run = [r \in Runner |-> Idle]
  /\ app = "up" /\ todo = {} /\ crashes = 0

-----------------------------------------------------------------------------
(* The course of a run *)

At(r, p) == app = "up" /\ run[r].pc = p
Free(r) == app = "up" /\ run[r] = Idle

Start(r, kind, pc, o, e, s) ==
  run' = [run EXCEPT ![r] = [ kind |-> kind, pc |-> pc, stage |-> "ask", op |-> o,
                              epoch |-> e, result |-> s, claim |-> Nil,
                              out |-> "none" ]]
Go(r, p) == run' = [run EXCEPT ![r].pc = p, ![r].stage = "ask", ![r].out = "none"]
End(r) == run' = [run EXCEPT ![r] = Idle]

\* Only the programmatic run blocks its operation; the others return an error.
Fail(r) == IF run[r].kind = "programmatic" THEN Go(r, "block") ELSE End(r)

OwnerOf(r) ==
  << IF run[r].kind = "publish" THEN "publication" ELSE "branch", run[r].op >>
TargetOf(r) == op[run[r].op].target
Tree(r) == ws[PlaceOf(run[r].op)]
Expected(r) == seen[run[r].op]

\* What the statements of the executor ask of the operation.
Has(r, phases) == /\ op[run[r].op].phase \in phases
                  /\ Guarded(run[r].op, OwnerOf(r), run[r].epoch)
                  /\ Updating(run[r].op)

Reads == UNCHANGED << repo, seen, disk, live, host >>
Writes == UNCHANGED << seen, disk, live, host >>
Refused(r) == End(r) /\ UNCHANGED << repo, seen, disk, live, host >>

-----------------------------------------------------------------------------
(* execute_programmatic_branch_update *)

\* The source may have moved as well.
Check(r) ==
  /\ At(r, "check")
  /\ \/ tip[TargetOf(r)] = Expected(r) /\ Go(r, "look")
     \/ Go(r, "block")
  /\ Reads

Look(r) ==
  /\ At(r, "look")
  /\ CASE Tree(r).tree = "none" -> Go(r, "add")
       [] Tree(r).tree = "conflicts" -> Go(r, "resolve")
       [] Tree(r).tree \in {"staged", "dirty"} -> Go(r, "block")
       [] OTHER ->
            IF Tree(r).head = Expected(r) THEN Go(r, "merge")
            ELSE IF Expected(r) \in under[Tree(r).head] THEN Go(r, "note")
            ELSE Go(r, "block")
  /\ Reads

Resolve(r) ==
  /\ At(r, "resolve")
  /\ \/ /\ MarkResolving(run[r].op, OwnerOf(r), run[r].epoch)
        /\ End(r) /\ Writes
     \/ ~Has(r, {"programmatic"}) /\ Refused(r)

Block(r) ==
  /\ At(r, "block")
  /\ \/ /\ BlockOperation(run[r].op, OwnerOf(r), run[r].epoch, FALSE)
        /\ End(r) /\ Writes
     \/ ~Has(r, Working) /\ Refused(r)

-----------------------------------------------------------------------------
(* complete_resolved_branch_update *)

Gather(r) ==
  /\ At(r, "gather")
  /\ IF run[r].result # Nil
       THEN IF Tree(r).tree = "none" \/ Tree(r).head = run[r].result
              THEN Go(r, "tip") ELSE End(r)
       ELSE CASE Tree(r).tree = "none" -> End(r)
              [] Tree(r).tree \in {"conflicts", "staged", "dirty"} -> Go(r, "stage")
              [] OTHER ->
                   IF Tree(r).head = Expected(r) THEN Go(r, "stage")
                   ELSE IF Expected(r) \in under[Tree(r).head] THEN Go(r, "note")
                   ELSE End(r)
  /\ Reads

-----------------------------------------------------------------------------
(* What both do once the merge is committed *)

Note(r) ==
  LET o == run[r].op   s == Tree(r).head IN
  /\ At(r, "note")
  /\ \/ /\ s # Nil
        /\ CheckpointResult(o, OwnerOf(r), run[r].epoch, s)
        /\ run' = [run EXCEPT ![r].pc = "tip", ![r].result = s]
        /\ Writes
     \/ ~(Has(r, Working) /\ s # Nil /\ op[o].result \in {Nil, s}) /\ Refused(r)

Tip(r) ==
  /\ At(r, "tip")
  /\ CASE tip[TargetOf(r)] = Expected(r) -> Go(r, "land")
       [] tip[TargetOf(r)] = run[r].result -> Go(r, "tidy")
       [] OTHER -> Fail(r)
  /\ Reads

Tidy(r) ==
  /\ At(r, "tidy")
  /\ Go(r, IF Tree(r).tree = "none" THEN "settle" ELSE "remove")
  /\ Reads

\* A publication is taken up at once by most callers, by reconciliation else.
Settle(r) ==
  LET o == run[r].op IN
  /\ At(r, "settle")
  /\ \/ /\ SettleProgrammatic(o, OwnerOf(r), run[r].epoch, run[r].result)
        /\ IF op[o].continuation = "FinalizePostMergePrPublication"
             THEN Go(r, "publish") \/ End(r)
             ELSE Go(r, "claim")
        /\ Writes
     \/ ~(Has(r, Working) /\ op[o].result = run[r].result) /\ Refused(r)

ClaimNext(r) ==
  LET o == run[r].op IN
  /\ At(r, "claim")
  /\ \/ /\ ClaimContinuation(o, r)
        /\ run' = [run EXCEPT ![r].pc = "complete", ![r].claim = r]
        /\ Writes
     \/ ~(op[o].phase = "continuation_pending" /\ Updating(o)) /\ Refused(r)

Complete(r) ==
  LET o == run[r].op IN
  /\ At(r, "complete")
  /\ \/ /\ CompleteContinuation(o, OwnerOf(r), run[r].epoch, run[r].claim)
        /\ End(r) /\ Writes
     \/ /\ ~(Has(r, {"continuation_in_progress"}) /\ op[o].claim = run[r].claim)
        /\ Refused(r)

-----------------------------------------------------------------------------
(* publish_post_merge_branch_update, resume_branch_update_continuation *)

Awaiting(o) == op[o].phase \in {"continuation_pending", "continuation_in_progress"}
ToPublish(o) == op[o].continuation = "FinalizePostMergePrPublication"
Leased(o, kind) == LET l == lease[op[o].target] IN
                   l.owner = << kind, o >> /\ l.epoch = op[o].epoch

\* Both read the operation again and go on with the claim it has.
Taken(r, kind, pc) ==
  LET o == run[r].op IN
  run' = [run EXCEPT ![r] =
            [ kind |-> kind, pc |-> pc, stage |-> "ask", op |-> o,
              epoch |-> op[o].epoch, result |-> op[o].result,
              claim |-> op[o].claim, out |-> "none" ]]
ClaimOrComplete(r) == IF run[r].claim = Nil THEN "claim" ELSE "complete"

PublishOnce(r) ==
  LET o == run[r].op IN
  /\ At(r, "publish")
  /\ IF ~Awaiting(o) \/ ~ToPublish(o)
       THEN End(r)
       ELSE IF Leased(o, "branch") THEN Taken(r, "publish", "transfer")
       ELSE Taken(r, "publish", IF op[o].claim = Nil THEN "claim" ELSE "complete")
  /\ Reads
Publish(r) ==
  LET o == run[r].op IN
  /\ At(r, "publish")
  /\ IF ~Awaiting(o) \/ ~ToPublish(o) \/ tip[op[o].target] # op[o].result
       THEN End(r)
       ELSE CASE Leased(o, "branch") -> Taken(r, "publish", "transfer")
              [] Leased(o, "publication") -> Taken(r, "publish", "push")
              [] OTHER -> End(r)
  /\ Reads

Transfer(r) ==
  LET o == run[r].op   w == << "branch", o >> IN
  /\ At(r, "transfer")
  /\ \/ /\ TransferOperationLease(o, w, run[r].epoch)
        /\ run' = [run EXCEPT ![r].pc = "push", ![r].epoch = @ + 1]
        /\ Writes
     \/ /\ ~(Unsettled(o) /\ Updating(o) /\ Guarded(o, w, run[r].epoch))
        /\ Refused(r)

Confirm(r) ==
  /\ At(r, "confirm")
  /\ IF origin[TargetOf(r)] = run[r].result THEN Go(r, ClaimOrComplete(r)) ELSE End(r)
  /\ Reads

ResumePending(r) ==
  LET o == run[r].op IN
  /\ At(r, "resume")
  /\ IF /\ op[o].phase = "continuation_pending" /\ ~ToPublish(o)
        /\ Leased(o, "branch") /\ Quiet(op[o].target)
       THEN Taken(r, "resume", "claim")
       ELSE End(r)
  /\ Reads
Resume(r) ==
  LET o == run[r].op IN
  /\ At(r, "resume")
  /\ IF Awaiting(o) /\ ~ToPublish(o) /\ Leased(o, "branch") /\ Quiet(op[o].target)
       THEN Taken(r, "resume", IF op[o].claim = Nil THEN "claim" ELSE "complete")
       ELSE End(r)
  /\ Reads

Step(r) ==
  \/ Check(r) \/ Look(r) \/ Resolve(r) \/ Block(r) \/ Gather(r)
  \/ Note(r) \/ Tip(r) \/ Tidy(r) \/ Settle(r) \/ ClaimNext(r) \/ Complete(r)
  \/ Publish(r) \/ Transfer(r) \/ Confirm(r) \/ Resume(r)

-----------------------------------------------------------------------------
(* run_authorized_mutation: claim, spawn, bind, wait, clear *)

Commands(r, stage) == app = "up" /\ run[r].pc \in Command /\ run[r].stage = stage
Reaches(r, stage) == run' = [run EXCEPT ![r].stage = stage]
Mine(r) == {p \in live : p.claim = r /\ ~p.orphan}

Begin(r) ==
  /\ Commands(r, "ask")
  /\ \/ /\ BeginGitMutation(TargetOf(r), OwnerOf(r), run[r].epoch, r)
        /\ Reaches(r, "begun") /\ Writes
     \/ ~(Current(TargetOf(r), OwnerOf(r), run[r].epoch) /\ Quiet(TargetOf(r))) /\ Refused(r)

Spawn(r) ==
  /\ Commands(r, "begun")
  /\ live' = live \cup {[ claim |-> r, cmd |-> run[r].pc, op |-> run[r].op,
                          sha |-> run[r].result, bound |-> FALSE, orphan |-> FALSE ]}
  /\ Reaches(r, "spawned")
  /\ UNCHANGED << repo, seen, disk, host >>

ClearsClaim(r) == CompleteGitMutation(TargetOf(r), OwnerOf(r), run[r].epoch, r)
HasClaim(r) == /\ Current(TargetOf(r), OwnerOf(r), run[r].epoch)
               /\ lease[TargetOf(r)].claim = r

\* No admission to the Git lane, or no process.
SpawnFails(r) ==
  /\ Commands(r, "begun")
  /\ \/ ClearsClaim(r)
     \/ ~HasClaim(r) /\ UNCHANGED repo
  /\ End(r) /\ Writes

\* A tree that a killed command leaves as it was, or unfinished.
Killed(p) ==
  \/ UNCHANGED ws
  \/ /\ \/ p.cmd = "add" /\ ws[PlaceOf(p.op)].tree = "none"
        \/ p.cmd \in {"merge", "remove"} /\ ws[PlaceOf(p.op)].tree # "none"
     /\ ws' = [ws EXCEPT ![PlaceOf(p.op)] = [ tree |-> "dirty", head |-> seen[p.op] ]]

Bind(r) ==
  /\ Commands(r, "spawned")
  /\ BindGitProcessGroup(TargetOf(r), OwnerOf(r), run[r].epoch, r)
  /\ live' = (live \ Mine(r)) \cup {[p EXCEPT !.bound = TRUE] : p \in Mine(r)}
  /\ Reaches(r, "bound")
  /\ UNCHANGED << seen, disk, host >>

\* The statement is refused or fails: the group is killed, the claim stays.
BindFails(r) ==
  /\ Commands(r, "spawned")
  /\ live' = live \ Mine(r)
  /\ \/ Mine(r) = {} /\ UNCHANGED ws
     \/ \E p \in Mine(r) : Killed(p)
  /\ End(r)
  /\ UNCHANGED << repo, seen, tip, origin, under, host >>

Exited(r) ==
  /\ Commands(r, "bound")
  /\ Mine(r) = {}
  /\ Reaches(r, "exited")
  /\ UNCHANGED << repo, seen, disk, live, host >>

\* The group is killed; if it is still there the claim stays.
TimedOut(r) ==
  /\ Commands(r, "bound")
  /\ \E p \in Mine(r) :
       \/ /\ live' = live \ Mine(r)
          /\ Killed(p)
          /\ run' = [run EXCEPT ![r].stage = "exited", ![r].out = "killed"]
       \/ /\ live' = (live \ Mine(r)) \cup {[q EXCEPT !.orphan = TRUE] : q \in Mine(r)}
          /\ End(r) /\ UNCHANGED ws
  /\ UNCHANGED << repo, seen, tip, origin, under, host >>

GoesAnyway(r) ==
  IF run[r].pc = "merge" /\ Tree(r).tree = "conflicts" THEN Go(r, "resolve")
  ELSE Go(r, After[run[r].pc])
Goes(r) ==
  LET c == run[r].pc IN
  CASE run[r].out = "ok" -> Go(r, After[c])
    [] run[r].out = "fail" ->
         IF c = "merge" /\ Tree(r).tree = "conflicts" THEN Go(r, "resolve") ELSE Fail(r)
    [] OTHER -> End(r)

Clear(r) ==
  /\ Commands(r, "exited")
  /\ \/ ClearsClaim(r) /\ Goes(r)
     \/ ~HasClaim(r) /\ End(r) /\ UNCHANGED repo
  /\ Writes

CommandStep(r) ==
  \/ Begin(r) \/ Spawn(r) \/ SpawnFails(r) \/ Bind(r) \/ BindFails(r)
  \/ Exited(r) \/ TimedOut(r) \/ Clear(r)

-----------------------------------------------------------------------------
(* What a Git process does before it exits *)

Sets(p, tree, head) == ws' = [ws EXCEPT ![PlaceOf(p.op)] = [tree |-> tree, head |-> head]]
Made(s) == under[s] # {}
Commits(p) ==
  LET h == ws[PlaceOf(p.op)].head IN
  \E s \in Sha \ Outside :
    /\ ~Made(s)
    /\ under' = [under EXCEPT ![s] = under[h] \cup {s}]
    /\ Sets(p, "clean", s)

Succeeds(p) ==
  LET w == ws[PlaceOf(p.op)]   g == op[p.op].target IN
  \/ /\ p.cmd = "add" /\ w.tree = "none"
     /\ Sets(p, "clean", seen[p.op])
     /\ UNCHANGED << tip, origin, under >>
  \/ /\ p.cmd = "merge" /\ w.tree = "clean"
     /\ Commits(p)
     /\ UNCHANGED << tip, origin >>
  \/ /\ p.cmd = "stage" /\ w.tree \in {"conflicts", "staged"}
     /\ Sets(p, "staged", w.head)
     /\ UNCHANGED << tip, origin, under >>
  \/ /\ p.cmd = "commit" /\ w.tree = "staged"
     /\ Commits(p)
     /\ UNCHANGED << tip, origin >>
  \/ /\ p.cmd = "land" /\ tip[g] = seen[p.op]
     /\ tip' = [tip EXCEPT ![g] = p.sha]
     /\ UNCHANGED << origin, under, ws >>
  \/ /\ p.cmd = "remove" /\ w.tree # "none"
     /\ ws' = [ws EXCEPT ![PlaceOf(p.op)] = NoTree]
     /\ UNCHANGED << tip, origin, under >>
  \/ /\ p.cmd = "push" /\ origin[g] \in under[tip[g]]
     /\ origin' = [origin EXCEPT ![g] = tip[g]]
     /\ UNCHANGED << tip, under, ws >>

\* stage: the files still have conflict markers.
Fails(p) ==
  LET w == ws[PlaceOf(p.op)] IN
  \/ /\ p.cmd = "merge" /\ w.tree = "clean"
     /\ Sets(p, "conflicts", w.head)
     /\ UNCHANGED << tip, origin, under >>
  \/ /\ p.cmd = "stage" /\ w.tree = "conflicts"
     /\ Sets(p, "staged", w.head)
     /\ UNCHANGED << tip, origin, under >>
  \/ UNCHANGED disk

Exit(p) ==
  LET hears == {r \in Runner : p \in Mine(r)}
      with(out) == run' = [r \in Runner |-> IF r \in hears THEN [run[r] EXCEPT !.out = out]
                                            ELSE run[r]]
  IN /\ live' = live \ {p}
     /\ \/ Succeeds(p) /\ with("ok")
        \/ Fails(p) /\ with("fail")
     /\ UNCHANGED << repo, seen, host >>

-----------------------------------------------------------------------------
(* The application stops and starts; recover_in_flight_git_mutations *)

Crash ==
  /\ app # "down"
  /\ crashes < MaxCrashes
  /\ app' = "down" /\ crashes' = crashes + 1 /\ todo' = {}
  /\ run' = [r \in Runner |-> Idle]
  /\ live' = {[p EXCEPT !.orphan = TRUE] : p \in live}
  /\ UNCHANGED << repo, seen, disk >>

Restart ==
  /\ app = "down"
  /\ app' = "starting" /\ todo' = Target
  /\ UNCHANGED << repo, seen, disk, live, run, crashes >>

\* The group the claim names; a process nobody bound has none there.
GroupOf(g) == {p \in live : p.bound /\ p.claim = lease[g].claim /\ op[p.op].target = g}

TerminateGroup(g) ==
  /\ app = "starting" /\ g \in todo
  /\ \E p \in GroupOf(g) : live' = live \ {p} /\ Killed(p)
  /\ UNCHANGED << repo, seen, tip, origin, under, run, host >>

TerminatedUnasked(g) == TRUE
Terminated(g) == GroupOf(g) = {}

\* inspect_operation_workspace
Inspected(o) == ws[PlaceOf(o)].tree = "clean"
Clearable(g) == /\ ~Quiet(g)
                /\ Terminated(g)
                /\ Inspected(lease[g].owner[2])

RecoverClaim(g) ==
  LET l == lease[g] IN
  /\ app = "starting" /\ g \in todo
  /\ Clearable(g)
  /\ CompleteGitMutation(g, l.owner, l.epoch, l.claim)
  /\ todo' = todo \ {g}
  /\ UNCHANGED << seen, disk, live, run, app, crashes >>

\* No claim, or NeedsRepair: the group survived or the workspace is not clean.
LeaveClaim(g) ==
  /\ app = "starting" /\ g \in todo
  /\ ~Clearable(g)
  /\ todo' = todo \ {g}
  /\ UNCHANGED << repo, seen, disk, live, run, app, crashes >>

Ready ==
  /\ app = "starting" /\ todo = {}
  /\ app' = "up"
  /\ UNCHANGED << repo, seen, disk, live, run, todo, crashes >>

-----------------------------------------------------------------------------
(* The callers *)

StartUpdate(r, o, t, g, d, k) ==
  /\ Free(r)
  /\ status[t] \in Elsewhere
  /\ Activate(o, t, g, d, k)
  /\ seen' = [seen EXCEPT ![o] = tip[g]]
  /\ Start(r, "programmatic", "check", o, NextEpoch(g), Nil)
  /\ UNCHANGED << disk, live, host >>

\* The resolver agent: it starts, ends, completes or gives up.
StartResolver(o) ==
  app = "up" /\ BindAgentRun(o) /\ UNCHANGED << seen, disk, live, run, host >>
ResolverEnds(o) ==
  app = "up" /\ UnbindAgentRun(o) /\ UNCHANGED << seen, disk, live, run, host >>

Bound(o) == app = "up" /\ Unsettled(o) /\ op[o].bound /\ Updating(o)

ResolverCompletes(r, o) ==
  /\ Free(r)
  /\ Bound(o) /\ op[o].phase = "resolving"
  /\ Start(r, "resolved", "gather", o, op[o].epoch, op[o].result)
  /\ Reads

ResolverReports(o) ==
  /\ Bound(o)
  /\ \E b \in BOOLEAN : BlockOperation(o, << "branch", o >>, op[o].epoch, b)
  /\ UNCHANGED << seen, disk, live, run, host >>

\* reconcile_branch_update_task, recover_branch_update_continuations
Reconcile(r, o) ==
  /\ Free(r)
  /\ Unsettled(o) /\ Awaiting(o) /\ Updating(o)
  /\ LET k == IF ToPublish(o) THEN "publish" ELSE "resume" IN
     Start(r, k, k, o, op[o].epoch, op[o].result)
  /\ Reads

\* The commands take the owner and the epoch the lease has now.
LeaseOf(o) == lease[op[o].target]

PauseUnasked(o) ==
  /\ app = "up" /\ Unsettled(o) /\ Updating(o)
  /\ op' = [op EXCEPT ![o].bound = FALSE]
  /\ SetStatus(op[o].task, "Paused")
  /\ UNCHANGED << lease, seen, disk, live, run, host >>
Pause(o) ==
  /\ app = "up" /\ Unsettled(o) /\ Updating(o)
  /\ PauseOperation(o, LeaseOf(o).owner, LeaseOf(o).epoch)
  /\ UNCHANGED << seen, disk, live, run, host >>

ResumeTask(o) ==
  /\ app = "up" /\ Unsettled(o)
  /\ ResumeOperation(o, LeaseOf(o).owner, LeaseOf(o).epoch)
  /\ UNCHANGED << seen, disk, live, run, host >>

StopTask(o) ==
  /\ app = "up" /\ Unsettled(o)
  /\ StopOperation(o, LeaseOf(o).owner, LeaseOf(o).epoch)
  /\ UNCHANGED << seen, disk, live, run, host >>

Retry(r, o, n) ==
  /\ Free(r)
  /\ Unsettled(o)
  /\ RetryOperation(o, n, LeaseOf(o).owner, LeaseOf(o).epoch)
  /\ seen' = [seen EXCEPT ![n] = seen[o]]
  /\ IF op[o].conflicts
       THEN UNCHANGED run
       ELSE Start(r, "programmatic", "check", n, op[o].epoch + 1, Nil)
  /\ UNCHANGED << disk, live, host >>

\* A task that no update holds runs on, and others change its branch.
TaskGoesOn(t) ==
  /\ \E s \in Elsewhere : status[t] # s /\ MoveTask(t, s)
  /\ UNCHANGED << seen, disk, live, run, host >>

OthersCommit(g) ==
  /\ \E s \in Outside :
       /\ ~Made(s)
       /\ under' = [under EXCEPT ![s] = under[tip[g]] \cup {s}]
       /\ tip' = [tip EXCEPT ![g] = s]
  /\ UNCHANGED << repo, seen, origin, ws, live, run, host >>

CallerStep(r) ==
  \/ \E o \in Op, t \in Task, g \in Target, d \in Way, k \in Continuation :
       StartUpdate(r, o, t, g, d, k)
  \/ \E o \in Op : ResolverCompletes(r, o) \/ Reconcile(r, o)
  \/ \E o, n \in Op : Retry(r, o, n)

UpdateStep(o) ==
  \/ StartResolver(o) \/ ResolverEnds(o) \/ ResolverReports(o)
  \/ Pause(o) \/ ResumeTask(o) \/ StopTask(o)

RunsNext ==
  \/ \E r \in Runner : Step(r) \/ CommandStep(r) \/ CallerStep(r)
  \/ \E o \in Op : UpdateStep(o)
  \/ \E p \in live : Exit(p)
  \/ Crash \/ Restart \/ Ready
  \/ \E g \in Target : TerminateGroup(g) \/ RecoverClaim(g) \/ LeaveClaim(g) \/ OthersCommit(g)
  \/ \E t \in Task : TaskGoesOn(t)

RunsSpec == RunsInit /\ [][RunsNext]_rvars

-----------------------------------------------------------------------------
(* Properties *)

\* A Git process whose group the repository knows has its claim in flight until
\* it is gone: nobody else writes to the branch beside it, not even after a
\* restart or a timeout.
KnownGitIsClaimed ==
  \A p \in live : p.bound =>
    LET l == lease[op[p.op].target] IN l.claim = p.claim /\ l.group

\* While an update waits for its continuation, and so when its task goes on, its
\* result is in the branch, whichever runs raced, were paused, retried or cut off
\* by a crash.  (Once it is settled, a later update may drop it again.)
ResultIsInBranch ==
  \A o \in Op : Awaiting(o) => op[o].result \in under[tip[op[o].target]]

\* A task whose publication is settled as merged has its result at the remote.
MergedIsPublished ==
  \A o \in Op :
    op[o].phase = "settled" /\ op[o].claim # Nil /\ ToPublish(o) =>
      op[o].result \in under[origin[op[o].target]]

\* Every step of the runs, their callers and recovery is a transaction of the
\* repository or leaves it alone, so that its invariants hold here too.
RunsUseRepository == Spec

Fairness ==
  /\ \A r \in Runner : WF_rvars(Step(r) \/ CommandStep(r))
  /\ \A o \in Op : WF_rvars(\E r \in Runner : Reconcile(r, o))
  /\ WF_rvars(\E p \in live : Exit(p))
  /\ WF_rvars(Restart \/ Ready \/ \E g \in Target : RecoverClaim(g) \/ LeaveClaim(g))
FairRunsSpec == RunsSpec /\ Fairness

\* An ordinary update whose merge is settled lets its task go on, unless the
\* user pauses or stops it: reconciliation takes it up after a crash.
SettledTaskGoesOn ==
  \A o \in Op :
    Unsettled(o) /\ Awaiting(o) /\ ~ToPublish(o)
      ~> op[o].phase = "settled" \/ (Unsettled(o) /\ status[op[o].task] = "Paused")
=============================================================================
