------------------------ MODULE ReadySchedulerProofs ------------------------
(***************************************************************************)
(* Proofs about ReadyScheduler, for any tasks, dependencies, schedulers    *)
(* and limits.                                                             *)
(***************************************************************************)
EXTENDS ReadyScheduler, TLAPS

-----------------------------------------------------------------------------
(* The inductive invariant.                                                *)

\* The rows: finished is right, and no task is ahead of its blockers.
Rows ==
  /\ row \in [Task -> Row]
  /\ finished \subseteq Task
  /\ \A t \in Task : Satisfied(t) => t \in finished
  /\ StartsAfterBlockers

\* A pass that is past the gate, or that took a task from its review.
Chosen == {"mark", "claim", "move", "commit", "revise"}
InLock == {"move", "commit", "enter", "revise"}
NoTaskYet == {"idle", "room", "review"}

Sound(p) ==
  /\ p \in Pass
  /\ p.task = NoTask <=> p.pc \in NoTaskYet
  /\ p.pc = "gate" => Blockers[p.task] \ p.left \subseteq finished
  /\ p.pc \in Chosen => Blockers[p.task] \subseteq finished

Passes ==
  /\ pass \in [Scheduler -> Pass]
  /\ \A s \in Scheduler : Sound(pass[s])
  /\ inFlight = { t \in Task : \E s \in Scheduler : Inside(s, t) }
  /\ \A t \in Task, r, s \in Scheduler : Inside(r, t) /\ Inside(s, t) => r = s

\* A row that was read of a task at work is no ahead of its blockers either.
Careful(m) ==
  /\ m \in Manager
  /\ m.pc # "idle" => m.task \in Task
  /\ m.pc \in {"names", "write", "reason"} /\ m.row.status \in AtWork
       => Blockers[m.task] \subseteq finished

Managers == manager \in [Task -> Manager] /\ \A b \in Task : Careful(manager[b])

Others ==
  /\ held \subseteq Task /\ agents \subseteq Task /\ paused \in BOOLEAN
  /\ starting \subseteq Task /\ moves \in 0..MaxMoves

IInv == Rows /\ Passes /\ Managers /\ Others

LEMMA IInvTypes == IInv => TypeOK
BY DEF IInv, Rows, Passes, Managers, Others, TypeOK, Sound, NoTaskYet, Inside

-----------------------------------------------------------------------------
(* Rows.                                                                   *)

LEMMA StatusKinds ==
  /\ AtWork \subseteq Status /\ {"Ready", "Blocked", "Cancelled", "Executing", "Reviewing"} \subseteq Status
  /\ \A s \in DependencySatisfied : s \in AtWork \cup {"Cancelled"}
  /\ {"Ready", "Blocked", "Cancelled", "Backlog"} \cap AtWork = {}
  /\ {"Ready", "Blocked", "Backlog"} \cap DependencySatisfied = {}
BY DEF AtWork, Status, DependencySatisfied

\* Every write of a row that keeps to the blockers keeps the invariant.
LEMMA WriteKeepsRows ==
  ASSUME Rows, NEW t \in Task, NEW r \in Row, WriteRow(t, r),
         r.status \in AtWork => Blockers[t] \subseteq finished
  PROVE  Rows' /\ finished \subseteq finished'
<1>1. /\ row' = [row EXCEPT ![t] = r]
      /\ finished' = finished \cup (IF r.status \in DependencySatisfied THEN {t} ELSE {})
  BY DEF WriteRow
<1>2. row' \in [Task -> Row] /\ finished' \subseteq Task /\ finished \subseteq finished'
  BY <1>1 DEF Rows
<1>3. \A u \in Task : Satisfied(u)' => u \in finished'
  BY <1>1 DEF Rows, Satisfied
<1>4. StartsAfterBlockers'
  BY <1>1, <1>2 DEF Rows, StartsAfterBlockers
<1> QED BY <1>2, <1>3, <1>4 DEF Rows

LEMMA SetKeepsRows ==
  ASSUME Rows, NEW t \in Task, NEW s \in Status, SetStatus(t, s),
         s \in AtWork => Blockers[t] \subseteq finished
  PROVE  Rows' /\ finished \subseteq finished'
<1> DEFINE r == [row[t] EXCEPT !.status = s]
<1>1. r \in Row /\ r.status = s
  BY DEF Rows, Row
<1>2. WriteRow(t, r)
  BY DEF SetStatus
<1> QED BY <1>1, <1>2, WriteKeepsRows

LEMMA KeptRows ==
  ASSUME Rows, UNCHANGED rows
  PROVE  Rows' /\ finished \subseteq finished'
BY DEF Rows, rows, Satisfied, StartsAfterBlockers

\* A task at work may take any next step of the pipeline.
LEMMA WorkedOn ==
  ASSUME Rows, NEW t \in Task, row[t].status \in AtWork
  PROVE  Blockers[t] \subseteq finished
BY DEF Rows, StartsAfterBlockers

LEMMA LeaveKeepsRows ==
  ASSUME Rows, NEW t \in Task, NEW s \in Status, Leave(t, s),
         s \in AtWork => Blockers[t] \subseteq finished
  PROVE  Rows' /\ finished \subseteq finished'
<1> DEFINE r == [status |-> s, marked |-> FALSE]
<1>1. r \in Row /\ r.status = s
  BY DEF Row
<1>2. WriteRow(t, r)
  BY DEF Leave
<1> QED BY <1>1, <1>2, WriteKeepsRows

-----------------------------------------------------------------------------
(* Passes.                                                                 *)

\* What a step of one pass may do: p is what it becomes.
Turn(s, p) ==
  /\ pass' = [pass EXCEPT ![s] = p]
  /\ \/ /\ pass[s].pc \notin InLock /\ p.pc \notin InLock
        /\ inFlight' = inFlight
     \/ /\ pass[s].pc \in InLock /\ p.pc \in InLock /\ p.task = pass[s].task
        /\ inFlight' = inFlight
     \/ /\ pass[s].pc \notin InLock /\ p.pc \in InLock /\ p.task \notin inFlight
        /\ inFlight' = inFlight \cup {p.task}
     \/ /\ pass[s].pc \in InLock /\ p.pc \notin InLock
        /\ inFlight' = inFlight \ {pass[s].task}

LEMMA SoundLater ==
  ASSUME NEW p, Sound(p), finished \subseteq finished'
  PROVE  Sound(p)'
BY DEF Sound

LEMMA TurnKeepsPasses ==
  ASSUME Passes, NEW s \in Scheduler, NEW p, Sound(p), Turn(s, p), finished \subseteq finished'
  PROVE  Passes'
<1>1. pass' = [pass EXCEPT ![s] = p] /\ p \in Pass
  BY DEF Turn, Sound
<1>2. pass' \in [Scheduler -> Pass]
  BY <1>1 DEF Passes
<1>3. \A r \in Scheduler : Sound(pass[r])'
  <2> SUFFICES ASSUME NEW r \in Scheduler PROVE Sound(pass[r])'
    OBVIOUS
  <2>1. CASE r = s
    <3>1. pass'[r] = p
      BY <1>1, <2>1 DEF Passes
    <3> QED BY <3>1 DEF Sound
  <2>2. CASE r # s
    <3>1. pass'[r] = pass[r] /\ Sound(pass[r])
      BY <1>1, <2>2 DEF Passes
    <3> QED BY <3>1 DEF Sound
  <2> QED BY <2>1, <2>2
<1>4. \A r \in Scheduler : \A t : Inside(r, t)' <=> IF r = s THEN p.task = t /\ p.pc \in InLock
                                                          ELSE Inside(r, t)
  BY <1>1 DEF Inside, InLock, Passes
<1>5. /\ \A t : Inside(s, t) <=> pass[s].task = t /\ pass[s].pc \in InLock
      /\ p.pc \in InLock => p.task \in Task
      /\ pass[s].pc \in InLock => pass[s].task \in Task
  BY DEF Inside, InLock, Sound, Pass, NoTaskYet, Passes
<1>6. /\ inFlight = { t \in Task : \E r \in Scheduler : Inside(r, t) }
      /\ \A t \in Task, q, r \in Scheduler : Inside(q, t) /\ Inside(r, t) => q = r
  BY DEF Passes
<1>7. \A t \in Task : t \in inFlight' <=> \E r \in Scheduler : Inside(r, t)'
  BY <1>4, <1>5, <1>6 DEF Turn
<1>8. inFlight' \subseteq Task
  BY <1>5, <1>6 DEF Turn
<1>9. inFlight' = { t \in Task : \E r \in Scheduler : Inside(r, t)' }
  BY <1>7, <1>8
<1>10. \A t \in Task, q, r \in Scheduler : Inside(q, t)' /\ Inside(r, t)' => q = r
  BY <1>4, <1>5, <1>6 DEF Turn
<1> QED BY <1>2, <1>3, <1>9, <1>10 DEF Passes

LEMMA KeptPasses ==
  ASSUME Passes, UNCHANGED << pass, inFlight >>, finished \subseteq finished'
  PROVE  Passes'
BY DEF Passes, Sound, Inside

LEMMA NoPassSound == /\ Sound(NoPass) /\ Sound(Again)
                     /\ NoPass.pc = "idle" /\ Again.pc = "room"
BY DEF Sound, NoPass, Again, Pass, NoTaskYet, Chosen

LEMMA LookSound ==
  ASSUME NEW T \in SUBSET Task, NEW S \in SUBSET Task, NEW p \in Look(T, S)
  PROVE  Sound(p) /\ p.pc \in {"gate", "review"}
<1>1. CASE T = {}
  BY <1>1 DEF Look, Sound, NoPass, Pass, NoTaskYet, Chosen
<1>2. CASE T # {}
  <2>1. PICK t \in T : p = [pc |-> "gate", todo |-> T \ {t}, seen |-> S \cap T,
                            task |-> t, left |-> Blockers[t]]
    BY <1>2 DEF Look, Oldest
  <2>2. t \in Task /\ t # NoTask /\ Blockers[t] \subseteq Task
    BY TaskAssumption
  <2>3. p \in Pass
    BY <2>1, <2>2 DEF Pass
  <2> QED BY <2>1, <2>2, <2>3 DEF Sound, NoTaskYet, Chosen
<1> QED BY <1>1, <1>2

\* Every step of a pass is one of those turns and keeps the rows.
LEMMA LookTurn ==
  ASSUME Passes, NEW s \in Scheduler, NextTask(s), UNCHANGED inFlight,
         pass[s].pc \notin InLock
  PROVE  \E p : Sound(p) /\ Turn(s, p)
<1>1. pass[s].todo \in SUBSET Task /\ pass[s].seen \in SUBSET Task
  BY DEF Passes, Pass
<1>2. PICK p \in Look(pass[s].todo, pass[s].seen) : Become(s, p)
  BY DEF NextTask
<1>3. Sound(p) /\ p.pc \in {"gate", "review"}
  BY <1>1, <1>2, LookSound
<1>4. Turn(s, p)
  BY <1>2, <1>3 DEF Become, Turn, InLock
<1> QED BY <1>3, <1>4

LEMMA GotoTurn ==
  ASSUME Passes, NEW s \in Scheduler, NEW pc \in {"reblock", "log", "claim", "commit", "enter"},
         Goto(s, pc), UNCHANGED inFlight,
         pass[s].pc \notin NoTaskYet,
         pass[s].pc \in InLock <=> pc \in InLock,
         pc \in Chosen => Blockers[pass[s].task] \subseteq finished
  PROVE  \E p : Sound(p) /\ Turn(s, p)
<1> DEFINE p == [pass[s] EXCEPT !.pc = pc]
<1>1. pass[s] \in Pass /\ Sound(pass[s])
  BY DEF Passes
<1>2. p \in Pass /\ p.pc = pc /\ p.task = pass[s].task /\ p.left = pass[s].left
  BY <1>1 DEF Pass
<1>3. Sound(p)
  BY <1>1, <1>2 DEF Sound, NoTaskYet
<1>4. pass' = [pass EXCEPT ![s] = p]
  BY DEF Goto
<1>5. Turn(s, p)
  BY <1>2, <1>4 DEF Turn
<1> QED BY <1>3, <1>5

LEMMA FinishTurn ==
  ASSUME Passes, NEW s \in Scheduler, NEW p \in {NoPass, Again}, Finish(s, p),
         pass[s].pc \in InLock
  PROVE  \E q : Sound(q) /\ Turn(s, q)
BY NoPassSound DEF Finish, Become, Turn, InLock

LEMMA RestTurn ==
  ASSUME Passes, NEW s \in Scheduler, NEW p \in {NoPass, Again}, Become(s, p),
         UNCHANGED inFlight, pass[s].pc \notin InLock
  PROVE  \E q : Sound(q) /\ Turn(s, q)
BY NoPassSound DEF Become, Turn, InLock

LEMMA TaskOfPass ==
  ASSUME Passes, NEW s \in Scheduler, pass[s].pc \notin NoTaskYet
  PROVE  pass[s].task \in Task
BY DEF Passes, Sound, Pass

LEMMA Searching ==
  ASSUME Rows, Passes, NEW s \in Scheduler, Call(s) \/ LookForRoom(s) \/ Gate(s) \/ Review(s)
  PROVE  /\ Rows' /\ finished \subseteq finished'
         /\ \E p : Sound(p) /\ Turn(s, p)
<1>1. Rows' /\ finished \subseteq finished'
  BY KeptRows DEF Call, LookForRoom, Gate, Review
<1> SUFFICES \E p : Sound(p) /\ Turn(s, p)
  BY <1>1
<1>2. CASE Call(s)
  BY <1>2, RestTurn DEF Call, At, InLock
<1>3. CASE LookForRoom(s)
  <2>1. CASE Become(s, NoPass)
    BY <1>3, <2>1, RestTurn DEF LookForRoom, At, InLock
  <2>2. CASE \E p \in Look(OldestReady, { t \in Task : row[t].marked }) : Become(s, p)
    <3>1. PICK p \in Look(OldestReady, { t \in Task : row[t].marked }) : Become(s, p)
      BY <2>2
    <3>2. OldestReady \in SUBSET Task /\ { t \in Task : row[t].marked } \in SUBSET Task
      BY DEF OldestReady, Ready
    <3>3. Sound(p) /\ p.pc \in {"gate", "review"}
      BY <3>1, <3>2, LookSound
    <3>4. Turn(s, p)
      BY <1>3, <3>1, <3>3 DEF LookForRoom, At, Become, Turn, InLock
    <3> QED BY <3>3, <3>4
  <2> QED BY <1>3, <2>1, <2>2 DEF LookForRoom
<1>4. CASE Gate(s)
  <2>1. pass[s].pc = "gate" /\ UNCHANGED inFlight /\ Sound(pass[s]) /\ pass[s] \in Pass
    BY <1>4 DEF Gate, At, Passes
  <2>2. CASE NextTask(s)
    BY <2>1, <2>2, LookTurn DEF InLock
  <2>3. CASE Goto(s, "reblock")
    BY <2>1, <2>3, GotoTurn DEF InLock, Chosen, NoTaskYet
  <2>4. CASE \E b \in pass[s].left : Satisfied(b) /\ pass' = [pass EXCEPT ![s].left = @ \ {b}]
    <3>1. PICK b \in pass[s].left : Satisfied(b) /\ pass' = [pass EXCEPT ![s].left = @ \ {b}]
      BY <2>4
    <3> DEFINE p == [pass[s] EXCEPT !.left = pass[s].left \ {b}]
    <3>2. pass' = [pass EXCEPT ![s] = p]
      BY <3>1
    <3>3. p \in Pass /\ p.pc = "gate" /\ p.task = pass[s].task /\ p.left = pass[s].left \ {b}
      BY <2>1 DEF Pass
    <3>4. b \in finished
      BY <2>1, <3>1 DEF Pass, Rows
    <3>5. Sound(p)
      BY <2>1, <3>3, <3>4 DEF Sound, NoTaskYet, Chosen
    <3>6. Turn(s, p)
      BY <2>1, <3>2, <3>3 DEF Turn, InLock
    <3> QED BY <3>5, <3>6
  <2>5. CASE /\ GateOpen(pass[s])
             /\ pass' = [pass EXCEPT ![s] =
                     [NoPass EXCEPT !.pc = IF pass[s].task \in pass[s].seen THEN "claim" ELSE "mark",
                                    !.task = pass[s].task]]
    <3> DEFINE pc == IF pass[s].task \in pass[s].seen THEN "claim" ELSE "mark"
    <3> DEFINE p == [NoPass EXCEPT !.pc = pc, !.task = pass[s].task]
    <3>1. Blockers[pass[s].task] \subseteq finished
      BY <2>1, <2>5 DEF Sound, GateOpen
    <3>2. p \in Pass /\ p.pc \in {"claim", "mark"} /\ p.task = pass[s].task
      BY <2>1 DEF NoPass, Pass
    <3>3. Sound(p)
      BY <2>1, <3>1, <3>2 DEF Sound, NoTaskYet
    <3>4. Turn(s, p)
      BY <2>1, <2>5, <3>2 DEF Turn, InLock
    <3> QED BY <3>3, <3>4
  <2> QED BY <1>4, <2>2, <2>3, <2>4, <2>5 DEF Gate
<1>5. CASE Review(s)
  <2>1. pass[s].pc = "review"
    BY <1>5 DEF Review, At
  <2>2. CASE (Become(s, NoPass) \/ Become(s, Again)) /\ UNCHANGED inFlight
    BY <2>1, <2>2, RestTurn DEF InLock
  <2>3. CASE \E t \in Task : /\ Is(t, "PendingReview") /\ Claimable(t)
                             /\ Become(s, [NoPass EXCEPT !.pc = "revise", !.task = t])
                             /\ inFlight' = inFlight \cup {t}
    <3>1. PICK t \in Task : /\ Is(t, "PendingReview") /\ Claimable(t)
                            /\ Become(s, [NoPass EXCEPT !.pc = "revise", !.task = t])
                            /\ inFlight' = inFlight \cup {t}
      BY <2>3
    <3> DEFINE p == [NoPass EXCEPT !.pc = "revise", !.task = t]
    <3>2. p \in Pass /\ p.pc = "revise" /\ p.task = t /\ t # NoTask
      BY TaskAssumption DEF NoPass, Pass
    <3>3. Blockers[t] \subseteq finished
      BY <3>1, WorkedOn DEF Is, AtWork
    <3>4. Sound(p)
      BY <3>2, <3>3 DEF Sound, NoTaskYet
    <3>5. Turn(s, p)
      BY <2>1, <3>1, <3>2 DEF Turn, InLock, Become, Claimable
    <3> QED BY <3>4, <3>5
  <2> QED BY <1>5, <2>2, <2>3 DEF Review
<1> QED BY <1>2, <1>3, <1>4, <1>5

LEMMA Writing ==
  ASSUME Rows, Passes, NEW s \in Scheduler, Reblock(s) \/ LogReblock(s) \/ Mark(s)
  PROVE  /\ Rows' /\ finished \subseteq finished'
         /\ \E p : Sound(p) /\ Turn(s, p)
<1>1. /\ pass[s].pc \in {"reblock", "log", "mark"} /\ UNCHANGED inFlight
      /\ pass[s].task \in Task /\ Sound(pass[s])
  BY TaskOfPass DEF Reblock, LogReblock, Mark, At, NoTaskYet, Passes
<1>2. CASE Reblock(s)
  <2>1. CASE Is(pass[s].task, "Ready")
    <3>1. /\ WriteRow(pass[s].task, [status |-> "Blocked", marked |-> pass[s].task \in pass[s].seen])
          /\ Goto(s, "log") /\ pass[s].pc = "reblock"
      BY <1>2, <2>1 DEF Reblock, At
    <3>2. [status |-> "Blocked", marked |-> pass[s].task \in pass[s].seen] \in Row
      BY StatusKinds DEF Row
    <3>3. Rows' /\ finished \subseteq finished'
      BY <1>1, <3>1, <3>2, StatusKinds, WriteKeepsRows
    <3>4. \E p : Sound(p) /\ Turn(s, p)
      BY <1>1, <3>1, GotoTurn DEF InLock, Chosen, NoTaskYet
    <3> QED BY <3>3, <3>4
  <2>2. CASE ~Is(pass[s].task, "Ready")
    BY <1>1, <1>2, <2>2, KeptRows, LookTurn DEF Reblock, InLock
  <2> QED BY <2>1, <2>2
<1>3. CASE LogReblock(s)
  <2>1. Rows' /\ finished \subseteq finished'
    BY <1>1, <1>3, StatusKinds, SetKeepsRows DEF LogReblock
  <2>2. \E p : Sound(p) /\ Turn(s, p)
    BY <1>1, <1>3, LookTurn DEF LogReblock, InLock
  <2> QED BY <2>1, <2>2
<1>4. CASE Mark(s)
  <2>1. [status |-> "Ready", marked |-> TRUE] \in Row
    BY StatusKinds DEF Row
  <2>2. Rows' /\ finished \subseteq finished'
    BY <1>1, <1>4, <2>1, StatusKinds, WriteKeepsRows DEF Mark
  <2>3. \E p : Sound(p) /\ Turn(s, p)
    BY <1>1, <1>4, GotoTurn DEF Mark, At, Sound, InLock, Chosen, NoTaskYet
  <2> QED BY <2>2, <2>3
<1> QED BY <1>2, <1>3, <1>4

LEMMA Starting ==
  ASSUME Rows, Passes, NEW s \in Scheduler,
         Claim(s) \/ Move(s) \/ Commit(s) \/ Enter(s) \/ Revise(s)
  PROVE  /\ Rows' /\ finished \subseteq finished'
         /\ \E p : Sound(p) /\ Turn(s, p)
<1> DEFINE t == pass[s].task
<1>1. /\ pass[s].pc \in {"claim", "move", "commit", "enter", "revise"}
      /\ t \in Task /\ pass[s] \in Pass /\ Sound(pass[s])
  BY TaskOfPass DEF Claim, Move, Commit, Enter, Revise, At, NoTaskYet, Passes
<1>2. CASE Claim(s)
  <2>1. Rows' /\ finished \subseteq finished'
    BY <1>2, KeptRows DEF Claim
  <2>2. CASE Claimable(t)
    <3> DEFINE p == [pass[s] EXCEPT !.pc = "move"]
    <3>1. p \in Pass /\ p.pc = "move" /\ p.task = t /\ pass[s].pc = "claim"
      BY <1>1, <1>2 DEF Pass, Claim, At
    <3>2. Sound(p)
      BY <1>1, <3>1 DEF Sound, NoTaskYet, Chosen
    <3>3. pass' = [pass EXCEPT ![s] = p] /\ inFlight' = inFlight \cup {t}
      BY <1>2, <2>2 DEF Claim, Goto
    <3>4. Turn(s, p)
      BY <2>2, <3>1, <3>3 DEF Turn, InLock, Claimable
    <3> QED BY <2>1, <3>2, <3>4
  <2>3. CASE ~Claimable(t)
    BY <1>2, <2>1, <2>3, RestTurn DEF Claim, At, InLock
  <2> QED BY <2>2, <2>3
<1>3. CASE Move(s)
  <2>1. Rows' /\ finished \subseteq finished'
    BY <1>3, KeptRows DEF Move
  <2>2. CASE Is(t, "Ready")
    BY <1>1, <1>3, <2>1, <2>2, GotoTurn DEF Move, At, Sound, InLock, Chosen, NoTaskYet
  <2>3. CASE ~Is(t, "Ready")
    BY <1>3, <2>1, <2>3, FinishTurn DEF Move, At, InLock
  <2> QED BY <2>2, <2>3
<1>4. CASE Commit(s)
  <2>1. CASE Is(t, "Ready")
    <3>1. SetStatus(t, Target(t)) /\ Goto(s, "enter") /\ pass[s].pc = "commit" /\ UNCHANGED inFlight
      BY <1>4, <2>1 DEF Commit, At
    <3>2. Blockers[t] \subseteq finished /\ Target(t) \in Status
      BY <1>1, <3>1 DEF Sound, Chosen, Target, Status
    <3>3. Rows' /\ finished \subseteq finished'
      BY <1>1, <3>1, <3>2, SetKeepsRows
    <3>4. \E p : Sound(p) /\ Turn(s, p)
      BY <3>1, GotoTurn DEF InLock, Chosen, NoTaskYet
    <3> QED BY <3>3, <3>4
  <2>2. CASE ~Is(t, "Ready")
    BY <1>4, <2>2, KeptRows, FinishTurn DEF Commit, At, InLock
  <2> QED BY <2>1, <2>2
<1>5. CASE Enter(s)
  <2>1. \E p : Sound(p) /\ Turn(s, p)
    BY <1>5, FinishTurn DEF Enter, At, InLock
  <2>2. CASE UNCHANGED rows
    BY <2>1, <2>2, KeptRows
  <2>3. CASE Is(t, "Executing") /\ SetStatus(t, "Failed")
    BY <1>1, <2>1, <2>3, WorkedOn, SetKeepsRows DEF Is, AtWork, Status
  <2> QED BY <1>5, <2>2, <2>3 DEF Enter, rows
<1>6. CASE Revise(s)
  <2>1. \E p : Sound(p) /\ Turn(s, p)
    BY <1>6, FinishTurn DEF Revise, At, InLock
  <2>2. CASE UNCHANGED rows
    BY <2>1, <2>2, KeptRows
  <2>3. CASE SetStatus(t, "Reviewing")
    <3>1. Blockers[t] \subseteq finished
      BY <1>1, <1>6 DEF Revise, At, Sound, Chosen
    <3> QED BY <1>1, <2>1, <2>3, <3>1, StatusKinds, SetKeepsRows
  <2> QED BY <1>6, <2>2, <2>3 DEF Revise, rows
<1> QED BY <1>2, <1>3, <1>4, <1>5, <1>6

-----------------------------------------------------------------------------
(* The dependency manager.                                                 *)

LEMMA ServeCareful ==
  ASSUME NEW T \in SUBSET Task, NEW m \in Serve(T)
  PROVE  Careful(m)
<1>1. NoManager \in Manager
  BY StatusKinds DEF NoManager, Manager, NoRow, Row
<1>2. CASE T = {}
  <2>1. m = NoManager
    BY <1>2 DEF Serve
  <2>2. NoManager.pc = "idle"
    BY DEF NoManager
  <2> QED BY <1>1, <2>1, <2>2 DEF Careful
<1>3. CASE T # {}
  <2>1. PICK d \in T : m = [NoManager EXCEPT !.pc = "check", !.todo = T \ {d}, !.task = d,
                                             !.left = Blockers[d]]
    BY <1>3 DEF Serve
  <2>2. m \in Manager /\ m.pc = "check" /\ m.task = d /\ d \in Task
    BY <1>1, <2>1, TaskAssumption DEF NoManager, Manager
  <2> QED BY <2>2 DEF Careful
<1> QED BY <1>2, <1>3

LEMMA BecomesManager ==
  ASSUME Managers, NEW b \in Task, NEW m, Careful(m), manager' = [manager EXCEPT ![b] = m],
         finished \subseteq finished'
  PROVE  Managers'
BY DEF Managers, Careful

LEMMA KeptManagers ==
  ASSUME Managers, UNCHANGED manager, finished \subseteq finished'
  PROVE  Managers'
BY DEF Managers, Careful

LEMMA NextDependentKeeps ==
  ASSUME Managers, NEW b \in Task, NextDependent(b), finished \subseteq finished'
  PROVE  Managers'
<1>1. manager[b].todo \in SUBSET Task
  BY DEF Managers, Manager
<1>2. PICK m \in Serve(manager[b].todo) : manager' = [manager EXCEPT ![b] = m]
  BY DEF NextDependent
<1> QED BY <1>1, <1>2, ServeCareful, BecomesManager

LEMMA ManagerStepKeeps ==
  ASSUME Rows, Managers, NEW b \in Task, ManagerStep(b)
  PROVE  Rows' /\ finished \subseteq finished' /\ Managers'
<1> DEFINE m == manager[b]
<1>1. /\ m \in Manager /\ Careful(m) /\ m.pc # "idle" /\ m.task \in Task
  BY DEF ManagerStep, Check, ReadRow, Unblock, LogUnblock, Names, GiveReason, Managing,
         Managers, Careful
<1>2. CASE Check(b)
  <2>1. Rows' /\ finished \subseteq finished'
    BY <1>2, KeptRows DEF Check
  <2>2. CASE \E x \in m.left : manager' = [manager EXCEPT ![b].left = @ \ {x}]
    <3>1. PICK x \in m.left : manager' = [manager EXCEPT ![b].left = @ \ {x}]
      BY <2>2
    <3> DEFINE n == [m EXCEPT !.left = m.left \ {x}]
    <3>2. n \in Manager /\ n.pc = "check" /\ n.task = m.task
      BY <1>1, <1>2 DEF Manager, Check, Managing
    <3>3. Careful(n) /\ manager' = [manager EXCEPT ![b] = n]
      BY <1>1, <3>1, <3>2 DEF Careful
    <3> QED BY <2>1, <3>3, BecomesManager
  <2>3. CASE manager' = [manager EXCEPT ![b].pc = "read"]
    <3> DEFINE n == [m EXCEPT !.pc = "read"]
    <3>1. n \in Manager /\ n.pc = "read" /\ n.task = m.task
      BY <1>1 DEF Manager
    <3>2. Careful(n) /\ manager' = [manager EXCEPT ![b] = n]
      BY <1>1, <2>3, <3>1 DEF Careful
    <3> QED BY <2>1, <3>2, BecomesManager
  <2>4. CASE manager' = [manager EXCEPT ![b].pc = "read", ![b].done = TRUE]
    <3> DEFINE n == [m EXCEPT !.pc = "read", !.done = TRUE]
    <3>1. n \in Manager /\ n.pc = "read" /\ n.task = m.task
      BY <1>1 DEF Manager
    <3>2. Careful(n)
      BY <1>1, <3>1 DEF Careful
    <3>3. manager' = [manager EXCEPT ![b] = n]
      BY <2>4 DEF Managers
    <3> QED BY <2>1, <3>2, <3>3, BecomesManager
  <2> QED BY <1>2, <2>2, <2>3, <2>4 DEF Check
<1>3. CASE ReadRow(b)
  <2>1. Rows' /\ finished \subseteq finished'
    BY <1>3, KeptRows DEF ReadRow
  <2>2. CASE NextDependent(b)
    BY <2>1, <2>2, NextDependentKeeps
  <2>3. CASE manager' = [manager EXCEPT ![b].pc = IF m.done THEN "write" ELSE "names",
                                        ![b].row = row[m.task]]
    <3> DEFINE pc == IF m.done THEN "write" ELSE "names"
    <3> DEFINE n == [m EXCEPT !.pc = pc, !.row = row[m.task]]
    <3>1. n \in Manager /\ n.pc = pc /\ n.task = m.task /\ n.row = row[m.task]
      BY <1>1 DEF Manager, Rows
    <3>2. Careful(n)
      BY <1>1, <3>1, WorkedOn DEF Careful
    <3>3. manager' = [manager EXCEPT ![b] = n]
      BY <2>3 DEF Managers
    <3> QED BY <2>1, <3>2, <3>3, BecomesManager
  <2> QED BY <1>3, <2>2, <2>3 DEF ReadRow
<1>4. CASE Unblock(b)
  <2> DEFINE r == [m.row EXCEPT !.status = "Ready"]
  <2>1. r \in Row /\ r.status = "Ready"
    BY <1>1, StatusKinds DEF Manager, Row
  <2>2. Rows' /\ finished \subseteq finished'
    BY <1>1, <1>4, <2>1, StatusKinds, WriteKeepsRows DEF Unblock
  <2> DEFINE n == [m EXCEPT !.pc = "log"]
  <2>3. n \in Manager /\ n.pc = "log" /\ n.task = m.task
    BY <1>1 DEF Manager
  <2>4. Careful(n) /\ manager' = [manager EXCEPT ![b] = n]
    BY <1>1, <1>4, <2>3 DEF Careful, Unblock
  <2> QED BY <2>2, <2>4, BecomesManager
<1>5. CASE LogUnblock(b)
  <2>1. Rows' /\ finished \subseteq finished'
    BY <1>1, <1>5, StatusKinds, SetKeepsRows DEF LogUnblock
  <2> QED BY <1>5, <2>1, NextDependentKeeps DEF LogUnblock
<1>6. CASE Names(b)
  <2>1. Rows' /\ finished \subseteq finished'
    BY <1>6, KeptRows DEF Names
  <2>2. CASE manager' = [manager EXCEPT ![b] = NoManager]
    BY <2>1, <2>2, ServeCareful, BecomesManager DEF Serve
  <2>3. CASE manager' = [manager EXCEPT ![b] = [m EXCEPT !.pc = "reason"]]
    <3> DEFINE n == [m EXCEPT !.pc = "reason"]
    <3>1. n \in Manager /\ n.pc = "reason" /\ n.task = m.task /\ n.row = m.row /\ m.pc = "names"
      BY <1>1, <1>6 DEF Manager, Names, Managing
    <3>2. Careful(n)
      BY <1>1, <3>1 DEF Careful
    <3> QED BY <2>1, <2>3, <3>2, BecomesManager
  <2> QED BY <1>6, <2>2, <2>3 DEF Names
<1>7. CASE GiveReason(b)
  <2>1. CASE WriteRow(m.task, m.row)
    <3>1. m.row \in Row /\ (m.row.status \in AtWork => Blockers[m.task] \subseteq finished)
      BY <1>1, <1>7 DEF Manager, GiveReason, Managing, Careful
    <3>2. Rows' /\ finished \subseteq finished'
      BY <1>1, <2>1, <3>1, WriteKeepsRows
    <3> QED BY <1>7, <3>2, NextDependentKeeps DEF GiveReason
  <2>2. CASE UNCHANGED rows
    BY <1>7, <2>2, KeptRows, NextDependentKeeps DEF GiveReason
  <2> QED BY <1>7, <2>1, <2>2 DEF GiveReason
<1> QED BY <1>2, <1>3, <1>4, <1>5, <1>6, <1>7 DEF ManagerStep

-----------------------------------------------------------------------------
(* Everybody else.                                                         *)

LEMMA OutsideKeepsRows ==
  ASSUME Rows, NEW t \in Task,
         \/ Work(t) \/ Merge(t) \/ StartupUnblock(t)
         \/ \E s \in {"Ready", "Blocked", "Cancelled"} : UserMoves(t, s)
  PROVE  Rows' /\ finished \subseteq finished'
<1>1. CASE Work(t)
  <2>1. CASE UNCHANGED rows
    BY <2>1, KeptRows
  <2>2. CASE /\ row[t].status \in {"Executing", "Reviewing"}
             /\ \E s \in {"PendingReview", "PendingMerge", "Failed"} : Leave(t, s)
    <3>1. Blockers[t] \subseteq finished
      BY <2>2, WorkedOn DEF AtWork
    <3>2. {"PendingReview", "PendingMerge", "Failed"} \subseteq Status
      BY DEF Status
    <3> QED BY <2>2, <3>1, <3>2, LeaveKeepsRows
  <2> QED BY <1>1, <2>1, <2>2 DEF Work, Is
<1>2. CASE Merge(t)
  <2>1. Blockers[t] \subseteq finished
    BY <1>2, WorkedOn DEF Merge, Is, AtWork
  <2>2. "Merged" \in Status
    BY DEF Status
  <2> QED BY <1>2, <2>1, <2>2, SetKeepsRows DEF Merge
<1>3. CASE StartupUnblock(t)
  <2>1. CASE SetStatus(t, "Ready")
    BY <2>1, StatusKinds, SetKeepsRows
  <2>2. CASE UNCHANGED rows
    BY <2>2, KeptRows
  <2> QED BY <1>3, <2>1, <2>2 DEF StartupUnblock
<1>4. CASE \E s \in {"Ready", "Blocked", "Cancelled"} : UserMoves(t, s)
  <2>1. PICK s \in {"Ready", "Blocked", "Cancelled"} : UserMoves(t, s)
    BY <1>4
  <2>2. s \in Status /\ s \notin AtWork
    BY StatusKinds
  <2>3. Leave(t, s) \/ SetStatus(t, s)
    BY <2>1 DEF UserMoves
  <2> QED BY <2>2, <2>3, SetKeepsRows, LeaveKeepsRows
<1> QED BY <1>1, <1>2, <1>3, <1>4

LEMMA OthersKept ==
  ASSUME Others, Rows, Passes, Next
  PROVE  Others'
<1> USE DEF Others, wishes, unblocking, Moved
<1>0. MaxMoves \in Nat
  BY LimitAssumption
<1>1. ASSUME NEW s \in Scheduler, Call(s) \/ PassStep(s) PROVE Others'
  <2>1. UNCHANGED << wishes, unblocking >>
    BY <1>1 DEF Call, PassStep, LookForRoom, Gate, Reblock, LogReblock, Mark, Claim, Move,
                Commit, Enter, Review, Revise
  <2>2. CASE Enter(s) \/ Revise(s)
    <3>1. pass[s].task \in Task
      BY <2>2, TaskOfPass DEF Enter, Revise, At, NoTaskYet
    <3>2. agents' \subseteq Task
      BY <2>2, <3>1 DEF Enter, Revise
    <3> QED BY <2>1, <3>2
  <2>3. CASE ~(Enter(s) \/ Revise(s))
    <3>1. UNCHANGED agents
      BY <1>1, <2>3 DEF Call, PassStep, LookForRoom, Gate, Reblock, LogReblock, Mark, Claim,
                        Move, Commit, Review
    <3> QED BY <2>1, <3>1
  <2> QED BY <2>2, <2>3
<1>2. CASE Watch
  BY <1>1, <1>2, SchedulerAssumption DEF Watch
<1>3. ASSUME NEW b \in Task, ManagerStep(b) PROVE Others'
  BY <1>3 DEF ManagerStep, Check, ReadRow, Unblock, LogUnblock, Names, GiveReason
<1>4. ASSUME NEW t \in Task, Work(t) \/ Merge(t) \/ HoldOrRelease(t) \/ StartupUnblock(t)
      PROVE  Others'
  <2>1. CASE Work(t) \/ Merge(t)
    BY <2>1 DEF Work, Merge, Leave
  <2>2. CASE HoldOrRelease(t)
    <3>1. moves' \in 0..MaxMoves
      BY <1>0, <2>2 DEF HoldOrRelease
    <3> QED BY <2>2, <3>1 DEF HoldOrRelease
  <2>3. CASE StartupUnblock(t)
    BY <2>3 DEF StartupUnblock
  <2> QED BY <1>4, <2>1, <2>2, <2>3
<1>5. ASSUME NEW t \in Task, NEW s, UserMoves(t, s) PROVE Others'
  <2>1. moves' \in 0..MaxMoves
    BY <1>0, <1>5 DEF UserMoves
  <2> QED BY <1>5, <2>1 DEF UserMoves, Leave
<1>6. CASE PauseOrResume
  <2>1. moves' \in 0..MaxMoves
    BY <1>0, <1>6 DEF PauseOrResume
  <2> QED BY <1>6, <2>1 DEF PauseOrResume
<1>7. CASE Restart
  <2>1. moves' \in 0..MaxMoves
    BY <1>0, <1>7 DEF Restart
  <2> QED BY <1>7, <2>1 DEF Restart
<1> QED BY <1>1, <1>2, <1>3, <1>4, <1>5, <1>6, <1>7 DEF Next

-----------------------------------------------------------------------------
(* All steps.                                                              *)

LEMMA RestartKeepsPasses ==
  ASSUME Passes, Managers, Restart
  PROVE  Passes' /\ Managers'
<1>1. pass' = [s \in Scheduler |-> NoPass] /\ inFlight' = {}
      /\ manager' = [t \in Task |-> NoManager]
  BY DEF Restart
<1>2. NoPass \in Pass /\ NoManager \in Manager
  BY NoPassSound, StatusKinds DEF Sound, NoManager, Manager, NoRow, Row
<1>3. pass' \in [Scheduler -> Pass] /\ manager' \in [Task -> Manager]
  BY <1>1, <1>2
<1>4. \A s \in Scheduler : Sound(pass[s])'
  BY <1>1, <1>2 DEF Sound, NoPass, NoTaskYet, Chosen
<1>5. \A s \in Scheduler : \A t : ~Inside(s, t)'
  BY <1>1 DEF Inside, NoPass
<1>6. \A b \in Task : Careful(manager[b])'
  BY <1>1, <1>2 DEF Careful, NoManager
<1> QED BY <1>1, <1>3, <1>4, <1>5, <1>6 DEF Passes, Managers

LEMMA InitIInv == Init => IInv
<1> SUFFICES ASSUME Init PROVE IInv
  OBVIOUS
<1>1. Rows
  <2>1. Initial \subseteq Status /\ Initial \cap AtWork = {}
    BY InitialAssumption, StatusKinds DEF Status
  <2>2. row \in [Task -> Row] /\ \A t \in Task : row[t].status \in Initial
    BY <2>1 DEF Init, Row
  <2>3. StartsAfterBlockers
    BY <2>1, <2>2 DEF StartsAfterBlockers
  <2>4. finished \subseteq Task /\ \A t \in Task : Satisfied(t) => t \in finished
    BY DEF Init, Satisfied
  <2> QED BY <2>2, <2>3, <2>4 DEF Rows
<1>2. Passes
  <2>1. pass = [s \in Scheduler |-> NoPass] /\ inFlight = {} /\ Sound(NoPass) /\ NoPass.pc = "idle"
    BY NoPassSound DEF Init
  <2>2. \A s \in Scheduler : \A t : ~Inside(s, t)
    BY <2>1 DEF Inside
  <2>3. pass \in [Scheduler -> Pass] /\ \A s \in Scheduler : Sound(pass[s])
    BY <2>1 DEF Sound
  <2> QED BY <2>1, <2>2, <2>3 DEF Passes
<1>3. Managers
  <2>1. NoManager \in Serve({})
    BY DEF Serve
  <2>2. Careful(NoManager)
    BY <2>1, ServeCareful
  <2>3. NoManager \in Manager /\ manager = [t \in Task |-> NoManager]
    BY <2>2 DEF Careful, Init
  <2> QED BY <2>2, <2>3 DEF Managers
<1>4. Others
  <2>1. held = {} /\ agents = {} /\ paused = FALSE /\ starting = {} /\ moves = 0
    BY DEF Init
  <2>2. 0 \in 0..MaxMoves
    BY LimitAssumption
  <2> QED BY <2>1, <2>2 DEF Others
<1> QED BY <1>1, <1>2, <1>3, <1>4 DEF IInv

LEMMA PassStepKeeps ==
  ASSUME Rows, Passes, NEW s \in Scheduler, Call(s) \/ PassStep(s)
  PROVE  Rows' /\ Passes' /\ finished \subseteq finished' /\ UNCHANGED manager
<1>1. /\ Rows' /\ finished \subseteq finished'
      /\ \E p : Sound(p) /\ Turn(s, p)
  BY Searching, Writing, Starting DEF PassStep
<1>2. UNCHANGED manager
  BY DEF Call, PassStep, LookForRoom, Gate, Reblock, LogReblock, Mark, Claim, Move,
         Commit, Enter, Review, Revise, unblocking
<1> QED BY <1>1, <1>2, TurnKeepsPasses

LEMMA NextKeepsIInv == IInv /\ [Next]_vars => IInv'
<1> SUFFICES ASSUME IInv, [Next]_vars PROVE IInv'
  OBVIOUS
<1> USE DEF IInv
<1>1. CASE UNCHANGED vars
  <2>1. Rows' /\ finished \subseteq finished'
    BY <1>1, KeptRows DEF vars, rows
  <2>2. Passes' /\ Managers'
    BY <1>1, <2>1, KeptPasses, KeptManagers DEF vars
  <2>3. Others'
    BY <1>1 DEF vars, Others
  <2> QED BY <2>1, <2>2, <2>3
<1>2. CASE Next
  <2>0. Others'
    BY <1>2, OthersKept
  <2>1. ASSUME NEW s \in Scheduler, Call(s) \/ PassStep(s) PROVE IInv'
    BY <2>0, <2>1, PassStepKeeps, KeptManagers
  <2>2. CASE Watch
    BY <2>1, <2>2, SchedulerAssumption DEF Watch
  <2>3. ASSUME NEW b \in Task, ManagerStep(b) PROVE IInv'
    <3>1. Rows' /\ finished \subseteq finished' /\ Managers'
      BY <2>3, ManagerStepKeeps
    <3>2. UNCHANGED << pass, inFlight >>
      BY <2>3 DEF ManagerStep, Check, ReadRow, Unblock, LogUnblock, Names, GiveReason, schedulers
    <3> QED BY <2>0, <3>1, <3>2, KeptPasses
  <2>4. ASSUME NEW t \in Task,
               \/ Work(t) \/ StartupUnblock(t)
               \/ \E s \in {"Ready", "Blocked", "Cancelled"} : UserMoves(t, s)
        PROVE  IInv'
    <3>1. Rows' /\ finished \subseteq finished'
      BY <2>4, OutsideKeepsRows
    <3>2. UNCHANGED << pass, inFlight, manager >>
      BY <2>4 DEF Work, StartupUnblock, UserMoves, schedulers, unblocking
    <3> QED BY <2>0, <3>1, <3>2, KeptPasses, KeptManagers
  <2>5. ASSUME NEW t \in Task, Merge(t) PROVE IInv'
    <3>1. Rows' /\ finished \subseteq finished'
      BY <2>5, OutsideKeepsRows
    <3>2. UNCHANGED << pass, inFlight >>
      BY <2>5 DEF Merge, schedulers
    <3>3. PICK m \in Serve(Dependents(t)) : manager' = [manager EXCEPT ![t] = m]
      BY <2>5 DEF Merge
    <3>4. Careful(m)
      BY <3>3, ServeCareful DEF Dependents
    <3> QED BY <2>0, <3>1, <3>2, <3>3, <3>4, KeptPasses, BecomesManager
  <2>6. CASE PauseOrResume \/ \E t \in Task : HoldOrRelease(t)
    <3>1. UNCHANGED << rows, pass, inFlight, manager >>
      BY <2>6 DEF PauseOrResume, HoldOrRelease, schedulers, unblocking
    <3> QED BY <2>0, <3>1, KeptRows, KeptPasses, KeptManagers
  <2>7. CASE Restart
    BY <2>0, <2>7, KeptRows, RestartKeepsPasses DEF Restart
  <2> QED BY <1>2, <2>1, <2>2, <2>3, <2>4, <2>5, <2>6, <2>7 DEF Next
<1> QED BY <1>1, <1>2

LEMMA SpecIInv == Spec => []IInv
BY InitIInv, NextKeepsIInv, PTL DEF Spec

\* Every variable keeps its type, and a pass has a task exactly while it is at
\* one: try_schedule_ready_tasks never starts, marks or reblocks nothing.
THEOREM TypesHold == Spec => []TypeOK
BY SpecIInv, IInvTypes, PTL

\* Whatever tasks depend on each other, and however stale the rows are that a
\* scheduler, the dependency manager or a restart writes back: no task is at
\* work before each task it depends on has once been merged or cancelled.
THEOREM BlockersFirst == Spec => []StartsAfterBlockers
<1>1. IInv => StartsAfterBlockers
  BY DEF IInv, Rows
<1> QED BY <1>1, SpecIInv, PTL

-----------------------------------------------------------------------------
(* The set of tasks in scheduling is a lock per task.                      *)

HolderIn(ps, t) ==
  IF \E s \in Scheduler : ps[s].task = t /\ ps[s].pc \in InLock
    THEN CHOOSE s \in Scheduler : ps[s].task = t /\ ps[s].pc \in InLock
    ELSE NoTask

LEMMA MoverIs == /\ Mover = [t \in Task |-> HolderIn(pass, t)]
                 /\ Mover' = [t \in Task |-> HolderIn(pass', t)]
BY DEF Mover, HolderIn, Inside, InLock

Exclusive(ps) ==
  \A t \in Task, r, s \in Scheduler :
     ps[r].task = t /\ ps[r].pc \in InLock /\ ps[s].task = t /\ ps[s].pc \in InLock => r = s

LEMMA HolderIs ==
  ASSUME NEW ps, Exclusive(ps), NEW s \in Scheduler, ps[s].pc \in InLock, ps[s].task \in Task
  PROVE  HolderIn(ps, ps[s].task) = s
BY DEF HolderIn, Exclusive

LEMMA NoHolder ==
  ASSUME NEW ps, NEW t, \A s \in Scheduler : ~(ps[s].task = t /\ ps[s].pc \in InLock)
  PROVE  HolderIn(ps, t) = NoTask
BY DEF HolderIn

LEMMA HolderKept ==
  ASSUME NEW ps, NEW qs, Exclusive(ps), Exclusive(qs), NEW t \in Task,
         \A s \in Scheduler : /\ ps[s].task = t /\ ps[s].pc \in InLock
                              <=> qs[s].task = t /\ qs[s].pc \in InLock
  PROVE  HolderIn(ps, t) = HolderIn(qs, t)
<1>1. CASE \E s \in Scheduler : ps[s].task = t /\ ps[s].pc \in InLock
  <2>1. PICK s \in Scheduler : ps[s].task = t /\ ps[s].pc \in InLock
    BY <1>1
  <2>2. HolderIn(ps, t) = s
    BY <2>1, HolderIs
  <2>3. HolderIn(qs, t) = s
    BY <2>1, HolderIs
  <2> QED BY <2>2, <2>3
<1>2. CASE \A s \in Scheduler : ~(ps[s].task = t /\ ps[s].pc \in InLock)
  BY <1>2, NoHolder
<1> QED BY <1>1, <1>2

LEMMA TurnChangesMover ==
  ASSUME Passes, Passes', NEW s \in Scheduler, NEW p, Sound(p), Turn(s, p)
  PROVE  \/ Mover' = Mover
         \/ \E t \in Task : Mover[t] = NoTask /\ Mover' = [Mover EXCEPT ![t] = s]
         \/ \E t \in Task : Mover[t] = s /\ Mover' = [Mover EXCEPT ![t] = NoTask]
<1>1. Exclusive(pass) /\ Exclusive(pass')
  BY DEF Passes, Exclusive, Inside, InLock
<1>2. pass'[s] = p /\ \A r \in Scheduler \ {s} : pass'[r] = pass[r]
  BY DEF Turn, Passes
<1>3. /\ p.pc \in InLock => p.task \in Task
      /\ pass[s].pc \in InLock => pass[s].task \in Task
  BY DEF Passes, Sound, Pass, InLock, NoTaskYet
<1>4. Mover = [t \in Task |-> HolderIn(pass, t)] /\ Mover' = [t \in Task |-> HolderIn(pass', t)]
  BY MoverIs
<1>5. CASE p.pc \in InLock /\ pass[s].pc \in InLock
  <2>1. p.task = pass[s].task
    BY <1>5 DEF Turn
  <2>2. \A t \in Task : HolderIn(pass', t) = HolderIn(pass, t)
    BY <1>1, <1>2, <1>5, <2>1, HolderKept
  <2> QED BY <1>4, <2>2
<1>6. CASE p.pc \notin InLock /\ pass[s].pc \notin InLock
  <2>1. \A t \in Task : HolderIn(pass', t) = HolderIn(pass, t)
    BY <1>1, <1>2, <1>6, HolderKept
  <2> QED BY <1>4, <2>1
<1>7. CASE p.pc \in InLock /\ pass[s].pc \notin InLock
  <2>1. p.task \in Task /\ p.task \notin inFlight
    BY <1>3, <1>7 DEF Turn
  <2>2. \A r \in Scheduler : ~(pass[r].task = p.task /\ pass[r].pc \in InLock)
    BY <2>1 DEF Passes, Inside, InLock
  <2>3. HolderIn(pass, p.task) = NoTask
    BY <2>2, NoHolder
  <2>4. HolderIn(pass', p.task) = s
    BY <1>1, <1>2, <1>7, <2>1, HolderIs
  <2>5. \A u \in Task \ {p.task} : HolderIn(pass', u) = HolderIn(pass, u)
    BY <1>1, <1>2, <1>7, HolderKept
  <2> QED BY <1>4, <2>1, <2>3, <2>4, <2>5
<1>8. CASE p.pc \notin InLock /\ pass[s].pc \in InLock
  <2> DEFINE t == pass[s].task
  <2>1. t \in Task /\ HolderIn(pass, t) = s
    BY <1>1, <1>3, <1>8, HolderIs
  <2>2. \A r \in Scheduler : ~(pass'[r].task = t /\ pass'[r].pc \in InLock)
    BY <1>1, <1>2, <1>8, <2>1 DEF Exclusive
  <2>3. HolderIn(pass', t) = NoTask
    BY <2>2, NoHolder
  <2>4. \A u \in Task \ {t} : HolderIn(pass', u) = HolderIn(pass, u)
    BY <1>1, <1>2, <1>8, HolderKept
  <2> QED BY <1>4, <2>1, <2>3, <2>4
<1> QED BY <1>5, <1>6, <1>7, <1>8

LEMMA LockStep ==
  ASSUME IInv, IInv', Next
  PROVE  \/ Mover' = Mover
         \/ \E t \in Task, s \in Scheduler :
              Mover[t] = NoTask /\ Mover' = [Mover EXCEPT ![t] = s]
         \/ \E t \in Task, s \in Scheduler :
              Mover[t] = s /\ Mover' = [Mover EXCEPT ![t] = NoTask]
         \/ Mover' = [t \in Task |-> NoTask]
<1> USE DEF IInv
<1>1. ASSUME NEW s \in Scheduler, Call(s) \/ PassStep(s)
      PROVE  \/ Mover' = Mover
             \/ \E t \in Task : Mover[t] = NoTask /\ Mover' = [Mover EXCEPT ![t] = s]
             \/ \E t \in Task : Mover[t] = s /\ Mover' = [Mover EXCEPT ![t] = NoTask]
  <2>1. PICK p : Sound(p) /\ Turn(s, p)
    BY <1>1, Searching, Writing, Starting DEF PassStep
  <2> QED BY <2>1, TurnChangesMover
<1>2. CASE Restart
  <2>1. \A s \in Scheduler : pass'[s].pc \notin InLock
    BY <1>2 DEF Restart, NoPass, InLock
  <2>2. \A t \in Task : HolderIn(pass', t) = NoTask
    BY <2>1, NoHolder
  <2> QED BY <2>2, MoverIs
<1>3. ASSUME UNCHANGED pass PROVE Mover' = Mover
  BY <1>3, MoverIs
<1>4. CASE Watch
  BY <1>1, <1>4, SchedulerAssumption DEF Watch
<1>5. ASSUME NEW b \in Task, ManagerStep(b) PROVE UNCHANGED pass
  BY <1>5 DEF ManagerStep, Check, ReadRow, Unblock, LogUnblock, Names, GiveReason, schedulers
<1>6. ASSUME NEW t \in Task, \/ Work(t) \/ Merge(t) \/ HoldOrRelease(t) \/ StartupUnblock(t)
                             \/ \E s \in {"Ready", "Blocked", "Cancelled"} : UserMoves(t, s)
      PROVE  UNCHANGED pass
  BY <1>6 DEF Work, Merge, HoldOrRelease, StartupUnblock, UserMoves, schedulers
<1>7. CASE PauseOrResume
  BY <1>3, <1>7 DEF PauseOrResume, schedulers
<1> QED BY <1>1, <1>2, <1>3, <1>4, <1>5, <1>6, <1>7 DEF Next

\* The set of tasks in scheduling, which all schedulers share in memory, is a
\* lock per task: two of them never move one task at a time, and whichever way
\* a move ends, finish_scheduling gives the task free.
THEOREM SchedulingImplementsLock == Spec => SchedulingIsLock
<1>1. Init => Lock!Init
  <2> SUFFICES ASSUME Init PROVE Lock!Init
    OBVIOUS
  <2>1. \A s \in Scheduler : \A t : ~Inside(s, t)
    BY DEF Init, Inside, NoPass
  <2> QED BY <2>1 DEF Lock!Init, Mover
<1>2. IInv /\ IInv' /\ [Next]_vars => [Lock!Next]_Mover
  <2>1. ASSUME UNCHANGED vars PROVE Mover' = Mover
    BY <2>1, MoverIs DEF vars
  <2>2. ASSUME IInv, IInv', Next PROVE [Lock!Next]_Mover
    BY <2>2, LockStep DEF Lock!Next, Lock!Acquire, Lock!Release, Lock!Restart
  <2> QED BY <2>1, <2>2
<1> QED BY <1>1, <1>2, SpecIInv, PTL DEF Spec, SchedulingIsLock, Lock!Spec
=============================================================================
