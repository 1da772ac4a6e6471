------------------------ MODULE TaskTransitionsProofs ------------------------
(***************************************************************************)
(* Proofs about TaskTransitions, for any tasks, calls and requests.        *)
(***************************************************************************)
EXTENDS TaskTransitions, TLAPS

-----------------------------------------------------------------------------
(* Types *)

LEMMA StatusKinds ==
  /\ ExecutionEntry \subseteq Status /\ BranchUpdates \subseteq Status
  /\ UpdateStates \subseteq Status /\ UpdateDestinations \subseteq Status
  /\ {"Failed", "PendingReview", "Escalated", "Merging", "Paused", "Stopped",
      "BranchUpdateBlocked", "Backlog"} \subseteq Status
BY DEF ExecutionEntry, BranchUpdates, UpdateStates, UpdateDestinations, Status

LEMMA EntryPCType == ASSUME NEW s PROVE EntryPC(s) \in PC
BY DEF EntryPC, PC, AgentEntry, ExecutionEntry

LEMMA AutoTargetsType == ASSUME NEW s PROVE AutoTargets(s) \subseteq Status
BY DEF AutoTargets, Status

LEMMA IdleType == Idle \in CallState
BY DEF Idle, CallState, PC, Status

LEMMA StartedType ==
  ASSUME NEW pc \in PC, NEW t \in Task, NEW from \in Status, NEW to \in Status
  PROVE  Started(pc, t, from, to) \in CallState
BY IdleType DEF Started, CallState

LEMMA GotoType ==
  ASSUME call \in [Call -> CallState], NEW c \in Call, NEW pc \in PC, Goto(c, pc)
  PROVE  call' \in [Call -> CallState]
<1> DEFINE k == [call[c] EXCEPT !.pc = pc, !.from = Idle.from]
<1>1. Idle.from \in Status
  BY StatusKinds DEF Idle
<1>2. k \in CallState
  <2>1. call[c] \in CallState
    OBVIOUS
  <2> QED
    BY <1>1, <2>1 DEF CallState
<1> QED
  BY <1>2 DEF Goto

LEMMA ReturnType ==
  ASSUME TypeOK, NEW c \in Call, Return(c)
  PROVE  call' \in [Call -> CallState] /\ entering' \subseteq Task
BY IdleType DEF Return, Released, TypeOK

LEMMA EntryBlockedType ==
  ASSUME TypeOK, NEW c \in Call, EntryBlocked(c)
  PROVE  call' \in [Call -> CallState] /\ entering' \subseteq Task
BY ReturnType, StatusKinds DEF EntryBlocked, TypeOK, CallState, PC

LEMMA LogStatusType ==
  ASSUME TypeOK, NEW t, NEW s \in Status, LogStatus(t, s)
  PROVE  status' \in [Task -> Status] /\ trail' \in [Task -> Status]
BY DEF LogStatus, WriteStatus, TypeOK

LEMMA WriteStatusType ==
  ASSUME TypeOK, NEW t, NEW s \in Status, WriteStatus(t, s) \/ UNCHANGED status
  PROVE  status' \in [Task -> Status]
BY DEF WriteStatus, TypeOK

\* What one step of a call does to the types, action by action.
LEMMA StartTypes ==
  ASSUME TypeOK, NEW c \in Call, Start(c)
  PROVE  TypeOK'
<1>1. Requested \subseteq Status /\ Corrected \subseteq Status /\ "PendingReview" \in Status
  BY StatusesAssumption, StatusKinds
<1>2. {"commit", "recover", "correct", "exitFirst", "enter"} \subseteq PC
  BY DEF PC
<1>3. \A t \in Task : status[t] \in Status
  BY DEF TypeOK
<1>4. PICK pc \in PC, t \in Task, from \in Status, to \in Status :
        call' = [call EXCEPT ![c] = Started(pc, t, from, to)]
  BY <1>1, <1>2, <1>3 DEF Start, StartTransition, StartRecovery, StartCorrective, StartEntry
<1>5. UNCHANGED << status, trail, updating, entering >>
  BY DEF Start, StartTransition, StartRecovery, StartCorrective, StartEntry
<1>6. Started(pc, t, from, to) \in CallState
  BY StartedType
<1> QED
  BY <1>4, <1>5, <1>6 DEF TypeOK

LEMMA StepTypes ==
  ASSUME TypeOK, NEW c \in Call, Step(c), call[c].pc # "idle" => call[c].task \in Task
  PROVE  TypeOK'
<1> DEFINE k == call[c]
<1>1. /\ k \in CallState /\ k.pc \in PC /\ k.from \in Status /\ k.to \in Status
      /\ k.tries \in Nat
  BY DEF TypeOK, CallState
<1>2. CASE Commit(c)
  BY <1>1, <1>2, GotoType, ReturnType, LogStatusType DEF Commit, TypeOK, PC
<1>3. CASE Exit(c)
  BY <1>3, GotoType DEF Exit, TypeOK, PC
<1>4. CASE Enter(c)
  <2>1. EntryPC(k.to) \in PC
    BY EntryPCType
  <2>2. k.task \in Task
    BY <1>4 DEF Enter
  <2>3. call' \in [Call -> CallState] /\ entering' \subseteq Task
    <3>1. CASE k.to \notin ExecutionEntry
      BY <1>4, <2>1, <3>1, GotoType DEF Enter, TypeOK
    <3>2. CASE k.to \in ExecutionEntry /\ EntryFree(k.task)
      BY <1>1, <1>4, <2>1, <2>2, <3>2 DEF Enter, TypeOK, CallState
    <3>3. CASE k.to \in ExecutionEntry /\ ~EntryFree(k.task)
      BY <1>4, <3>3, ReturnType DEF Enter
    <3> QED
      BY <3>1, <3>2, <3>3
  <2> QED
    BY <1>4, <2>3 DEF Enter, TypeOK
<1>5. CASE Prepare(c)
  <2>1. status[k.task] \in Status
    BY <1>5 DEF Prepare, TypeOK
  <2>2. call' \in [Call -> CallState] /\ entering' \subseteq Task
    BY <1>1, <1>5, <2>1, GotoType, ReturnType, EntryBlockedType, StatusKinds
       DEF Prepare, Prepared, TypeOK, CallState, PC
  <2> QED
    BY <1>5, <2>2 DEF Prepare, TypeOK
<1>6. CASE Persist(c)
  BY <1>1, <1>6, GotoType, EntryBlockedType, WriteStatusType
     DEF Persist, Prepared, TypeOK, PC
<1>7. CASE Freshen(c)
  <2>1. status[k.task] \in Status
    BY <1>7 DEF Freshen, TypeOK
  <2>2. NextTry(k) \in Nat
    BY <1>1 DEF NextTry
  <2>3. call' \in [Call -> CallState] /\ entering' \subseteq Task
    BY <1>1, <1>7, <2>1, <2>2, GotoType, EntryBlockedType DEF Freshen, TypeOK, CallState, PC
  <2> QED
    BY <1>7, <2>3 DEF Freshen, TypeOK
<1>8. CASE Activate(c)
  <2>1. call' \in [Call -> CallState] /\ entering' \subseteq Task
    BY <1>8, GotoType, ReturnType DEF Activate, TypeOK, PC
  <2>2. status' \in [Task -> Status] /\ trail' \in [Task -> Status] /\ updating' \subseteq Task
    BY <1>8, LogStatusType, StatusKinds DEF Activate, TypeOK
  <2> QED
    BY <2>1, <2>2 DEF TypeOK
<1>9. CASE Update(c)
  <2>1. call' \in [Call -> CallState] /\ entering' \subseteq Task
    BY <1>9, GotoType, ReturnType DEF Update, TypeOK, PC
  <2>2. status' \in [Task -> Status] /\ trail' \in [Task -> Status] /\ updating' \subseteq Task
    BY <1>1, <1>9, LogStatusType, StatusKinds DEF Update, TypeOK
  <2> QED
    BY <2>1, <2>2 DEF TypeOK
<1>10. CASE Conflict(c)
  <2>1. CASE status[k.task] \in BranchUpdates
    BY <1>10, <2>1, ReturnType DEF Conflict, TypeOK
  <2>2. CASE status[k.task] \notin BranchUpdates
    <3>1. PICK s \in {"Escalated", "Merging", "PendingReview", "Failed"},
               pc \in {"correct", "restore"} :
            call' = [call EXCEPT ![c].pc = pc, ![c].to = s, ![c].reenter = (s = "Merging")]
      BY <1>10, <2>2 DEF Conflict
    <3>2. s \in Status /\ pc \in PC
      BY <3>1, StatusKinds DEF PC
    <3> QED
      BY <1>1, <1>10, <2>2, <3>1, <3>2 DEF Conflict, TypeOK, CallState
  <2> QED
    BY <2>1, <2>2
<1>11. CASE Restore(c)
  BY <1>1, <1>11 DEF Restore, TypeOK, CallState, PC
<1>12. CASE Rewrite(c)
  BY <1>1, <1>12, GotoType, WriteStatusType DEF Rewrite, WriteBack, TypeOK, PC
<1>13. CASE Check(c)
  BY <1>13, GotoType, ReturnType DEF Check, TypeOK, PC
<1>14. CASE Launch(c)
  BY <1>1, <1>14, ReturnType, EntryBlockedType DEF Launch, TypeOK, CallState, PC
<1>15. CASE Record(c)
  BY <1>1, <1>15, ReturnType, WriteStatusType DEF Record, WriteBack, TypeOK
<1>16. CASE Chain(c)
  <2>1. CASE AutoTargets(k.to) = {}
    BY <1>16, <2>1, ReturnType DEF Chain, TypeOK
  <2>2. CASE AutoTargets(k.to) # {}
    <3>1. PICK s \in AutoTargets(k.to) :
            call' = [call EXCEPT ![c].pc = "autoWrite", ![c].to = s, ![c].chained = TRUE]
      BY <1>16, <2>2 DEF Chain
    <3>2. s \in Status
      BY AutoTargetsType
    <3> QED
      BY <1>1, <1>16, <2>2, <3>1, <3>2 DEF Chain, TypeOK, CallState, PC
  <2> QED
    BY <2>1, <2>2
<1>17. CASE AutoWrite(c)
  <2>1. EntryPC(k.to) \in PC /\ "autoLog" \in PC
    BY EntryPCType DEF PC
  <2> QED
    BY <1>1, <1>17, <2>1, GotoType, WriteStatusType DEF AutoWrite, TypeOK
<1>18. CASE AutoLog(c)
  BY <1>1, <1>18, GotoType, EntryPCType, LogStatusType DEF AutoLog, TypeOK
<1>19. CASE Correct(c)
  BY <1>1, <1>19 DEF Correct, TypeOK, CallState, PC
<1>20. CASE CorrectWrite(c)
  BY <1>1, <1>20, GotoType, ReturnType, WriteStatusType DEF CorrectWrite, TypeOK, PC
<1>21. CASE CorrectLog(c)
  BY <1>1, <1>21, GotoType, EntryPCType, ReturnType, LogStatusType DEF CorrectLog, TypeOK
<1> QED
  BY <1>2, <1>3, <1>4, <1>5, <1>6, <1>7, <1>8, <1>9, <1>10, <1>11, <1>12, <1>13,
     <1>14, <1>15, <1>16, <1>17, <1>18, <1>19, <1>20, <1>21 DEF Step

-----------------------------------------------------------------------------
(* What a step does to the guard *)

\* A call has the entry guard only from its entry on.
Unguarded == {"idle", "commit", "recover", "exit", "exitFirst", "enter"}
Later == PC \ Unguarded

\* The call goes on as it was.
Continues(c) ==
  /\ call'[c].task = call[c].task
  /\ call'[c].guarded = call[c].guarded
  /\ call'[c].pc \in PC \ {"idle", "commit", "recover"}
  /\ call'[c].pc \in Unguarded => call[c].pc \in Unguarded
  /\ entering' = entering

\* The call enters the guard of its task.
Acquires(c) ==
  /\ call[c].pc = "enter"
  /\ call[c].task \notin entering
  /\ call'[c].task = call[c].task
  /\ call'[c].guarded = TRUE
  /\ call'[c].pc \in Later
  /\ entering' = entering \cup {call[c].task}

Effect(c) == /\ call[c].pc # "idle"
             /\ \A d \in Call \ {c} : call'[d] = call[d]
             /\ Continues(c) \/ Acquires(c) \/ Return(c)

LEMMA LaterPCs ==
  /\ "idle" \notin Later /\ "commit" \notin Later /\ "recover" \notin Later
  /\ {"prepare", "persist", "freshen", "activate", "update", "conflict", "restore",
      "rewrite", "check", "launch", "record", "auto", "autoWrite", "autoLog",
      "correct", "correctWrite", "correctLog"} \subseteq Later
  /\ Later \subseteq PC /\ Later \cap Unguarded = {}
  /\ "exit" \in PC /\ "enter" \in PC
BY DEF Later, PC, Unguarded

\* A step that leaves the call inside on_enter.
LEMMA LaterEffect ==
  ASSUME NEW c \in Call, call[c].pc # "idle", UNCHANGED entering,
         \A d \in Call \ {c} : call'[d] = call[d],
         call'[c].task = call[c].task, call'[c].guarded = call[c].guarded,
         call'[c].pc \in Later
  PROVE  Effect(c)
BY LaterPCs DEF Effect, Continues

LEMMA GotoEffect ==
  ASSUME call \in [Call -> CallState], NEW c \in Call, NEW pc \in Later, Goto(c, pc),
         call[c].pc # "idle", UNCHANGED entering
  PROVE  Effect(c)
<1>1. call'[c].task = call[c].task /\ call'[c].guarded = call[c].guarded /\ call'[c].pc = pc
  BY DEF Goto, CallState
<1>2. \A d \in Call \ {c} : call'[d] = call[d]
  BY DEF Goto
<1> QED
  BY <1>1, <1>2, LaterEffect

LEMMA ReturnEffect ==
  ASSUME call \in [Call -> CallState], NEW c \in Call, Return(c), call[c].pc # "idle"
  PROVE  Effect(c)
BY DEF Return, Effect

LEMMA EntryBlockedEffect ==
  ASSUME call \in [Call -> CallState], NEW c \in Call, EntryBlocked(c),
         call[c].pc # "idle"
  PROVE  Effect(c)
<1>1. CASE Return(c)
  BY <1>1, ReturnEffect
<1>2. CASE ~Return(c)
  <2>1. /\ call' = [call EXCEPT ![c].pc = "correct", ![c].to = "Failed"]
        /\ UNCHANGED entering
    BY <1>2 DEF EntryBlocked
  <2>2. /\ call'[c].task = call[c].task /\ call'[c].guarded = call[c].guarded
        /\ call'[c].pc = "correct"
    BY <2>1 DEF CallState
  <2> QED
    BY <2>1, <2>2, LaterEffect, LaterPCs
<1> QED
  BY <1>1, <1>2

LEMMA EntryPCEffect == ASSUME NEW s PROVE EntryPC(s) \in Later
BY LaterPCs DEF EntryPC, AgentEntry, ExecutionEntry

LEMMA StepEffect ==
  ASSUME TypeOK, NEW c \in Call, Step(c)
  PROVE  Effect(c)
<1> DEFINE k == call[c]
           Others == \A d \in Call \ {c} : call'[d] = call[d]
           Same == call'[c].task = k.task /\ call'[c].guarded = k.guarded
           Stays == Same /\ Others /\ call'[c].pc \in Later /\ UNCHANGED entering
<1>1. call \in [Call -> CallState]
  BY DEF TypeOK
<1>2. CASE Commit(c)
  <2>1. CASE Return(c)
    BY <1>1, <1>2, <2>1, ReturnEffect DEF Commit
  <2>2. CASE ~Return(c)
    <3>1. PICK pc \in {"exit", "enter"} : Goto(c, pc) /\ UNCHANGED entering
      BY <1>2, <2>2 DEF Commit
    <3>2. Same /\ Others /\ call'[c].pc = pc
      BY <1>1, <3>1 DEF Goto, CallState
    <3> QED
      BY <1>2, <3>1, <3>2, LaterPCs DEF Commit, Effect, Continues, Unguarded
  <2> QED
    BY <2>1, <2>2
<1>3. CASE Exit(c)
  <2>1. PICK pc \in {"enter", "correct"} : Goto(c, pc) /\ UNCHANGED entering
    BY <1>3 DEF Exit
  <2>2. Same /\ Others /\ call'[c].pc = pc
    BY <1>1, <2>1 DEF Goto, CallState
  <2> QED
    BY <1>3, <2>1, <2>2, LaterPCs DEF Exit, Effect, Continues, Unguarded
<1>4. CASE Enter(c)
  <2>1. EntryPC(k.to) \in Later
    BY EntryPCEffect
  <2>2. CASE k.to \notin ExecutionEntry
    BY <1>1, <1>4, <2>1, <2>2, GotoEffect DEF Enter
  <2>3. CASE k.to \in ExecutionEntry /\ EntryFree(k.task)
    <3>1. call' = [call EXCEPT ![c].pc = EntryPC(k.to), ![c].guarded = TRUE]
      BY <1>4, <2>3 DEF Enter
    <3>2. /\ call'[c].task = k.task /\ call'[c].guarded = TRUE
          /\ call'[c].pc \in Later /\ Others
      BY <1>1, <2>1, <3>1 DEF CallState
    <3> QED
      BY <1>4, <2>3, <3>2 DEF Enter, EntryFree, Effect, Acquires
  <2>4. CASE k.to \in ExecutionEntry /\ ~EntryFree(k.task)
    BY <1>1, <1>4, <2>4, ReturnEffect DEF Enter
  <2> QED
    BY <2>2, <2>3, <2>4
<1>5. ASSUME Stays \/ Return(c) \/ EntryBlocked(c), k.pc # "idle"
      PROVE  Effect(c)
  BY <1>1, <1>5, LaterEffect, ReturnEffect, EntryBlockedEffect
<1>6. ASSUME NEW pc \in Later, Goto(c, pc), UNCHANGED entering
      PROVE  Stays
  BY <1>1, <1>6 DEF Goto, CallState
<1>7. CASE Prepare(c)
  <2>1. Stays \/ Return(c) \/ EntryBlocked(c)
    BY <1>1, <1>6, <1>7, LaterPCs DEF Prepare, Prepared, CallState
  <2> QED
    BY <1>5, <1>7, <2>1 DEF Prepare
<1>8. CASE Persist(c)
  <2>1. Stays \/ Return(c) \/ EntryBlocked(c)
    BY <1>1, <1>6, <1>8, LaterPCs DEF Persist, Prepared
  <2> QED
    BY <1>5, <1>8, <2>1 DEF Persist
<1>9. CASE Freshen(c)
  <2>1. Stays \/ Return(c) \/ EntryBlocked(c)
    BY <1>1, <1>6, <1>9, LaterPCs DEF Freshen, CallState
  <2> QED
    BY <1>5, <1>9, <2>1 DEF Freshen
<1>10. CASE Activate(c)
  <2>1. Stays \/ Return(c) \/ EntryBlocked(c)
    BY <1>1, <1>6, <1>10, LaterPCs DEF Activate
  <2> QED
    BY <1>5, <1>10, <2>1 DEF Activate
<1>11. CASE Update(c)
  <2>1. Stays \/ Return(c) \/ EntryBlocked(c)
    BY <1>1, <1>6, <1>11, LaterPCs DEF Update
  <2> QED
    BY <1>5, <1>11, <2>1 DEF Update
<1>12. CASE Conflict(c)
  <2>1. Stays \/ Return(c) \/ EntryBlocked(c)
    <3>1. CASE Return(c)
      BY <3>1
    <3>2. CASE ~Return(c)
      <4>1. PICK s \in {"Escalated", "Merging", "PendingReview", "Failed"},
                 pc \in {"correct", "restore"} :
              /\ call' = [call EXCEPT ![c].pc = pc, ![c].to = s,
                                      ![c].reenter = (s = "Merging")]
              /\ UNCHANGED entering
        BY <1>12, <3>2 DEF Conflict
      <4>2. pc \in Later
        BY LaterPCs
      <4>3. Same /\ Others /\ call'[c].pc = pc
        BY <1>1, <4>1 DEF CallState
      <4> QED
        BY <4>1, <4>2, <4>3
    <3> QED
      BY <3>1, <3>2
  <2> QED
    BY <1>5, <1>12, <2>1 DEF Conflict
<1>13. CASE Restore(c)
  <2>1. Stays \/ Return(c) \/ EntryBlocked(c)
    BY <1>1, <1>6, <1>13, LaterPCs DEF Restore, CallState
  <2> QED
    BY <1>5, <1>13, <2>1 DEF Restore
<1>14. CASE Rewrite(c)
  <2>1. Stays \/ Return(c) \/ EntryBlocked(c)
    BY <1>1, <1>6, <1>14, LaterPCs DEF Rewrite
  <2> QED
    BY <1>5, <1>14, <2>1 DEF Rewrite
<1>15. CASE Check(c)
  <2>1. Stays \/ Return(c) \/ EntryBlocked(c)
    BY <1>1, <1>6, <1>15, LaterPCs DEF Check
  <2> QED
    BY <1>5, <1>15, <2>1 DEF Check
<1>16. CASE Launch(c)
  <2>1. Stays \/ Return(c) \/ EntryBlocked(c)
    BY <1>1, <1>6, <1>16, LaterPCs DEF Launch, CallState
  <2> QED
    BY <1>5, <1>16, <2>1 DEF Launch
<1>17. CASE Record(c)
  <2>1. Stays \/ Return(c) \/ EntryBlocked(c)
    BY <1>1, <1>6, <1>17, LaterPCs DEF Record
  <2> QED
    BY <1>5, <1>17, <2>1 DEF Record
<1>18. CASE Chain(c)
  <2>1. Stays \/ Return(c) \/ EntryBlocked(c)
    <3>1. CASE Return(c)
      BY <3>1
    <3>2. CASE ~Return(c)
      <4>1. PICK s :
              /\ call' = [call EXCEPT ![c].pc = "autoWrite", ![c].to = s,
                                      ![c].chained = TRUE]
              /\ UNCHANGED entering
        BY <1>18, <3>2 DEF Chain
      <4> QED
        BY <1>1, <4>1, LaterPCs DEF CallState
    <3> QED
      BY <3>1, <3>2
  <2> QED
    BY <1>5, <1>18, <2>1 DEF Chain
<1>19. CASE AutoWrite(c)
  <2>1. Stays \/ Return(c) \/ EntryBlocked(c)
    BY <1>1, <1>6, <1>19, LaterPCs, EntryPCEffect DEF AutoWrite
  <2> QED
    BY <1>5, <1>19, <2>1 DEF AutoWrite
<1>20. CASE AutoLog(c)
  <2>1. Stays \/ Return(c) \/ EntryBlocked(c)
    BY <1>1, <1>6, <1>20, LaterPCs, EntryPCEffect DEF AutoLog
  <2> QED
    BY <1>5, <1>20, <2>1 DEF AutoLog
<1>21. CASE Correct(c)
  <2>1. Stays \/ Return(c) \/ EntryBlocked(c)
    BY <1>1, <1>6, <1>21, LaterPCs DEF Correct, CallState
  <2> QED
    BY <1>5, <1>21, <2>1 DEF Correct
<1>22. CASE CorrectWrite(c)
  <2>1. Stays \/ Return(c) \/ EntryBlocked(c)
    BY <1>1, <1>6, <1>22, LaterPCs DEF CorrectWrite
  <2> QED
    BY <1>5, <1>22, <2>1 DEF CorrectWrite
<1>23. CASE CorrectLog(c)
  <2>1. Stays \/ Return(c) \/ EntryBlocked(c)
    BY <1>1, <1>6, <1>23, LaterPCs, EntryPCEffect DEF CorrectLog
  <2> QED
    BY <1>5, <1>23, <2>1 DEF CorrectLog
<1> QED
  BY <1>2, <1>3, <1>4, <1>7, <1>8, <1>9, <1>10, <1>11, <1>12, <1>13, <1>14, <1>15,
     <1>16, <1>17, <1>18, <1>19, <1>20, <1>21, <1>22, <1>23 DEF Step

-----------------------------------------------------------------------------
(* The inductive invariant *)

\* A call in flight has a task, it enters the guard after its commit only, and
\* what it is about to commit was validated.
Busy == \A c \in Call : call[c].pc # "idle" => call[c].task \in Task
Early == \A c \in Call : call[c].pc \in Unguarded => ~call[c].guarded
Validated == \A c \in Call :
               /\ call[c].pc = "commit" => CanTransition(call[c].from, call[c].to)
               /\ call[c].pc = "recover" => call[c].from = "Failed"

IInv == /\ TypeOK /\ Busy /\ Early /\ Validated
        /\ EntryGuardHeld /\ EntryGuardExclusive

LEMMA InitIInv == Init => IInv
<1> SUFFICES ASSUME Init PROVE IInv
  OBVIOUS
<1>1. TypeOK
  BY StatusesAssumption, IdleType DEF Init, TypeOK
<1>2. \A c \in Call : call[c].pc = "idle" /\ call[c].guarded = FALSE
  BY DEF Init, Idle
<1>3. EntryGuardHeld /\ EntryGuardExclusive
  BY <1>2 DEF Init, EntryGuardHeld, EntryGuardExclusive
<1> QED
  BY <1>1, <1>2, <1>3 DEF IInv, Busy, Early, Validated

\* A call starts outside the guard, and what transition_task commits is in the
\* table.
LEMMA StartKeepsIInv ==
  ASSUME IInv, NEW c \in Call, Start(c)
  PROVE  IInv'
<1>1. TypeOK'
  BY StartTypes DEF IInv
<1>2. PICK pc \in PC, t \in Task, from \in Status, to \in Status :
        /\ call' = [call EXCEPT ![c] = Started(pc, t, from, to)]
        /\ pc = "commit" => CanTransition(from, to)
        /\ pc = "recover" => from = "Failed"
        /\ pc # "idle"
  <2>1. Requested \subseteq Status /\ Corrected \subseteq Status /\ "PendingReview" \in Status
    BY StatusesAssumption, StatusKinds
  <2>2. {"commit", "recover", "correct", "exitFirst", "enter"} \subseteq PC
    BY DEF PC
  <2>3. \A t \in Task : status[t] \in Status
    BY DEF IInv, TypeOK
  <2> QED
    BY <2>1, <2>2, <2>3 DEF Start, StartTransition, StartRecovery, StartCorrective, StartEntry
<1>3. UNCHANGED entering /\ call[c].pc = "idle"
  BY DEF Start, StartTransition, StartRecovery, StartCorrective, StartEntry
<1>4. /\ call'[c].pc = pc /\ call'[c].task = t /\ call'[c].guarded = FALSE
      /\ call'[c].from = from /\ call'[c].to = to
      /\ \A d \in Call \ {c} : call'[d] = call[d]
  BY <1>2 DEF IInv, TypeOK, Started, Idle
<1>5. ~call[c].guarded
  BY <1>3 DEF IInv, Early, Unguarded
<1>6. \A d \in Call : /\ call'[d].guarded = call[d].guarded
                      /\ call[d].guarded => call'[d].task = call[d].task
  BY <1>4, <1>5 DEF IInv, TypeOK, CallState
<1>7. Busy' /\ Early' /\ Validated'
  BY <1>2, <1>4 DEF IInv, Busy, Early, Validated
<1>8. EntryGuardHeld' /\ EntryGuardExclusive'
  BY <1>3, <1>6 DEF IInv, EntryGuardHeld, EntryGuardExclusive
<1> QED
  BY <1>1, <1>7, <1>8 DEF IInv

LEMMA StepKeepsIInv ==
  ASSUME IInv, NEW c \in Call, Step(c)
  PROVE  IInv'
<1>1. Effect(c) /\ call[c].task \in Task
  BY StepEffect DEF IInv, Busy, Effect
<1>2. TypeOK'
  BY <1>1, StepTypes DEF IInv
<1>3. \A d \in Call \ {c} : call'[d] = call[d]
  BY <1>1 DEF Effect
<1>4. CASE Continues(c)
  <2>1. Busy' /\ Early' /\ Validated'
    BY <1>1, <1>3, <1>4 DEF IInv, Busy, Early, Validated, Continues, Effect
  <2>2. EntryGuardHeld' /\ EntryGuardExclusive'
    BY <1>3, <1>4 DEF IInv, EntryGuardHeld, EntryGuardExclusive, Continues
  <2> QED
    BY <1>2, <2>1, <2>2 DEF IInv
<1>5. CASE Acquires(c)
  <2>1. /\ call'[c].pc \notin Unguarded /\ call'[c].pc \notin {"commit", "recover", "idle"}
    BY <1>5, LaterPCs DEF Acquires
  <2>2. Busy' /\ Early' /\ Validated'
    BY <1>1, <1>3, <1>5, <2>1 DEF IInv, Busy, Early, Validated, Acquires
  <2>3. ~call[c].guarded
    BY <1>5 DEF IInv, Early, Acquires, Unguarded
  <2>4. EntryGuardHeld'
    BY <1>3, <1>5, <2>3 DEF IInv, EntryGuardHeld, Acquires
  <2>5. \A d \in Call : call[d].guarded => call[d].task # call[c].task
    BY <1>5 DEF IInv, EntryGuardHeld, Acquires
  <2>6. EntryGuardExclusive'
    BY <1>3, <1>5, <2>5 DEF IInv, EntryGuardExclusive, Acquires
  <2> QED
    BY <1>2, <2>2, <2>4, <2>6 DEF IInv
<1>6. CASE Return(c)
  <2>1. call'[c] = Idle /\ entering' = Released(call[c])
    BY <1>6 DEF Return, IInv, TypeOK
  <2>2. call'[c].pc = "idle" /\ call'[c].guarded = FALSE
    BY <2>1 DEF Idle
  <2>3. Busy' /\ Early' /\ Validated'
    BY <1>3, <2>2 DEF IInv, Busy, Early, Validated
  <2>4. EntryGuardExclusive'
    BY <1>3, <2>2 DEF IInv, EntryGuardExclusive
  <2>5. CASE call[c].guarded
    <3>1. entering' = entering \ {call[c].task}
      BY <2>1, <2>5 DEF Released
    <3>2. \A d \in Call \ {c} : call[d].guarded => call[d].task # call[c].task
      BY <2>5 DEF IInv, EntryGuardExclusive
    <3> QED
      BY <1>2, <1>3, <2>2, <2>3, <2>4, <3>1, <3>2 DEF IInv, EntryGuardHeld
  <2>6. CASE ~call[c].guarded
    <3>1. entering' = entering
      BY <2>1, <2>6 DEF Released
    <3> QED
      BY <1>2, <1>3, <2>2, <2>3, <2>4, <2>6, <3>1 DEF IInv, EntryGuardHeld
  <2> QED
    BY <2>5, <2>6
<1> QED
  BY <1>1, <1>4, <1>5, <1>6 DEF Effect

LEMMA UpdateKeepsIInv ==
  ASSUME IInv, NEW t \in Task, MoveUpdate(t) \/ SettleUpdate(t)
  PROVE  IInv'
<1>1. UNCHANGED << entering, call >> /\ updating' \subseteq Task
  BY DEF MoveUpdate, SettleUpdate, IInv, TypeOK
<1>2. status' \in [Task -> Status] /\ trail' \in [Task -> Status]
  BY LogStatusType, StatusKinds DEF MoveUpdate, SettleUpdate, IInv
<1> QED
  BY <1>1, <1>2
     DEF IInv, TypeOK, Busy, Early, Validated, EntryGuardHeld, EntryGuardExclusive

LEMMA RestartKeepsIInv ==
  ASSUME IInv, Restart
  PROVE  IInv'
<1>1. TypeOK'
  BY IdleType DEF Restart, IInv, TypeOK
<1>2. entering' = {} /\ \A c \in Call : call'[c].pc = "idle" /\ call'[c].guarded = FALSE
  BY DEF Restart, Idle
<1> QED
  BY <1>1, <1>2 DEF IInv, Busy, Early, Validated, EntryGuardHeld, EntryGuardExclusive

LEMMA NextKeepsIInv == IInv /\ [Next]_vars => IInv'
<1> SUFFICES ASSUME IInv, [Next]_vars PROVE IInv'
  OBVIOUS
<1>1. CASE \E c \in Call : Start(c) \/ Step(c)
  BY <1>1, StartKeepsIInv, StepKeepsIInv
<1>2. CASE \E t \in Task : MoveUpdate(t) \/ SettleUpdate(t)
  BY <1>2, UpdateKeepsIInv
<1>3. CASE Restart
  BY <1>3, RestartKeepsIInv
<1>4. CASE UNCHANGED vars
  BY <1>4 DEF vars, IInv, TypeOK, Busy, Early, Validated, EntryGuardHeld, EntryGuardExclusive
<1> QED
  BY <1>1, <1>2, <1>3, <1>4 DEF Next

LEMMA SpecIInv == Spec => []IInv
BY InitIInv, NextKeepsIInv, PTL DEF Spec

-----------------------------------------------------------------------------
(* Theorems *)

\* The state of the service keeps its types.
THEOREM TypesHold == Spec => []TypeOK
<1>1. IInv => TypeOK
  BY DEF IInv
<1> QED
  BY <1>1, SpecIInv, PTL

\* The entry guard names exactly the tasks some call is entering
\* (execute_entry_actions keeps the guard through error handling and gives it
\* back on every way out).
THEOREM EntryGuardHolds == Spec => []EntryGuardHeld
<1>1. IInv => EntryGuardHeld
  BY DEF IInv
<1> QED
  BY <1>1, SpecIInv, PTL

\* Never do two calls enter the same task, not even when one of them was sent
\* back by freshness and enters again (try_start_entry, ExecutionEntryGuard).
THEOREM EntryGuardIsExclusive == Spec => []EntryGuardExclusive
<1>1. IInv => EntryGuardExclusive
  BY DEF IInv
<1> QED
  BY <1>1, SpecIInv, PTL

\* Only the call itself commits, with the status it validated still in the row.
LEMMA CommitOfCall ==
  ASSUME IInv, Next, NEW c \in Call,
         \/ call[c].pc = "commit" /\ call'[c].pc = "exit"
         \/ call[c].pc = "recover" /\ call'[c].pc = "enter"
  PROVE  /\ status[call[c].task] = call[c].from
         /\ status'[call[c].task] = call[c].to
<1>1. ASSUME NEW d \in Call, Start(d) PROVE FALSE
  <2>1. call[d].pc = "idle" /\ \E k : call' = [call EXCEPT ![d] = k]
    BY <1>1 DEF Start, StartTransition, StartRecovery, StartCorrective, StartEntry
  <2> QED
    BY <2>1 DEF IInv, TypeOK
<1>2. ASSUME NEW d \in Call, Step(d) PROVE d = c
  BY <1>2, StepEffect DEF Effect, IInv
<1>3. ~Restart /\ ~(\E t \in Task : MoveUpdate(t) \/ SettleUpdate(t))
  BY DEF Restart, Idle, MoveUpdate, SettleUpdate
<1>4. Step(c)
  BY <1>1, <1>2, <1>3 DEF Next
<1>5. Commit(c)
  BY <1>4 DEF Step, Exit, Enter, Prepare, Persist, Freshen, Activate, Update, Conflict,
              Restore, Rewrite, Check, Launch, Record, Chain, AutoWrite, AutoLog,
              Correct, CorrectWrite, CorrectLog
<1>6. ~Return(c)
  BY DEF Return, Idle, IInv, TypeOK
<1>7. call[c].task \in Task
  BY <1>5 DEF Commit, IInv, Busy
<1> QED
  BY <1>5, <1>6, <1>7 DEF Commit, Wins, LogStatus, WriteStatus, IInv, TypeOK

\* A commit of transition_task moves the row along the table from the status
\* that is in it at that moment, whatever was written since the call read it.
THEOREM CommitsFollowTheTable == Spec => CommitsFollowTable
<1>1. IInv /\ [Next]_vars =>
        [\A c \in Call :
           LET k == call[c] IN
           /\ k.pc = "commit" /\ call'[c].pc = "exit"
                => CanTransition(status[k.task], status'[k.task])
           /\ k.pc = "recover" /\ call'[c].pc = "enter"
                => status[k.task] = "Failed"]_vars
  BY CommitOfCall DEF IInv, Validated
<1> QED
  BY <1>1, SpecIInv, PTL DEF Spec, CommitsFollowTable

-----------------------------------------------------------------------------
(* Who moves a task a branch update has *)

\* A step of a call writes the status of its own task only, and of a task that
\* an update has before and after the step only what the update itself may.
Respects(c) ==
  LET t == call[c].task IN
  /\ status' = status \/ \E s \in Status : WriteStatus(t, s)
  /\ t \in updating \cap updating' =>
       \/ status'[t] = status[t]
       \/ {status[t], status'[t]} \subseteq UpdateStates
       \/ call[c].pc \in {"autoLog", "correctLog"}

LEMMA WritesRespect ==
  ASSUME IInv, NEW c \in Call, Step(c)
  PROVE  Respects(c)
<1> DEFINE k == call[c]
<1>1. k.task \in Task
  BY DEF IInv, Busy, Step, Commit, Exit, Enter, Prepare, Persist, Freshen, Activate, Update,
         Conflict, Restore, Rewrite, Check, Launch, Record, Chain, AutoWrite, AutoLog, Correct,
         CorrectWrite, CorrectLog
<1>2. status \in [Task -> Status] /\ k.from \in Status /\ k.to \in Status
  BY DEF IInv, TypeOK, CallState
<1>3. ASSUME UNCHANGED status PROVE Respects(c)
  BY <1>3 DEF Respects
<1>4. ASSUME NEW s \in Status, WriteStatus(k.task, s), Unowned(k.task, s) PROVE Respects(c)
  BY <1>1, <1>2, <1>4 DEF Respects, WriteStatus, Unowned
<1>5. CASE Commit(c)
  BY <1>2, <1>3, <1>4, <1>5 DEF Commit, LogStatus, Wins
<1>6. CASE Persist(c) \/ Rewrite(c) \/ Record(c)
  BY <1>2, <1>3, <1>4, <1>6 DEF Persist, Rewrite, Record, WriteBack
<1>7. CASE AutoWrite(c) \/ CorrectWrite(c)
  BY <1>2, <1>3, <1>4, <1>7 DEF AutoWrite, CorrectWrite, Wins
<1>8. CASE AutoLog(c) \/ CorrectLog(c)
  BY <1>2, <1>8 DEF AutoLog, CorrectLog, LogStatus, Respects
<1>9. CASE Activate(c)
  <2>1. CASE UNCHANGED status
    BY <1>3, <2>1
  <2>2. CASE k.task \notin updating /\ \E s \in BranchUpdates : LogStatus(k.task, s)
    BY <2>2, StatusKinds DEF LogStatus, Respects
  <2> QED BY <1>9, <2>1, <2>2 DEF Activate
<1>10. CASE Update(c)
  <2>1. CASE LogStatus(k.task, k.to) /\ updating' = updating \ {k.task}
    BY <1>2, <2>1 DEF LogStatus, Respects
  <2>2. CASE status[k.task] \in BranchUpdates /\ LogStatus(k.task, "BranchUpdateBlocked")
    BY <1>1, <1>2, <2>2, StatusKinds DEF LogStatus, WriteStatus, Respects, UpdateStates
  <2> QED BY <1>3, <1>10, <2>1, <2>2 DEF Update
<1>11. CASE \/ Exit(c) \/ Enter(c) \/ Prepare(c) \/ Freshen(c) \/ Conflict(c) \/ Restore(c)
            \/ Check(c) \/ Launch(c) \/ Chain(c) \/ Correct(c)
  BY <1>3, <1>11 DEF Exit, Enter, Prepare, Freshen, Conflict, Restore, Check, Launch, Chain, Correct
<1> QED
  BY <1>5, <1>6, <1>7, <1>8, <1>9, <1>10, <1>11 DEF Step

\* The operation moves its task among the states of an update and Paused.
LEMMA UpdatesRespect ==
  ASSUME IInv, NEW u \in Task, MoveUpdate(u) \/ SettleUpdate(u), NEW t \in updating \cap updating'
  PROVE  status'[t] = status[t] \/ {status[t], status'[t]} \subseteq UpdateStates \cup {"Paused"}
<1>1. status \in [Task -> Status] /\ t \in Task
  BY DEF IInv, TypeOK
<1>2. CASE SettleUpdate(u)
  BY <1>1, <1>2 DEF SettleUpdate, LogStatus, WriteStatus
<1>3. CASE MoveUpdate(u)
  BY <1>1, <1>3 DEF MoveUpdate, LogStatus, WriteStatus, UpdateStates
<1> QED BY <1>2, <1>3

\* As long as a branch update has a task, no whole-row write, commit or
\* correction of any call, however old the row it carries, takes the status
\* away from the update (the trigger of the tasks table, and the check in the
\* repository's update); the history rows of a write that was under way are
\* the one exception.
THEOREM OwnedTasksStay == Spec => OwnedMoves
<1> DEFINE Kept == \A t \in updating \cap updating' :
                     \/ status'[t] = status[t]
                     \/ {status[t], status'[t]} \subseteq UpdateStates \cup {"Paused"}
                     \/ \E c \in Call : call[c].task = t /\ call[c].pc \in {"autoLog", "correctLog"}
<1>1. IInv /\ [Next]_vars => [Kept]_vars
  <2> SUFFICES ASSUME IInv, Next, NEW t \in updating \cap updating'
               PROVE  \/ status'[t] = status[t]
                      \/ {status[t], status'[t]} \subseteq UpdateStates \cup {"Paused"}
                      \/ \E c \in Call : call[c].task = t /\ call[c].pc \in {"autoLog", "correctLog"}
    OBVIOUS
  <2>1. CASE \E c \in Call : Start(c)
    BY <2>1 DEF Start, StartTransition, StartRecovery, StartCorrective, StartEntry
  <2>2. CASE \E c \in Call : Step(c)
    <3>1. PICK c \in Call : Respects(c)
      BY <2>2, WritesRespect
    <3>2. status \in [Task -> Status] /\ t \in Task
      BY DEF IInv, TypeOK
    <3>3. CASE call[c].task = t
      BY <3>1, <3>3 DEF Respects
    <3>4. CASE call[c].task # t
      BY <3>1, <3>2, <3>4 DEF Respects, WriteStatus
    <3> QED BY <3>3, <3>4
  <2>3. CASE \E u \in Task : MoveUpdate(u) \/ SettleUpdate(u)
    BY <2>3, UpdatesRespect
  <2>4. CASE Restart
    BY <2>4 DEF Restart
  <2> QED BY <2>1, <2>2, <2>3, <2>4 DEF Next
<1> QED
  BY <1>1, SpecIInv, PTL DEF Spec, OwnedMoves

-----------------------------------------------------------------------------
(* The guard is a lock *)

\* The holder of the guard of a task, by the state of the calls: the mapping of
\* Lock.
HolderIn(cs, t) ==
  IF \E c \in Call : cs[c].guarded /\ cs[c].task = t
    THEN CHOOSE c \in Call : cs[c].guarded /\ cs[c].task = t
    ELSE NoTask

Exclusive(cs) ==
  \A c, d \in Call : cs[c].guarded /\ cs[d].guarded /\ cs[c].task = cs[d].task => c = d

LEMMA HolderIs ==
  ASSUME NEW cs, Exclusive(cs), NEW c \in Call, cs[c].guarded
  PROVE  HolderIn(cs, cs[c].task) = c
BY DEF HolderIn, Exclusive

LEMMA NoHolder ==
  ASSUME NEW cs, NEW t, \A c \in Call : ~(cs[c].guarded /\ cs[c].task = t)
  PROVE  HolderIn(cs, t) = NoTask
BY DEF HolderIn

\* A task is held by the same call as before when that call did not move in or out.
LEMMA HolderKept ==
  ASSUME NEW cs, NEW ds, Exclusive(cs), Exclusive(ds), NEW t,
         \A c \in Call : cs[c].guarded /\ cs[c].task = t <=> ds[c].guarded /\ ds[c].task = t
  PROVE  HolderIn(cs, t) = HolderIn(ds, t)
<1>1. CASE \E c \in Call : cs[c].guarded /\ cs[c].task = t
  BY <1>1, HolderIs
<1>2. CASE \A c \in Call : ~(cs[c].guarded /\ cs[c].task = t)
  BY <1>2, NoHolder
<1> QED
  BY <1>1, <1>2

LEMMA GuardHolderIs == GuardHolder = [t \in Task |-> HolderIn(call, t)]
BY DEF GuardHolder, HolderIn

LEMMA NextGuardHolderIs == GuardHolder' = [t \in Task |-> HolderIn(call', t)]
BY DEF GuardHolder, HolderIn

LEMMA LockStep ==
  ASSUME IInv, IInv', Next
  PROVE  \/ GuardHolder' = GuardHolder
         \/ \E t \in Task, c \in Call :
              /\ GuardHolder[t] = NoTask
              /\ GuardHolder' = [GuardHolder EXCEPT ![t] = c]
         \/ \E t \in Task, c \in Call :
              /\ GuardHolder[t] = c
              /\ GuardHolder' = [GuardHolder EXCEPT ![t] = NoTask]
         \/ GuardHolder' = [t \in Task |-> NoTask]
<1>1. Exclusive(call) /\ Exclusive(call')
  BY DEF IInv, EntryGuardExclusive, Exclusive
<1>2. ASSUME \A c \in Call : /\ call'[c].guarded = call[c].guarded
                             /\ call[c].guarded => call'[c].task = call[c].task
      PROVE  GuardHolder' = GuardHolder
  <2>1. \A t \in Task : HolderIn(call', t) = HolderIn(call, t)
    BY <1>1, <1>2, HolderKept
  <2> QED
    BY <2>1, GuardHolderIs, NextGuardHolderIs
<1>3. CASE \E c \in Call : Start(c)
  <2>1. PICK c \in Call : Start(c)
    BY <1>3
  <2>2. PICK pc, t, from, to : call' = [call EXCEPT ![c] = Started(pc, t, from, to)]
    BY <2>1 DEF Start, StartTransition, StartRecovery, StartCorrective, StartEntry
  <2>3. call[c].guarded = FALSE
    BY <2>1 DEF Start, StartTransition, StartRecovery, StartCorrective, StartEntry,
                IInv, TypeOK, CallState, Early, Unguarded
  <2>4. call'[c].guarded = FALSE /\ \A d \in Call \ {c} : call'[d] = call[d]
    BY <2>2 DEF Started, Idle, IInv, TypeOK
  <2> QED
    BY <1>2, <2>3, <2>4
<1>4. CASE \E c \in Call : Step(c)
  <2>1. PICK c \in Call : Effect(c) /\ call[c].task \in Task
    BY <1>4, StepEffect DEF IInv, Busy, Effect
  <2> DEFINE t == call[c].task
  <2>2. \A d \in Call \ {c} : call'[d] = call[d]
    BY <2>1 DEF Effect
  <2>3. CASE Continues(c)
    BY <1>2, <2>2, <2>3 DEF Continues
  <2>4. CASE Acquires(c)
    <3>1. \A d \in Call : ~(call[d].guarded /\ call[d].task = t)
      BY <2>4 DEF Acquires, IInv, EntryGuardHeld
    <3>2. HolderIn(call, t) = NoTask
      BY <3>1, NoHolder
    <3>3. HolderIn(call', t) = c
      BY <1>1, <2>4, HolderIs DEF Acquires
    <3>4. \A u \in Task \ {t} : HolderIn(call', u) = HolderIn(call, u)
      <4> SUFFICES ASSUME NEW u \in Task \ {t}
                   PROVE  HolderIn(call', u) = HolderIn(call, u)
        OBVIOUS
      <4>1. \A d \in Call : call[d].guarded /\ call[d].task = u
                              <=> call'[d].guarded /\ call'[d].task = u
        BY <2>2, <2>4 DEF Acquires
      <4> QED
        BY <1>1, <4>1, HolderKept
    <3>5. GuardHolder[t] = NoTask
      BY <2>1, <3>2, GuardHolderIs
    <3>6. GuardHolder' = [GuardHolder EXCEPT ![t] = c]
      BY <3>3, <3>4, GuardHolderIs, NextGuardHolderIs
    <3> QED
      BY <2>1, <3>5, <3>6
  <2>5. CASE Return(c)
    <3>1. call'[c].guarded = FALSE
      BY <2>5 DEF Return, Idle, IInv, TypeOK
    <3>2. CASE call[c].guarded
      <4>1. HolderIn(call, t) = c
        BY <1>1, <3>2, HolderIs
      <4>2. \A d \in Call : ~(call'[d].guarded /\ call'[d].task = t)
        BY <2>2, <3>1, <3>2 DEF IInv, EntryGuardExclusive
      <4>3. HolderIn(call', t) = NoTask
        BY <4>2, NoHolder
      <4>4. \A u \in Task \ {t} : HolderIn(call', u) = HolderIn(call, u)
        <5> SUFFICES ASSUME NEW u \in Task \ {t}
                     PROVE  HolderIn(call', u) = HolderIn(call, u)
          OBVIOUS
        <5>1. \A d \in Call : call[d].guarded /\ call[d].task = u
                                <=> call'[d].guarded /\ call'[d].task = u
          BY <2>2, <3>1
        <5> QED
          BY <1>1, <5>1, HolderKept
      <4> QED
        BY <2>1, <4>1, <4>3, <4>4, GuardHolderIs, NextGuardHolderIs
    <3>3. CASE ~call[c].guarded
      <4>1. call[c].guarded = FALSE
        BY <3>3 DEF IInv, TypeOK, CallState
      <4> QED
        BY <1>2, <2>2, <3>1, <4>1
    <3> QED
      BY <3>2, <3>3
  <2> QED
    BY <2>1, <2>3, <2>4, <2>5 DEF Effect
<1>5. CASE \E t \in Task : MoveUpdate(t) \/ SettleUpdate(t)
  <2>1. call' = call
    BY <1>5 DEF MoveUpdate, SettleUpdate
  <2> QED
    BY <2>1, GuardHolderIs, NextGuardHolderIs
<1>6. CASE Restart
  <2>1. \A c \in Call : call'[c].guarded = FALSE
    BY <1>6 DEF Restart, Idle
  <2>2. \A t \in Task : HolderIn(call', t) = NoTask
    BY <2>1, NoHolder
  <2> QED
    BY <2>2, GuardHolderIs, NextGuardHolderIs
<1> QED
  BY <1>3, <1>4, <1>5, <1>6 DEF Next

\* The entry guard of the execution state implements the lock per task.
THEOREM EntryGuardImplementsLock == Spec => EntryGuardIsLock
<1>1. Init => Lock!Init
  BY NoHolder, GuardHolderIs DEF Init, Idle, Lock!Init
<1>2. IInv /\ IInv' /\ [Next]_vars => [Lock!Next]_GuardHolder
  <2>1. ASSUME UNCHANGED vars PROVE GuardHolder' = GuardHolder
    BY <2>1, GuardHolderIs, NextGuardHolderIs DEF vars
  <2>2. ASSUME IInv, IInv', Next PROVE [Lock!Next]_GuardHolder
    BY <2>2, LockStep DEF Lock!Next, Lock!Acquire, Lock!Release, Lock!Restart
  <2> QED
    BY <2>1, <2>2
<1> QED
  BY <1>1, <1>2, SpecIInv, PTL DEF Spec, EntryGuardIsLock, Lock!Spec
=============================================================================
