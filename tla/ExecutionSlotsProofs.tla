------------------------ MODULE ExecutionSlotsProofs ------------------------
(***************************************************************************)
(* Proofs about ExecutionSlots, for any tasks, chats, sweeps and bounds:   *)
(* nothing outlives the run that removes it, and, before any message,      *)
(* verdict, stop and sweep, the count of running agents is the slots the   *)
(* agents hold.                                                            *)
(***************************************************************************)
EXTENDS ExecutionSlots, FiniteSetTheorems, TLAPS

-----------------------------------------------------------------------------
(* Keys, runs and kinds.                                                   *)

LEMMA KeyParts ==
  \A k \in Key : k[1] \in Task /\ k[2] \in Kind /\ k = << k[1], k[2] >>
BY DEF Key

LEMMA RunParts ==
  \A r \in Run : /\ r[1] \in Task /\ r[2] \in Kind /\ r[3] \in 1..Episodes
                 /\ r = << r[1], r[2], r[3] >>
                 /\ KeyOf(r) \in Key /\ KeyOf(r) = << r[1], r[2] >>
BY DEF Run, KeyOf, Key

LEMMA RunOfKey ==
  ASSUME NEW k \in Key, NEW n \in 1..Episodes
  PROVE  << k[1], k[2], n >> \in Run /\ KeyOf(<< k[1], k[2], n >>) = k
BY KeyParts DEF Run, KeyOf

LEMMA Kinds ==
  /\ Active = {"executing", "reviewing"}
  /\ KindOf("executing") = "execution" /\ KindOf("reviewing") = "review"
  /\ KindOf("executing") \in Kind /\ KindOf("reviewing") \in Kind
<1>1. /\ StatusOf("execution") = "executing" /\ StatusOf("review") = "reviewing"
      /\ Kind = {"execution", "review"}
  BY DEF StatusOf, Kind
<1> QED BY <1>1 DEF Active, KindOf

LEMMA EpisodeTypes == Episodes \in Nat /\ Reviews \in 0..Episodes
BY BoundAssumption

-----------------------------------------------------------------------------
(* Types.                                                                  *)

PC == {"none", "reserved", "counted", "lost", "stream", "exited",
       "unregistered", "closed", "settle", "handle", "over"}

LEMMA AgentType ==
  ASSUME NEW a \in AgentRun
  PROVE  /\ a.pc \in PC /\ a.held \in BOOLEAN /\ a.between \in BOOLEAN
         /\ \A pc \in PC : [a EXCEPT !.pc = pc] \in AgentRun
         /\ [a EXCEPT !.inbox = TRUE] \in AgentRun
         /\ [a EXCEPT !.between = FALSE] \in AgentRun
         /\ [a EXCEPT !.process = "dead"] \in AgentRun
         /\ [a EXCEPT !.cancelled = TRUE, !.process = "dead"] \in AgentRun
         /\ [a EXCEPT !.process = "working", !.inbox = FALSE] \in AgentRun
         /\ [a EXCEPT !.pc = "stream", !.process = "working"] \in AgentRun
         /\ [a EXCEPT !.process = "waiting", !.between = TRUE, !.turned = TRUE] \in AgentRun
BY DEF AgentRun, PC

LEMMA EndedType ==
  ASSUME NEW a \in AgentRun, NEW how \in {"none", "ok", "error", "cancelled"},
         NEW b \in BOOLEAN, NEW d \in BOOLEAN
  PROVE  /\ [a EXCEPT !.pc = "exited", !.how = how, !.held = b] \in AgentRun
         /\ [a EXCEPT !.pc = "handle", !.added = b, !.held = d, !.how = how] \in AgentRun
BY DEF AgentRun

LEMMA NoAgentType == NoAgent \in AgentRun /\ [NoAgent EXCEPT !.pc = "reserved"] \in AgentRun
BY DEF NoAgent, AgentRun

LEMMA PutType ==
  ASSUME run \in [Run -> AgentRun], NEW r \in Run, NEW pc \in PC, Put(r, pc)
  PROVE  run' \in [Run -> AgentRun]
<1>1. [run[r] EXCEPT !.pc = pc] \in AgentRun
  BY AgentType
<1> QED BY <1>1 DEF Put

LEMMA CancelType ==
  ASSUME run \in [Run -> AgentRun], NEW r \in Run, NEW cond, Cancel(r, cond)
  PROVE  run' \in [Run -> AgentRun]
<1>1. Cancelled(r) \in AgentRun
  BY AgentType DEF Cancelled
<1> QED BY <1>1 DEF Cancel

LEMMA CountType ==
  ASSUME running \in Nat, IncrementRunning \/ DecrementRunning \/ UNCHANGED running
  PROVE  running' \in Nat
BY DEF IncrementRunning, DecrementRunning

\* Entries are those of their keys.
Keyed(f) ==
  f \in [Key -> Run \cup {NoRun}] /\ \A k \in Key : f[k] # NoRun => f[k] \in Run /\ KeyOf(f[k]) = k

LEMMA RemoveType ==
  ASSUME NEW f, Keyed(f)
  PROVE  /\ \A k \in Key : Keyed(RemoveKey(f, k))
         /\ \A r \in Run : Keyed(RemoveIfOwner(f, r))
BY DEF Keyed, RemoveKey, RemoveIfOwner

LEMMA PutKeyType ==
  ASSUME NEW f, Keyed(f), NEW r \in Run
  PROVE  Keyed([f EXCEPT ![KeyOf(r)] = r])
BY NoRunAssumption, RunParts DEF Keyed

TypeTasks ==
  /\ status \in [Task -> Status] /\ episode \in [Key -> 0..Episodes]
  /\ calls \subseteq Call /\ looked \subseteq Task
TypeMemory == running \in Nat /\ idle \subseteq Key /\ Keyed(registry) /\ Keyed(stdin)
TypeRun == run \in [Run -> AgentRun]
TypeSends ==
  /\ sender \in [Key -> {"idle", "claim", "increment"}]
  /\ verdicts \in 0..MaxVerdicts /\ messages \in 0..MaxMessages /\ stops \in 0..MaxStops
TypeSweeps == sweep \in [Sweep -> SweepState] /\ chat \in [Chat -> {"none", "open", "over"}]

Types == TypeTasks /\ TypeMemory /\ TypeRun /\ TypeSends /\ TypeSweeps

LEMMA TypesImply == Types => TypeOK
<1> SUFFICES ASSUME Types PROVE TypeOK
  OBVIOUS
<1>1. \A k \in Key : {registry[k], stdin[k]} \subseteq {NoRun} \cup { r \in Run : KeyOf(r) = k }
  BY DEF Types, TypeMemory, Keyed
<1> QED BY <1>1 DEF TypeOK, Types, TypeTasks, TypeMemory, TypeRun, TypeSends, TypeSweeps, Keyed

LEMMA ThenType == ASSUME NEW c \in Call PROVE Then(c) \subseteq Call
BY DEF Then, Call

LEMMA MoveType ==
  ASSUME TypeTasks, NEW t \in Task, NEW s \in Status, NEW close \in BOOLEAN, Move(t, s, close)
  PROVE  status' \in [Task -> Status] /\ calls' \subseteq Call
<1> DEFINE c == [task |-> t, do |-> "exit", to |-> s, close |-> close]
<1>1. c \in Call /\ Then(c) \subseteq Call
  BY ThenType DEF Call
<1> QED BY <1>1 DEF Move, TypeTasks

LEMMA BeginType ==
  ASSUME TypeTasks, NEW t \in Task, NEW s \in {"executing", "reviewing"},
         MayBegin(t, s), Begin(t, s)
  PROVE  episode' \in [Key -> 0..Episodes]
<1> DEFINE k == << t, KindOf(s) >>
<1>1. k \in Key
  BY Kinds DEF Key
<1>2. episode[k] + 1 \in 0..Episodes
  BY <1>1, EpisodeTypes DEF TypeTasks, MayBegin
<1> QED BY <1>1, <1>2 DEF Begin, TypeTasks

-----------------------------------------------------------------------------
(* The inductive invariant: a call enters a status of its kind, under an   *)
(* episode that has no run yet, so that no run is begun twice.             *)

CallShape == \A c \in calls :
  /\ c.do = "exit" => c.to \in {"pending", "revision", "off"}
  /\ c.do = "auto" => c.to \in {"pending", "revision"}
  /\ c.do = "enter" => c.to \in Active
  /\ c.to \in {"pending", "reviewing"} => ~c.close
  /\ c.to = "revision" => c.close

EntryKey(c) == << c.task, KindOf(c.to) >>
EntryRun(c) == << c.task, KindOf(c.to), episode[EntryKey(c)] >>
EntersFresh == \A c \in calls : c.do = "enter" =>
  episode[EntryKey(c)] >= 1 /\ run[EntryRun(c)].pc = "none"

Unborn == \A r \in Run : r[3] > episode[KeyOf(r)] => run[r].pc = "none"

\* A task that was never executed.
Launchless(t) == \A r \in Run : r[1] = t => run[r].pc = "none"
FirstEntry == \A c \in calls : c.do = "enter" /\ c.to = "executing" /\ ~c.close =>
  /\ Launchless(c.task)
  /\ \A d \in calls : d.task = c.task => d = c \/ d.to = "off"
ReadyFresh ==
  /\ \A t \in Task : status[t] = "ready" => Launchless(t) /\ \A c \in calls : c.task # t
  /\ \A t \in looked : status[t] = "ready"

Courses == CallShape /\ EntersFresh /\ Unborn /\ FirstEntry /\ ReadyFresh
IInv == Types /\ Courses /\ SlotsAreLive

LEMMA EntryParts ==
  ASSUME Types, Courses, NEW c \in calls, c.do = "enter"
  PROVE  /\ EntryKey(c) \in Key /\ EntryRun(c) \in Run /\ KeyOf(EntryRun(c)) = EntryKey(c)
         /\ run[EntryRun(c)].pc = "none"
<1>1. EntryKey(c) \in Key
  BY Kinds DEF Types, Courses, CallShape, EntryKey, Key, TypeTasks, Call
<1>2. episode[EntryKey(c)] \in 1..Episodes
  BY <1>1, EpisodeTypes DEF Types, Courses, EntersFresh, TypeTasks
<1>3. EntryRun(c) = << EntryKey(c)[1], EntryKey(c)[2], episode[EntryKey(c)] >>
  BY DEF EntryRun, EntryKey
<1> QED BY <1>1, <1>2, <1>3, RunOfKey DEF Courses, EntersFresh

-----------------------------------------------------------------------------
(* Types, action by action.                                                *)

LEMMA TransitionTypes ==
  ASSUME Types, NEW c \in calls, Exit(c) \/ Chain(c) \/ Correct(c) \/ Close(c)
  PROVE  Types'
<1> USE DEF Types
<1>0. /\ c \in Call /\ c.task \in Task /\ c.to \in Status /\ c.close \in BOOLEAN
      /\ << c.task, "review" >> \in Key
      /\ \A d \in {"exit", "auto", "enter", "close", "correct"} : [c EXCEPT !.do = d] \in Call
  BY DEF TypeTasks, Call, Key, Kind
<1>1. CASE Exit(c)
  BY <1>0, <1>1, ThenType, CountType
     DEF Exit, TypeTasks, TypeMemory, TypeRun, TypeSends, TypeSweeps, memory, others, bounds
<1>2. CASE Chain(c)
  <2> DEFINE s == IF c.to = "pending" THEN "reviewing" ELSE "executing"
  <2>1. s \in Status /\ [c EXCEPT !.to = s] \in Call /\ Then([c EXCEPT !.to = s]) \subseteq Call
    BY <1>0, ThenType DEF Status, Call
  <2>2. episode' \in [Key -> 0..Episodes]
    BY <1>0, <1>2, BeginType DEF Chain
  <2> QED BY <1>0, <1>2, <2>1, <2>2
          DEF Chain, TypeTasks, TypeMemory, TypeRun, TypeSends, TypeSweeps, memory, others, bounds
<1>3. CASE Correct(c)
  BY <1>3 DEF Correct, Status, TypeTasks, TypeMemory, TypeRun, TypeSends, TypeSweeps,
              memory, others, bounds
<1>4. CASE Close(c)
  BY <1>0, <1>4, RemoveType
     DEF Close, TypeTasks, TypeMemory, TypeRun, TypeSends, TypeSweeps, others, bounds
<1> QED BY <1>1, <1>2, <1>3, <1>4

LEMMA EnterTypes ==
  ASSUME Types, Courses, NEW c \in calls, EnterAsMessage(c) \/ EnterAsLaunch(c)
  PROVE  Types'
<1> DEFINE k == EntryKey(c)
           r == EntryRun(c)
<1> USE DEF Types
<1>0. Entered(c) \subseteq Call
  BY DEF Entered, TypeTasks, Call
<1>1. k \in Key /\ r \in Run /\ KeyOf(r) = k
  BY EntryParts DEF EnterAsMessage, EnterAsLaunch
<1>2. CASE EnterAsMessage(c)
  <2>1. stdin[k] \in Run /\ run' = [run EXCEPT ![stdin[k]].inbox = TRUE]
        /\ sender' = [sender EXCEPT ![k] = "claim"]
    BY <1>1, <1>2 DEF EnterAsMessage, EntryKey, TypeMemory, Keyed
  <2>2. TypeRun' /\ TypeSends'
    <3>1. [run[stdin[k]] EXCEPT !.inbox = TRUE] \in AgentRun
      BY <2>1, AgentType DEF TypeRun
    <3> QED BY <1>1, <1>2, <2>1, <3>1 DEF EnterAsMessage, TypeRun, TypeSends, bounds
  <2> QED BY <1>0, <1>2, <2>2
          DEF EnterAsMessage, TypeTasks, TypeMemory, TypeSweeps, memory, others
<1>3. CASE EnterAsLaunch(c)
  <2>1. stdin' = RemoveKey(stdin, k)
    BY <1>3 DEF EnterAsLaunch, EntryKey
  <2>2. TypeRun' /\ Keyed(registry')
    <3>1. CASE UNCHANGED << registry, run >>
      BY <3>1 DEF TypeMemory, TypeRun, Keyed
    <3>2. CASE /\ registry' = [registry EXCEPT ![k] = r]
               /\ run' = [q \in Run |->
                    IF q = r THEN [NoAgent EXCEPT !.pc = "reserved"]
                    ELSE IF q = registry[k] /\ Alive(q) THEN Cancelled(q) ELSE run[q]]
      <4>1. \A q \in Run : Cancelled(q) \in AgentRun /\ run[q] \in AgentRun
        BY AgentType DEF Cancelled, TypeRun
      <4>2. TypeRun'
        BY <3>2, <4>1, NoAgentType DEF TypeRun
      <4> QED BY <1>1, <3>2, <4>2, PutKeyType DEF TypeMemory
    <3> QED BY <1>3, <3>1, <3>2 DEF EnterAsLaunch, EntryKey, EntryRun
  <2> QED BY <1>0, <1>1, <1>3, <2>1, <2>2, RemoveType
          DEF EnterAsLaunch, TypeTasks, TypeMemory, TypeSends, TypeSweeps, others, bounds
<1> QED BY <1>2, <1>3

LEMMA ScheduleTypes ==
  ASSUME Types, NEW t \in Task, Look(t) \/ Start(t)
  PROVE  Types'
<1> USE DEF Types
<1>1. CASE Look(t)
  BY <1>1 DEF Look, TypeTasks, TypeMemory, TypeRun, TypeSends, TypeSweeps, tasks, memory, bounds
<1>2. CASE Start(t)
  <2>1. status' \in [Task -> Status] /\ calls' \subseteq Call /\ episode' \in [Key -> 0..Episodes]
    BY <1>2, MoveType, BeginType DEF Start, Status
  <2> QED BY <1>2, <2>1
          DEF Start, TypeTasks, TypeMemory, TypeRun, TypeSends, TypeSweeps, memory, bounds
<1> QED BY <1>1, <1>2

LEMMA BlockedType == ASSUME TypeTasks, NEW r \in Run PROVE Blocked(r) \subseteq Call
<1>1. r[1] \in Task
  BY RunParts
<1>2. [ task |-> r[1], do |-> "correct", to |-> "off", close |-> FALSE ] \in Call
  BY <1>1 DEF Call, Status
<1> QED BY <1>2 DEF TypeTasks, Blocked

LEMMA LaunchTypes ==
  ASSUME Types, NEW r \in Run, Launch(r) \/ LaunchLost(r)
  PROVE  Types'
<1> USE DEF Types, TypeTasks, TypeMemory, TypeRun, TypeSends, TypeSweeps, tasks, memory,
                      others, bounds
<1>1. CASE Count(r)
  BY <1>1, PutType, CountType DEF Count, PC
<1>2. CASE Attach(r)
  BY <1>2, AgentType, PutKeyType DEF Attach
<1>3. CASE LaunchFails(r)
  BY <1>3, PutType, CountType, RemoveType, BlockedType DEF LaunchFails, PC
<1>4. CASE LaunchLost(r)
  BY <1>4, PutType, BlockedType DEF LaunchLost, PC
<1> QED BY <1>1, <1>2, <1>3, <1>4 DEF Launch

LEMMA ProcessTypes ==
  ASSUME Types, NEW r \in Run, Process(r)
  PROVE  Types'
<1> USE RunParts DEF Types, TypeTasks, TypeMemory, TypeRun, TypeSends, TypeSweeps, tasks, memory,
                                others, bounds
<1>1. CASE TurnEnds(r)
  BY <1>1, AgentType, CountType DEF TurnEnds
<1>2. CASE ReadInbox(r)
  BY <1>2, AgentType DEF ReadInbox
<1>3. CASE ProcessEnds(r)
  BY <1>3, AgentType DEF ProcessEnds
<1>4. CASE ExecutionComplete(r)
  BY <1>4, RemoveType DEF ExecutionComplete
<1> QED BY <1>1, <1>2, <1>3, <1>4 DEF Process

LEMMA StreamTypes ==
  ASSUME Types, NEW r \in Run, Stream(r)
  PROVE  Types'
<1> USE RunParts DEF Types, TypeTasks, TypeMemory, TypeRun, TypeSends, TypeSweeps, tasks, memory,
                                others, bounds
<1>1. CASE FirstOutput(r)
  BY <1>1, AgentType DEF FirstOutput
<1>2. CASE StreamEnds(r)
  <2>1. PICK how \in Results(r) :
          run' = [run EXCEPT ![r].pc = "exited", ![r].how = how, ![r].held = ~run[r].between]
    BY <1>2 DEF StreamEnds
  <2>2. [run[r] EXCEPT !.pc = "exited", !.how = how, !.held = ~run[r].between] \in AgentRun
    <3>1. how \in {"none", "ok", "error", "cancelled"} /\ run[r] \in AgentRun
      BY <2>1 DEF Results
    <3>2. (~run[r].between) \in BOOLEAN
      OBVIOUS
    <3> QED BY <3>1, <3>2, EndedType
  <2> QED BY <1>2, <2>1, <2>2 DEF StreamEnds
<1>3. CASE Unregister(r)
  BY <1>3, PutType, RemoveType DEF Unregister, PC
<1>4. CASE ForgetStdin(r)
  BY <1>4, PutType, RemoveType DEF ForgetStdin, PC
<1>5. CASE RemoveMark(r)
  BY <1>5, PutType DEF RemoveMark, PC
<1>6. CASE Settle(r)
  <2> DEFINE resumed == run[r].how = "cancelled" /\ run[r].turned
  <2>1. [run[r] EXCEPT !.pc = "handle", !.added = TakesAgain(r), !.held = @ /\ ~resumed,
                       !.how = IF resumed THEN "ok" ELSE @] \in AgentRun
    <3> DEFINE how == IF resumed THEN "ok" ELSE run[r].how
               held == run[r].held /\ ~resumed
    <3>1. run[r] \in AgentRun /\ how \in {"none", "ok", "error", "cancelled"}
      BY DEF AgentRun
    <3>2. TakesAgain(r) \in BOOLEAN /\ held \in BOOLEAN
      BY DEF TakesAgain
    <3> HIDE DEF how, held
    <3>3. [run[r] EXCEPT !.pc = "handle", !.added = TakesAgain(r), !.held = held, !.how = how]
            \in AgentRun
      BY <3>1, <3>2, EndedType
    <3> QED BY <3>3 DEF how, held
  <2>2. IncrementRunning \/ UNCHANGED running
    BY <1>6 DEF Settle
  <2>3. running' \in Nat
    BY <2>2, CountType
  <2> QED BY <1>6, <2>1, <2>3 DEF Settle
<1>7. CASE HandleMoves(r)
  <2>1. PICK s \in Outcomes(r) : Move(r[1], s, FALSE)
    BY <1>7 DEF HandleMoves
  <2>2. s \in Status
    BY <2>1 DEF Outcomes, Status
  <2>3. status' \in [Task -> Status] /\ calls' \subseteq Call
    BY <2>1, <2>2, MoveType
  <2>4. run' \in [Run -> AgentRun]
    BY <1>7, PutType DEF HandleMoves, PC
  <2> QED BY <1>7, <2>3, <2>4 DEF HandleMoves
<1>8. CASE HandleIgnores(r)
  <2>1. DecrementRunning \/ UNCHANGED running
    BY <1>8 DEF HandleIgnores
  <2>2. running' \in Nat
    BY <2>1, CountType
  <2>3. run' \in [Run -> AgentRun]
    BY <1>8, PutType DEF HandleIgnores, PC
  <2> QED BY <1>8, <2>2, <2>3 DEF HandleIgnores
<1> QED BY <1>1, <1>2, <1>3, <1>4, <1>5, <1>6, <1>7, <1>8 DEF Stream

LEMMA MessageTypes ==
  ASSUME Types, NEW k \in Key, Send(k) \/ Message(k)
  PROVE  Types'
<1> USE DEF Types, TypeTasks, TypeMemory, TypeRun, TypeSends, TypeSweeps, tasks, memory,
            others, bounds
<1>1. CASE Claim(k)
  BY <1>1 DEF Claim
<1>2. CASE Resume(k)
  BY <1>2, CountType DEF Resume
<1>3. CASE Message(k)
  <2>1. stdin[k] \in Run
    BY <1>3 DEF Message, Keyed
  <2>2. [run[stdin[k]] EXCEPT !.inbox = TRUE] \in AgentRun
    BY <2>1, AgentType
  <2>3. messages' \in 0..MaxMessages
    BY <1>3, BoundAssumption DEF Message
  <2> QED BY <1>3, <2>1, <2>2, <2>3 DEF Message
<1> QED BY <1>1, <1>2, <1>3 DEF Send

LEMMA VerdictTypes ==
  ASSUME Types, NEW t \in Task, NEW s \in {"off", "revision"}, Verdict(t, s)
  PROVE  Types'
<1>1. status' \in [Task -> Status] /\ calls' \subseteq Call
  BY MoveType DEF Verdict, Status, Types
<1>2. verdicts' \in 0..MaxVerdicts
  BY BoundAssumption DEF Verdict, Types, TypeSends
<1>3. << t, "review" >> \in Key
  BY DEF Key, Kind
<1> QED BY <1>1, <1>2, <1>3, RemoveType
        DEF Verdict, Types, TypeTasks, TypeMemory, TypeRun, TypeSends, TypeSweeps, others

LEMMA StopTypes ==
  ASSUME Types, (\E t \in Task : StopTask(t)) \/ (\E k \in Key : StopAgent(k))
  PROVE  Types'
<1>1. ASSUME NEW t \in Task, StopTask(t) PROVE Types'
  <2>1. status' \in [Task -> Status] /\ calls' \subseteq Call
    BY <1>1, MoveType DEF StopTask, Status, Types
  <2>2. stops' \in 0..MaxStops
    BY <1>1, BoundAssumption DEF StopTask, Types, TypeSends
  <2> QED BY <1>1, <2>1, <2>2
          DEF StopTask, Types, TypeTasks, TypeMemory, TypeRun, TypeSends, TypeSweeps, memory, others
<1>2. ASSUME NEW k \in Key, StopAgent(k) PROVE Types'
  <2>1. stops' \in 0..MaxStops
    BY <1>2, BoundAssumption DEF StopAgent, Types, TypeSends
  <2>2. run' \in [Run -> AgentRun]
    BY <1>2, CancelType DEF StopAgent, Types, TypeRun, TypeMemory, Keyed
  <2> QED BY <1>2, <2>1, <2>2, RemoveType
          DEF StopAgent, Types, TypeTasks, TypeMemory, TypeRun, TypeSends, TypeSweeps, tasks, others
<1> QED BY <1>1, <1>2

LEMMA KeysFinite == IsFiniteSet(Key \cup Chat)
<1>1. IsFiniteSet(Kind)
  <2>1. Kind = {"execution"} \cup {"review"}
    BY DEF Kind
  <2> QED BY <2>1, FS_Singleton, FS_Union
<1>2. IsFiniteSet(Task \X Kind)
  BY <1>1, FiniteAssumption, FS_Product
<1> QED BY <1>2, FiniteAssumption, FS_Union DEF Key

LEMMA SweepTypes ==
  ASSUME Types, NEW w \in Sweep, Recount(w) \/ Pruning(w)
  PROVE  Types'
<1> USE DEF Types, TypeTasks, TypeMemory, TypeRun, TypeSends, TypeSweeps, tasks, memory, bounds
<1>0. sweep[w] \in SweepState /\ NoSweep \in SweepState
  BY DEF SweepState, NoSweep
<1>1. CASE List(w)
  <2>1. Entries \subseteq Key \cup Chat /\ Matched(w) \subseteq Key \cup Chat
    BY DEF Entries, Matched
  <2>2. [pc |-> "store", key |-> NoRun, listed |-> Entries, matched |-> Matched(w)] \in SweepState
    BY <2>1 DEF SweepState
  <2> QED BY <1>1, <2>2 DEF List
<1>2. CASE Store(w)
  <2>1. /\ sweep[w].matched \subseteq Key \cup Chat
        /\ Subtracted(w) \subseteq Key \cup Chat
    BY <1>0 DEF SweepState, Subtracted
  <2>2. Cardinality(sweep[w].matched) \in Nat /\ Cardinality(Subtracted(w)) \in Nat
    BY <2>1, KeysFinite, FS_Subset, FS_CardinalityType
  <2>3. running' \in Nat
    BY <1>2, <2>2 DEF Store, Minus
  <2> QED BY <1>0, <1>2, <2>3 DEF Store
<1>3. CASE Unmark(w)
  <2>1. [sweep[w] EXCEPT !.pc = "list", !.key = NoRun] \in SweepState
    BY <1>0 DEF SweepState
  <2> QED BY <1>3, <2>1 DEF Unmark
<1>4. ASSUME NEW k \in Key, Prune(w, k) PROVE Types'
  <2>1. run' \in [Run -> AgentRun]
    BY <1>4, CancelType DEF Prune, Prunable, Keyed
  <2>2. [sweep[w] EXCEPT !.pc = "unmark", !.key = k] \in SweepState
    BY <1>0 DEF SweepState
  <2> QED BY <1>4, <2>1, <2>2, RemoveType DEF Prune
<1> QED BY <1>1, <1>2, <1>3, <1>4 DEF Recount, Pruning

LEMMA ChatTypes ==
  ASSUME Types, Chats
  PROVE  Types'
BY DEF Chats, ChatOpens, ChatEnds, Types, TypeTasks, TypeMemory, TypeRun, TypeSends, TypeSweeps,
       tasks, memory, bounds

LEMMA NextTypes ==
  ASSUME Types, Courses, [Next]_vars
  PROVE  Types'
<1>1. CASE Transition
  BY <1>1, TransitionTypes, EnterTypes DEF Transition
<1>2. CASE Schedule
  BY <1>2, ScheduleTypes DEF Schedule
<1>3. CASE User
  BY <1>3, StopTypes, VerdictTypes, MessageTypes DEF User
<1>4. CASE Chats
  BY <1>4, ChatTypes
<1>5. CASE \E r \in Run : Launch(r) \/ LaunchLost(r) \/ Process(r) \/ Stream(r)
  BY <1>5, LaunchTypes, ProcessTypes, StreamTypes
<1>6. CASE \E k \in Key : Send(k)
  BY <1>6, MessageTypes
<1>7. CASE \E w \in Sweep : Recount(w) \/ Pruning(w)
  BY <1>7, SweepTypes
<1>8. CASE UNCHANGED vars
  BY <1>8 DEF vars, Types, TypeTasks, TypeMemory, TypeRun, TypeSends, TypeSweeps, Keyed
<1> QED BY <1>1, <1>2, <1>3, <1>4, <1>5, <1>6, <1>7, <1>8 DEF Next

-----------------------------------------------------------------------------
(* Courses.                                                                *)

\* No run is begun.
Unbegun == \A r \in Run : run'[r].pc # "none" => run[r].pc # "none"

LEMMA QuietCourses ==
  ASSUME Types, Courses, UNCHANGED << status, episode, calls, looked >>, Unbegun
  PROVE  Courses'
<1>1. CallShape' /\ Unborn'
  BY DEF Courses, CallShape, Unborn, Unbegun
<1>2. \A t \in Task : Launchless(t) => Launchless(t)'
  BY DEF Launchless, Unbegun
<1>3. EntersFresh'
  <2> SUFFICES ASSUME NEW c \in calls, c.do = "enter"
               PROVE  episode[EntryKey(c)] >= 1 /\ run'[EntryRun(c)].pc = "none"
    BY DEF EntersFresh, EntryKey, EntryRun
  <2> QED BY EntryParts DEF Courses, EntersFresh, Unbegun
<1>4. FirstEntry' /\ ReadyFresh'
  BY <1>2 DEF Courses, FirstEntry, ReadyFresh, Types, TypeTasks, Call
<1> QED BY <1>1, <1>3, <1>4 DEF Courses

LEMMA BusyRun ==
  ASSUME Types, Courses, NEW r \in Run, run[r].pc # "none"
  PROVE  /\ status[r[1]] # "ready"
         /\ \A c \in calls : c.task = r[1] /\ c.do = "enter" /\ c.to = "executing" => c.close
BY RunParts DEF Courses, FirstEntry, ReadyFresh, Launchless, Types, TypeTasks

\* A call is added to those of a task that has run, or is over.
Added(t) ==
  \A c \in calls' : c \in calls \/
    /\ c.task = t /\ c.do # "enter"
    /\ c.to \in {"pending", "revision", "off"} /\ (c.do = "auto" => c.to # "off")
    /\ c.to = "pending" => ~c.close
    /\ c.to = "revision" => c.close
    /\ \/ c.to = "off" \/ \E r \in Run : r[1] = t /\ run[r].pc # "none"
       \/ \E d \in calls : d.task = t /\ d.do # "enter" /\ d.to = c.to

\* The steps that move a task on, and begin nothing.
LEMMA AddedCourses ==
  ASSUME Types, Types', Courses, NEW t \in Task, Added(t), Unbegun, looked' = looked,
         status[t] # "ready", episode' = episode,
         \A u \in Task : status'[u] # status[u] => u = t /\ status'[u] # "ready"
  PROVE  Courses'
<1>1. CallShape' /\ Unborn'
  BY DEF Courses, CallShape, Unborn, Unbegun, Added
<1>2. \A u \in Task : Launchless(u) => Launchless(u)'
  BY DEF Launchless, Unbegun
<1>3. EntersFresh'
  <2> SUFFICES ASSUME NEW c \in calls', c.do = "enter"
               PROVE  episode[EntryKey(c)] >= 1 /\ run'[EntryRun(c)].pc = "none"
    BY DEF EntersFresh, EntryKey, EntryRun
  <2>1. c \in calls
    BY DEF Added
  <2> QED BY <2>1, EntryParts DEF Courses, EntersFresh, Unbegun
<1>4. FirstEntry'
  <2> SUFFICES ASSUME NEW c \in calls', c.do = "enter", c.to = "executing", ~c.close
               PROVE  /\ Launchless(c.task)'
                      /\ \A d \in calls' : d.task = c.task => d = c \/ d.to = "off"
    BY DEF FirstEntry
  <2>1. c \in calls /\ c.task \in Task
    BY DEF Added, Types, TypeTasks, Call
  <2>2. Launchless(c.task) /\ \A d \in calls : d.task = c.task => d = c \/ d.to = "off"
    BY <2>1 DEF Courses, FirstEntry
  <2>3. c.task = t => \A r \in Run : r[1] = t => run[r].pc = "none"
    BY <2>2 DEF Launchless
  <2> QED BY <1>2, <2>1, <2>2, <2>3 DEF Added
<1>5. ReadyFresh'
  <2>1. \A u \in Task : status'[u] = "ready" => u # t /\ status[u] = "ready"
    OBVIOUS
  <2>2. \A u \in looked : u \in Task /\ status[u] = "ready" /\ status'[u] = "ready"
    BY DEF Courses, ReadyFresh, Types, TypeTasks
  <2> QED BY <1>2, <2>1, <2>2 DEF Courses, ReadyFresh, Added
<1> QED BY <1>1, <1>3, <1>4, <1>5 DEF Courses

LEMMA ThenAdds ==
  ASSUME NEW c \in Call, c.to \in {"pending", "revision", "off"}
  PROVE  \A d \in Then(c) : /\ d.task = c.task /\ d.to = c.to /\ d.close = c.close
                            /\ d.do = (IF c.to = "off" THEN "close" ELSE "auto")
BY Kinds DEF Then, Call

LEMMA MoveAdds ==
  ASSUME Types, NEW t \in Task, NEW s \in {"pending", "revision", "off"}, NEW close \in BOOLEAN,
         Move(t, s, close), s = "pending" => ~close, s = "revision" => close,
         s = "off" \/ \E r \in Run : r[1] = t /\ run[r].pc # "none"
  PROVE  Added(t) /\ \A u \in Task : status'[u] # status[u] => u = t /\ status'[u] # "ready"
<1> DEFINE c == [task |-> t, do |-> "exit", to |-> s, close |-> close]
<1>1. c \in Call
  BY DEF Call, Status
<1>2. \A d \in Then(c) : /\ d.task = t /\ d.to = s /\ d.close = close
                         /\ d.do = (IF s = "off" THEN "close" ELSE "auto")
  BY <1>1, ThenAdds
<1>3. \A d \in calls' : d \in calls \/ d = c \/ d \in Then(c)
  BY DEF Move
<1>4. Added(t)
  BY <1>2, <1>3 DEF Added
<1> QED BY <1>4 DEF Move, Types, TypeTasks

LEMMA MovesCourses ==
  ASSUME Types, Types', Courses, NEW t \in Task, NEW s \in {"off", "revision"},
         StopTask(t) \/ Verdict(t, s)
  PROVE  Courses'
<1>1. /\ Unbegun /\ looked' = looked /\ episode' = episode
      /\ status[t] \in Active
  BY Kinds DEF StopTask, Verdict, Unbegun, others
<1>2. status[t] # "ready"
  BY <1>1, Kinds
<1>3. CASE StopTask(t)
  BY <1>1, <1>2, <1>3, MoveAdds, AddedCourses DEF StopTask
<1>4. CASE Verdict(t, s)
  <2>1. PICK r \in Run : KeyOf(r) = << t, "review" >> /\ run[r].pc = "stream"
    BY <1>4 DEF Verdict, Streams
  <2>2. r[1] = t
    BY <2>1, RunParts
  <2>3. Added(t) /\ \A u \in Task : status'[u] # status[u] => u = t /\ status'[u] # "ready"
    BY <1>4, <2>1, <2>2, MoveAdds DEF Verdict
  <2> QED BY <1>1, <1>2, <2>3, AddedCourses
<1> QED BY <1>3, <1>4

LEMMA CallTask ==
  ASSUME Types, Courses, NEW c \in calls
  PROVE  c \in Call /\ c.task \in Task /\ status[c.task] # "ready"
BY DEF Types, TypeTasks, Call, Courses, ReadyFresh

LEMMA ExitCourses ==
  ASSUME Types, Types', Courses, NEW c \in calls, Exit(c) \/ Correct(c) \/ Close(c)
  PROVE  Courses'
<1>1. c \in Call /\ c.task \in Task /\ status[c.task] # "ready"
  BY CallTask
<1>2. Unbegun /\ looked' = looked /\ episode' = episode
  BY DEF Exit, Correct, Close, Unbegun, others
<1>3. \A u \in Task : status'[u] # status[u] => u = c.task /\ status'[u] # "ready"
  BY <1>1 DEF Exit, Correct, Close, Types, TypeTasks
<1>4. Added(c.task)
  <2>1. CASE Exit(c)
    <3>1. c.do = "exit" /\ c.to \in {"pending", "revision", "off"}
          /\ (c.to = "pending" => ~c.close) /\ (c.to = "revision" => c.close)
      BY <2>1 DEF Exit, Courses, CallShape
    <3>2. \A d \in Then(c) : /\ d.task = c.task /\ d.to = c.to /\ d.close = c.close
                             /\ d.do = (IF c.to = "off" THEN "close" ELSE "auto")
      BY <1>1, <3>1, ThenAdds
    <3>3. \A d \in calls' : d \in calls \/ d \in Then(c)
      BY <2>1 DEF Exit
    <3> QED BY <3>1, <3>2, <3>3 DEF Added
  <2>2. CASE Correct(c) \/ Close(c)
    BY <2>2 DEF Correct, Close, Added
  <2> QED BY <2>1, <2>2
<1> QED BY <1>1, <1>2, <1>3, <1>4, AddedCourses

LEMMA RunCourses ==
  ASSUME Types, Types', Courses, NEW r \in Run,
         Launch(r) \/ LaunchLost(r) \/ Process(r) \/ Stream(r)
  PROVE  Courses'
<1>1. Unbegun /\ looked' = looked /\ episode' = episode
  BY DEF Launch, LaunchLost, Process, Stream, Count, Attach, LaunchFails, TurnEnds, ReadInbox,
         ProcessEnds, ExecutionComplete, FirstOutput, StreamEnds, Unregister, ForgetStdin,
         RemoveMark, Settle, HandleMoves, HandleIgnores, Unbegun, Put, Streams, Types, TypeRun,
         others, tasks
<1>2. r[1] \in Task
  BY RunParts
<1>3. CASE UNCHANGED tasks
  BY <1>1, <1>3, QuietCourses DEF tasks
<1>4. CASE (LaunchFails(r) \/ LaunchLost(r)) /\ run[r].pc # "none" /\ status' = status
  <2>1. calls' = Blocked(r)
    BY <1>4 DEF LaunchFails, LaunchLost
  <2>2. Added(r[1])
    BY <2>1 DEF Added, Blocked
  <2> QED BY <1>1, <1>2, <1>4, <2>2, BusyRun, AddedCourses
<1>5. CASE HandleMoves(r)
  <2>1. PICK s \in {"pending", "off"} : Move(r[1], s, FALSE)
    BY <1>5 DEF HandleMoves, Outcomes
  <2>2. run[r].pc # "none"
    BY <1>5 DEF HandleMoves
  <2>3. Added(r[1]) /\ \A u \in Task : status'[u] # status[u] => u = r[1] /\ status'[u] # "ready"
    BY <1>2, <2>1, <2>2, MoveAdds
  <2> QED BY <1>1, <1>2, <2>2, <2>3, BusyRun, AddedCourses
<1> QED BY <1>3, <1>4, <1>5
        DEF Launch, LaunchLost, Process, Stream, Count, Attach, LaunchFails, TurnEnds, ReadInbox,
            ProcessEnds, ExecutionComplete, FirstOutput, StreamEnds, Unregister, ForgetStdin,
            RemoveMark, Settle, HandleIgnores

LEMMA QuietSteps ==
  ASSUME Types, Courses,
         \/ Chats \/ \E k \in Key : Send(k) \/ Message(k) \/ StopAgent(k)
         \/ \E w \in Sweep : Recount(w) \/ Pruning(w)
  PROVE  Courses'
<1>1. UNCHANGED << status, episode, calls, looked >>
  BY DEF Chats, ChatOpens, ChatEnds, Send, Claim, Resume, Message, StopAgent, Recount, List, Store,
         Pruning, Unmark, Prune, tasks, others
<1>2. Unbegun
  <2>1. CASE UNCHANGED run
    BY <2>1 DEF Unbegun
  <2>2. ASSUME NEW r \in Run, NEW cond, Cancel(r, cond) PROVE Unbegun
    BY <2>2 DEF Cancel, Cancelled, Unbegun, Types, TypeRun
  <2>3. ASSUME NEW k \in Key, Message(k) PROVE Unbegun
    BY <2>3 DEF Message, Unbegun, Types, TypeRun, TypeMemory, Keyed
  <2>4. ASSUME NEW k \in Key, StopAgent(k) PROVE Unbegun
    BY <2>2, <2>4 DEF StopAgent, Types, TypeMemory, Keyed
  <2>5. ASSUME NEW w \in Sweep, NEW k \in Key, Prune(w, k) PROVE Unbegun
    BY <2>2, <2>5 DEF Prune, Prunable, Types, TypeMemory, Keyed
  <2> QED BY <2>1, <2>3, <2>4, <2>5
          DEF Chats, ChatOpens, ChatEnds, Send, Claim, Resume, Recount, List, Store, Pruning, Unmark
<1> QED BY <1>1, <1>2, QuietCourses

\* A status begins: the calls that enter it are under the next episode.
LEMMA BegunCourses ==
  ASSUME Types, Types', Courses, NEW t \in Task, NEW s \in {"executing", "reviewing"},
         Begin(t, s), run' = run, NEW n \in Call, n.task = t, n.do = "enter", n.to = s,
         calls' \subseteq calls \cup {n}, s = "reviewing" => ~n.close,
         FirstEntry', ReadyFresh'
  PROVE  Courses'
<1> DEFINE k == << t, KindOf(s) >>
<1>1. k \in Key /\ episode' = [episode EXCEPT ![k] = @ + 1] /\ episode[k] \in 0..Episodes
  BY Kinds DEF Begin, Key, Types, TypeTasks
<1>2. episode' \in [Key -> 0..Episodes] /\ episode'[k] = episode[k] + 1
  BY <1>1 DEF Types, TypeTasks
<1>3. CallShape'
  BY Kinds DEF Courses, CallShape
<1>4. Unborn'
  BY <1>1, <1>2, RunParts, EpisodeTypes DEF Courses, Unborn, Types, TypeTasks
<1>5. EntersFresh'
  <2> SUFFICES ASSUME NEW c \in calls', c.do = "enter"
               PROVE  episode'[EntryKey(c)] >= 1
                      /\ run[<< c.task, KindOf(c.to), episode'[EntryKey(c)] >>].pc = "none"
    BY DEF EntersFresh, EntryKey, EntryRun
  <2> DEFINE q == << c.task, KindOf(c.to), episode'[EntryKey(c)] >>
  <2>1. CASE EntryKey(c) = k
    <3>1. q = << k[1], k[2], episode[k] + 1 >>
      BY <1>2, <2>1 DEF EntryKey
    <3>2. episode[k] + 1 \in 1..Episodes
      BY <1>1, <1>2
    <3>3. q \in Run /\ KeyOf(q) = k /\ q[3] > episode[k]
      BY <1>1, <3>1, <3>2, RunOfKey
    <3> QED BY <1>1, <1>2, <2>1, <3>2, <3>3 DEF Courses, Unborn
  <2>2. CASE EntryKey(c) # k
    <3>1. c \in calls
      BY <2>2 DEF EntryKey
    <3>2. episode'[EntryKey(c)] = episode[EntryKey(c)]
      BY <1>1, <2>2, <3>1, EntryParts DEF Types, TypeTasks
    <3> QED BY <3>1, <3>2, EntryParts DEF Courses, EntersFresh, EntryRun
  <2> QED BY <2>1, <2>2
<1> QED BY <1>3, <1>4, <1>5 DEF Courses

LEMMA BegunFresh ==
  ASSUME Types, Courses, NEW t \in Task, run' = run, looked' \subseteq looked \ {t},
         NEW n, n.task = t, n.to = "executing" /\ ~n.close => Launchless(t) /\ \A d \in calls : d.task # t,
         calls' \subseteq calls \cup {n}, NEW s \in {"executing", "reviewing"},
         status' = [status EXCEPT ![t] = s],
         \A d \in calls : d.do = "enter" /\ d.to = "executing" /\ ~d.close => d.task # t
  PROVE  FirstEntry' /\ ReadyFresh'
<1>1. \A u : Launchless(u)' <=> Launchless(u)
  BY DEF Launchless
<1>2. FirstEntry'
  <2> SUFFICES ASSUME NEW c \in calls', c.do = "enter", c.to = "executing", ~c.close
               PROVE  /\ Launchless(c.task)
                      /\ \A d \in calls' : d.task = c.task => d = c \/ d.to = "off"
    BY <1>1 DEF FirstEntry
  <2>1. CASE c = n
    BY <2>1
  <2>2. CASE c \in calls /\ c.task # t
    BY <2>2 DEF Courses, FirstEntry
  <2> QED BY <2>1, <2>2
<1>3. ReadyFresh'
  <2>1. \A u \in Task : status'[u] = "ready" => u # t /\ status[u] = "ready"
    BY DEF Types, TypeTasks
  <2>2. \A u \in looked' : status'[u] = "ready"
    BY DEF Courses, ReadyFresh, Types, TypeTasks
  <2>3. \A u \in Task : status'[u] = "ready" => Launchless(u) /\ \A c \in calls' : c.task # u
    BY <2>1 DEF Courses, ReadyFresh
  <2> QED BY <1>1, <2>2, <2>3 DEF ReadyFresh
<1> QED BY <1>2, <1>3

LEMMA ThenEnters ==
  ASSUME NEW c \in Call, c.to \in Active
  PROVE  Then(c) = { [c EXCEPT !.do = "enter"] }
BY Kinds DEF Then

LEMMA ScheduleCourses ==
  ASSUME Types, Types', Courses, NEW t \in Task, Look(t) \/ Start(t)
  PROVE  Courses'
<1>1. CASE Look(t)
  <2>1. CallShape' /\ EntersFresh' /\ Unborn'
    BY <1>1 DEF Look, tasks, Courses, CallShape, EntersFresh, Unborn, EntryKey, EntryRun
  <2>2. FirstEntry' /\ ReadyFresh'
    BY <1>1 DEF Look, tasks, Courses, FirstEntry, ReadyFresh, Launchless
  <2> QED BY <2>1, <2>2 DEF Courses
<1>2. CASE Start(t)
  <2> DEFINE c == [task |-> t, do |-> "exit", to |-> "executing", close |-> FALSE]
             n == [c EXCEPT !.do = "enter"]
  <2>1. status[t] = "ready" /\ Launchless(t) /\ \A d \in calls : d.task # t
    BY <1>2 DEF Start, Courses, ReadyFresh
  <2>2. c \in Call /\ n \in Call /\ n.task = t /\ n.do = "enter" /\ n.to = "executing" /\ ~n.close
    BY DEF Call, Status
  <2>3. Then(c) = {n}
    BY <2>2, ThenEnters, Kinds
  <2>4. /\ calls' = calls \cup {n} /\ status' = [status EXCEPT ![t] = "executing"]
        /\ looked' = looked \ {t} /\ run' = run /\ Begin(t, "executing")
    BY <1>2, <2>1, <2>3, Kinds DEF Start, Move
  <2> HIDE DEF n
  <2>5. FirstEntry' /\ ReadyFresh'
    BY <2>1, <2>2, <2>4, BegunFresh
  <2> QED BY <2>2, <2>4, <2>5, BegunCourses
<1> QED BY <1>1, <1>2

LEMMA ChainCourses ==
  ASSUME Types, Types', Courses, NEW c \in calls, Chain(c)
  PROVE  Courses'
<1> DEFINE s == IF c.to = "pending" THEN "reviewing" ELSE "executing"
           t == c.task
           n == [[c EXCEPT !.to = s] EXCEPT !.do = "enter"]
<1>1. c \in Call /\ t \in Task /\ status[t] # "ready"
  BY CallTask
<1>2. c.do = "auto" /\ c.to \in {"pending", "revision"}
      /\ (c.to = "pending" => ~c.close) /\ (c.to = "revision" => c.close)
  BY DEF Chain, Courses, CallShape
<1>3. /\ [c EXCEPT !.to = s] \in Call /\ n \in Call /\ n.task = t /\ n.do = "enter" /\ n.to = s
      /\ n.close = c.close
  BY <1>1 DEF Call, Status
<1>4. Then([c EXCEPT !.to = s]) = {n}
  <2>1. [c EXCEPT !.to = s].to \in Active
    BY <1>1, Kinds DEF Call
  <2> QED BY <1>3, <2>1, ThenEnters
<1>5. /\ calls' = (calls \ {c}) \cup {n} /\ status' = [status EXCEPT ![t] = s]
      /\ looked' = looked /\ run' = run /\ Begin(t, s)
  BY <1>4 DEF Chain, others
<1>6. \A d \in calls : d.do = "enter" /\ d.to = "executing" /\ ~d.close => d.task # t
  BY <1>2 DEF Courses, FirstEntry
<1>7. t \notin looked
  BY <1>1 DEF Courses, ReadyFresh
<1>8. s \in {"executing", "reviewing"} /\ (s = "reviewing" => ~n.close)
      /\ (s = "executing" => n.close)
  BY <1>2, <1>3
<1> HIDE DEF s, n
<1>9. FirstEntry' /\ ReadyFresh'
  BY <1>1, <1>3, <1>5, <1>6, <1>7, <1>8, BegunFresh
<1> QED BY <1>1, <1>3, <1>5, <1>8, <1>9, BegunCourses

\* An entry begins the run of its episode, which nobody else will.
LEMMA EnterCourses ==
  ASSUME Types, Types', Courses, NEW c \in calls, EnterAsMessage(c) \/ EnterAsLaunch(c)
  PROVE  Courses'
<1> DEFINE r == EntryRun(c)
<1>1. /\ c \in Call /\ c.task \in Task /\ status[c.task] # "ready" /\ c.do = "enter"
      /\ c.to \in Active /\ (c.to = "reviewing" => ~c.close)
  BY CallTask DEF EnterAsMessage, EnterAsLaunch, Courses, CallShape
<1>2. r \in Run /\ KeyOf(r) = EntryKey(c) /\ EntryKey(c) \in Key /\ r[1] = c.task
      /\ r[3] = episode[EntryKey(c)]
  BY <1>1, EntryParts DEF EntryRun
<1>3. \A q \in Run : run'[q].pc # "none" => run[q].pc # "none" \/ q = r
  <2>1. CASE EnterAsMessage(c)
    BY <2>1 DEF EnterAsMessage, Types, TypeRun
  <2>2. CASE EnterAsLaunch(c)
    <3>1. \A q \in Run : Cancelled(q).pc = run[q].pc
      BY DEF Cancelled, Types, TypeRun, AgentRun
    <3> QED BY <2>2, <3>1 DEF EnterAsLaunch, EntryRun, EntryKey
  <2> QED BY <2>1, <2>2
<1>4. /\ calls' = Entered(c) /\ status' = status /\ episode' = episode /\ looked' = looked
  BY DEF EnterAsMessage, EnterAsLaunch, others
<1>5. \A d \in calls' :
        \/ d \in calls /\ d # c
        \/ d.do = "close" /\ d.task = c.task /\ d.to = c.to /\ d.close /\ c.close
  BY <1>1, <1>4 DEF Entered, Call
<1>6. CallShape'
  BY <1>1, <1>5, Kinds DEF Courses, CallShape
<1>7. Unborn'
  BY <1>2, <1>3, <1>4, EpisodeTypes DEF Courses, Unborn, Types, TypeTasks
<1>8. ASSUME NEW d \in calls, d # c, d.do = "enter" PROVE EntryRun(d) # r
  <2>1. d \in Call /\ d.to \in Active
    BY <1>8, CallTask DEF Courses, CallShape
  <2>2. SUFFICES ASSUME d.task = c.task, KindOf(d.to) = KindOf(c.to) PROVE FALSE
    BY DEF EntryRun
  <2>3. d.to = c.to
    BY <1>1, <2>1, <2>2, Kinds
  <2>4. d.close # c.close
    BY <1>1, <1>8, <2>1, <2>2, <2>3 DEF Call
  <2>5. c.to = "executing"
    BY <1>1, <1>8, <2>1, <2>3, <2>4, Kinds DEF Courses, CallShape, Call
  <2>6. ~c.close \/ ~d.close
    BY <1>1, <2>1, <2>4 DEF Call
  <2> QED BY <1>1, <1>8, <2>2, <2>3, <2>5, <2>6 DEF Courses, FirstEntry
<1>9. EntersFresh'
  <2> SUFFICES ASSUME NEW d \in calls', d.do = "enter"
               PROVE  episode[EntryKey(d)] >= 1 /\ run'[EntryRun(d)].pc = "none"
    BY <1>4 DEF EntersFresh, EntryKey, EntryRun
  <2>1. d \in calls /\ d # c
    BY <1>5
  <2> QED BY <1>3, <1>8, <2>1, EntryParts DEF Courses, EntersFresh
<1>10. FirstEntry'
  <2> SUFFICES ASSUME NEW d \in calls', d.do = "enter", d.to = "executing", ~d.close
               PROVE  /\ Launchless(d.task)'
                      /\ \A e \in calls' : e.task = d.task => e = d \/ e.to = "off"
    BY DEF FirstEntry
  <2>1. d \in calls /\ d # c
    BY <1>5
  <2>2. Launchless(d.task) /\ \A e \in calls : e.task = d.task => e = d \/ e.to = "off"
    BY <2>1 DEF Courses, FirstEntry
  <2>3. c.task # d.task
    BY <1>1, <2>1, <2>2, Kinds
  <2> QED BY <1>2, <1>3, <1>5, <2>2, <2>3 DEF Launchless
<1>11. ReadyFresh'
  <2>1. \A t \in Task : t # c.task /\ Launchless(t) => Launchless(t)'
    BY <1>2, <1>3 DEF Launchless
  <2> QED BY <1>1, <1>4, <1>5, <2>1 DEF Courses, ReadyFresh, Types, TypeTasks
<1> QED BY <1>6, <1>7, <1>9, <1>10, <1>11 DEF Courses

LEMMA NextCourses ==
  ASSUME Types, Courses, [Next]_vars
  PROVE  Courses'
<1>0. Types'
  BY NextTypes
<1>1. CASE Transition
  BY <1>0, <1>1, ExitCourses, ChainCourses, EnterCourses DEF Transition
<1>2. CASE Schedule
  BY <1>0, <1>2, ScheduleCourses DEF Schedule
<1>3. CASE User
  BY <1>0, <1>3, MovesCourses, QuietSteps DEF User
<1>4. CASE \E r \in Run : Launch(r) \/ LaunchLost(r) \/ Process(r) \/ Stream(r)
  BY <1>0, <1>4, RunCourses
<1>5. CASE Chats \/ (\E k \in Key : Send(k)) \/ \E w \in Sweep : Recount(w) \/ Pruning(w)
  BY <1>5, QuietSteps
<1>6. CASE UNCHANGED vars
  BY <1>6, QuietCourses DEF vars, Unbegun
<1> QED BY <1>1, <1>2, <1>3, <1>4, <1>5, <1>6 DEF Next

-----------------------------------------------------------------------------
(* What is kept of an agent belongs to a run that will remove it.          *)

MarkPC == {"stream", "exited", "unregistered", "closed"}
EntryPC == {"reserved", "counted", "lost", "stream", "exited"}
StdinPC == {"stream", "exited", "unregistered"}

Marks == \A k \in idle : \E r \in Run : KeyOf(r) = k /\ run[r].pc \in MarkPC
Listed == \A k \in Key : registry[k] # NoRun => run[registry[k]].pc \in EntryPC
Stdins == \A k \in Key : stdin[k] # NoRun => run[stdin[k]].pc \in StdinPC

LEMMA LiveParts == SlotsAreLive <=> Marks /\ Listed /\ Stdins
BY DEF SlotsAreLive, Marks, Listed, Stdins, MarkPC, EntryPC, StdinPC

\* No run goes on, and no mark, entry or stdin is added.
LEMMA LiveFewer ==
  ASSUME Types, Marks, Listed, Stdins, \A r \in Run : run'[r].pc = run[r].pc,
         idle' \subseteq idle,
         \A k \in Key : registry'[k] \in {registry[k], NoRun} /\ stdin'[k] \in {stdin[k], NoRun}
  PROVE  Marks' /\ Listed' /\ Stdins'
BY DEF Types, TypeMemory, Keyed, Marks, Listed, Stdins

\* One run goes from one point of its course to another.
Goes(r, from, to) ==
  run[r].pc \in from /\ run'[r].pc = to /\ \A q \in Run : q # r => run'[q].pc = run[q].pc

LEMMA LiveGoes ==
  ASSUME Types, Marks, Listed, Stdins, NEW r \in Run, NEW from, NEW to, Goes(r, from, to),
         from \cap MarkPC = {} \/ to \in MarkPC \/ idle' \subseteq idle \ {KeyOf(r)},
         from \cap EntryPC = {} \/ to \in EntryPC \/ registry'[KeyOf(r)] # r,
         from \cap StdinPC = {} \/ to \in StdinPC \/ stdin'[KeyOf(r)] # r,
         idle' \subseteq idle \cup (IF to \in MarkPC THEN {KeyOf(r)} ELSE {}),
         \A k \in Key :
           /\ registry'[k] \in {registry[k], NoRun}
           /\ \/ stdin'[k] \in {stdin[k], NoRun}
              \/ stdin'[k] = r /\ k = KeyOf(r) /\ to \in StdinPC
  PROVE  Marks' /\ Listed' /\ Stdins'
<1>1. Marks'
  <2> SUFFICES ASSUME NEW k \in idle' PROVE \E q \in Run : KeyOf(q) = k /\ run'[q].pc \in MarkPC
    BY DEF Marks
  <2>1. CASE k \notin idle
    BY <2>1 DEF Goes
  <2>2. CASE k \in idle
    <3>1. PICK q \in Run : KeyOf(q) = k /\ run[q].pc \in MarkPC
      BY <2>2 DEF Marks
    <3> QED BY <3>1 DEF Goes
  <2> QED BY <2>1, <2>2
<1>2. Listed'
  BY DEF Goes, Listed, Types, TypeMemory, Keyed
<1>3. Stdins'
  BY DEF Goes, Stdins, Types, TypeMemory, Keyed
<1> QED BY <1>1, <1>2, <1>3

LEMMA PutGoes ==
  ASSUME Types, NEW r \in Run, NEW from, NEW to \in PC, run[r].pc \in from, Put(r, to)
  PROVE  Goes(r, from, to)
BY DEF Put, Goes, Types, TypeRun, AgentRun

LEMMA Removed ==
  ASSUME NEW f, Keyed(f)
  PROVE  /\ \A j, k \in Key : RemoveKey(f, j)[k] \in {f[k], NoRun}
         /\ \A r \in Run, k \in Key : RemoveIfOwner(f, r)[k] \in {f[k], NoRun}
         /\ \A r \in Run : RemoveIfOwner(f, r)[KeyOf(r)] # r
BY NoRunAssumption, RunParts DEF Keyed, RemoveKey, RemoveIfOwner

LEMMA RunLive ==
  ASSUME Types, Marks, Listed, Stdins, NEW r \in Run,
         Launch(r) \/ LaunchLost(r) \/ Process(r) \/ Stream(r)
  PROVE  Marks' /\ Listed' /\ Stdins'
<1> USE DEF MarkPC, EntryPC, StdinPC
<1>0. /\ run[r] \in AgentRun /\ Keyed(registry) /\ Keyed(stdin) /\ KeyOf(r) \in Key
      /\ \A k \in Key : registry[k] \in {registry[k], NoRun} /\ stdin[k] \in {stdin[k], NoRun}
  BY RunParts DEF Types, TypeRun, TypeMemory
<1>1. CASE Count(r)
  <2>1. Goes(r, {"reserved"}, "counted")
    BY <1>1, PutGoes DEF Count, PC
  <2> QED BY <1>0, <1>1, <2>1, LiveGoes DEF Count, memory
<1>2. CASE Attach(r)
  <2>1. Goes(r, {"counted"}, "stream")
    BY <1>2 DEF Attach, Goes, Types, TypeRun, AgentRun
  <2>2. \A k \in Key : stdin'[k] = stdin[k] \/ (stdin'[k] = r /\ k = KeyOf(r))
    BY <1>0, <1>2 DEF Attach, Keyed
  <2> QED BY <1>0, <1>2, <2>1, <2>2, LiveGoes DEF Attach
<1>3. CASE LaunchFails(r)
  <2>1. Goes(r, {"reserved", "counted"}, "over")
    BY <1>3, PutGoes DEF LaunchFails, PC
  <2> QED BY <1>0, <1>3, <2>1, LiveGoes, Removed DEF LaunchFails
<1>4. CASE LaunchLost(r)
  <2>1. Goes(r, {"counted"}, "lost")
    BY <1>4, PutGoes DEF LaunchLost, PC
  <2> QED BY <1>0, <1>4, <2>1, LiveGoes DEF LaunchLost, memory
<1>5. CASE TurnEnds(r)
  <2>1. Goes(r, {"stream"}, "stream")
    BY <1>5 DEF TurnEnds, Streams, Goes, Types, TypeRun, AgentRun
  <2> QED BY <1>0, <1>5, <2>1, LiveGoes DEF TurnEnds
<1>6. CASE ReadInbox(r) \/ ProcessEnds(r) \/ FirstOutput(r)
  <2>1. Goes(r, {"stream"}, "stream")
    BY <1>6 DEF ReadInbox, ProcessEnds, FirstOutput, Streams, Goes, Types, TypeRun, AgentRun
  <2> QED BY <1>0, <1>6, <2>1, LiveGoes DEF ReadInbox, ProcessEnds, FirstOutput, memory
<1>7. CASE ExecutionComplete(r)
  BY <1>0, <1>7, LiveFewer, Removed DEF ExecutionComplete
<1>8. CASE StreamEnds(r)
  <2>1. Goes(r, {"stream"}, "exited")
    BY <1>8 DEF StreamEnds, Streams, Goes, Types, TypeRun, AgentRun
  <2> QED BY <1>0, <1>8, <2>1, LiveGoes DEF StreamEnds, memory
<1>9. CASE Unregister(r)
  <2>1. Goes(r, {"exited"}, "unregistered")
    BY <1>9, PutGoes DEF Unregister, PC
  <2> QED BY <1>0, <1>9, <2>1, LiveGoes, Removed DEF Unregister
<1>10. CASE ForgetStdin(r)
  <2>1. Goes(r, {"unregistered"}, "closed")
    BY <1>10, PutGoes DEF ForgetStdin, PC
  <2> QED BY <1>0, <1>10, <2>1, LiveGoes, Removed DEF ForgetStdin
<1>11. CASE RemoveMark(r)
  <2>1. Goes(r, {"closed"}, "settle")
    BY <1>11, PutGoes DEF RemoveMark, PC
  <2> QED BY <1>0, <1>11, <2>1, LiveGoes DEF RemoveMark
<1>12. CASE Settle(r)
  <2>1. Goes(r, {"settle"}, "handle")
    BY <1>12 DEF Settle, Goes, Types, TypeRun, AgentRun
  <2> QED BY <1>0, <1>12, <2>1, LiveGoes DEF Settle, memory
<1>13. CASE HandleMoves(r) \/ HandleIgnores(r)
  <2>1. Goes(r, {"handle"}, "over")
    BY <1>13, PutGoes DEF HandleMoves, HandleIgnores, PC
  <2> QED BY <1>0, <1>13, <2>1, LiveGoes DEF HandleMoves, HandleIgnores, memory
<1> QED BY <1>1, <1>2, <1>3, <1>4, <1>5, <1>6, <1>7, <1>8, <1>9, <1>10, <1>11, <1>12, <1>13
        DEF Launch, Process, Stream

LEMMA EnterLive ==
  ASSUME Types, Courses, Marks, Listed, Stdins, NEW c \in calls,
         EnterAsMessage(c) \/ EnterAsLaunch(c)
  PROVE  Marks' /\ Listed' /\ Stdins'
<1> DEFINE k == EntryKey(c)
           r == EntryRun(c)
<1>1. /\ k \in Key /\ r \in Run /\ KeyOf(r) = k /\ run[r].pc = "none"
      /\ Keyed(registry) /\ Keyed(stdin)
  BY EntryParts DEF EnterAsMessage, EnterAsLaunch, Types, TypeMemory
<1>2. CASE EnterAsMessage(c)
  <2>1. \A q \in Run : run'[q].pc = run[q].pc
    BY <1>2 DEF EnterAsMessage, Types, TypeRun, AgentRun
  <2> QED BY <1>2, <2>1, LiveFewer DEF EnterAsMessage, memory
<1>3. CASE EnterAsLaunch(c)
  <2>1. idle' = idle /\ stdin' = RemoveKey(stdin, k)
    BY <1>3 DEF EnterAsLaunch, EntryKey
  <2>2. CASE UNCHANGED << registry, run >>
    BY <1>1, <2>1, <2>2, LiveFewer, Removed
  <2>3. CASE /\ registry' = [registry EXCEPT ![k] = r]
             /\ run' = [q \in Run |->
                  IF q = r THEN [NoAgent EXCEPT !.pc = "reserved"]
                  ELSE IF q = registry[k] /\ Alive(q) THEN Cancelled(q) ELSE run[q]]
    <3>1. \A q \in Run : Cancelled(q).pc = run[q].pc
      BY DEF Cancelled, Types, TypeRun, AgentRun
    <3>2. run'[r].pc = "reserved" /\ \A q \in Run : q # r => run'[q].pc = run[q].pc
      BY <1>1, <2>3, <3>1 DEF NoAgent
    <3> HIDE DEF k, r
    <3>3. Marks'
      BY <1>1, <2>1, <3>2 DEF Marks, MarkPC
    <3>4. Listed'
      BY <1>1, <2>3, <3>2 DEF Listed, EntryPC, Keyed
    <3>5. Stdins'
      BY <1>1, <2>1, <3>2, Removed DEF Stdins, StdinPC, Keyed
    <3> QED BY <3>3, <3>4, <3>5
  <2> QED BY <1>3, <2>2, <2>3 DEF EnterAsLaunch, EntryKey, EntryRun
<1> QED BY <1>2, <1>3

LEMMA FewerSteps ==
  ASSUME Types, Marks, Listed, Stdins,
         \/ Chats \/ Schedule
         \/ \E c \in calls : Exit(c) \/ Chain(c) \/ Correct(c) \/ Close(c)
         \/ \E k \in Key : Send(k) \/ Message(k) \/ StopAgent(k)
         \/ \E t \in Task : StopTask(t) \/ Verdict(t, "off") \/ Verdict(t, "revision")
         \/ \E w \in Sweep : Recount(w) \/ Pruning(w)
  PROVE  Marks' /\ Listed' /\ Stdins'
<1>0. Keyed(registry) /\ Keyed(stdin)
  BY DEF Types, TypeMemory
<1>1. \A r \in Run : run'[r].pc = run[r].pc
  <2>1. CASE UNCHANGED run
    BY <2>1
  <2>2. ASSUME NEW r \in Run, NEW cond, Cancel(r, cond) PROVE \A q \in Run : run'[q].pc = run[q].pc
    BY <2>2 DEF Cancel, Cancelled, Types, TypeRun, AgentRun
  <2>3. ASSUME NEW k \in Key, Message(k) PROVE \A q \in Run : run'[q].pc = run[q].pc
    BY <1>0, <2>3 DEF Message, Types, TypeRun, AgentRun, Keyed
  <2>4. ASSUME NEW k \in Key, StopAgent(k) PROVE \A q \in Run : run'[q].pc = run[q].pc
    BY <1>0, <2>2, <2>4 DEF StopAgent, Keyed
  <2>5. ASSUME NEW w \in Sweep, NEW k \in Key, Prune(w, k) PROVE \A q \in Run : run'[q].pc = run[q].pc
    BY <1>0, <2>2, <2>5 DEF Prune, Prunable, Keyed
  <2> QED BY <2>1, <2>3, <2>4, <2>5
          DEF Chats, ChatOpens, ChatEnds, Schedule, Look, Start, Exit, Chain, Correct, Close, Send,
              Claim, Resume, StopTask, Verdict, Recount, List, Store, Pruning, Unmark
<1>2. idle' \subseteq idle
  BY DEF Chats, ChatOpens, ChatEnds, Schedule, Look, Start, Exit, Chain, Correct, Close, Send,
         Claim, Resume, Message, StopAgent, StopTask, Verdict, Recount, List, Store, Pruning,
         Unmark, Prune, memory
<1>3. /\ registry' = registry \/ \E k \in Key : registry' = RemoveKey(registry, k)
      /\ stdin' = stdin \/ \E k \in Key : stdin' = RemoveKey(stdin, k)
  <2>1. \A c \in calls : << c.task, "review" >> \in Key
    BY DEF Types, TypeTasks, Call, Key, Kind
  <2>2. \A t \in Task : << t, "review" >> \in Key
    BY DEF Key, Kind
  <2> QED BY <2>1, <2>2
          DEF Chats, ChatOpens, ChatEnds, Schedule, Look, Start, Exit, Chain, Correct, Close, Send,
              Claim, Resume, Message, StopAgent, StopTask, Verdict, Recount, List, Store, Pruning,
              Unmark, Prune, memory
<1>4. \A k \in Key : registry'[k] \in {registry[k], NoRun} /\ stdin'[k] \in {stdin[k], NoRun}
  BY <1>0, <1>3, Removed
<1> QED BY <1>1, <1>2, <1>4, LiveFewer

-----------------------------------------------------------------------------
(* The theorems.                                                           *)

Inv == Types /\ Courses /\ Marks /\ Listed /\ Stdins

LEMMA InitInv == Init => Inv
<1> SUFFICES ASSUME Init PROVE Inv
  OBVIOUS
<1>1. Types
  BY NoAgentType, EpisodeTypes, BoundAssumption
     DEF Init, Types, TypeTasks, TypeMemory, TypeRun, TypeSends, TypeSweeps, Keyed, Status,
         SweepState, NoSweep, NotYet
<1>2. Courses
  BY RunParts DEF Init, Courses, CallShape, EntersFresh, Unborn, FirstEntry, ReadyFresh, Launchless,
                  NoAgent
<1>3. Marks /\ Listed /\ Stdins
  BY DEF Init, Marks, Listed, Stdins
<1> QED BY <1>1, <1>2, <1>3 DEF Inv

LEMMA NextInv == Inv /\ [Next]_vars => Inv'
<1> SUFFICES ASSUME Inv, [Next]_vars PROVE Inv'
  OBVIOUS
<1> USE DEF Inv
<1>1. Types' /\ Courses'
  BY NextTypes, NextCourses
<1>2. CASE Transition
  BY <1>1, <1>2, EnterLive, FewerSteps DEF Transition
<1>3. CASE Schedule \/ Chats \/ (\E k \in Key : Send(k)) \/ \E w \in Sweep : Recount(w) \/ Pruning(w)
  BY <1>1, <1>3, FewerSteps
<1>4. CASE User
  BY <1>1, <1>4, FewerSteps DEF User
<1>5. CASE \E r \in Run : Launch(r) \/ LaunchLost(r) \/ Process(r) \/ Stream(r)
  BY <1>1, <1>5, RunLive
<1>6. CASE UNCHANGED vars
  BY <1>1, <1>6 DEF vars, Marks, Listed, Stdins
<1> QED BY <1>2, <1>3, <1>4, <1>5, <1>6 DEF Next

THEOREM Invariance == Spec => []Inv
BY InitInv, NextInv, PTL DEF Spec

\* The count is a natural number, and an entry, a stdin or a mark is kept under
\* the key of its own run, whatever agents, users and sweeps do.
THEOREM TypesHold == Spec => []TypeOK
<1>1. Inv => TypeOK
  BY TypesImply DEF Inv
<1> QED BY <1>1, Invariance, PTL

\* No mark, entry or stdin outlives the run that is to remove it: the end of
\* a stream leaves nothing behind that a later sweep would count or subtract.
THEOREM NothingIsLeftBehind == Spec => []SlotsAreLive
<1>1. Inv => SlotsAreLive
  BY LiveParts DEF Inv
<1> QED BY <1>1, Invariance, PTL

-----------------------------------------------------------------------------
(* The inductive invariant: as long as the state is pristine, a task has   *)
(* one actor, a transition or an agent, and an agent has one turn.  So no  *)
(* slot is given back or taken again but by the end of that turn, the end  *)
(* of the stream and the exit from the status, in this order.              *)

Pristine == messages + verdicts + stops = 0 /\ \A w \in Sweep : sweep[w].pc = "new"

Busy(r) == run[r].pc \notin {"none", "over", "lost"}

Alone ==
  /\ \A c, d \in calls : c.task = d.task => c = d
  /\ \A c \in calls, r \in Run : c.task = r[1] => ~Busy(r)
  /\ \A q, r \in Run : q[1] = r[1] /\ Busy(q) /\ Busy(r) => q = r

Unasked ==
  /\ \A c \in calls : ~c.close
  /\ \A k \in Key : sender[k] = "idle"
  /\ \A r \in Run : ~run[r].inbox

\* An agent's task stays in the status and the episode the agent is for.
InStatus ==
  /\ \A c \in calls : c.do = "enter" => status[c.task] = c.to
  /\ \A r \in Run : Busy(r) => Matches(KeyOf(r)) /\ r[3] = episode[KeyOf(r)]

EndPC == {"exited", "unregistered", "closed", "settle"}

\* After its turn an agent waits until its process ends.
FirstTurn(r) ==
  /\ run[r].turned = run[r].between
  /\ run[r].cancelled => run[r].turned
  /\ run[r].process = "working" => ~run[r].turned
  /\ run[r].pc \in {"reserved", "counted", "lost"} => run[r].process = "none" /\ ~run[r].turned
  /\ run[r].pc \in EndPC =>
       /\ run[r].held = ~run[r].turned
       /\ run[r].how \in {"ok", "error"}
       /\ run[r].turned => run[r].how = "ok"
  /\ run[r].pc = "handle" => run[r].how # "cancelled" /\ (run[r].held \/ run[r].added)

First == Alone /\ Unasked /\ InStatus /\ \A r \in Run : FirstTurn(r)

Holders == { r \in Run : Holds(r) }
Leaving == { c \in calls : c.do = "exit" }
Balanced == running = Cardinality(Holders) + Cardinality(Leaving)

LedgerInv == Pristine => First /\ Balanced

-----------------------------------------------------------------------------
(* Runs, holders and leaving tasks are finitely many.                      *)

LEMMA RunsFinite == IsFiniteSet(Run)
<1> DEFINE Number == 1..Episodes
           P == (Task \X Kind) \X Number
           f == [p \in P |-> << p[1][1], p[1][2], p[2] >>]
<1>1. IsFiniteSet(Kind)
  <2>1. Kind = {"execution"} \cup {"review"}
    BY DEF Kind
  <2> QED BY <2>1, FS_Singleton, FS_Union
<1>2. IsFiniteSet(P)
  <2>1. IsFiniteSet(Number)
    BY EpisodeTypes, FS_Interval
  <2> QED BY <1>1, <2>1, FiniteAssumption, FS_Product
<1>3. f \in Surjection(P, Run)
  <2>1. f \in [P -> Run]
    BY DEF Run
  <2>2. \A r \in Run : \E p \in P : f[p] = r
    <3> SUFFICES ASSUME NEW r \in Run PROVE \E p \in P : f[p] = r
      OBVIOUS
    <3>1. << << r[1], r[2] >>, r[3] >> \in P /\ f[<< << r[1], r[2] >>, r[3] >>] = r
      BY RunParts
    <3> QED BY <3>1
  <2> QED BY <2>1, <2>2 DEF Surjection
<1> QED BY <1>2, <1>3, FS_Surjection

LEMMA HoldersFinite == IsFiniteSet(Holders)
BY RunsFinite, FS_Subset DEF Holders

LEMMA LeavingFinite ==
  ASSUME Types, Alone
  PROVE  IsFiniteSet(Leaving)
<1> DEFINE f == [c \in Leaving |-> c.task]
<1>1. f \in [Leaving -> Task]
  BY DEF Leaving, Types, TypeTasks, Call
<1>2. \A c, d \in Leaving : f[c] = f[d] => c = d
  BY DEF Leaving, Alone
<1>3. f \in Injection(Leaving, Task)
  BY <1>1, <1>2 DEF Injection, IsInjective
<1> QED BY <1>3, FiniteAssumption, FS_Injection

-----------------------------------------------------------------------------
(* What a step may do to the balance.                                      *)

Even == Holders' = Holders /\ Leaving' = Leaving /\ running' = running
Takes(r) ==
  r \notin Holders /\ Holders' = Holders \cup {r} /\ Leaving' = Leaving /\ IncrementRunning
GivesUp(r) ==
  r \in Holders /\ Holders' = Holders \ {r} /\ Leaving' = Leaving /\ DecrementRunning
Leaves(c) ==
  c \in Leaving /\ Leaving' = Leaving \ {c} /\ Holders' = Holders /\ DecrementRunning
HandsOver(r, c) ==
  /\ r \in Holders /\ Holders' = Holders \ {r}
  /\ c \notin Leaving /\ Leaving' = Leaving \cup {c}
  /\ running' = running

LEMMA BalanceStep ==
  ASSUME Types, Alone, Balanced,
         \/ Even
         \/ \E r : Takes(r) \/ GivesUp(r) \/ Leaves(r)
         \/ \E r, c : HandsOver(r, c)
  PROVE  Balanced'
<1> DEFINE h == Cardinality(Holders)
           l == Cardinality(Leaving)
<1>0. /\ IsFiniteSet(Holders) /\ IsFiniteSet(Leaving)
      /\ h \in Nat /\ l \in Nat /\ running = h + l
  BY HoldersFinite, LeavingFinite, FS_CardinalityType DEF Balanced
<1>1. CASE Even
  BY <1>1 DEF Even, Balanced
<1>2. ASSUME NEW r, Takes(r) PROVE Balanced'
  <2>1. Cardinality(Holders \cup {r}) = h + 1
    BY <1>0, <1>2, FS_AddElement DEF Takes
  <2> QED BY <1>0, <1>2, <2>1 DEF Takes, IncrementRunning, Balanced
<1>3. ASSUME NEW r, GivesUp(r) PROVE Balanced'
  <2>1. Cardinality(Holders \ {r}) = h - 1 /\ Cardinality(Holders \ {r}) \in Nat
    BY <1>0, <1>3, FS_RemoveElement, FS_CardinalityType DEF GivesUp
  <2> QED BY <1>0, <1>3, <2>1 DEF GivesUp, DecrementRunning, Balanced
<1>4. ASSUME NEW c, Leaves(c) PROVE Balanced'
  <2>1. Cardinality(Leaving \ {c}) = l - 1 /\ Cardinality(Leaving \ {c}) \in Nat
    BY <1>0, <1>4, FS_RemoveElement, FS_CardinalityType DEF Leaves
  <2> QED BY <1>0, <1>4, <2>1 DEF Leaves, DecrementRunning, Balanced
<1>5. ASSUME NEW r, NEW c, HandsOver(r, c) PROVE Balanced'
  <2>1. Cardinality(Holders \ {r}) = h - 1
    BY <1>0, <1>5, FS_RemoveElement DEF HandsOver
  <2>2. Cardinality(Leaving \cup {c}) = l + 1
    BY <1>0, <1>5, FS_AddElement DEF HandsOver
  <2> QED BY <1>0, <1>5, <2>1, <2>2 DEF HandsOver, Balanced
<1> QED BY <1>1, <1>2, <1>3, <1>4, <1>5

LEMMA OnlyRun ==
  ASSUME NEW r \in Run, \A q \in Run : q # r => run'[q] = run[q]
  PROVE  /\ Holds(r)' => Holders' = Holders \cup {r}
         /\ ~Holds(r)' => Holders' = Holders \ {r}
BY DEF Holders, Holds

LEMMA SameRuns ==
  ASSUME \A q \in Run : run'[q] = run[q]
  PROVE  Holders' = Holders
BY DEF Holders, Holds

-----------------------------------------------------------------------------
(* Steps of a task's one actor.                                            *)

\* A step of an agent, which leaves the transitions alone.
LEMMA AgentStep ==
  ASSUME First, NEW r \in Run, \A q \in Run : q # r => run'[q] = run[q],
         UNCHANGED << status, episode, sender >>, calls' \subseteq calls,
         Busy(r)' => Busy(r), FirstTurn(r)', ~run'[r].inbox
  PROVE  First'
<1>1. \A q \in Run : Busy(q)' => Busy(q)
  BY DEF Busy
<1>2. Alone'
  BY <1>1 DEF First, Alone
<1>3. Unasked' /\ InStatus'
  BY <1>1 DEF First, Unasked, InStatus, Matches, KeyOf
<1>4. \A q \in Run : FirstTurn(q)'
  BY DEF First, FirstTurn, EndPC
<1> QED BY <1>2, <1>3, <1>4 DEF First

\* A step of a transition of a task none of whose agents goes on.
LEMMA CallStep ==
  ASSUME First, Types, Types', NEW t, sender' = sender,
         \A q \in Run : run'[q] # run[q] => q[1] = t /\ FirstTurn(q)' /\ ~run'[q].inbox,
         \A q \in Run : q[1] = t => ~Busy(q)',
         \A u \in Task : u # t => status'[u] = status[u],
         \A k \in Key : k[1] # t => episode'[k] = episode[k],
         \A c \in calls' : \/ c \in calls /\ c.task # t
                           \/ /\ c.task = t /\ ~c.close
                              /\ c.do = "enter" => status'[t] = c.to
                              /\ \A d \in calls' : d.task = t => c = d
  PROVE  First'
<1>0. \A c \in calls, d \in calls' : c.task \in Task /\ d.task \in Task
  BY DEF Types, TypeTasks, Call
<1>1. \A q \in Run : Busy(q)' => Busy(q) /\ q[1] # t
  BY DEF Busy
<1>2. Alone'
  BY <1>1 DEF First, Alone
<1>3. Unasked'
  BY DEF First, Unasked
<1>4. InStatus'
  <2>1. \A c \in calls' : c.do = "enter" => status'[c.task] = c.to
    BY <1>0 DEF First, InStatus
  <2>2. \A q \in Run : q[1] \in Task /\ KeyOf(q) \in Key /\ KeyOf(q)[1] = q[1]
    BY RunParts
  <2> QED BY <1>1, <2>1, <2>2 DEF First, InStatus, Matches
<1>5. \A q \in Run : FirstTurn(q)'
  BY DEF First, FirstTurn, EndPC
<1> QED BY <1>2, <1>3, <1>4, <1>5 DEF First

-----------------------------------------------------------------------------
(* Agents.                                                                 *)

LEMMA AgentFacts ==
  ASSUME Types, First, NEW r \in Run
  PROVE  /\ run[r] \in AgentRun /\ run \in [Run -> AgentRun] /\ FirstTurn(r) /\ ~run[r].inbox
         /\ Busy(r) => /\ \A c \in calls : c.task # r[1]
                       /\ \A q \in Run : q[1] = r[1] => q = r \/ ~Busy(q)
BY DEF Types, TypeRun, First, Unasked, Alone

LEMMA LaunchLedger ==
  ASSUME Types, Types', First, Balanced, NEW r \in Run, Launch(r) \/ LaunchLost(r)
  PROVE  First' /\ Balanced'
<1>0. /\ run[r] \in AgentRun /\ run \in [Run -> AgentRun] /\ FirstTurn(r) /\ ~run[r].inbox
      /\ Busy(r) /\ Alone
      /\ \A c \in calls : c.task # r[1]
      /\ \A q \in Run : q[1] = r[1] => q = r \/ ~Busy(q)
  BY AgentFacts DEF Launch, LaunchLost, Count, Attach, LaunchFails, Busy, First
<1>1. CASE Count(r)
  <2>1. /\ run' = [run EXCEPT ![r].pc = "counted"] /\ run[r].pc = "reserved"
        /\ UNCHANGED << status, episode, calls, sender >> /\ IncrementRunning
    BY <1>1 DEF Count, Put, tasks
  <2>2. /\ \A q \in Run : q # r => run'[q] = run[q]
        /\ run'[r] = [run[r] EXCEPT !.pc = "counted"]
    BY <1>0, <2>1
  <2>3. First'
    BY <1>0, <2>1, <2>2, AgentStep DEF Busy, FirstTurn, EndPC, AgentRun
  <2>4. ~Holds(r) /\ Holds(r)'
    BY <1>0, <2>1, <2>2 DEF Holds, AgentRun
  <2>5. Takes(r)
    BY <2>1, <2>2, <2>4, OnlyRun DEF Takes, Holders, Leaving
  <2> QED BY <1>0, <2>3, <2>5, BalanceStep
<1>2. CASE Attach(r)
  <2>1. /\ run' = [run EXCEPT ![r].pc = "stream", ![r].process = "working"]
        /\ run[r].pc = "counted"
        /\ UNCHANGED << status, episode, calls, sender, running >>
    BY <1>2 DEF Attach, tasks
  <2>2. /\ \A q \in Run : q # r => run'[q] = run[q]
        /\ run'[r] = [run[r] EXCEPT !.pc = "stream", !.process = "working"]
    BY <1>0, <2>1
  <2>3. First'
    BY <1>0, <2>1, <2>2, AgentStep DEF Busy, FirstTurn, EndPC, AgentRun
  <2>4. Holds(r) /\ Holds(r)'
    BY <1>0, <2>1, <2>2 DEF Holds, FirstTurn, AgentRun
  <2>5. Even
    BY <2>1, <2>2, <2>4, OnlyRun DEF Even, Holders, Leaving
  <2> QED BY <1>0, <2>3, <2>5, BalanceStep
<1> DEFINE b == [task |-> r[1], do |-> "correct", to |-> "off", close |-> FALSE]
<1>3. ASSUME calls' = Blocked(r)
      PROVE  /\ \A c \in calls' : \/ c \in calls /\ c.task # r[1]
                                  \/ c = b /\ \A d \in calls' : d.task = r[1] => c = d
             /\ Leaving' = Leaving
  <2>1. calls' = calls \/ calls' = calls \cup {b}
    BY <1>3 DEF Blocked
  <2>2. \A c \in calls' : c \in calls \/ c = b
    BY <2>1
  <2>3. b.do # "exit"
    OBVIOUS
  <2> QED BY <1>0, <2>1, <2>2, <2>3 DEF Leaving
<1>4. ASSUME NEW pc \in {"over", "lost"}, Put(r, pc), calls' = Blocked(r),
             UNCHANGED << status, episode, sender >>, run[r].pc \in {"reserved", "counted"}
      PROVE  First' /\ \A q \in Run : q # r => run'[q] = run[q]
  <2>1. /\ \A q \in Run : q # r => run'[q] = run[q]
        /\ run'[r] = [run[r] EXCEPT !.pc = pc]
    BY <1>0, <1>4 DEF Put
  <2>2. FirstTurn(r)' /\ ~run'[r].inbox /\ ~Busy(r)'
    BY <1>0, <1>4, <2>1 DEF FirstTurn, EndPC, Busy, AgentRun
  <2>3. \A q \in Run : q[1] = r[1] => ~Busy(q)'
    BY <1>0, <2>1, <2>2 DEF Busy
  <2>4. b.task = r[1] /\ ~b.close /\ b.do # "enter"
    OBVIOUS
  <2>5. \A c \in calls' : \/ c \in calls /\ c.task # r[1]
                          \/ /\ c.task = r[1] /\ ~c.close /\ c.do # "enter"
                             /\ \A d \in calls' : d.task = r[1] => c = d
    BY <1>3, <1>4, <2>4
  <2>6. \A q \in Run : run'[q] # run[q] => q[1] = r[1] /\ FirstTurn(q)' /\ ~run'[q].inbox
    BY <2>1, <2>2
  <2>7. First'
    BY <1>4, <2>3, <2>5, <2>6, CallStep
  <2> QED BY <2>1, <2>7
<1>5. CASE LaunchFails(r)
  <2>1. First' /\ \A q \in Run : q # r => run'[q] = run[q]
    BY <1>4, <1>5 DEF LaunchFails
  <2>2. run'[r].pc = "over"
    BY <1>0, <1>5 DEF LaunchFails, Put, AgentRun
  <2>3. ~Holds(r)'
    BY <2>2 DEF Holds
  <2>4. CASE GivesBack(r)
    <3>1. Holds(r)
      BY <2>4 DEF Holds, GivesBack
    <3>2. GivesUp(r)
      BY <1>3, <1>5, <2>1, <2>3, <2>4, <3>1, OnlyRun DEF GivesUp, LaunchFails, Holders
    <3> QED BY <1>0, <2>1, <3>2, BalanceStep
  <2>5. CASE ~GivesBack(r)
    <3>1. ~Holds(r)
      BY <1>5, <2>5 DEF Holds, GivesBack, LaunchFails
    <3>2. Even
      BY <1>3, <1>5, <2>1, <2>3, <2>5, <3>1, OnlyRun DEF Even, LaunchFails, Holders
    <3> QED BY <1>0, <2>1, <3>2, BalanceStep
  <2> QED BY <2>4, <2>5
<1>6. CASE LaunchLost(r)
  <2>1. First' /\ \A q \in Run : q # r => run'[q] = run[q]
    BY <1>4, <1>6 DEF LaunchLost
  <2>2. run'[r].pc = "lost"
    BY <1>0, <1>6 DEF LaunchLost, Put, AgentRun
  <2>3. Holds(r) /\ Holds(r)'
    BY <1>6, <2>2 DEF Holds, LaunchLost
  <2>4. Even
    BY <1>3, <1>6, <2>1, <2>3, OnlyRun DEF Even, LaunchLost, Holders
  <2> QED BY <1>0, <2>1, <2>4, BalanceStep
<1> QED BY <1>1, <1>2, <1>5, <1>6 DEF Launch

LEMMA EvenAgent ==
  ASSUME Types, First, Balanced, NEW r \in Run, \A q \in Run : q # r => run'[q] = run[q],
         UNCHANGED << status, episode, calls, sender, running >>,
         Busy(r)' => Busy(r), FirstTurn(r)', ~run'[r].inbox, Holds(r)' <=> Holds(r)
  PROVE  First' /\ Balanced'
<1>1. First'
  BY AgentStep
<1>2. Even
  BY OnlyRun DEF Even, Holders, Leaving
<1> QED BY <1>1, <1>2, BalanceStep DEF First

LEMMA ProcessLedger ==
  ASSUME Types, First, Balanced, NEW r \in Run, Process(r) \/ FirstOutput(r)
  PROVE  First' /\ Balanced'
<1>0. run[r] \in AgentRun /\ run \in [Run -> AgentRun] /\ FirstTurn(r) /\ ~run[r].inbox
  BY AgentFacts
<1>1. CASE TurnEnds(r)
  <2>1. /\ run[r].pc = "stream" /\ run[r].process = "working"
        /\ UNCHANGED << status, episode, calls, sender >> /\ DecrementRunning
    BY <1>1 DEF TurnEnds, Streams, tasks
  <2>2. /\ \A q \in Run : q # r => run'[q] = run[q]
        /\ run'[r] = [run[r] EXCEPT !.process = "waiting", !.between = TRUE, !.turned = TRUE]
    BY <1>0, <1>1 DEF TurnEnds
  <2>3. First'
    BY <1>0, <2>1, <2>2, AgentStep DEF Busy, FirstTurn, EndPC, AgentRun
  <2>4. Holds(r) /\ ~Holds(r)'
    BY <1>0, <2>1, <2>2 DEF Holds, FirstTurn, AgentRun
  <2>5. GivesUp(r)
    BY <2>1, <2>2, <2>4, OnlyRun DEF GivesUp, Holders, Leaving
  <2> QED BY <2>3, <2>5, BalanceStep DEF First
<1>2. CASE ReadInbox(r) \/ FirstOutput(r)
  BY <1>0, <1>2 DEF ReadInbox, FirstOutput, FirstTurn
<1>3. CASE ProcessEnds(r)
  <2>1. /\ run[r].pc = "stream"
        /\ UNCHANGED << status, episode, calls, sender, running >>
    BY <1>3 DEF ProcessEnds, Streams, tasks
  <2>2. /\ \A q \in Run : q # r => run'[q] = run[q]
        /\ run'[r] = [run[r] EXCEPT !.process = "dead"]
    BY <1>0, <1>3 DEF ProcessEnds
  <2> QED BY <1>0, <2>1, <2>2, EvenAgent DEF Busy, FirstTurn, EndPC, Holds, AgentRun
<1>4. CASE ExecutionComplete(r)
  BY <1>0, <1>4, EvenAgent DEF ExecutionComplete, tasks, Busy, FirstTurn, EndPC, Holds
<1> QED BY <1>1, <1>2, <1>3, <1>4 DEF Process

LEMMA StreamLedger ==
  ASSUME Types, Types', First, Balanced, NEW r \in Run, Stream(r)
  PROVE  First' /\ Balanced'
<1>0. /\ run[r] \in AgentRun /\ run \in [Run -> AgentRun] /\ FirstTurn(r) /\ ~run[r].inbox
      /\ Alone /\ KeyOf(r) \in Key /\ KeyOf(r) = << r[1], r[2] >> /\ r[2] \in Kind
  BY AgentFacts, RunParts DEF First
<1>1. CASE FirstOutput(r)
  BY <1>1, ProcessLedger
<1>2. CASE StreamEnds(r)
  <2>1. PICK how \in Results(r) :
          run' = [run EXCEPT ![r].pc = "exited", ![r].how = how, ![r].held = ~run[r].between]
    BY <1>2 DEF StreamEnds
  <2>2. /\ run[r].pc = "stream" /\ UNCHANGED << status, episode, calls, sender, running >>
    BY <1>2 DEF StreamEnds, Streams, tasks
  <2>3. /\ \A q \in Run : q # r => run'[q] = run[q]
        /\ run'[r] = [run[r] EXCEPT !.pc = "exited", !.how = how, !.held = ~run[r].between]
    BY <1>0, <2>1
  <2>4. how \in {"ok", "error"} /\ (run[r].turned => how = "ok")
    BY <1>0, <2>1 DEF Results, FirstTurn
  <2>5. FirstTurn(r)' /\ ~run'[r].inbox /\ (Busy(r)' => Busy(r)) /\ (Holds(r)' <=> Holds(r))
    BY <1>0, <2>2, <2>3, <2>4 DEF Busy, FirstTurn, EndPC, Holds, AgentRun
  <2> QED BY <2>2, <2>3, <2>5, EvenAgent
<1>3. ASSUME NEW pc \in EndPC, Put(r, pc), run[r].pc \in EndPC,
             UNCHANGED << status, episode, calls, sender, running >>
      PROVE  First' /\ Balanced'
  <2>1. /\ \A q \in Run : q # r => run'[q] = run[q]
        /\ run'[r] = [run[r] EXCEPT !.pc = pc]
    BY <1>0, <1>3 DEF Put
  <2>2. FirstTurn(r)' /\ ~run'[r].inbox /\ (Busy(r)' => Busy(r)) /\ (Holds(r)' <=> Holds(r))
    BY <1>0, <1>3, <2>1 DEF Busy, FirstTurn, EndPC, Holds, AgentRun
  <2> QED BY <1>3, <2>1, <2>2, EvenAgent
<1>4. CASE Unregister(r) \/ ForgetStdin(r) \/ RemoveMark(r)
  BY <1>3, <1>4 DEF Unregister, ForgetStdin, RemoveMark, EndPC, tasks
<1>5. CASE Settle(r)
  <2>1. /\ run[r].pc = "settle" /\ UNCHANGED << status, episode, calls, sender >>
        /\ run[r].how \in {"ok", "error"} /\ run[r].held = ~run[r].turned
        /\ run[r].turned => run[r].how = "ok"
    BY <1>0, <1>5 DEF Settle, tasks, FirstTurn, EndPC
  <2>2. Matches(KeyOf(r))
    BY <2>1 DEF First, InStatus, Busy
  <2>3. TakesAgain(r) <=> run[r].turned
    BY <1>0, <2>1, <2>2 DEF TakesAgain, AgentRun
  <2>4. /\ \A q \in Run : q # r => run'[q] = run[q]
        /\ run'[r] = [run[r] EXCEPT !.pc = "handle", !.added = TakesAgain(r),
                                    !.held = @ /\ TRUE, !.how = @]
    BY <1>0, <1>5, <2>1 DEF Settle
  <2>5. FirstTurn(r)' /\ ~run'[r].inbox /\ (Busy(r)' => Busy(r)) /\ Holds(r)'
    BY <1>0, <2>1, <2>3, <2>4 DEF Busy, FirstTurn, EndPC, Holds, AgentRun
  <2>6. CASE run[r].turned
    <3>1. ~Holds(r)
      BY <2>1, <2>6 DEF Holds
    <3>2. Takes(r)
      BY <1>5, <2>1, <2>3, <2>4, <2>5, <2>6, <3>1, OnlyRun DEF Takes, Settle, Holders, Leaving
    <3>3. First'
      BY <2>1, <2>4, <2>5, AgentStep
    <3> QED BY <1>0, <3>2, <3>3, BalanceStep
  <2>7. CASE ~run[r].turned
    <3>1. Holds(r) /\ UNCHANGED running
      BY <1>5, <2>1, <2>3, <2>7 DEF Holds, Settle
    <3> QED BY <2>1, <2>4, <2>5, <3>1, EvenAgent
  <2> QED BY <2>6, <2>7
<1>6. CASE HandleMoves(r)
  <2>1. PICK s \in Outcomes(r) : Move(r[1], s, FALSE)
    BY <1>6 DEF HandleMoves
  <2> DEFINE t == r[1]
             c == [task |-> t, do |-> "exit", to |-> s, close |-> FALSE]
  <2>2. /\ run[r].pc = "handle" /\ Busy(r) /\ Holds(r)
        /\ UNCHANGED << episode, sender, running >> /\ Put(r, "over")
        /\ t \in Task
    BY <1>0, <1>6, RunParts DEF HandleMoves, Busy, Holds, FirstTurn, EndPC
  <2>3. status[t] \in Active
    BY <1>0, <2>2 DEF First, InStatus, Matches, Active
  <2>4. status' = [status EXCEPT ![t] = s] /\ calls' = calls \cup {c}
    BY <2>1, <2>3 DEF Move
  <2>5. \A d \in calls : d.task # t
    BY <2>2, AgentFacts
  <2>6. /\ \A q \in Run : q # r => run'[q] = run[q]
        /\ run'[r] = [run[r] EXCEPT !.pc = "over"]
    BY <1>0, <2>2 DEF Put
  <2>7. FirstTurn(r)' /\ ~run'[r].inbox /\ ~Busy(r)' /\ ~Holds(r)'
    BY <1>0, <2>6 DEF Busy, FirstTurn, EndPC, Holds, AgentRun
  <2>8. \A q \in Run : q[1] = t => ~Busy(q)'
    BY <2>2, <2>6, <2>7, AgentFacts DEF Busy
  <2>9. \A u \in Task : u # t => status'[u] = status[u]
    BY <2>2, <2>4 DEF Types, TypeTasks
  <2>10. c.task = t /\ ~c.close /\ c.do = "exit"
    OBVIOUS
  <2> HIDE DEF c, t
  <2>11. \A d \in calls' : \/ d \in calls /\ d.task # t
                           \/ /\ d.task = t /\ ~d.close /\ d.do # "enter"
                              /\ \A e \in calls' : e.task = t => d = e
    BY <2>4, <2>5, <2>10
  <2>12. \A q \in Run : run'[q] # run[q] => q[1] = t /\ FirstTurn(q)' /\ ~run'[q].inbox
    BY <2>6, <2>7 DEF t
  <2>13. First'
    BY <2>2, <2>8, <2>9, <2>11, <2>12, CallStep
  <2>14. HandsOver(r, c)
    <3>1. r \in Holders /\ Holders' = Holders \ {r}
      BY <2>2, <2>6, <2>7, OnlyRun DEF Holders
    <3>2. c \notin Leaving /\ Leaving' = Leaving \cup {c}
      BY <2>4, <2>5, <2>10 DEF Leaving
    <3> QED BY <2>2, <3>1, <3>2 DEF HandsOver
  <2> QED BY <1>0, <2>13, <2>14, BalanceStep
<1>7. CASE HandleIgnores(r)
  <2>1. run[r].pc = "handle" /\ run[r].how # "cancelled" /\ Busy(r) /\ ~Current(r)
    BY <1>0, <1>7 DEF HandleIgnores, FirstTurn, Busy
  <2>2. Current(r)
    BY <2>1 DEF First, InStatus, Current
  <2> QED BY <2>1, <2>2
<1> QED BY <1>1, <1>2, <1>4, <1>5, <1>6, <1>7 DEF Stream

-----------------------------------------------------------------------------
(* Transitions.                                                            *)

\* A task with a transition has no agent, but for one whose launch was lost.
LEMMA NoAgentYet ==
  ASSUME Types, First, Listed, Stdins, NEW c \in calls, NEW k \in Key, k[1] = c.task
  PROVE  /\ stdin[k] = NoRun
         /\ registry[k] # NoRun => registry[k] \in Run /\ ~Alive(registry[k])
<1>0. Keyed(registry) /\ Keyed(stdin)
  BY DEF Types, TypeMemory
<1>1. \A r \in Run : KeyOf(r) = k => ~Busy(r)
  BY RunParts DEF First, Alone
<1>2. stdin[k] = NoRun
  <2> SUFFICES ASSUME stdin[k] # NoRun PROVE FALSE
    OBVIOUS
  <2>1. stdin[k] \in Run /\ KeyOf(stdin[k]) = k /\ run[stdin[k]].pc \in StdinPC
    BY <1>0 DEF Keyed, Stdins
  <2> QED BY <1>1, <2>1 DEF Busy, StdinPC
<1>3. ASSUME registry[k] # NoRun PROVE registry[k] \in Run /\ ~Alive(registry[k])
  <2> DEFINE q == registry[k]
  <2>1. q \in Run /\ KeyOf(q) = k /\ run[q].pc \in EntryPC
    BY <1>0, <1>3 DEF Keyed, Listed
  <2>2. run[q].pc = "lost"
    BY <1>1, <2>1 DEF Busy, EntryPC
  <2>3. run[q].process = "none"
    BY <2>1, <2>2 DEF First, FirstTurn
  <2> QED BY <2>1, <2>3 DEF Alive
<1> QED BY <1>2, <1>3

\* The transition of a task goes on to at most one next step.
LEMMA ThenOne ==
  ASSUME NEW c \in Call, ~c.close
  PROVE  \A d, e \in Then(c) : /\ d = e /\ d.task = c.task /\ ~d.close /\ d.to = c.to
                               /\ d.do # "exit" /\ (d.do = "enter" => c.to \in Active)
BY Kinds DEF Then, Call

LEMMA TransitionLedger ==
  ASSUME Types, Types', Courses, First, Balanced, NEW c \in calls,
         Exit(c) \/ Chain(c) \/ Correct(c) \/ Close(c)
  PROVE  First' /\ Balanced'
<1> DEFINE t == c.task
<1>0. /\ c \in Call /\ t \in Task /\ ~c.close /\ Alone
      /\ \A d \in calls : d.task = t => d = c
      /\ \A q \in Run : q[1] = t => ~Busy(q)
  BY DEF Types, TypeTasks, Call, First, Alone, Unasked
<1>1. /\ \A q \in Run : run'[q] = run[q]
      /\ \A q \in Run : q[1] = t => ~Busy(q)'
      /\ sender' = sender
  BY <1>0 DEF Exit, Chain, Correct, Close, Busy
<1>2. /\ \A u \in Task : u # t => status'[u] = status[u]
      /\ \A k \in Key : k[1] # t => episode'[k] = episode[k]
  BY <1>0 DEF Exit, Chain, Correct, Close, Begin, Types, TypeTasks
<1>3. ASSUME NEW C, \A d, e \in C : /\ d = e /\ d.task = t /\ ~d.close /\ d.do # "exit"
                                    /\ d.do = "enter" => status'[t] = d.to,
             calls' = (calls \ {c}) \cup C
      PROVE  First' /\ Leaving' = Leaving \ {c}
  <2>1. \A d \in calls' : \/ d \in calls /\ d.task # t
                          \/ /\ d.task = t /\ ~d.close
                             /\ d.do = "enter" => status'[t] = d.to
                             /\ \A e \in calls' : e.task = t => d = e
    BY <1>0, <1>3
  <2>2. First'
    BY <1>1, <1>2, <2>1, CallStep
  <2>3. Leaving' = Leaving \ {c}
    BY <1>3 DEF Leaving
  <2> QED BY <2>2, <2>3
<1>4. Holders' = Holders
  BY <1>1, SameRuns
<1>5. CASE Exit(c)
  <2>1. c.to \notin Active
    BY <1>5, Kinds DEF Exit, Courses, CallShape
  <2>2. First' /\ Leaving' = Leaving \ {c}
    <3>1. \A d, e \in Then(c) : /\ d = e /\ d.task = t /\ ~d.close /\ d.do # "exit"
                                /\ d.do = "enter" => status'[t] = d.to
      BY <1>0, <2>1, ThenOne
    <3>2. calls' = (calls \ {c}) \cup Then(c)
      BY <1>5 DEF Exit
    <3> HIDE DEF t
    <3> QED BY <1>3, <3>1, <3>2
  <2>3. Leaves(c)
    BY <1>4, <1>5, <2>2 DEF Exit, Leaves, Leaving
  <2> QED BY <1>0, <2>2, <2>3, BalanceStep
<1>6. CASE Chain(c)
  <2> DEFINE s == IF c.to = "pending" THEN "reviewing" ELSE "executing"
             n == [c EXCEPT !.to = s]
  <2>1. /\ n \in Call /\ ~n.close /\ n.task = t /\ n.to = s /\ s \in Status /\ c.do = "auto"
        /\ status' = [status EXCEPT ![t] = s] /\ calls' = (calls \ {c}) \cup Then(n)
        /\ running' = running
    BY <1>0, <1>6 DEF Chain, Call, Status
  <2>2. status'[t] = s
    BY <1>0, <2>1 DEF Types, TypeTasks
  <2> HIDE DEF n, s, t
  <2>3. \A d, e \in Then(n) : /\ d = e /\ d.task = t /\ ~d.close /\ d.do # "exit"
                              /\ d.do = "enter" => status'[t] = d.to
    BY <2>1, <2>2, ThenOne
  <2>4. First' /\ Leaving' = Leaving \ {c}
    BY <1>3, <2>1, <2>3
  <2>5. Even
    BY <1>4, <2>1, <2>4 DEF Even, Leaving
  <2> QED BY <1>0, <2>4, <2>5, BalanceStep
<1>7. CASE Correct(c) \/ Close(c)
  <2> DEFINE C == {}
  <2>1. calls' = (calls \ {c}) \cup C /\ c.do # "exit" /\ running' = running
    BY <1>7 DEF Correct, Close
  <2>2. \A d, e \in C : /\ d = e /\ d.task = t /\ ~d.close /\ d.do # "exit"
                        /\ d.do = "enter" => status'[t] = d.to
    OBVIOUS
  <2> HIDE DEF C, t
  <2>3. First' /\ Leaving' = Leaving \ {c}
    BY <1>3, <2>1, <2>2
  <2>4. Even
    BY <1>4, <2>1, <2>3 DEF Even, Leaving
  <2> QED BY <1>0, <2>3, <2>4, BalanceStep
<1> QED BY <1>5, <1>6, <1>7

LEMMA StartLedger ==
  ASSUME Types, Types', Courses, First, Balanced, NEW t \in Task, Look(t) \/ Start(t)
  PROVE  First' /\ Balanced'
<1>1. CASE Look(t)
  <2>1. UNCHANGED << status, episode, calls, sender, running, run >>
    BY <1>1 DEF Look, tasks
  <2>2. First' /\ Even
    BY <2>1 DEF First, Alone, Unasked, InStatus, FirstTurn, Busy, Matches, Even, Holders, Holds,
                Leaving
  <2> QED BY <2>2, BalanceStep DEF First
<1>2. CASE Start(t)
  <2> DEFINE c == [task |-> t, do |-> "exit", to |-> "executing", close |-> FALSE]
  <2>1. status[t] = "ready" /\ Launchless(t) /\ \A d \in calls : d.task # t
    BY <1>2 DEF Start, Courses, ReadyFresh
  <2>2. /\ status' = [status EXCEPT ![t] = "executing"] /\ calls' = calls \cup Then(c)
        /\ UNCHANGED << run, sender, running >>
    BY <1>2, <2>1, Kinds DEF Start, Move
  <2>3. c \in Call /\ ~c.close /\ c.task = t /\ c.to = "executing" /\ status'[t] = "executing"
    BY <2>2 DEF Call, Status, Types, TypeTasks
  <2> HIDE DEF c
  <2>4. \A d, e \in Then(c) : /\ d = e /\ d.task = t /\ ~d.close /\ d.to = "executing"
                              /\ d.do # "exit"
    BY <2>3, ThenOne
  <2>5. \A d \in calls' : \/ d \in calls /\ d.task # t
                          \/ /\ d.task = t /\ ~d.close
                             /\ d.do = "enter" => status'[t] = d.to
                             /\ \A e \in calls' : e.task = t => d = e
    BY <2>1, <2>2, <2>3, <2>4
  <2>6. /\ \A u \in Task : u # t => status'[u] = status[u]
        /\ \A k \in Key : k[1] # t => episode'[k] = episode[k]
    BY <1>2, <2>2 DEF Start, Begin, Types, TypeTasks
  <2>7. \A q \in Run : q[1] = t => ~Busy(q)'
    BY <2>1, <2>2 DEF Launchless, Busy
  <2>8. First'
    BY <2>2, <2>5, <2>6, <2>7, CallStep
  <2>9. Leaving' = Leaving
    BY <2>2, <2>4 DEF Leaving
  <2>10. Even
    BY <2>2, <2>9, SameRuns DEF Even
  <2> QED BY <2>8, <2>10, BalanceStep DEF First
<1> QED BY <1>1, <1>2

LEMMA EnterLedger ==
  ASSUME Types, Types', Courses, Listed, Stdins, First, Balanced, NEW c \in calls,
         EnterAsMessage(c) \/ EnterAsLaunch(c)
  PROVE  First' /\ Balanced'
<1> DEFINE t == c.task
<1>0. PICK k \in Key, r \in Run : k = EntryKey(c) /\ r = EntryRun(c) /\ run[r].pc = "none"
  BY EntryParts DEF EnterAsMessage, EnterAsLaunch
<1>1. /\ KeyOf(r) = k /\ run[r].pc = "none"
      /\ c \in Call /\ t \in Task /\ ~c.close /\ c.do = "enter" /\ c.to \in Active
      /\ k[1] = t /\ r[1] = t /\ k[2] = KindOf(c.to) /\ r[3] = episode[k]
  BY <1>0, EntryParts, CallTask
     DEF EnterAsMessage, EnterAsLaunch, EntryKey, EntryRun, First, Unasked, Courses, CallShape
<1>2. /\ stdin[k] = NoRun
      /\ registry[k] # NoRun => registry[k] \in Run /\ ~Alive(registry[k])
  BY <1>1, NoAgentYet
<1>3. EnterAsLaunch(c)
  BY <1>0, <1>2 DEF EnterAsMessage, EntryKey
<1>4. /\ calls' = calls \ {c}
      /\ UNCHANGED << status, episode, sender, running >>
  BY <1>1, <1>3 DEF EnterAsLaunch, Entered
<1>5. Leaving' = Leaving
  BY <1>1, <1>4 DEF Leaving
<1>6. Alone /\ run \in [Run -> AgentRun]
  BY DEF First, Types, TypeRun
<1>7. CASE UNCHANGED run
  <2>1. First'
    BY <1>4, <1>7
       DEF First, Alone, Unasked, InStatus, FirstTurn, Busy, Matches
  <2>2. Even
    BY <1>4, <1>5, <1>7, SameRuns DEF Even
  <2> QED BY <1>6, <2>1, <2>2, BalanceStep
<1>8. CASE run' = [q \in Run |->
             IF q = r THEN [NoAgent EXCEPT !.pc = "reserved"]
             ELSE IF q = registry[k] /\ Alive(q) THEN Cancelled(q) ELSE run[q]]
  <2>1. \A q \in Run : q # r => run'[q] = run[q]
    BY <1>2, <1>8, NoRunAssumption
  <2>2. run'[r] = [NoAgent EXCEPT !.pc = "reserved"]
    BY <1>1, <1>8
  <2>3. FirstTurn(r)' /\ ~run'[r].inbox /\ ~Holds(r)' /\ ~Holds(r)
    BY <1>1, <2>2 DEF NoAgent, FirstTurn, EndPC, Holds
  <2>4. \A q \in Run : Busy(q)' => q = r \/ (Busy(q) /\ q[1] # t)
    BY <1>1, <2>1 DEF First, Alone, Busy
  <2>5. Alone'
    BY <1>1, <1>4, <2>4 DEF First, Alone
  <2>6. Unasked'
    BY <1>4, <2>1, <2>3 DEF First, Unasked
  <2>7. InStatus'
    <3>1. status[t] = c.to
      BY <1>1 DEF First, InStatus
    <3>2. Matches(k)
      BY <1>1, <3>1, Kinds DEF Matches, StatusOf
    <3> QED BY <1>1, <1>4, <2>4, <3>2 DEF First, InStatus, Matches
  <2>8. First'
    <3>1. \A q \in Run : FirstTurn(q)'
      BY <2>1, <2>3 DEF First, FirstTurn, EndPC
    <3> QED BY <2>5, <2>6, <2>7, <3>1 DEF First
  <2>9. Even
    BY <1>4, <1>5, <2>1, <2>3, OnlyRun DEF Even, Holders
  <2> QED BY <1>6, <2>8, <2>9, BalanceStep
<1> QED BY <1>0, <1>3, <1>7, <1>8 DEF EnterAsLaunch, EntryKey, EntryRun

-----------------------------------------------------------------------------
(* The reconciler, and what the pristine state excludes.                   *)

LEMMA PruneLedger ==
  ASSUME Types, First, Balanced, Listed, NEW w \in Sweep, NEW k \in Key, Prune(w, k)
  PROVE  First' /\ Balanced'
<1>1. PICK r \in Run : r = registry[k] /\ KeyOf(r) = k /\ run[r].pc \in EntryPC
  BY DEF Prune, Prunable, Types, TypeMemory, Keyed, Listed
<1>2. run[r] \in AgentRun /\ run \in [Run -> AgentRun] /\ FirstTurn(r) /\ ~run[r].inbox
  BY <1>1, AgentFacts
<1>3. UNCHANGED << status, episode, calls, sender, running >>
  BY DEF Prune, tasks
<1>4. /\ \A q \in Run : q # r => run'[q] = run[q]
      /\ run'[r] = IF Alive(r) THEN Cancelled(r) ELSE run[r]
  BY <1>1, <1>2 DEF Prune, Cancel
<1>5. ASSUME Alive(r) PROVE run[r].turned /\ run[r].pc \in {"stream", "exited"}
  <2>1. run[r].pc \in {"stream", "exited"}
    BY <1>1, <1>2, <1>5 DEF FirstTurn, Alive, EntryPC
  <2>2. Matches(k)
    BY <1>1, <2>1 DEF First, InStatus, Busy
  <2> QED BY <1>1, <1>5, <2>1, <2>2 DEF Prune, Prunable
<1>6. FirstTurn(r)' /\ ~run'[r].inbox /\ (Busy(r)' => Busy(r)) /\ (Holds(r)' <=> Holds(r))
  <2>1. CASE Alive(r)
    BY <1>2, <1>4, <1>5, <2>1 DEF Cancelled, FirstTurn, EndPC, Busy, Holds, AgentRun
  <2>2. CASE ~Alive(r)
    BY <1>2, <1>4, <2>2 DEF FirstTurn, Busy, Holds
  <2> QED BY <2>1, <2>2
<1> QED BY <1>1, <1>3, <1>4, <1>6, EvenAgent


\* What leaves the bounds and the sweeps alone leaves the state pristine.
LEMMA PristineSteps ==
  ASSUME \/ Transition \/ Schedule \/ Chats
         \/ \E r \in Run : Launch(r) \/ LaunchLost(r) \/ Process(r) \/ Stream(r)
         \/ \E k \in Key : Send(k)
  PROVE  Pristine' => Pristine
<1>1. UNCHANGED << verdicts, messages, stops, sweep >>
  BY DEF Transition, Exit, Chain, Correct, Close, EnterAsMessage, EnterAsLaunch, Schedule, Look,
         Start, Chats, ChatOpens, ChatEnds, Launch, LaunchLost, Count, Attach, LaunchFails,
         Process, TurnEnds, ReadInbox, ProcessEnds, ExecutionComplete, Stream, FirstOutput,
         StreamEnds, Unregister, ForgetStdin, RemoveMark, Settle, HandleMoves, HandleIgnores,
         Send, Claim, Resume, others, bounds
<1> QED BY <1>1 DEF Pristine

LEMMA UserEndsIt == ASSUME Types, User PROVE ~Pristine'
<1>1. verdicts \in Nat /\ messages \in Nat /\ stops \in Nat
  BY BoundAssumption DEF Types, TypeSends
<1>2. \/ verdicts' = verdicts + 1 /\ UNCHANGED << messages, stops >>
      \/ messages' = messages + 1 /\ UNCHANGED << verdicts, stops >>
      \/ stops' = stops + 1 /\ UNCHANGED << verdicts, messages >>
  BY DEF User, StopTask, Verdict, StopAgent, Message
<1> QED BY <1>1, <1>2 DEF Pristine

\* The reconciler may prune before it counts, the other sweeps may not.
LEMMA SweepSteps ==
  ASSUME Types, NEW w \in Sweep, Recount(w) \/ Pruning(w), Pristine'
  PROVE  Pristine /\ \E k \in Key : Prune(w, k)
<1>0. sweep \in [Sweep -> SweepState]
  BY DEF Types, TypeSweeps
<1>1. sweep'[w].pc = "new"
  BY DEF Pristine
<1>2. ~List(w) /\ ~Store(w) /\ ~Unmark(w)
  BY <1>0, <1>1 DEF List, Store, Unmark, NoSweep, SweepState
<1>3. PICK k \in Key : Prune(w, k)
  BY <1>2 DEF Recount, Pruning
<1>4. w = "reconciler"
  BY <1>0, <1>1, <1>3 DEF Prune, SweepState
<1>5. UNCHANGED << verdicts, messages, stops, sweep >>
  BY <1>3, <1>4 DEF Prune, bounds
<1> QED BY <1>3, <1>5 DEF Pristine

LEMMA InitLedger == Init => LedgerInv
<1> SUFFICES ASSUME Init PROVE First /\ Balanced
  BY DEF LedgerInv
<1>1. First
  BY RunParts
     DEF Init, First, Alone, Unasked, InStatus, FirstTurn, EndPC, Busy, NoAgent
<1>2. Holders = {} /\ Leaving = {}
  BY DEF Init, Holders, Leaving, Holds, NoAgent
<1> QED BY <1>1, <1>2, FS_EmptySet DEF Init, Balanced

LEMMA NextLedger == Inv /\ Inv' /\ LedgerInv /\ [Next]_vars => LedgerInv'
<1> SUFFICES ASSUME Inv, Inv', LedgerInv, [Next]_vars, Pristine' PROVE First' /\ Balanced'
  BY DEF LedgerInv
<1> USE DEF Inv, LedgerInv
<1>1. CASE Transition
  BY <1>1, PristineSteps, TransitionLedger, EnterLedger DEF Transition
<1>2. CASE Schedule
  BY <1>2, PristineSteps, StartLedger DEF Schedule
<1>3. CASE User
  BY <1>3, UserEndsIt
<1>4. CASE Chats
  <2>1. UNCHANGED << status, episode, calls, sender, running, run >> /\ First /\ Balanced
    BY <1>4, PristineSteps DEF Chats, ChatOpens, ChatEnds, tasks
  <2> QED BY <2>1 DEF First, Alone, Unasked, InStatus, FirstTurn, Busy, Matches, Balanced,
                      Holders, Holds, Leaving
<1>5. CASE \E r \in Run : Launch(r) \/ LaunchLost(r) \/ Process(r) \/ Stream(r)
  BY <1>5, PristineSteps, LaunchLedger, ProcessLedger, StreamLedger
<1>6. CASE \E k \in Key : Send(k)
  BY <1>6, PristineSteps DEF Send, Claim, Resume, First, Unasked
<1>7. CASE \E w \in Sweep : Recount(w) \/ Pruning(w)
  BY <1>7, SweepSteps, PruneLedger
<1>8. CASE UNCHANGED vars
  BY <1>8 DEF vars, Pristine, First, Alone, Unasked, InStatus, FirstTurn, Busy, Matches, Balanced,
              Holders, Holds, Leaving
<1> QED BY <1>1, <1>2, <1>3, <1>4, <1>5, <1>6, <1>7, <1>8 DEF Next

\* As long as no message, verdict, stop or sweep has come, the count is the
\* slots that are held and the slots that are about to be given back: the end
\* of a turn, the end of the stream and the exit from the status together give
\* back each slot once, whatever the order in which the agents of different
\* tasks go on, and whichever launches fail.
THEOREM LedgerHolds == Spec => []SlotLedger
<1>1. LedgerInv => SlotLedger
  BY DEF LedgerInv, Pristine, SlotLedger, Balanced, Holders, Leaving
<1>2. Init /\ [][Next]_vars => []LedgerInv
  <2>1. Spec => []Inv
    BY Invariance
  <2> QED BY <2>1, InitLedger, NextLedger, PTL DEF Spec
<1> QED BY <1>1, <1>2, PTL DEF Spec
=============================================================================
