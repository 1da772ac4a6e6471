---------------------------- MODULE ExecutionSlots ----------------------------
(***************************************************************************)
(* The count of running agents.  It is one number in memory which the      *)
(* launch of an agent raises, and the end of a turn, the exit from a       *)
(* status and the handler of an ended stream lower or raise again; sweeps  *)
(* overwrite it with what the registry of agents says.  The agents keep    *)
(* their process between turns: an idle process has a mark, and has given  *)
(* its slot back until a message wakes it.                                 *)
(*                                                                         *)
(* External, and of one step each: the processes, users, and the tools the *)
(* agents call.  Left out: pause and rate limits (ReadyScheduler), errors  *)
(* of an entry before it asks for an agent (TaskTransitions), queued       *)
(* messages, merges, branch updates and ideation, the limits of projects,  *)
(* and the recovery that gives a task whose agent is gone a new one.  Two  *)
(* transitions that have the same left to do for one task count as one.    *)
(***************************************************************************)
EXTENDS Naturals, FiniteSets

CONSTANTS
  Task,
  Chat,          \* contexts that use no slot
  Sweep,         \* of reconciler, gc and query, the ones that take place
  Episodes,      \* bound: times a task is executed
  Reviews,       \* bound: times it is reviewed
  Max,           \* global_max_concurrent
  MaxVerdicts,   \* bound: complete_review
  MaxMessages,   \* bound: messages to agents
  MaxStops,      \* bound: stops of tasks and agents
  NoRun

Kind == {"execution", "review"}
Key  == Task \X Kind
Run  == Task \X Kind \X (1..Episodes)

ASSUME SweepAssumption == Sweep \subseteq {"reconciler", "gc", "query"}
ASSUME BoundAssumption ==
  /\ Max \in Nat \ {0} /\ Episodes \in Nat /\ Reviews \in 0..Episodes
  /\ MaxVerdicts \in Nat /\ MaxMessages \in Nat /\ MaxStops \in Nat
ASSUME NoRunAssumption == NoRun \notin Run
ASSUME ChatAssumption == Chat \cap Key = {}
ASSUME FiniteAssumption == IsFiniteSet(Task) /\ IsFiniteSet(Chat)

VARIABLES
  status,    \* the rows of tasks
  episode,   \* how often a task has entered the status of a kind
  calls,     \* transitions under way
  looked,    \* ready tasks for which a scheduler has seen room
  running,   \* ExecutionState.running_count
  idle,      \* ExecutionState.interactive_idle_slots
  registry,  \* RunningAgentRegistry
  stdin,     \* InteractiveProcessRegistry
  run,       \* agent runs, each with its process and its stream
  sender,    \* senders of messages
  sweep,     \* the sweeps
  chat,      \* chats
  verdicts, messages, stops

tasks    == << status, episode, calls >>
memory   == << idle, registry, stdin >>
others   == << looked, sweep, chat >>
bounds   == << verdicts, messages, stops >>
vars == << status, episode, calls, looked, running, idle, registry, stdin, run,
           sender, sweep, chat, verdicts, messages, stops >>

-----------------------------------------------------------------------------
Status == {"ready", "executing", "pending", "reviewing", "revision", "off"}

\* The status the agent of a kind works in.
StatusOf(kind) == IF kind = "execution" THEN "executing" ELSE "reviewing"
Active == { StatusOf(kind) : kind \in Kind }
KindOf(s) == CHOOSE kind \in Kind : StatusOf(kind) = s

KeyOf(r) == << r[1], r[2] >>

\* do: what the transition does next; close: it is of complete_review, which
\* closes the reviewer's stdin after it.
Call == [ task : Task, do : {"exit", "auto", "enter", "close", "correct"},
          to : Status, close : BOOLEAN ]

\* between: between_interactive_turns; turned: turns_finalized > 0; how: the
\* result of the stream; held: its execution_slot_held; added: the slot was
\* taken again after the stream (history).
AgentRun ==
  [ pc : {"none", "reserved", "counted", "lost", "stream", "exited",
          "unregistered", "closed", "settle", "handle", "over"},
    process : {"none", "working", "waiting", "dead"},
    inbox : BOOLEAN, between : BOOLEAN, turned : BOOLEAN, cancelled : BOOLEAN,
    how : {"none", "ok", "error", "cancelled"}, held : BOOLEAN, added : BOOLEAN ]
NoAgent ==
  [ pc |-> "none", process |-> "none", inbox |-> FALSE, between |-> FALSE,
    turned |-> FALSE, cancelled |-> FALSE, how |-> "none", held |-> FALSE,
    added |-> FALSE ]

\* new: the sweep has not counted yet; listed: the entries it has read; matched:
\* those it counts.
SweepState ==
  [ pc : {"new", "idle", "unmark", "list", "store"}, key : Key \cup {NoRun},
    listed : SUBSET (Key \cup Chat), matched : SUBSET (Key \cup Chat) ]
NoSweep == [ pc |-> "idle", key |-> NoRun, listed |-> {}, matched |-> {} ]
NotYet == [NoSweep EXCEPT !.pc = "new"]

TypeOK ==
  /\ status \in [Task -> Status]
  /\ episode \in [Key -> 0..Episodes]
  /\ calls \subseteq Call
  /\ looked \subseteq Task
  /\ running \in Nat
  /\ idle \subseteq Key
  /\ registry \in [Key -> Run \cup {NoRun}]
  /\ stdin \in [Key -> Run \cup {NoRun}]
  /\ \A k \in Key : {registry[k], stdin[k]} \subseteq {NoRun} \cup { r \in Run : KeyOf(r) = k }
  /\ run \in [Run -> AgentRun]
  /\ sender \in [Key -> {"idle", "claim", "increment"}]
  /\ sweep \in [Sweep -> SweepState]
  /\ chat \in [Chat -> {"none", "open", "over"}]
  /\ verdicts \in 0..MaxVerdicts /\ messages \in 0..MaxMessages /\ stops \in 0..MaxStops

Init ==
  /\ status = [t \in Task |-> "ready"]
  /\ episode = [k \in Key |-> 0]
  /\ calls = {} /\ looked = {}
  /\ running = 0 /\ idle = {}
  /\ registry = [k \in Key |-> NoRun] /\ stdin = [k \in Key |-> NoRun]
  /\ run = [r \in Run |-> NoAgent]
  /\ sender = [k \in Key |-> "idle"]
  /\ sweep = [w \in Sweep |-> NotYet]
  /\ chat = [c \in Chat |-> "none"]
  /\ verdicts = 0 /\ messages = 0 /\ stops = 0

-----------------------------------------------------------------------------
(* The count, the marks and the two registries                             *)

IncrementRunning == running' = running + 1
DecrementRunningUnchecked == running' = running - 1
\* decrement_running saturates.
DecrementRunning == running' = IF running = 0 THEN 0 ELSE running - 1
Minus(a, b) == IF a < b THEN 0 ELSE a - b

\* Entries are removed by a run that owns them, or by their key.
RemoveIfOwner(f, r) == [f EXCEPT ![KeyOf(r)] = IF @ = r THEN NoRun ELSE @]
RemoveKey(f, k) == [f EXCEPT ![k] = NoRun]

Put(r, pc) == run' = [run EXCEPT ![r].pc = pc]

\* Its cancellation token is cancelled and its process killed.
Cancelled(r) == [run[r] EXCEPT !.cancelled = TRUE, !.process = "dead"]
Cancel(r, cond) == run' = [run EXCEPT ![r] = IF cond THEN Cancelled(r) ELSE @]

Alive(r) == run[r].process \in {"working", "waiting"}
Matches(k) == status[k[1]] = StatusOf(k[2])

-----------------------------------------------------------------------------
(* Transitions of tasks                                                    *)

\* What a transition does after it has left the old status.
Then(c) ==
  { [c EXCEPT !.do = d] : d \in
      IF c.to \in {"pending", "revision"} THEN {"auto"}
      ELSE IF c.to \in Active THEN {"enter"}
      ELSE IF c.close THEN {"close"} ELSE {} }

\* transition_task: the row is written, then on_exit of an active status.
Move(t, s, close) ==
  LET c == [task |-> t, do |-> "exit", to |-> s, close |-> close] IN
  /\ status' = [status EXCEPT ![t] = s]
  /\ calls' = calls \cup (IF status[t] \in Active THEN {c} ELSE Then(c))

\* The status of a kind begins anew.
Begin(t, s) == episode' = [episode EXCEPT ![<< t, KindOf(s) >>] = @ + 1]
MayBegin(t, s) ==
  episode[<< t, KindOf(s) >>] < (IF s = "reviewing" THEN Reviews ELSE Episodes)

\* A pass of some scheduler asks for room, and moves the task in a later step.
Room == running < Max
Look(t) ==
  /\ status[t] = "ready" /\ t \notin looked
  /\ Room
  /\ looked' = looked \cup {t}
  /\ UNCHANGED << tasks, running, memory, run, sender, sweep, chat, bounds >>

Start(t) ==
  /\ t \in looked /\ MayBegin(t, "executing")
  /\ looked' = looked \ {t}
  /\ Move(t, "executing", FALSE)
  /\ Begin(t, "executing")
  /\ UNCHANGED << running, memory, run, sender, sweep, chat, bounds >>

\* TransitionHandler::on_exit.
Exit(c) ==
  /\ c \in calls /\ c.do = "exit"
  /\ DecrementRunning
  /\ calls' = (calls \ {c}) \cup Then(c)
  /\ UNCHANGED << status, episode, memory, run, sender, others, bounds >>

\* check_auto_transition: a review after an execution, or another execution.
Chain(c) ==
  LET s == IF c.to = "pending" THEN "reviewing" ELSE "executing" IN
  /\ c \in calls /\ c.do = "auto" /\ MayBegin(c.task, s)
  /\ status' = [status EXCEPT ![c.task] = s]
  /\ Begin(c.task, s)
  /\ calls' = (calls \ {c}) \cup Then([c EXCEPT !.to = s])
  /\ UNCHANGED << running, memory, run, sender, others, bounds >>

\* ExecutionBlocked: a correction, which does not call on_exit.
Correct(c) ==
  /\ c \in calls /\ c.do = "correct"
  /\ status' = [status EXCEPT ![c.task] = "off"]
  /\ calls' = calls \ {c}
  /\ UNCHANGED << episode, running, memory, run, sender, others, bounds >>

\* complete_review removes the reviewer's stdin, by its key.
Close(c) ==
  /\ c \in calls /\ c.do = "close"
  /\ stdin' = RemoveKey(stdin, << c.task, "review" >>)
  /\ calls' = calls \ {c}
  /\ UNCHANGED << status, episode, running, idle, registry, run, sender,
                  others, bounds >>

-----------------------------------------------------------------------------
(* on_enter of an active status: send_message to the agent of the task     *)

Entered(c) ==
  (calls \ {c}) \cup (IF c.close THEN { [c EXCEPT !.do = "close"] } ELSE {})

\* An entry of the registry a send removes: its process has died, or its run
\* is over (a turn completed it, and no message has set it running again).
Removable(r) ==
  r # NoRun => run[r].process = "dead" \/ (run[r].turned /\ run[r].pc = "stream")

\* Gate 1: a process that reads its stdin gets the message.
EnterAsMessage(c) ==
  LET k == << c.task, KindOf(c.to) >> IN
  /\ c \in calls /\ c.do = "enter" /\ stdin[k] # NoRun
  /\ Alive(stdin[k]) /\ sender[k] = "idle"
  /\ run' = [run EXCEPT ![stdin[k]].inbox = TRUE]
  /\ sender' = [sender EXCEPT ![k] = "claim"]
  /\ calls' = Entered(c)
  /\ UNCHANGED << status, episode, running, memory, others, bounds >>

\* Gate 2: the key is reserved for a new run, or the message is queued behind
\* another run.  A stdin nobody reads is removed before.
EnterAsLaunch(c) ==
  LET k == << c.task, KindOf(c.to) >>
      r == << c.task, KindOf(c.to), episode[k] >>
      old == registry[k] IN
  /\ c \in calls /\ c.do = "enter"
  /\ stdin[k] # NoRun => ~Alive(stdin[k])
  /\ stdin' = RemoveKey(stdin, k)
  /\ calls' = Entered(c)
  /\ \/ /\ Removable(old)
        /\ registry' = [registry EXCEPT ![k] = r]
        /\ run' = [q \in Run |->
             IF q = r THEN [NoAgent EXCEPT !.pc = "reserved"]
             ELSE IF q = old /\ Alive(q) THEN Cancelled(q) ELSE run[q]]
     \/ /\ old # NoRun /\ run[old].process # "dead"
        /\ UNCHANGED << registry, run >>
  /\ UNCHANGED << status, episode, running, idle, sender, others, bounds >>

\* increment_running, before the process is spawned.
Count(r) ==
  /\ run[r].pc = "reserved"
  /\ IncrementRunning
  /\ Put(r, "counted")
  /\ UNCHANGED << tasks, memory, sender, others, bounds >>

\* The process is spawned with its stdin, and takes over the reservation.
Attach(r) ==
  /\ run[r].pc = "counted" /\ registry[KeyOf(r)] = r
  /\ stdin' = [stdin EXCEPT ![KeyOf(r)] = r]
  /\ run' = [run EXCEPT ![r].pc = "stream", ![r].process = "working"]
  /\ UNCHANGED << tasks, running, idle, registry, sender, others, bounds >>

\* A failed launch of an execution blocks the task; that of a reviewer is
\* recorded.
Blocked(r) ==
  IF r[2] # "execution" THEN calls
  ELSE calls \cup {[ task |-> r[1], do |-> "correct", to |-> "off", close |-> FALSE ]}

\* cleanup_and_err!, as when the reservation was lost.
GivesBack(r) == run[r].pc = "counted"
LaunchFails(r) ==
  /\ run[r].pc \in {"reserved", "counted"}
  /\ registry' = RemoveIfOwner(registry, r)
  /\ IF GivesBack(r) THEN DecrementRunning ELSE UNCHANGED running
  /\ Put(r, "over")
  /\ calls' = Blocked(r)
  /\ UNCHANGED << status, episode, idle, stdin, sender, others, bounds >>

\* An error that returns past the cleanup: the reservation stays until its
\* lease is over, the count until a sweep.
LaunchLost(r) ==
  /\ run[r].pc = "counted"
  /\ Put(r, "lost")
  /\ calls' = Blocked(r)
  /\ UNCHANGED << status, episode, running, memory, sender, others, bounds >>

-----------------------------------------------------------------------------
(* The process and its stream                                              *)

Streams(r) == run[r].pc = "stream"

\* The stream reads the end of a turn: decrement_and_mark_idle.
TurnEnds(r) ==
  /\ Streams(r) /\ run[r].process = "working"
  /\ run' = [run EXCEPT ![r].process = "waiting", ![r].between = TRUE,
                        ![r].turned = TRUE]
  /\ idle' = idle \cup {KeyOf(r)}
  /\ DecrementRunning
  /\ UNCHANGED << tasks, registry, stdin, sender, others, bounds >>

ReadInbox(r) ==
  /\ Streams(r) /\ run[r].process = "waiting" /\ run[r].inbox
  /\ run' = [run EXCEPT ![r].process = "working", ![r].inbox = FALSE]
  /\ UNCHANGED << tasks, running, memory, sender, others, bounds >>

\* The stream reads the first output of a turn.
FirstOutput(r) ==
  /\ Streams(r) /\ run[r].process = "working" /\ run[r].between
  /\ run' = [run EXCEPT ![r].between = FALSE]
  /\ UNCHANGED << tasks, running, memory, sender, others, bounds >>

\* It exits, crashes, or is killed by a timeout of the stream.
ProcessEnds(r) ==
  /\ Streams(r) /\ Alive(r)
  /\ run' = [run EXCEPT ![r].process = "dead"]
  /\ UNCHANGED << tasks, running, memory, sender, others, bounds >>

\* execution_complete closes the stdin of the worker.
ExecutionComplete(r) ==
  /\ Streams(r) /\ run[r].process = "working" /\ r[2] = "execution"
  /\ stdin[KeyOf(r)] # NoRun
  /\ stdin' = RemoveKey(stdin, KeyOf(r))
  /\ UNCHANGED << tasks, running, idle, registry, run, sender, others, bounds >>

\* A message to an agent: it is written, then the slot of an idle agent is
\* claimed, then counted.
Message(k) ==
  /\ messages < MaxMessages /\ stdin[k] # NoRun
  /\ Alive(stdin[k]) /\ sender[k] = "idle"
  /\ messages' = messages + 1
  /\ run' = [run EXCEPT ![stdin[k]].inbox = TRUE]
  /\ sender' = [sender EXCEPT ![k] = "claim"]
  /\ UNCHANGED << tasks, running, memory, others, verdicts, stops >>

Claim(k) ==
  /\ sender[k] = "claim"
  /\ idle' = idle \ {k}
  /\ sender' = [sender EXCEPT ![k] = IF k \in idle THEN "increment" ELSE "idle"]
  /\ UNCHANGED << tasks, running, registry, stdin, run, others, bounds >>

Resume(k) ==
  /\ sender[k] = "increment"
  /\ IncrementRunning
  /\ sender' = [sender EXCEPT ![k] = "idle"]
  /\ UNCHANGED << tasks, memory, run, others, bounds >>

-----------------------------------------------------------------------------
(* The end of a run                                                        *)

\* A stream between turns ends silently, whatever ended it.
Results(r) ==
  IF run[r].between THEN {"ok"}
  ELSE IF run[r].cancelled THEN {"cancelled", "error"} ELSE {"ok", "error"}

StreamEnds(r) ==
  /\ Streams(r) /\ run[r].process = "dead"
  /\ \E how \in Results(r) :
       run' = [run EXCEPT ![r].pc = "exited", ![r].how = how,
                          ![r].held = ~run[r].between]
  /\ UNCHANGED << tasks, running, memory, sender, others, bounds >>

Unregister(r) ==
  /\ run[r].pc = "exited"
  /\ registry' = RemoveIfOwner(registry, r)
  /\ Put(r, "unregistered")
  /\ UNCHANGED << tasks, running, idle, stdin, sender, others, bounds >>

ForgetStdin(r) ==
  /\ run[r].pc = "unregistered"
  /\ stdin' = RemoveIfOwner(stdin, r)
  /\ Put(r, "closed")
  /\ UNCHANGED << tasks, running, idle, registry, sender, others, bounds >>

RemoveMarkIfOwner(r) ==
  /\ run[r].pc = "closed"
  /\ idle' = IF registry[KeyOf(r)] = r THEN idle \ {KeyOf(r)} ELSE idle
  /\ Put(r, "settle")
  /\ UNCHANGED << tasks, running, registry, stdin, sender, others, bounds >>

\* remove_interactive_slot goes by the key alone.
RemoveMark(r) ==
  /\ run[r].pc = "closed"
  /\ idle' = idle \ {KeyOf(r)}
  /\ Put(r, "settle")
  /\ UNCHANGED << tasks, running, registry, stdin, sender, others, bounds >>

TakesAgainUnasked(r) == run[r].how = "ok" /\ (r[2] = "review" => Matches(KeyOf(r)))

\* The slot is taken again, so that on_exit may give it back: after a silent
\* exit, unless a reviewer's task has left its status; and after a stream that
\* was cancelled in a later turn than its first.
TakesAgain(r) ==
  \/ run[r].how = "ok" /\ ~run[r].held /\ (r[2] = "review" => Matches(KeyOf(r)))
  \/ run[r].how = "cancelled" /\ run[r].turned

Settle(r) ==
  LET resumed == run[r].how = "cancelled" /\ run[r].turned IN
  /\ run[r].pc = "settle"
  /\ IF TakesAgain(r) THEN IncrementRunning ELSE UNCHANGED running
  /\ run' = [run EXCEPT ![r].pc = "handle", ![r].added = TakesAgain(r),
                        ![r].held = @ /\ ~resumed,
                        ![r].how = IF resumed THEN "ok" ELSE @]
  /\ UNCHANGED << tasks, memory, sender, others, bounds >>

\* handle_stream_success and handle_stream_error: the task moves on if it is
\* still in the status, and the episode, of the run.
Current(r) == Matches(KeyOf(r)) /\ (r[2] = "execution" => r[3] = episode[KeyOf(r)])
Outcomes(r) == IF r[2] = "execution" THEN {"pending", "off"} ELSE {"off"}

HandleMoves(r) ==
  /\ run[r].pc = "handle" /\ run[r].how # "cancelled" /\ Current(r)
  /\ \E s \in Outcomes(r) : /\ s = "pending" => MayBegin(r[1], "reviewing")
                          /\ Move(r[1], s, FALSE)
  /\ Put(r, "over")
  /\ UNCHANGED << episode, running, memory, sender, others, bounds >>

\* IgnoreAlreadyTransitioned, and the other ends that move nothing.
Negates(r) == r[2] = "review" /\ run[r].how = "ok" /\ ~run[r].held
HandleIgnores(r) ==
  /\ run[r].pc = "handle" /\ (run[r].how = "cancelled" \/ ~Current(r))
  /\ IF Negates(r) THEN DecrementRunning ELSE UNCHANGED running
  /\ Put(r, "over")
  /\ UNCHANGED << tasks, memory, sender, others, bounds >>

-----------------------------------------------------------------------------
(* Tools and users                                                         *)

\* The reviewer's complete_review: it is unregistered, then its task moves.
Verdict(t, s) ==
  /\ verdicts < MaxVerdicts /\ status[t] = "reviewing"
  /\ \E r \in Run : /\ KeyOf(r) = << t, "review" >>
                    /\ Streams(r) /\ run[r].process = "working"
  /\ s = "revision" => MayBegin(t, "executing")
  /\ verdicts' = verdicts + 1
  /\ registry' = RemoveKey(registry, << t, "review" >>)
  /\ Move(t, s, TRUE)
  /\ UNCHANGED << episode, running, idle, stdin, run, sender, others, messages, stops >>

\* stop_task leaves the agent to the sweeps.
StopTask(t) ==
  /\ stops < MaxStops /\ status[t] \in Active
  /\ stops' = stops + 1
  /\ Move(t, "off", FALSE)
  /\ UNCHANGED << episode, running, memory, run, sender, others, verdicts, messages >>

StopAgent(k) ==
  /\ stops < MaxStops /\ registry[k] # NoRun
  /\ stops' = stops + 1
  /\ stdin' = RemoveKey(stdin, k)
  /\ registry' = RemoveKey(registry, k)
  /\ Cancel(registry[k], run[registry[k]].process # "none")
  /\ UNCHANGED << tasks, running, idle, sender, others, verdicts, messages >>

-----------------------------------------------------------------------------
(* Sweeps, and the chats one of them counts                                *)

ChatOpens(x) ==
  /\ chat[x] = "none"
  /\ chat' = [chat EXCEPT ![x] = "open"]
  /\ UNCHANGED << tasks, looked, running, memory, run, sender, sweep, bounds >>

ChatEnds(x) ==
  /\ chat[x] = "open"
  /\ chat' = [chat EXCEPT ![x] = "over"]
  /\ UNCHANGED << tasks, looked, running, memory, run, sender, sweep, bounds >>

\* PruneEngine: the entries of live processes that read their stdin are kept,
\* and those of launches whose lease is renewed.
Prunable(k) ==
  LET r == registry[k] IN
  /\ r # NoRun
  /\ stdin[k] # NoRun => ~Alive(r)
  /\ \/ run[r].pc = "lost"
     \/ /\ run[r].pc \notin {"reserved", "counted"}
        /\ ~Alive(r) \/ run[r].turned \/ ~Matches(k)

\* A live process is stopped.  All but the reconciler remove the mark next.
Prune(w, k) ==
  /\ sweep[w].pc \in {"new", "idle", "list"} /\ Prunable(k)
  /\ stdin' = RemoveKey(stdin, k)
  /\ registry' = RemoveKey(registry, k)
  /\ Cancel(registry[k], Alive(registry[k]))
  /\ sweep' = IF w = "reconciler" THEN sweep
              ELSE [sweep EXCEPT ![w].pc = "unmark", ![w].key = k]
  /\ UNCHANGED << tasks, looked, running, idle, sender, chat, bounds >>

Unmark(w) ==
  /\ sweep[w].pc = "unmark"
  /\ idle' = idle \ {sweep[w].key}
  /\ sweep' = [sweep EXCEPT ![w].pc = "list", ![w].key = NoRun]
  /\ UNCHANGED << tasks, looked, running, registry, stdin, run, sender, chat, bounds >>

MayListPruned(w) == sweep[w].pc = "list"
SubtractedNothing(w) == {}

\* list_all.  The gc counts again only after it has pruned.
Entries == { k \in Key : registry[k] # NoRun } \cup { x \in Chat : chat[x] = "open" }
Matched(w) == IF w = "reconciler" THEN Entries ELSE { k \in Entries \ Chat : Matches(k) }
MayList(w) == sweep[w].pc = "list" \/ (sweep[w].pc \in {"new", "idle"} /\ w # "gc")

List(w) ==
  /\ MayList(w)
  /\ sweep' = [sweep EXCEPT ![w] = [ pc |-> "store", key |-> NoRun,
                                     listed |-> Entries, matched |-> Matched(w) ]]
  /\ UNCHANGED << tasks, looked, running, memory, run, sender, chat, bounds >>

\* The reconciler and the gc subtract the entries that are marked now, the
\* status query all marks.
Subtracted(w) == IF w = "query" THEN idle ELSE sweep[w].listed \cap idle

Store(w) ==
  /\ sweep[w].pc = "store"
  /\ running' = Minus(Cardinality(sweep[w].matched), Cardinality(Subtracted(w)))
  /\ sweep' = [sweep EXCEPT ![w] = NoSweep]
  /\ UNCHANGED << tasks, looked, memory, run, sender, chat, bounds >>

-----------------------------------------------------------------------------
Transition == \E c \in calls :
  Exit(c) \/ Chain(c) \/ Correct(c) \/ Close(c) \/ EnterAsMessage(c) \/ EnterAsLaunch(c)
Schedule == \E t \in Task : Look(t) \/ Start(t)
Launch(r) == Count(r) \/ Attach(r) \/ LaunchFails(r)
Process(r) == TurnEnds(r) \/ ReadInbox(r) \/ ProcessEnds(r) \/ ExecutionComplete(r)
Stream(r) ==
  \/ FirstOutput(r) \/ StreamEnds(r) \/ Unregister(r) \/ ForgetStdin(r)
  \/ RemoveMark(r) \/ Settle(r) \/ HandleMoves(r) \/ HandleIgnores(r)
Send(k) == Claim(k) \/ Resume(k)
User ==
  \/ \E t \in Task : StopTask(t) \/ Verdict(t, "off") \/ Verdict(t, "revision")
  \/ \E k \in Key : StopAgent(k) \/ Message(k)
Chats == \E x \in Chat : ChatOpens(x) \/ ChatEnds(x)
Recount(w) == List(w) \/ Store(w)
Pruning(w) == Unmark(w) \/ \E k \in Key : Prune(w, k)

Next ==
  \/ Transition \/ Schedule \/ User \/ Chats
  \/ \E r \in Run : Launch(r) \/ LaunchLost(r) \/ Process(r) \/ Stream(r)
  \/ \E k \in Key : Send(k)
  \/ \E w \in Sweep : Recount(w) \/ Pruning(w)

Spec == Init /\ [][Next]_vars

\* The reconciler runs every 30 seconds.
Reconciles ==
  "reconciler" \in Sweep => WF_vars(Recount("reconciler")) /\ SF_vars(Pruning("reconciler"))
SweptSpec == Spec /\ Reconciles

\* What the program starts it goes on with, and schedulers look again and again.
\* Within the bounds each of these ends, so that to be fair to all of a kind is
\* to be fair to each.
LiveSpec ==
  /\ SweptSpec
  /\ WF_vars(Transition) /\ WF_vars(Schedule)
  /\ WF_vars(\E r \in Run : Launch(r) \/ Stream(r))
  /\ WF_vars(\E k \in Key : Send(k))

-----------------------------------------------------------------------------
(* What holds                                                              *)

\* What is kept of an agent belongs to a run that is still there to remove it:
\* a mark of an idle agent to a stream that has yet to remove the mark, an
\* entry of the registry to a launch or a stream, or to a launch whose lease a
\* sweep will see expire, a stdin to a stream.
SlotsAreLive ==
  /\ \A k \in idle : \E r \in Run :
       KeyOf(r) = k /\ run[r].pc \in {"stream", "exited", "unregistered", "closed"}
  /\ \A k \in Key : registry[k] # NoRun =>
       run[registry[k]].pc \in {"reserved", "counted", "lost", "stream", "exited"}
  /\ \A k \in Key : stdin[k] # NoRun =>
       run[stdin[k]].pc \in {"stream", "exited", "unregistered"}

\* Before any message, verdict, stop and sweep, every slot is given back once:
\* the count is the runs that hold a slot, those that leaked theirs included,
\* and the tasks that have left their status and not yet given the slot back.
Holds(r) ==
  \/ run[r].pc \in {"counted", "lost"}
  \/ run[r].pc \in {"stream", "exited", "unregistered", "closed", "settle"} /\ ~run[r].turned
  \/ run[r].pc = "handle" /\ (run[r].held \/ run[r].added)
SlotLedger ==
  messages + verdicts + stops = 0 /\ (\A w \in Sweep : sweep[w].pc = "new") =>
    running = Cardinality({ r \in Run : Holds(r) })
              + Cardinality({ c \in calls : c.do = "exit" })

\* Nothing is under way: every agent that is there is registered, its task is
\* in its status, and it works or is idle and marked; no chat is open.
Working == { r \in Run : run[r].process = "working" }
Calm ==
  /\ calls = {} /\ \A k \in Key : sender[k] = "idle" /\ \A x \in Chat : chat[x] # "open"
  /\ \A r \in Run :
       /\ run[r].pc \in {"none", "lost", "stream", "over"}
       /\ run[r].pc = "stream" =>
            /\ Alive(r) /\ registry[KeyOf(r)] = r /\ Matches(KeyOf(r))
            /\ run[r].process = "waiting" <=> KeyOf(r) \in idle

\* However wrong the count has become, the reconciler makes it right once
\* agents are left to work or to wait: no leak is for good.
CountSettles == <>[]Calm => <>[](running = Cardinality(Working))

\* If there are times when no agent works and no chat is open, every task is
\* started, whatever became of the slots of the agents before it.
AllRest == Working = {} /\ \A x \in Chat : chat[x] # "open"
ReadyStarts == []<>AllRest => <>(\A t \in Task : status[t] # "ready")

=============================================================================
