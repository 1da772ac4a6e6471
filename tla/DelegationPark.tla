---------------------------- MODULE DelegationPark ----------------------------
(***************************************************************************)
(* Durable parks.  An agent that has delegated jobs parks its conversation *)
(* and ends its turn; the park watches the jobs and wakes the conversation *)
(* when its policy is met, a job fails or its deadline passes.  A job is   *)
(* the conversation of a delegate, which may delegate and park in turn.    *)
(* The callers of one park: the agent that arms it, a notifier for every   *)
(* settled job, the sweep that reconciles parks at startup and from then    *)
(* on, the user who writes to the conversation or stops its agent.  Each   *)
(* step below is one transaction or one read; any of them may fail, and    *)
(* the application may stop between any two.                               *)
(***************************************************************************)
EXTENDS Naturals, FiniteSets

CONSTANTS
  Conv,        \* conversations
  Root,        \* the conversation nobody delegated
  Delegators,  \* Delegators[c]: the conversations that may delegate c
  Park,        \* parks; every call of arm makes one
  Sweep,       \* the sweep, a worker beside the notifiers of the jobs
  RetryMax,    \* park_wake_retry_max
  Ending,      \* how turns end
  Written,     \* conversations the user writes to
  Policy,      \* pairs of wake_policy and wake_on_failure
  MaxRuns,     \* bound on the runs of a conversation
  MaxFaults,   \* bound on failed steps and stops of the application
  Nil

Job == Conv \ {Root}
Worker == Job \cup {Sweep}

ASSUME ConvAssumption ==
  Root \in Conv /\ Delegators \in [Job -> SUBSET Conv] /\ Written \subseteq Conv
ASSUME EndingAssumption == Ending \subseteq {"completed", "failed", "cancelled"}
ASSUME PolicyAssumption == Policy \subseteq {"all", "any"} \X BOOLEAN
ASSUME NameAssumption == Nil \notin Conv \cup Park /\ Sweep \notin Conv
ASSUME BoundAssumption == RetryMax \in Nat \ {0} /\ MaxRuns \in Nat \ {0} /\ MaxFaults \in Nat

VARIABLES
  run,       \* the latest run of each conversation
  ghost,     \* conversations whose run died with the application
  job,       \* the registry of delegated jobs, in memory
  settling,  \* the runs judged by settlements, until their commit
  park,      \* rows of delegation_parks with their jobs
  newer,     \* pairs of parks, the one updated last first
  inbox,     \* wakes a conversation has been sent and has not begun
  sent,      \* how often each park has sent its wake
  worker,
  user,      \* what the user is doing to a conversation
  faults

chat  == << run, ghost, inbox >>
rows  == << park, newer >>
calls == << worker, user, settling >>
vars  == << run, ghost, job, settling, park, newer, inbox, sent, worker, user, faults >>

-----------------------------------------------------------------------------
Terminal == { "completed", "failed", "cancelled" }
Live     == { "armed", "waking" }
Resolved == { "woken", "disarmed", "superseded", "expired", "failed" }

\* of: the park whose wake began the run
Run == [ n : 0..MaxRuns, st : {"none", "running"} \cup Terminal, of : Park \cup {Nil} ]
EndedRun == { r \in Run : r.st \in Terminal }
NoRun == [ n |-> 0, st |-> "none", of |-> Nil ]

Snapshot == [ from : Conv \cup {Nil}, by : 0..MaxRuns, st : {"none", "running", "lost"} \cup Terminal ]

\* jobs[c]: whether the park watches c, and its settled_status; run: the
\* parent run; born: the latest run when the park was made; claimed: the
\* latest run when its wake was claimed; old: not updated for longer than
\* a dispatcher takes.
Row == [ state : {"asked", "clear"} \cup Live \cup Resolved,
         conv : Conv, run : 0..MaxRuns, born : 0..MaxRuns, claimed : 0..MaxRuns,
         policy : {"all", "any"} \X BOOLEAN,
         jobs : [Job -> {"out", "open"} \cup Terminal],
         tries : 0..RetryMax, due : BOOLEAN, old : BOOLEAN ]
Free == [ state |-> "free" ]

\* A worker works through todo, pairs of a park and the jobs to look at;
\* as: the state its wake leads to.
Step == { "list", "next", "check", "record", "decide", "claim", "look",
          "get", "send", "count", "settle", "stalled", "reset" }
Work == [ pc : Step \cup {"idle"}, todo : SUBSET (Park \X SUBSET Job),
          stage : {"armed", "stalled"}, park : Park \cup {Nil}, left : SUBSET Job,
          job : Job \cup {Nil}, st : Terminal \cup {"none"}, as : Resolved ]
Idle == [ pc |-> "idle", todo |-> {}, stage |-> "armed", park |-> Nil, left |-> {},
          job |-> Nil, st |-> "none", as |-> "woken" ]

Request == [ does : {"none", "sends", "stops"}, n : 0..MaxRuns ]
NoRequest == [ does |-> "none", n |-> 0 ]

TypeOK ==
  /\ run \in [Conv -> Run] /\ ghost \subseteq Conv
  /\ job \in [Job -> Snapshot] /\ settling \in [Job -> EndedRun \cup {Nil}]
  /\ park \in [Park -> Row \cup {Free}]
  /\ newer \subseteq Park \X Park
  /\ inbox \in [Conv -> SUBSET Park] /\ sent \in [Park -> Nat]
  /\ worker \in [Worker -> Work]
  /\ user \in [Conv -> Request]
  /\ faults \in 0..MaxFaults

Init ==
  /\ run = [c \in Conv |-> IF c = Root THEN [NoRun EXCEPT !.n = 1, !.st = "running"]
                                       ELSE NoRun]
  /\ ghost = {}
  /\ job = [c \in Job |-> [from |-> Nil, by |-> 0, st |-> "none"]]
  /\ settling = [c \in Job |-> Nil]
  /\ park = [p \in Park |-> Free]
  /\ newer = {}
  /\ inbox = [c \in Conv |-> {}]
  /\ sent = [p \in Park |-> 0]
  /\ worker = [w \in Worker |-> Idle]
  /\ user = [c \in Conv |-> NoRequest]
  /\ faults = 0

-----------------------------------------------------------------------------
(* Parks.                                                                  *)

In(p, states) == park[p].state \in states
Of(c, states) == { p \in Park : In(p, states) /\ park[p].conv = c }
Watched(p) == { c \in Job : park[p].jobs[c] # "out" }
Unsettled(p) == { c \in Job : park[p].jobs[c] = "open" }
Failed(p) == { c \in Job : park[p].jobs[c] \in {"failed", "cancelled"} }

\* wake_decision
Decides(p) ==
  \/ park[p].policy[2] /\ Failed(p) # {}
  \/ park[p].policy[1] = "all" /\ Unsettled(p) = {}
  \/ park[p].policy[1] = "any" /\ Unsettled(p) # Watched(p)

\* A write of a row sets updated_at.  (Rows that are superseded or disarmed
\* are not put first: their order is never asked for again.)
Put(p, row) ==
  /\ park' = [park EXCEPT ![p] = [row EXCEPT !.old = FALSE]]
  /\ newer' = { e \in newer : p \notin {e[1], e[2]} } \cup ({p} \X (Park \ {p}))

\* What the parks in P become, in one statement.
Moved(P, state) ==
  [p \in Park |-> IF p \in P THEN [park[p] EXCEPT !.state = state, !.old = FALSE]
                             ELSE park[p]]

\* supersede_for_conversation, disarm_armed_for_parent_run
Superseded(c) == Of(c, Live)
Disarmed(c, n) == { p \in Of(c, {"armed"}) : park[p].run = n }

-----------------------------------------------------------------------------
(* Turns of the agents.                                                    *)

Fault == faults < MaxFaults /\ faults' = faults + 1

Active(c) == run[c].st = "running" /\ c \notin ghost

\* A run of d starts the job c.
Delegate(c, d) ==
  /\ Active(d)
  /\ job[c].from = Nil
  /\ job' = [job EXCEPT ![c] = [from |-> d, by |-> run[d].n, st |-> "running"]]
  /\ run' = [run EXCEPT ![c] = [NoRun EXCEPT !.n = 1, !.st = "running"]]
  /\ UNCHANGED << ghost, rows, inbox, sent, calls, faults >>

\* A turn completes when its tool calls have returned; it may fail at once.
Ends(c, st) ==
  /\ Active(c)
  /\ st = "completed" => Of(c, {"asked", "clear"}) = {}
  /\ st = "cancelled" => c # Root
  /\ run' = [run EXCEPT ![c].st = st]
  /\ UNCHANGED << ghost, job, inbox, sent, rows, calls, faults >>

\* The queue of the conversation starts its next turn.
Resume(c, p) ==
  /\ p \in inbox[c]
  /\ run[c].st # "running"
  /\ run[c].n < MaxRuns
  /\ run' = [run EXCEPT ![c] = [n |-> @.n + 1, st |-> "running", of |-> p]]
  /\ inbox' = [inbox EXCEPT ![c] = @ \ {p}]
  /\ UNCHANGED << ghost, job, sent, rows, calls, faults >>

-----------------------------------------------------------------------------
(* Arming: the jobs are read, older parks superseded, the row inserted.    *)

\* A run may watch the jobs it started and those of the park that woke it.
Owned(c, d) ==
  \/ job[d].by = run[c].n /\ job[d].from = c
  \/ /\ run[c].of # Nil
     /\ In(run[c].of, {"waking", "woken", "expired"})
     /\ d \in Watched(run[c].of)

Ask(p, c, jobs, policy) ==
  /\ park[p] = Free
  /\ Active(c)
  /\ jobs # {}
  /\ \A d \in jobs : job[d].st = "running" /\ Owned(c, d)
  /\ park' = [park EXCEPT ![p] =
       [state |-> "asked", conv |-> c, run |-> run[c].n, born |-> run[c].n, claimed |-> 0,
        policy |-> policy, jobs |-> [d \in Job |-> IF d \in jobs THEN "open" ELSE "out"],
        tries |-> 0, due |-> FALSE, old |-> FALSE]]
  /\ UNCHANGED << chat, job, sent, newer, calls, faults >>

Clear(p) ==
  /\ In(p, {"asked"})
  /\ park' = [Moved(Superseded(park[p].conv), "superseded") EXCEPT ![p].state = "clear"]
  /\ UNCHANGED << chat, job, sent, newer, calls, faults >>

Arm(p) ==
  /\ In(p, {"clear"})
  /\ Put(p, [park[p] EXCEPT !.state = "armed"])
  /\ UNCHANGED << chat, job, sent, calls, faults >>

-----------------------------------------------------------------------------
(* Settlement of a job from the run of its conversation.                   *)

\* The newest park that may still block, as a set of at most one.
Blocking(c) ==
  LET may == Of(c, {"armed", "waking", "woken"})
  IN { p \in may : \A q \in may : << q, p >> \notin newer }

\* A woken park blocks until the run it resumed exists, or it expires.
BlocksArmed(p, c) == In(p, {"armed"})
Blocks(p, c) ==
  \/ In(p, Live)
  \/ ~ park[p].due /\ (run[c].n = park[p].run \/ run[c].n <= park[p].claimed)

Judge(c) ==
  /\ job[c].st = "running" /\ settling[c] = Nil
  /\ run[c].st \in Terminal
  /\ \A p \in Blocking(c) : ~ Blocks(p, c)
  /\ settling' = [settling EXCEPT ![c] = run[c]]
  /\ UNCHANGED << chat, job, sent, rows, worker, user, faults >>

\* commit_terminal; the notifier of the job starts after it.
Commit(c) ==
  /\ settling[c] # Nil
  /\ job[c].st = "running"
  /\ job' = [job EXCEPT ![c].st = settling[c].st]
  /\ settling' = [settling EXCEPT ![c] = Nil]
  /\ worker' = [worker EXCEPT ![c] =
                  [Idle EXCEPT !.pc = "list", !.job = c, !.st = settling[c].st]]
  /\ UNCHANGED << chat, sent, rows, user, faults >>

-----------------------------------------------------------------------------
(* Workers.                                                                *)

At(w, pc) == worker[w].pc = pc
\* After a park comes the next one; the sweep ends with the stalled ones.
Rest(k) == IF k.todo # {} THEN [k EXCEPT !.pc = "next", !.park = Nil, !.left = {}, !.as = "woken"]
           ELSE IF k.stage = "armed" /\ k.job = Nil
                THEN [Idle EXCEPT !.pc = "stalled", !.stage = "stalled"]
           ELSE Idle
Looks(left) == IF left = {} THEN "decide" ELSE "check"
Go(w, pc) == worker' = [worker EXCEPT ![w] = IF pc = "next" THEN Rest(@)
                                             ELSE [@ EXCEPT !.pc = pc]]
P(w) == worker[w].park
ParksOnly == UNCHANGED << chat, job, sent, settling, user, faults >>
ReadOnly  == ParksOnly /\ UNCHANGED rows

\* A sweep that finds no park in these states changes nothing.
Wakes ==
  /\ At(Sweep, "idle")
  /\ \E p \in Park : In(p, Live)
  /\ Go(Sweep, "list")
  /\ ReadOnly

\* list_armed, list_armed_for_delegated_run, list_wake_stalled
Listed(ps) == { << p, Unsettled(p) >> : p \in ps }
Armed(w) == { p \in Park : In(p, {"armed"}) /\ (w # Sweep => w \in Watched(p)) }
StalledNever == {}
Stalled == { p \in Park : In(p, {"waking"}) /\ park[p].old }

List(w) ==
  /\ At(w, "list") \/ At(w, "stalled")
  /\ worker' = [worker EXCEPT ![w] =
       Rest([@ EXCEPT !.todo = Listed(IF At(w, "list") THEN Armed(w) ELSE Stalled)])]
  /\ ReadOnly

\* A notifier has its one job to record, the sweep those still open.
Begins(w, t) == IF w # Sweep THEN "record"
                ELSE IF worker[w].stage = "stalled" THEN "reset" ELSE Looks(t[2])
Take(w) ==
  /\ At(w, "next")
  /\ \E t \in worker[w].todo :
       worker' = [worker EXCEPT ![w].pc = Begins(w, t), ![w].todo = @ \ {t},
                                ![w].park = t[1], ![w].left = t[2]]
  /\ ReadOnly

\* reset_wake_claim and the row read again
UnclaimedTried(row) == [row EXCEPT !.state = "armed", !.claimed = 0]
Unclaimed(row) == [row EXCEPT !.state = "armed", !.tries = 0, !.claimed = 0]
Reset(w) ==
  /\ At(w, "reset")
  /\ IF In(P(w), {"waking"})
       THEN /\ Put(P(w), Unclaimed(park[P(w)]))
            /\ worker' = [worker EXCEPT ![w].pc = Looks(Unsettled(P(w))),
                                         ![w].left = Unsettled(P(w))]
       ELSE Go(w, "next") /\ UNCHANGED rows
  /\ ParksOnly

\* A job counts as settled when the latest run of its conversation is
\* terminal and the conversation has no armed park.
Done(c) == run[c].st \in Terminal /\ Of(c, {"armed"}) = {}

Check(w) ==
  /\ At(w, "check")
  /\ \E c \in worker[w].left :
       LET left == worker[w].left \ {c} IN
       worker' = [worker EXCEPT ![w] =
         IF Done(c) THEN [@ EXCEPT !.left = left, !.pc = "record", !.job = c, !.st = run[c].st]
                    ELSE [@ EXCEPT !.left = left, !.pc = Looks(left)]]
  /\ ReadOnly

\* record_job_settled
Record(w) ==
  /\ At(w, "record")
  /\ Put(P(w), [park[P(w)] EXCEPT !.jobs[worker[w].job] = worker[w].st])
  /\ worker' = [worker EXCEPT ![w] =
       IF w = Sweep THEN [@ EXCEPT !.pc = Looks(worker[w].left), !.job = Nil, !.st = "none"]
                    ELSE [@ EXCEPT !.pc = "decide"]]
  /\ ParksOnly

DecideEarly(w) == At(w, "decide") /\ Go(w, "claim") /\ ReadOnly
DecideUntimed(w) ==
  At(w, "decide") /\ Go(w, IF Decides(P(w)) THEN "claim" ELSE "next") /\ ReadOnly
Decide(w) ==
  /\ At(w, "decide")
  /\ IF w = Sweep /\ park[P(w)].due
       THEN worker' = [worker EXCEPT ![w].pc = "claim", ![w].as = "expired"]
       ELSE Go(w, IF Decides(P(w)) THEN "claim" ELSE "next")
  /\ ReadOnly

\* claim_wake: a park that is not armed has another owner.
ClaimsTaken(p) == In(p, Live)
Claims(p) == In(p, {"armed"})
Claim(w) ==
  /\ At(w, "claim")
  /\ IF Claims(P(w))
       THEN /\ Put(P(w), [park[P(w)] EXCEPT !.state = "waking",
                                            !.claimed = run[park[P(w)].conv].n])
            /\ Go(w, "look")
       ELSE Go(w, "next") /\ UNCHANGED rows
  /\ ParksOnly

\* A run begun after the park was made supersedes it.  The wake is made up
\* from other reads, that the model leaves out.
Outrun(p) ==
  LET r == run[park[p].conv] IN r.st = "running" /\ r.n # park[p].run /\ r.n > park[p].born

Look(w) ==
  /\ At(w, "look")
  /\ worker' = [worker EXCEPT ![w].pc = IF Outrun(P(w)) THEN "settle" ELSE "get",
                              ![w].as = IF Outrun(P(w)) THEN "superseded" ELSE @]
  /\ ReadOnly

Get(w) ==
  /\ At(w, "get")
  /\ Go(w, IF In(P(w), {"waking"}) THEN "send" ELSE "next")
  /\ ReadOnly

\* send_message: the wake is queued behind the active run, if there is one.
Send(w) ==
  /\ At(w, "send")
  /\ inbox' = [inbox EXCEPT ![park[P(w)].conv] = @ \cup {P(w)}]
  /\ sent' = [sent EXCEPT ![P(w)] = @ + 1]
  /\ Go(w, "settle")
  /\ UNCHANGED << run, ghost, job, settling, rows, user, faults >>

SendFails(w) == At(w, "send") /\ Go(w, "count") /\ ReadOnly

\* record_wake_failure
Count(w) ==
  /\ At(w, "count")
  /\ Put(P(w), [park[P(w)] EXCEPT !.tries = @ + 1])
  /\ worker' = [worker EXCEPT
       ![w].pc = IF park[P(w)].tries + 1 >= RetryMax THEN "settle" ELSE "get",
       ![w].as = IF park[P(w)].tries + 1 >= RetryMax THEN "failed" ELSE @]
  /\ ParksOnly

\* settle: a park that is not waking any more stays as it is.
SettlesAnyway(p) == TRUE
Settles(p) == In(p, {"waking"})
Settle(w) ==
  /\ At(w, "settle")
  /\ IF Settles(P(w)) THEN Put(P(w), [park[P(w)] EXCEPT !.state = worker[w].as])
                      ELSE UNCHANGED rows
  /\ Go(w, "next")
  /\ ParksOnly

WorkerStep(w) ==
  \/ List(w) \/ Take(w) \/ Reset(w) \/ Check(w) \/ Record(w)
  \/ Decide(w) \/ Claim(w) \/ Look(w) \/ Get(w)
  \/ Send(w) \/ SendFails(w) \/ Count(w) \/ Settle(w)

-----------------------------------------------------------------------------
(* The user.                                                               *)

\* A message supersedes the parks of its conversation before it is sent.
Write(c) ==
  /\ user[c] = NoRequest
  /\ run[c].n \in 1 .. MaxRuns - 1 /\ c \notin ghost
  /\ user' = [user EXCEPT ![c].does = "sends"]
  /\ park' = Moved(Superseded(c), "superseded")
  /\ UNCHANGED << chat, job, sent, settling, worker, newer, faults >>

\* An error there is only logged.
WriteUnheard(c) ==
  /\ Fault
  /\ user[c] = NoRequest
  /\ run[c].n \in 1 .. MaxRuns - 1 /\ c \notin ghost
  /\ user' = [user EXCEPT ![c].does = "sends"]
  /\ UNCHANGED << chat, job, sent, settling, worker, rows >>

\* It joins the active run or begins one.
Begin(c) ==
  /\ user[c].does = "sends"
  /\ user' = [user EXCEPT ![c] = NoRequest]
  /\ run' = [run EXCEPT ![c] =
       IF @.st = "running" \/ @.n = MaxRuns THEN @
       ELSE [n |-> @.n + 1, st |-> "running", of |-> Nil]]
  /\ UNCHANGED << ghost, job, inbox, sent, settling, rows, worker, faults >>

\* stop_agent: the run fails, then its parks are disarmed.
Stop(c) ==
  /\ user[c] = NoRequest
  /\ Active(c)
  /\ run' = [run EXCEPT ![c].st = "failed"]
  /\ user' = [user EXCEPT ![c] = [does |-> "stops", n |-> run[c].n]]
  /\ UNCHANGED << ghost, job, inbox, sent, settling, rows, worker, faults >>

Disarm(c) ==
  /\ user[c].does = "stops"
  /\ park' = Moved(Disarmed(c, user[c].n), "disarmed")
  /\ user' = [user EXCEPT ![c] = NoRequest]
  /\ UNCHANGED << chat, job, sent, settling, worker, newer, faults >>

DisarmFails(c) ==
  /\ Fault
  /\ user[c].does = "stops"
  /\ user' = [user EXCEPT ![c] = NoRequest]
  /\ UNCHANGED << chat, job, sent, settling, worker, rows >>

-----------------------------------------------------------------------------
(* Time and faults.                                                        *)

Deadline(p) ==
  /\ In(p, Live \cup {"woken"}) /\ ~ park[p].due
  /\ park' = [park EXCEPT ![p].due = TRUE]
  /\ UNCHANGED << chat, job, sent, newer, calls, faults >>

\* A dispatcher that has claimed p and may still send or settle.
Holds(w, p) == P(w) = p /\ worker[w].pc \in {"look", "get", "send", "count", "settle"}

\* The stale window is longer than a dispatcher takes with all its retries.
Age(p) ==
  /\ In(p, {"waking"}) /\ ~ park[p].old
  /\ \A w \in Worker : ~ Holds(w, p)
  /\ park' = [park EXCEPT ![p].old = TRUE]
  /\ UNCHANGED << chat, job, sent, newer, calls, faults >>

\* A read or a write fails.  What a wake needs to be prepared fails the wake;
\* any other error ends the call.
Breaks(w) ==
  /\ Fault
  /\ ~ At(w, "idle") /\ ~ At(w, "send") /\ ~ At(w, "next")
  /\ worker' = [worker EXCEPT ![w] =
       IF @.pc = "look"
       THEN [@ EXCEPT !.pc = "settle", !.as = "failed", !.todo = {}, !.stage = "stalled"]
       ELSE Idle]
  /\ UNCHANGED << chat, job, sent, settling, rows, user >>

Drops(p) ==
  /\ Fault
  /\ In(p, {"asked", "clear"})
  /\ park' = [park EXCEPT ![p] = Free]
  /\ UNCHANGED << chat, job, sent, newer, calls >>

\* The rows stay, and the messages in the durable queue.
Crash ==
  /\ Fault
  /\ ghost' = { c \in Conv : run[c].st = "running" }
  /\ job' = [c \in Job |-> [job[c] EXCEPT !.st = IF @ = "running" THEN "lost" ELSE @]]
  /\ settling' = [c \in Job |-> Nil]
  /\ park' = [p \in Park |-> IF In(p, {"asked", "clear"}) THEN Free ELSE park[p]]
  /\ worker' = [w \in Worker |-> Idle]
  /\ user' = [c \in Conv |-> NoRequest]
  /\ UNCHANGED << run, newer, inbox, sent >>

\* Startup cancels the runs that died with the application.
CleanUp ==
  /\ ghost # {}
  /\ run' = [c \in Conv |-> IF c \in ghost THEN [run[c] EXCEPT !.st = "cancelled"] ELSE run[c]]
  /\ ghost' = {}
  /\ UNCHANGED << job, inbox, sent, rows, calls, faults >>

-----------------------------------------------------------------------------
Agents == \E c \in Conv :
  \/ \E st \in Ending : Ends(c, st)
  \/ \E p \in Park : Resume(c, p)
  \/ \E p \in Park, jobs \in SUBSET Job, policy \in Policy : Ask(p, c, jobs, policy)
Calls == \E p \in Park : Clear(p) \/ Arm(p)
Settlement == \E c \in Job : Judge(c) \/ Commit(c)
Dispatch == Wakes \/ \E w \in Worker : WorkerStep(w)
People == \E c \in Written :
  Write(c) \/ WriteUnheard(c) \/ Begin(c) \/ Stop(c) \/ Disarm(c) \/ DisarmFails(c)
Time == \E p \in Park : Deadline(p) \/ Age(p)
Faults == Crash \/ CleanUp \/ (\E w \in Worker : Breaks(w)) \/ (\E p \in Park : Drops(p))

Next == \/ \E c \in Job : \E d \in Delegators[c] : Delegate(c, d)
        \/ Agents \/ Calls \/ Settlement \/ Dispatch \/ People \/ Time \/ Faults

Spec == Init /\ [][Next]_vars

-----------------------------------------------------------------------------
(* Properties.                                                             *)

\* A park has one dispatcher at a time: between its claim and the end of
\* its retries no other call may send its wake (claim_wake is a compare and
\* swap, and a claim is taken back only when its dispatcher is gone).
OneDispatcher ==
  \A p \in Park, v \in Worker, w \in Worker : Holds(v, p) /\ Holds(w, p) => v = w

\* What wake_decision and is_expired leave for good: a status that made a park
\* wake may be recorded anew, but no job is ever open again.
Reason(p) ==
  \/ park[p].due
  \/ Unsettled(p) = {}
  \/ (park[p].policy[1] = "any" \/ park[p].policy[2]) /\ Unsettled(p) # Watched(p)

\* A park whose wake was claimed had its reason: its deadline has passed, all
\* its jobs are settled, or one is and its policy does not wait for all of
\* them, whatever was recorded, reset and claimed again in between by
\* notifiers and sweeps.
WakeHasReason ==
  \A p \in Park : In(p, {"waking", "woken", "expired"}) => Reason(p)

Standing == [p \in Park |-> IF In(p, {"free", "asked", "clear"}) THEN "none"
                            ELSE IF In(p, Live) THEN "open" ELSE park[p].state]
Handed == { p \in Park : sent[p] > 0 }
Promise == INSTANCE ParkPromise WITH
  Delivered <- {"woken", "expired"}, Outcome <- Resolved,
  outcome <- Standing, handed <- Handed

\* Users, agents and dispatchers that decide about one park keep its promise.
PromiseKept == Promise!Spec

\* The conversation of a delegate is not done while one of its own parks is
\* live, or has woken it, no run has begun since the claim, and that wake is
\* still in its queue, until the deadline.  (A second wake, sent after a
\* dispatcher broke off between send and settle, holds nothing up.)
Over(c) ==
  /\ Of(c, Live) = {}
  /\ \A p \in inbox[c] :
       In(p, {"woken"}) /\ sent[p] = 1 => park[p].due \/ run[c].n > park[p].claimed

ParkedOnce(c) == \A p, q \in Of(c, Live \cup Resolved) : p = q

\* A job is not settled as completed before its conversation is over: no step of
\* a notifier, sweep or user between the look at the parks and the commit brings
\* the park back (settle_delegation_from_run).  It is about conversations
\* that park once and begin no run in between; two parks, or such a run,
\* can get past the look.
SettledIsOver ==
  [][\A c \in Job :
       /\ job[c].st = "running" /\ job'[c].st = "completed"
       /\ settling[c] = run[c] /\ ParkedOnce(c)
       => Over(c)]_vars

\* Workers take their steps, the timer starts the sweep, the startup cleans
\* up, and a claim nobody works on grows old.  Agents, users, deadlines and
\* faults owe nothing.
Fairness ==
  /\ \A w \in Worker : WF_vars(WorkerStep(w))
  /\ WF_vars(Wakes) /\ WF_vars(CleanUp)
  /\ \A p \in Park : WF_vars(Age(p))
FairSpec == Spec /\ Fairness

\* When the delegates of an armed park are done the park is resolved without
\* waiting for its deadline, though notifications were missed, dispatchers
\* broke off or the application stopped; or a delegate has gone on.
WakesWhenDone ==
  \A p \in Park :
    (In(p, {"armed"}) /\ \A c \in Watched(p) : Done(c))
      ~> (In(p, Resolved) \/ \E c \in Job : ~ Done(c))

\* A park whose deadline has passed is resolved.
WakesWhenDue == \A p \in Park : (In(p, Live) /\ park[p].due) ~> In(p, Resolved)
=============================================================================
