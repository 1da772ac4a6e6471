------------------------- MODULE DelegationParkProofs -------------------------
(***************************************************************************)
(* Proofs about DelegationPark, for any conversations, parks, policies and *)
(* bounds.                                                                 *)
(***************************************************************************)
EXTENDS DelegationPark, TLAPS

-----------------------------------------------------------------------------
(* The inductive invariant.                                                *)

Begun == Live \cup Resolved       \* parks that have been armed
Taken == {"waking"} \cup Resolved \* parks nobody may claim

AtPark == { "check", "record", "decide", "claim", "look", "get", "send", "count",
            "settle", "reset" }
Sending == { "look", "get", "send", "count" }
Dispatching == Sending \cup {"settle"}

NotHeld(p) == \A w \in Worker : ~Holds(w, p)

\* Reason, of a row.
Due(r) ==
  \/ r.due
  \/ \A c \in Job : r.jobs[c] # "open"
  \/ (r.policy[1] = "any" \/ r.policy[2]) /\ \E c \in Job : r.jobs[c] \notin {"out", "open"}

RowOK(r) ==
  /\ r.state \in {"asked", "clear", "armed"} => r.tries = 0
  /\ r.state \in {"waking", "woken", "expired"} => Due(r)

\* A claim that has grown old has no dispatcher.
ParkOK(p) == RowOK(park[p]) /\ (In(p, {"waking"}) /\ park[p].old => NotHeld(p))

\* What a worker is about: parks that were armed, a dispatcher one it has
\* claimed, with a reason, a try left and a wake sent before it says so.
WorkOK(w) ==
  /\ worker[w].pc \in AtPark => P(w) \in Park /\ In(P(w), Begun)
  /\ \A t \in worker[w].todo : In(t[1], Begun)
  /\ worker[w].pc = "record" \/ (w # Sweep /\ worker[w].pc # "idle")
       => worker[w].job \in Job /\ worker[w].st \in Terminal
  /\ worker[w].pc = "claim" => Due(park[P(w)])
  /\ worker[w].pc \in Dispatching => In(P(w), Taken)
  /\ worker[w].pc \in Sending => park[P(w)].tries < RetryMax
  /\ worker[w].pc = "settle" /\ worker[w].as \in {"woken", "expired"} => sent[P(w)] > 0

\* A sweep in its second stage is about claims whose dispatchers are gone.
Gone(p) == In(p, Taken) /\ NotHeld(p)
SweepOK ==
  /\ worker[Sweep].pc \in {"idle", "list"} => worker[Sweep].stage = "armed"
  /\ worker[Sweep].stage = "stalled" =>
       \A t \in worker[Sweep].todo :
          Gone(t[1]) /\ t[1] # P(Sweep) /\ \A u \in worker[Sweep].todo : u[1] = t[1] => u = t
  /\ \A w \in Worker : At(w, "reset") =>
       w = Sweep /\ Gone(P(w)) /\ worker[w].stage = "stalled"

IInv ==
  /\ TypeOK
  /\ \A p \in Park : ParkOK(p)
  /\ \A w \in Worker : WorkOK(w)
  /\ SweepOK
  /\ OneDispatcher

LEMMA ReasonIs == ASSUME NEW p \in Park PROVE Reason(p) <=> Due(park[p])
BY DEF Reason, Due, Unsettled, Watched

LEMMA RowOf ==
  ASSUME TypeOK, NEW p \in Park, In(p, {"asked", "clear"} \cup Begun)
  PROVE  park[p] \in Row
BY DEF TypeOK, In, Free, Begun, Live, Resolved

-----------------------------------------------------------------------------
(* What a step may do to a row, and to whom.                               *)

\* Nobody who was about the park need know.
GoodChange(a, b) ==
  /\ RowOK(b)
  /\ a.state \in Begun => b.state \in Begun /\ (Due(a) => Due(b))

\* Nor its dispatcher.
FirmChange(a, b) ==
  a.state \in Taken => b.state \in Taken /\ (a.tries < RetryMax => b.tries < RetryMax)

Keeps(p) ==
  /\ GoodChange(park[p], park'[p])
  /\ park'[p].state = "waking" /\ park'[p].old => In(p, {"waking"}) /\ NotHeld(p)
Firm(p) == FirmChange(park[p], park'[p])
SentMore == \A p \in Park : sent[p] > 0 => sent'[p] > 0

LEMMA SameRow ==
  ASSUME IInv, NEW p \in Park, park'[p] = park[p]
  PROVE  Keeps(p) /\ Firm(p)
BY DEF IInv, ParkOK, Keeps, Firm, GoodChange, FirmChange, In

\* A row that is written loses its age.
LEMMA NewRow ==
  ASSUME IInv, NEW p \in Park, NEW b, park'[p] = b, b.old = FALSE, GoodChange(park[p], b)
  PROVE  Keeps(p)
BY DEF Keeps

LEMMA PutRow ==
  ASSUME TypeOK, NEW p \in Park, NEW r \in Row, Put(p, r)
  PROVE  /\ newer' \subseteq Park \X Park
         /\ park' \in [Park -> Row \cup {Free}]
         /\ park'[p] = [r EXCEPT !.old = FALSE] /\ park'[p] \in Row
         /\ \A q \in Park \ {p} : park'[q] = park[q]
<1> DEFINE b == [r EXCEPT !.old = FALSE]
<1>1. b \in Row
  BY DEF Row
<1>2. park' = [park EXCEPT ![p] = b] /\ park \in [Park -> Row \cup {Free}]
  BY DEF Put, TypeOK
<1>3. newer' \subseteq Park \X Park
  BY DEF Put, TypeOK
<1> QED BY <1>1, <1>2, <1>3

-----------------------------------------------------------------------------
(* Steps that leave the workers alone, and steps of one worker.            *)

LEMMA WorldKeeps ==
  ASSUME IInv, TypeOK', UNCHANGED worker, SentMore, \A p \in Park : Keeps(p) /\ Firm(p)
  PROVE  IInv'
<1>1. \A w \in Worker : \A p : Holds(w, p)' <=> Holds(w, p)
  BY DEF Holds, P
<1>2. \A p \in Park : ParkOK(p)'
  BY <1>1 DEF Keeps, GoodChange, ParkOK, In, NotHeld
<1>3. ASSUME NEW w \in Worker PROVE WorkOK(w)'
  <2>1. WorkOK(w) /\ worker[w] \in Work
    BY DEF IInv, TypeOK
  <2>2. \A t \in worker[w].todo : t[1] \in Park
    BY <2>1 DEF Work
  <2> QED BY <2>1, <2>2 DEF WorkOK, Keeps, Firm, GoodChange, FirmChange, P, In, AtPark,
                            Sending, Dispatching, SentMore
<1>4. SweepOK'
  <2>1. worker[Sweep] \in Work /\ \A t \in worker[Sweep].todo : t[1] \in Park
    BY DEF IInv, TypeOK, Work, Worker
  <2>2. \A p \in Park : Gone(p) => Gone(p)'
    BY <1>1 DEF Gone, NotHeld, Firm, FirmChange, In
  <2>3. \A w \in Worker : At(w, "reset") => P(w) \in Park
    BY DEF IInv, WorkOK, At, AtPark
  <2>4. SweepOK
    BY DEF IInv
  <2>5. \A w \in Worker : At(w, "reset")' => w = Sweep /\ Gone(P(w))' /\ worker'[w].stage = "stalled"
    BY <2>2, <2>3, <2>4 DEF SweepOK, At, P
  <2>6. worker'[Sweep].stage = "stalled" =>
          \A t \in worker'[Sweep].todo :
            /\ Gone(t[1])' /\ t[1] # P(Sweep)'
            /\ \A u \in worker'[Sweep].todo : u[1] = t[1] => u = t
    BY <2>1, <2>2, <2>4 DEF SweepOK, P
  <2> QED BY <2>4, <2>5, <2>6 DEF SweepOK
<1>5. OneDispatcher'
  BY <1>1 DEF IInv, OneDispatcher
<1> QED BY <1>2, <1>3, <1>4, <1>5 DEF IInv

\* A worker gets hold of a park by its claim alone.
Turn(w, k) ==
  /\ worker' = [worker EXCEPT ![w] = k]
  /\ k.pc \in Dispatching =>
       /\ k.park = P(w)
       /\ worker[w].pc \in Dispatching \/ In(P(w), {"armed"})

LEMMA HoldersAfter ==
  ASSUME IInv, NEW w \in Worker, NEW k, Turn(w, k)
  PROVE  /\ \A v \in Worker \ {w} : \A p : Holds(v, p)' <=> Holds(v, p)
         /\ \A p \in Park : Holds(w, p)' => Holds(w, p) \/ In(p, {"armed"})
         /\ \A p \in Park : ~In(p, {"armed"}) /\ NotHeld(p) => NotHeld(p)'
         /\ OneDispatcher'
<1>1. worker'[w] = k /\ \A v \in Worker \ {w} : worker'[v] = worker[v]
  BY DEF Turn, IInv, TypeOK
<1>2. \A v \in Worker \ {w} : \A p : Holds(v, p)' <=> Holds(v, p)
  BY <1>1 DEF Holds, P
<1>3. \A p \in Park : Holds(w, p)' => Holds(w, p) \/ In(p, {"armed"})
  BY <1>1 DEF Turn, Holds, P, Dispatching, Sending
<1>4. \A p \in Park : ~In(p, {"armed"}) /\ NotHeld(p) => NotHeld(p)'
  BY <1>2, <1>3 DEF NotHeld
<1>5. \A v \in Worker, p \in Park : Holds(v, p) => ~In(p, {"armed"})
  BY DEF IInv, WorkOK, Holds, Dispatching, Sending, In, Taken, Resolved, P
<1>6. OneDispatcher'
  BY <1>2, <1>3, <1>5 DEF OneDispatcher, IInv
<1> QED BY <1>2, <1>3, <1>4, <1>6

LEMMA WorkerKeeps ==
  ASSUME IInv, TypeOK', NEW w \in Worker, NEW k, Turn(w, k), WorkOK(w)', SentMore,
         \A p \in Park : Keeps(p),
         \A v \in Worker \ {w}, p \in Park : Holds(v, p) => Firm(p),
         w # Sweep => k.pc # "reset" /\ \A p \in Park : In(p, Taken) => In(p, Taken)',
         w = Sweep =>
           /\ k.pc \in {"idle", "list"} => k.stage = "armed"
           /\ k.pc = "reset" => Gone(k.park)' /\ k.stage = "stalled"
           /\ k.stage = "stalled" =>
                \A t \in k.todo :
                  Gone(t[1])' /\ t[1] # k.park /\ \A u \in k.todo : u[1] = t[1] => u = t
  PROVE  IInv'
<1>1. worker'[w] = k /\ \A v \in Worker \ {w} : worker'[v] = worker[v]
  BY DEF Turn, IInv, TypeOK
<1>2. \A p \in Park : ParkOK(p)'
  <2> SUFFICES ASSUME NEW p \in Park PROVE ParkOK(p)'
    OBVIOUS
  <2>1. RowOK(park'[p])
    BY DEF Keeps, GoodChange
  <2>2. In(p, {"waking"})' /\ park'[p].old => NotHeld(p)'
    BY HoldersAfter DEF Keeps, In
  <2> QED BY <2>1, <2>2 DEF ParkOK
<1>3. ASSUME NEW v \in Worker \ {w} PROVE WorkOK(v)'
  <2>1. WorkOK(v) /\ worker[v] \in Work /\ worker'[v] = worker[v] /\ P(v)' = P(v)
    BY <1>1, <1>3 DEF IInv, TypeOK, P
  <2>2. \A t \in worker[v].todo : t[1] \in Park
    BY <2>1 DEF Work
  <2>3. worker[v].pc \in Dispatching => P(v) \in Park /\ Firm(P(v))
    BY <2>1 DEF WorkOK, Holds, Dispatching, Sending, AtPark
  <2>4. \A p \in Park : In(p, Begun) => In(p, Begun)' /\ (Due(park[p]) => Due(park'[p]))
    BY DEF Keeps, GoodChange, In
  <2>5. worker[v].pc \in Dispatching => In(P(v), Taken)' /\ In(P(v), Taken)
    BY <2>1, <2>3 DEF Firm, FirmChange, In, WorkOK
  <2>6. worker[v].pc \in Sending => park'[P(v)].tries < RetryMax
    BY <2>1, <2>3, <2>5 DEF Firm, FirmChange, WorkOK, Dispatching, In
  <2> QED BY <2>1, <2>2, <2>4, <2>5, <2>6 DEF WorkOK, In, AtPark, Sending, Dispatching, SentMore
<1>4. SweepOK'
  <2>1. \A p \in Park : Gone(p) /\ (In(p, Taken) => In(p, Taken)') => Gone(p)'
    BY HoldersAfter DEF Gone, In, Taken, Resolved
  <2>2. SweepOK /\ WorkOK(Sweep) /\ Sweep \in Worker
    BY DEF IInv, Worker
  <2>3. CASE w = Sweep
    <3>1. \A v \in Worker : At(v, "reset")' => v = w
      BY <1>1, <2>2, <2>3 DEF SweepOK, At
    <3> QED BY <1>1, <2>3, <3>1 DEF SweepOK, At, P
  <2>4. CASE w # Sweep
    <3>1. worker'[Sweep] = worker[Sweep] /\ \A p \in Park : In(p, Taken) => In(p, Taken)'
      BY <1>1, <2>2, <2>4
    <3>2. worker[Sweep] \in Work /\ \A t \in worker[Sweep].todo : t[1] \in Park
      BY <2>2 DEF IInv, TypeOK, Work
    <3>3. At(Sweep, "reset") => P(Sweep) \in Park
      BY <2>2 DEF WorkOK, At, AtPark
    <3>4. \A v \in Worker : At(v, "reset")' =>
            v = Sweep /\ Gone(P(v))' /\ worker'[v].stage = "stalled"
      BY <1>1, <2>1, <2>2, <2>4, <3>1, <3>3 DEF SweepOK, At, P
    <3>5. worker'[Sweep].stage = "stalled" =>
            \A t \in worker'[Sweep].todo :
              /\ Gone(t[1])' /\ t[1] # P(Sweep)'
              /\ \A u \in worker'[Sweep].todo : u[1] = t[1] => u = t
      BY <2>1, <2>2, <3>1, <3>2 DEF SweepOK, P
    <3> QED BY <2>2, <3>1, <3>4, <3>5 DEF SweepOK
  <2> QED BY <2>3, <2>4
<1> QED BY <1>2, <1>3, <1>4, HoldersAfter DEF IInv

-----------------------------------------------------------------------------
(* Agents, users, time and the start: no worker moves.                     *)

LEMMA ParksAlone ==
  ASSUME IInv, TypeOK', UNCHANGED << park, sent, worker >>
  PROVE  IInv'
BY SameRow, WorldKeeps DEF SentMore

LEMMA JobsAreConvs == Job \subseteq Conv /\ Worker = Job \cup {Sweep} /\ 1 \in 0..MaxRuns
BY BoundAssumption DEF Job, Worker

LEMMA FaultType == ASSUME TypeOK, Fault PROVE faults' \in 0..MaxFaults
BY BoundAssumption DEF TypeOK, Fault

LEMMA AgentsKeep ==
  ASSUME IInv, NEW c \in Conv,
         \/ c \in Job /\ \E d \in Delegators[c] : Delegate(c, d)
         \/ \E st \in Ending : Ends(c, st)
         \/ \E p \in Park : Resume(c, p)
  PROVE  IInv'
<1> USE DEF IInv
<1>1. UNCHANGED << park, sent, worker >>
  BY DEF Delegate, Ends, Resume, rows, calls
<1>2. CASE c \in Job /\ \E d \in Delegators[c] : Delegate(c, d)
  <2>1. PICK d \in Delegators[c] : Delegate(c, d)
    BY <1>2
  <2>2. d \in Conv /\ run[d] \in Run
    BY <1>2, ConvAssumption DEF TypeOK
  <2> DEFINE r == [NoRun EXCEPT !.n = 1, !.st = "running"]
             j == [from |-> d, by |-> run[d].n, st |-> "running"]
  <2>3. r \in [n : {1}, st : {"running"}, of : {Nil}]
    BY DEF NoRun
  <2>4. r \in Run
    BY <2>3, JobsAreConvs DEF Run
  <2>5. j \in Snapshot
    BY <2>2 DEF Snapshot, Run
  <2>6. run' = [run EXCEPT ![c] = r] /\ job' = [job EXCEPT ![c] = j]
        /\ UNCHANGED << ghost, rows, inbox, sent, calls, faults >>
    BY <2>1 DEF Delegate
  <2>7. TypeOK'
    BY <2>4, <2>5, <2>6 DEF TypeOK, rows, calls
  <2> QED BY <1>1, <2>7, ParksAlone
<1>3. CASE \E st \in Ending : Ends(c, st)
  <2>1. PICK st \in Ending : Ends(c, st)
    BY <1>3
  <2>2. [run[c] EXCEPT !.st = st] \in Run
    BY EndingAssumption DEF TypeOK, Run, Terminal
  <2>3. run' = [run EXCEPT ![c] = [run[c] EXCEPT !.st = st]]
        /\ UNCHANGED << ghost, job, inbox, sent, rows, calls, faults >>
    BY <2>1 DEF Ends
  <2>4. TypeOK'
    BY <2>2, <2>3 DEF TypeOK, rows, calls
  <2> QED BY <1>1, <2>4, ParksAlone
<1>4. CASE \E p \in Park : Resume(c, p)
  <2>1. PICK p \in Park : Resume(c, p)
    BY <1>4
  <2> DEFINE r == [n |-> run[c].n + 1, st |-> "running", of |-> p]
  <2>2. r \in Run
    BY <2>1, BoundAssumption DEF TypeOK, Run, Resume
  <2>3. run' = [run EXCEPT ![c] = r] /\ inbox' = [inbox EXCEPT ![c] = inbox[c] \ {p}]
        /\ UNCHANGED << ghost, job, sent, rows, calls, faults >>
    BY <2>1 DEF Resume
  <2>4. TypeOK'
    BY <2>2, <2>3 DEF TypeOK, rows, calls
  <2> QED BY <1>1, <2>4, ParksAlone
<1> QED BY <1>2, <1>3, <1>4

\* Parks that a user decides.
LEMMA MovedRows ==
  ASSUME IInv, NEW S \in SUBSET Park, \A p \in S : In(p, Live),
         NEW state \in {"superseded", "disarmed"}
  PROVE  /\ Moved(S, state) \in [Park -> Row \cup {Free}]
         /\ \A p \in Park \ S : Moved(S, state)[p] = park[p]
         /\ \A p \in S : /\ GoodChange(park[p], Moved(S, state)[p])
                         /\ FirmChange(park[p], Moved(S, state)[p])
                         /\ Moved(S, state)[p].old = FALSE
<1>1. \A p \in Park \ S : Moved(S, state)[p] = park[p] /\ park[p] \in Row \cup {Free}
  BY DEF Moved, IInv, TypeOK
<1>2. ASSUME NEW p \in S
      PROVE  /\ Moved(S, state)[p] \in Row
             /\ GoodChange(park[p], Moved(S, state)[p])
             /\ FirmChange(park[p], Moved(S, state)[p])
             /\ Moved(S, state)[p].old = FALSE
  <2> DEFINE b == [park[p] EXCEPT !.state = state, !.old = FALSE]
  <2>1. park[p] \in Row /\ In(p, Live)
    BY <1>2, RowOf DEF IInv, Begun, In
  <2>2. b \in Row /\ b.state = state /\ b.old = FALSE /\ b.due = park[p].due
        /\ b.jobs = park[p].jobs /\ b.policy = park[p].policy /\ b.tries = park[p].tries
    BY <2>1 DEF Row, Resolved
  <2>3. GoodChange(park[p], b)
    BY <2>1, <2>2 DEF GoodChange, RowOK, Begun, Resolved, Due
  <2>4. FirmChange(park[p], b)
    BY <2>1, <2>2 DEF FirmChange, Taken, Resolved
  <2>5. Moved(S, state)[p] = b
    BY DEF Moved
  <2> QED BY <2>2, <2>3, <2>4, <2>5
<1>3. Moved(S, state) \in [Park -> Row \cup {Free}]
  BY <1>1, <1>2 DEF Moved
<1> QED BY <1>1, <1>2, <1>3

LEMMA ChosenOf ==
  ASSUME NEW c, NEW n
  PROVE  /\ Superseded(c) \in SUBSET Park /\ \A p \in Superseded(c) : In(p, Live)
         /\ Disarmed(c, n) \in SUBSET Park /\ \A p \in Disarmed(c, n) : In(p, Live)
BY DEF Superseded, Disarmed, Of, In, Live

LEMMA MovedKeeps ==
  ASSUME IInv, NEW S \in SUBSET Park, \A p \in S : In(p, Live),
         NEW state \in {"superseded", "disarmed"}, park' = Moved(S, state)
  PROVE  \A p \in Park : Keeps(p) /\ Firm(p)
<1> SUFFICES ASSUME NEW p \in Park PROVE Keeps(p) /\ Firm(p)
  OBVIOUS
<1>1. CASE p \in S
  BY <1>1, MovedRows, NewRow DEF Firm
<1>2. CASE p \notin S
  BY <1>2, MovedRows, SameRow
<1> QED BY <1>1, <1>2

LEMMA ArmingKeeps ==
  ASSUME IInv, NEW p \in Park,
         \/ \E c \in Conv, jobs \in SUBSET Job, policy \in Policy : Ask(p, c, jobs, policy)
         \/ Clear(p) \/ Arm(p) \/ Drops(p)
  PROVE  IInv'
<1> USE DEF IInv
<1>1. UNCHANGED << sent, worker >> /\ SentMore
  BY DEF Ask, Clear, Arm, Drops, calls, SentMore
<1>2. CASE \E c \in Conv, jobs \in SUBSET Job, policy \in Policy : Ask(p, c, jobs, policy)
  <2>1. PICK c \in Conv, jobs \in SUBSET Job, policy \in Policy : Ask(p, c, jobs, policy)
    BY <1>2
  <2> DEFINE js == [d \in Job |-> IF d \in jobs THEN "open" ELSE "out"]
             b == [state |-> "asked", conv |-> c, run |-> run[c].n, born |-> run[c].n,
                   claimed |-> 0, policy |-> policy, jobs |-> js,
                   tries |-> 0, due |-> FALSE, old |-> FALSE]
  <2>2. run[c].n \in 0..MaxRuns /\ policy \in {"all", "any"} \X BOOLEAN /\ 0 \in 0..RetryMax
        /\ 0 \in 0..MaxRuns
    BY PolicyAssumption, BoundAssumption DEF TypeOK, Run
  <2>3. js \in [Job -> {"out", "open"} \cup Terminal]
    OBVIOUS
  <2>4. b \in Row
    BY <2>2, <2>3 DEF Row
  <2>5. park[p] = Free /\ park' = [park EXCEPT ![p] = b]
        /\ UNCHANGED << chat, job, sent, newer, calls, faults >>
    BY <2>1 DEF Ask
  <2>6. TypeOK'
    BY <2>4, <2>5 DEF TypeOK, chat, calls
  <2>7. park'[p] = b /\ GoodChange(park[p], b) /\ FirmChange(park[p], b)
    BY <2>5 DEF TypeOK, GoodChange, FirmChange, RowOK, Free, Begun, Taken, Live, Resolved
  <2>8. \A q \in Park : Keeps(q) /\ Firm(q)
    <3> SUFFICES ASSUME NEW q \in Park PROVE Keeps(q) /\ Firm(q)
      OBVIOUS
    <3>1. CASE q = p
      BY <2>7, <3>1, NewRow DEF Firm
    <3>2. CASE q # p
      BY <2>5, <3>2, SameRow DEF TypeOK
    <3> QED BY <3>1, <3>2
  <2> QED BY <1>1, <2>6, <2>8, WorldKeeps
<1>3. CASE Clear(p)
  <2> DEFINE c == park[p].conv
             m == Moved(Superseded(c), "superseded")
  <2>1. In(p, {"asked"}) /\ park' = [m EXCEPT ![p].state = "clear"]
        /\ UNCHANGED << chat, job, sent, newer, calls, faults >>
    BY <1>3 DEF Clear
  <2>2. /\ m \in [Park -> Row \cup {Free}]
        /\ \A q \in Park \ Superseded(c) : m[q] = park[q]
        /\ \A q \in Superseded(c) : GoodChange(park[q], m[q]) /\ FirmChange(park[q], m[q])
                                    /\ m[q].old = FALSE
    BY ChosenOf, MovedRows
  <2>3. p \notin Superseded(c)
    BY <2>1, ChosenOf DEF In, Live
  <2>4. m[p] = park[p] /\ park[p] \in Row
    BY <2>1, <2>2, <2>3, RowOf DEF In
  <2> DEFINE b == [park[p] EXCEPT !.state = "clear"]
  <2>5. b \in Row /\ b.state = "clear" /\ b.tries = park[p].tries
    BY <2>4 DEF Row
  <2>6. park' = [m EXCEPT ![p] = b]
    BY <2>1, <2>4
  <2>7. park' \in [Park -> Row \cup {Free}]
    BY <2>2, <2>5, <2>6
  <2>8. TypeOK'
    BY <2>1, <2>7 DEF TypeOK, chat, calls
  <2>9. \A q \in Park : Keeps(q) /\ Firm(q)
    <3> SUFFICES ASSUME NEW q \in Park PROVE Keeps(q) /\ Firm(q)
      OBVIOUS
    <3>1. CASE q = p
      <4>1. park'[q] = b /\ park[p].state = "asked" /\ park[p].tries = 0
        BY <2>1, <2>2, <2>6, <3>1 DEF In, ParkOK, RowOK
      <4> QED BY <2>5, <3>1, <4>1 DEF Keeps, Firm, GoodChange, FirmChange, RowOK, Begun, Taken,
                                      Live, Resolved
    <3>2. CASE q \in Superseded(c)
      <4>1. park'[q] = m[q] /\ q \in Park
        BY <2>2, <2>3, <2>6, <3>2, ChosenOf
      <4> QED BY <2>2, <3>2, <4>1, NewRow DEF Firm
    <3>3. CASE q # p /\ q \notin Superseded(c)
      <4>1. park'[q] = park[q]
        BY <2>2, <2>6, <3>3
      <4> QED BY <4>1, SameRow
    <3> QED BY <3>1, <3>2, <3>3
  <2> QED BY <1>1, <2>8, <2>9, WorldKeeps
<1>4. CASE Arm(p)
  <2> DEFINE r == [park[p] EXCEPT !.state = "armed"]
  <2>1. In(p, {"clear"}) /\ Put(p, r) /\ UNCHANGED << chat, job, sent, calls, faults >>
    BY <1>4 DEF Arm
  <2>2. park[p] \in Row
    BY <2>1, RowOf DEF In
  <2>3. r \in Row /\ r.state = "armed" /\ r.tries = park[p].tries
    BY <2>2 DEF Row, Live
  <2>4. /\ newer' \subseteq Park \X Park
        /\ park' \in [Park -> Row \cup {Free}]
        /\ park'[p] = [r EXCEPT !.old = FALSE]
        /\ \A q \in Park \ {p} : park'[q] = park[q]
    BY <2>1, <2>3, PutRow
  <2>5. TypeOK'
    BY <2>1, <2>4 DEF TypeOK, chat, calls
  <2>6. park'[p].state = "armed" /\ park'[p].tries = 0 /\ park[p].state = "clear"
    BY <2>1, <2>3, <2>4 DEF In, ParkOK, RowOK, Row
  <2>7. \A q \in Park : Keeps(q) /\ Firm(q)
    <3> SUFFICES ASSUME NEW q \in Park PROVE Keeps(q) /\ Firm(q)
      OBVIOUS
    <3>1. CASE q = p
      BY <2>6, <3>1 DEF Keeps, Firm, GoodChange, FirmChange, RowOK, Begun, Taken, Live, Resolved
    <3>2. CASE q # p
      BY <2>4, <3>2, SameRow
    <3> QED BY <3>1, <3>2
  <2> QED BY <1>1, <2>5, <2>7, WorldKeeps
<1>5. CASE Drops(p)
  <2>1. In(p, {"asked", "clear"}) /\ park' = [park EXCEPT ![p] = Free]
        /\ UNCHANGED << chat, job, sent, newer, calls >> /\ Fault
    BY <1>5 DEF Drops
  <2>2. faults' \in 0..MaxFaults
    BY <2>1, FaultType
  <2>3. TypeOK'
    BY <2>1, <2>2 DEF TypeOK, chat, calls
  <2>4. \A q \in Park : Keeps(q) /\ Firm(q)
    <3> SUFFICES ASSUME NEW q \in Park PROVE Keeps(q) /\ Firm(q)
      OBVIOUS
    <3>1. CASE q = p
      <4>1. park'[q] = Free /\ park[q].state \in {"asked", "clear"}
        BY <2>1, <3>1 DEF TypeOK, In
      <4> QED BY <4>1 DEF Keeps, Firm, GoodChange, FirmChange, RowOK, Begun, Taken, Live,
                          Resolved, Free
    <3>2. CASE q # p
      BY <2>1, <3>2, SameRow DEF TypeOK
    <3> QED BY <3>1, <3>2
  <2> QED BY <1>1, <2>3, <2>4, WorldKeeps
<1> QED BY <1>2, <1>3, <1>4, <1>5

LEMMA PeopleKeep ==
  ASSUME IInv, NEW c \in Conv,
         Write(c) \/ WriteUnheard(c) \/ Begin(c) \/ Stop(c) \/ Disarm(c) \/ DisarmFails(c)
  PROVE  IInv'
<1> USE DEF IInv
<1>1. UNCHANGED << sent, worker >> /\ SentMore
  BY DEF Write, WriteUnheard, Begin, Stop, Disarm, DisarmFails, SentMore
<1>2. NoRequest \in Request /\ 0 \in 0..MaxRuns
  BY BoundAssumption DEF NoRequest, Request
<1>3. ASSUME NEW S \in SUBSET Park, \A p \in S : In(p, Live), UNCHANGED << chat, job, newer, settling, faults >>,
             NEW state \in {"superseded", "disarmed"}, park' = Moved(S, state),
             user' \in [Conv -> Request]
      PROVE  IInv'
  <2>1. park' \in [Park -> Row \cup {Free}]
    BY <1>3, MovedRows
  <2>2. TypeOK'
    BY <1>1, <1>3, <2>1 DEF TypeOK, chat
  <2>3. \A p \in Park : Keeps(p) /\ Firm(p)
    BY <1>3, MovedKeeps
  <2> QED BY <1>1, <2>2, <2>3, WorldKeeps
<1>4. CASE Write(c)
  <2>1. [user[c] EXCEPT !.does = "sends"] \in Request
    BY DEF TypeOK, Request
  <2>2. user' = [user EXCEPT ![c] = [user[c] EXCEPT !.does = "sends"]]
        /\ park' = Moved(Superseded(c), "superseded")
        /\ UNCHANGED << chat, job, newer, settling, faults >>
    BY <1>4 DEF Write
  <2>3. user' \in [Conv -> Request]
    BY <2>1, <2>2 DEF TypeOK
  <2> QED BY <1>3, <2>2, <2>3, ChosenOf
<1>5. CASE Disarm(c)
  <2>1. user' = [user EXCEPT ![c] = NoRequest] /\ park' = Moved(Disarmed(c, user[c].n), "disarmed")
        /\ UNCHANGED << chat, job, newer, settling, faults >>
    BY <1>5 DEF Disarm
  <2>2. user' \in [Conv -> Request]
    BY <1>2, <2>1 DEF TypeOK
  <2> QED BY <1>3, <2>1, <2>2, ChosenOf
<1>6. CASE WriteUnheard(c) \/ DisarmFails(c)
  <2>1. [user[c] EXCEPT !.does = "sends"] \in Request
    BY DEF TypeOK, Request
  <2>2. user' = [user EXCEPT ![c] = [user[c] EXCEPT !.does = "sends"]]
        \/ user' = [user EXCEPT ![c] = NoRequest]
    BY <1>6 DEF WriteUnheard, DisarmFails
  <2>3. UNCHANGED << chat, job, sent, settling, worker, rows >> /\ faults' \in 0..MaxFaults
    BY <1>6, FaultType DEF WriteUnheard, DisarmFails
  <2>4. TypeOK'
    BY <1>2, <2>1, <2>2, <2>3 DEF TypeOK, chat, rows
  <2>5. UNCHANGED park
    BY <2>3 DEF rows
  <2> QED BY <1>1, <2>4, <2>5, ParksAlone
<1>7. CASE Begin(c)
  <2> DEFINE r == [n |-> run[c].n + 1, st |-> "running", of |-> Nil]
  <2>0. run[c].n \in 0..MaxRuns
    BY DEF TypeOK, Run
  <2>1. run[c].n # MaxRuns => r \in Run
    <3>1. run[c].n # MaxRuns => run[c].n + 1 \in 0..MaxRuns
      BY <2>0, BoundAssumption
    <3> QED BY <3>1 DEF Run
  <2>2. /\ user' = [user EXCEPT ![c] = NoRequest]
        /\ run' = [run EXCEPT ![c] = IF run[c].st = "running" \/ run[c].n = MaxRuns THEN run[c] ELSE r]
        /\ UNCHANGED << ghost, job, inbox, sent, settling, rows, worker, faults >>
    BY <1>7 DEF Begin
  <2>3. run' \in [Conv -> Run]
    BY <2>1, <2>2 DEF TypeOK
  <2>4. TypeOK'
    BY <1>2, <2>2, <2>3 DEF TypeOK, rows
  <2> QED BY <1>1, <2>2, <2>4, ParksAlone DEF rows
<1>8. CASE Stop(c)
  <2> DEFINE r == [run[c] EXCEPT !.st = "failed"]
             u == [does |-> "stops", n |-> run[c].n]
  <2>1. r \in Run /\ u \in Request
    <3>1. run[c] \in Run
      BY DEF TypeOK
    <3> QED BY <3>1 DEF Run, Request, Terminal
  <2>2. run' = [run EXCEPT ![c] = r] /\ user' = [user EXCEPT ![c] = u]
        /\ UNCHANGED << ghost, job, inbox, sent, settling, rows, worker, faults >>
    BY <1>8 DEF Stop
  <2>3. TypeOK'
    BY <2>1, <2>2 DEF TypeOK, rows
  <2> QED BY <1>1, <2>2, <2>3, ParksAlone DEF rows
<1> QED BY <1>4, <1>5, <1>6, <1>7, <1>8

LEMMA TimeKeeps ==
  ASSUME IInv, NEW p \in Park, Deadline(p) \/ Age(p)
  PROVE  IInv'
<1> USE DEF IInv
<1>1. UNCHANGED << chat, job, sent, newer, calls, faults >> /\ UNCHANGED worker /\ SentMore
  BY DEF Deadline, Age, calls, SentMore
<1>2. ASSUME NEW b \in Row, park' = [park EXCEPT ![p] = b], Keeps(p), Firm(p) PROVE IInv'
  <2>1. TypeOK'
    BY <1>1, <1>2 DEF TypeOK, chat, calls
  <2>2. \A q \in Park \ {p} : park'[q] = park[q]
    BY <1>2 DEF TypeOK
  <2>3. \A q \in Park : Keeps(q) /\ Firm(q)
    BY <1>2, <2>2, SameRow
  <2> QED BY <1>1, <2>1, <2>3, WorldKeeps
<1>3. ParkOK(p) /\ (In(p, {"waking", "woken", "armed"}) => park[p] \in Row)
  BY RowOf DEF In, Begun, Live, Resolved
<1>4. CASE Deadline(p)
  <2> DEFINE b == [park[p] EXCEPT !.due = TRUE]
  <2>1. park[p] \in Row /\ park' = [park EXCEPT ![p] = b] /\ In(p, {"armed", "waking", "woken"})
    BY <1>3, <1>4 DEF Deadline, In, Live
  <2>2. b \in Row /\ b.state = park[p].state /\ b.tries = park[p].tries /\ b.due
        /\ b.old = park[p].old
    BY <2>1 DEF Row
  <2>3. park'[p] = b
    BY <2>1 DEF TypeOK
  <2>4. Keeps(p) /\ Firm(p)
    BY <1>3, <2>2, <2>3 DEF Keeps, Firm, GoodChange, FirmChange, RowOK, Due, ParkOK, In
  <2> QED BY <1>2, <2>1, <2>2, <2>4
<1>5. CASE Age(p)
  <2> DEFINE b == [park[p] EXCEPT !.old = TRUE]
  <2>1. park[p] \in Row /\ park' = [park EXCEPT ![p] = b] /\ In(p, {"waking"}) /\ NotHeld(p)
    BY <1>3, <1>5 DEF Age, In, NotHeld
  <2>2. b \in Row /\ b.state = park[p].state /\ b.tries = park[p].tries /\ b.due = park[p].due
        /\ b.jobs = park[p].jobs /\ b.policy = park[p].policy
    BY <2>1 DEF Row
  <2>3. park'[p] = b
    BY <2>1 DEF TypeOK
  <2>4. Keeps(p) /\ Firm(p)
    BY <1>3, <2>1, <2>2, <2>3 DEF Keeps, Firm, GoodChange, FirmChange, RowOK, Due, ParkOK
  <2> QED BY <1>2, <2>1, <2>2, <2>4
<1> QED BY <1>4, <1>5

LEMMA CleanUpKeeps ==
  ASSUME IInv, CleanUp
  PROVE  IInv'
<1> USE DEF IInv
<1>1. ghost' = {} /\ UNCHANGED << job, inbox, sent, rows, calls, faults >>
  BY DEF CleanUp
<1>2. \A c \in Conv : [run[c] EXCEPT !.st = "cancelled"] \in Run
  BY DEF TypeOK, Run, Terminal
<1>3. run' \in [Conv -> Run]
  BY <1>2 DEF CleanUp, TypeOK
<1>4. TypeOK'
  BY <1>1, <1>3 DEF TypeOK, rows, calls
<1> QED BY <1>1, <1>4, ParksAlone DEF rows, calls

LEMMA IdleType == /\ Idle \in Work
                  /\ Idle.pc = "idle" /\ Idle.todo = {} /\ Idle.stage = "armed"
BY DEF Idle, Work, Resolved

LEMMA CrashKeeps ==
  ASSUME IInv, Crash
  PROVE  IInv'
<1> USE DEF IInv
<1>1. /\ worker' = [w \in Worker |-> Idle] /\ user' = [c \in Conv |-> NoRequest]
      /\ settling' = [c \in Job |-> Nil] /\ UNCHANGED << run, newer, inbox, sent >>
      /\ faults' \in 0..MaxFaults
  BY FaultType DEF Crash
<1>2. NoRequest \in Request
  BY BoundAssumption DEF NoRequest, Request
<1>3. job' \in [Job -> Snapshot]
  <2>1. \A c \in Job : [job[c] EXCEPT !.st = IF @ = "running" THEN "lost" ELSE @] \in Snapshot
    BY DEF TypeOK, Snapshot
  <2> QED BY <2>1 DEF Crash
<1>4. park' \in [Park -> Row \cup {Free}] /\ ghost' \subseteq Conv
  BY DEF Crash, TypeOK
<1>5. TypeOK'
  BY <1>1, <1>2, <1>3, <1>4, IdleType DEF TypeOK
<1>6. \A w \in Worker : worker'[w].pc = "idle" /\ worker'[w].todo = {} /\ worker'[w].stage = "armed"
  BY <1>1, IdleType
<1>7. \A w \in Worker : \A p : ~Holds(w, p)'
  BY <1>6 DEF Holds
<1>8. \A p \in Park : ParkOK(p)'
  BY <1>7 DEF Crash, ParkOK, In, RowOK, Free, NotHeld
<1>9. \A w \in Worker : WorkOK(w)'
  BY <1>6 DEF WorkOK, AtPark, Sending, Dispatching
<1>10. SweepOK'
  BY <1>6 DEF SweepOK, At, Worker
<1>11. OneDispatcher'
  BY <1>7 DEF OneDispatcher
<1> QED BY <1>5, <1>8, <1>9, <1>10, <1>11

-----------------------------------------------------------------------------
(* Workers.                                                                *)

\* WorkOK and SweepOK, of what a worker becomes; the rows are those it leaves.
Fit(w, k) ==
  /\ k.pc \in AtPark => k.park \in Park /\ In(k.park, Begun)
  /\ \A t \in k.todo : In(t[1], Begun)
  /\ k.pc = "record" \/ (w # Sweep /\ k.pc # "idle") => k.job \in Job /\ k.st \in Terminal
  /\ k.pc = "claim" => Due(park[k.park])
  /\ k.pc \in Dispatching => In(k.park, Taken)
  /\ k.pc \in Sending => park[k.park].tries < RetryMax
  /\ k.pc = "settle" /\ k.as \in {"woken", "expired"} => sent'[k.park] > 0

SweepFit(w, k) ==
  /\ w # Sweep => k.pc # "reset"
  /\ w = Sweep =>
       /\ k.pc \in {"idle", "list"} => k.stage = "armed"
       /\ k.pc = "reset" => Gone(k.park) /\ k.stage = "stalled"
       /\ k.stage = "stalled" =>
            \A t \in k.todo :
              Gone(t[1]) /\ t[1] # k.park /\ \A u \in k.todo : u[1] = t[1] => u = t

\* A step that writes no row.
LEMMA ReadKeeps ==
  ASSUME IInv, TypeOK', NEW w \in Worker, NEW k \in Work, Turn(w, k), UNCHANGED park, SentMore,
         Fit(w, k), SweepFit(w, k)
  PROVE  IInv'
<1>1. worker'[w] = k /\ P(w)' = k.park
  BY DEF Turn, IInv, TypeOK, P
<1>2. \A p \in Park : Keeps(p) /\ Firm(p) /\ (In(p, Taken) => In(p, Taken)')
  BY SameRow DEF In
<1>3. WorkOK(w)'
  BY <1>1 DEF WorkOK, Fit, In
<1>4. \A p \in Park : Gone(p) => Gone(p)'
  BY HoldersAfter DEF Gone, In, Taken, Resolved
<1>5. \A t \in k.todo : t[1] \in Park
  BY DEF Work
<1>6. k.pc = "reset" => k.park \in Park
  BY DEF Fit, AtPark
<1>7. w = Sweep =>
        /\ k.pc \in {"idle", "list"} => k.stage = "armed"
        /\ k.pc = "reset" => Gone(k.park)' /\ k.stage = "stalled"
        /\ k.stage = "stalled" =>
             \A t \in k.todo :
               Gone(t[1])' /\ t[1] # k.park /\ \A u \in k.todo : u[1] = t[1] => u = t
  BY <1>4, <1>5, <1>6 DEF SweepFit
<1> QED BY <1>2, <1>3, <1>7, WorkerKeeps DEF SweepFit

\* A step that writes the row of its park, b.
LEMMA WriteKeeps ==
  ASSUME IInv, TypeOK', NEW w \in Worker, NEW k \in Work, Turn(w, k), UNCHANGED sent,
         P(w) \in Park, NEW b, park'[P(w)] = b, b.old = FALSE,
         \A q \in Park \ {P(w)} : park'[q] = park[q],
         GoodChange(park[P(w)], b),
         FirmChange(park[P(w)], b) \/ Holds(w, P(w)) \/ Gone(P(w)),
         w # Sweep /\ In(P(w), Taken) => b.state \in Taken,
         k.pc \in AtPark => k.park = P(w) /\ b.state \in Begun,
         k.todo \subseteq worker[w].todo,
         k.pc = "record" \/ (w # Sweep /\ k.pc # "idle") => k.job \in Job /\ k.st \in Terminal,
         k.pc \notin {"claim", "reset"},
         k.pc \in Dispatching => b.state \in Taken,
         k.pc \in Sending => b.tries < RetryMax,
         k.pc = "settle" /\ k.as \in {"woken", "expired"} => sent[P(w)] > 0,
         k.pc \in {"idle", "list"} => k.stage = "armed",
         k.stage = "stalled" => k.todo = {} \/ (worker[w].stage = "stalled" /\ k.park \in {P(w), Nil})
  PROVE  IInv'
<1>1. worker'[w] = k /\ P(w)' = k.park /\ worker[w] \in Work
  BY DEF Turn, IInv, TypeOK, P
<1>2. SentMore
  BY DEF SentMore
<1>3. \A p \in Park : Keeps(p) /\ (p # P(w) => Firm(p))
  BY SameRow, NewRow
<1>4. \A v \in Worker \ {w}, p \in Park : Holds(v, p) => Firm(p)
  <2> SUFFICES ASSUME NEW v \in Worker \ {w}, NEW p \in Park, Holds(v, p) PROVE Firm(p)
    OBVIOUS
  <2>1. CASE p # P(w)
    BY <1>3, <2>1
  <2>2. CASE p = P(w)
    BY <2>2 DEF Firm, IInv, OneDispatcher, Gone, NotHeld
  <2> QED BY <2>1, <2>2
<1>5. w # Sweep => \A p \in Park : In(p, Taken) => In(p, Taken)'
  BY <1>3 DEF Firm, FirmChange, In
<1>6. \A t \in k.todo : t[1] \in Park /\ In(t[1], Begun)'
  <2>1. \A t \in worker[w].todo : t[1] \in Park /\ In(t[1], Begun)
    BY <1>1 DEF Work, IInv, WorkOK
  <2> QED BY <1>3, <2>1 DEF Keeps, GoodChange, In
<1>7. WorkOK(w)'
  BY <1>1, <1>6 DEF WorkOK, In, AtPark, Dispatching, Sending
<1>8. w = Sweep /\ k.stage = "stalled" =>
        \A t \in k.todo :
          Gone(t[1])' /\ t[1] # k.park /\ \A u \in k.todo : u[1] = t[1] => u = t
  <2> SUFFICES ASSUME w = Sweep, k.stage = "stalled", NEW t \in k.todo
               PROVE  Gone(t[1])' /\ t[1] # k.park /\ \A u \in k.todo : u[1] = t[1] => u = t
    OBVIOUS
  <2>1. worker[w].stage = "stalled" /\ k.park \in {P(w), Nil} /\ t \in worker[w].todo
    OBVIOUS
  <2>2. Gone(t[1]) /\ t[1] # P(w) /\ t[1] \in Park
        /\ \A u \in worker[w].todo : u[1] = t[1] => u = t
    BY <1>6, <2>1 DEF IInv, SweepOK
  <2>3. park'[t[1]] = park[t[1]] /\ Nil \notin Park
    BY <2>2, NameAssumption
  <2>4. Gone(t[1])'
    BY <2>2, <2>3, HoldersAfter DEF Gone, In, Taken, Resolved
  <2> QED BY <2>1, <2>2, <2>3, <2>4
<1> QED BY <1>2, <1>3, <1>4, <1>5, <1>7, <1>8, WorkerKeeps

LEMMA RestIs ==
  ASSUME NEW k \in Work
  PROVE  /\ Rest(k) \in Work
         /\ Rest(k).pc \in {"next", "stalled", "idle"}
         /\ Rest(k).todo = k.todo /\ Rest(k).park = Nil
         /\ Rest(k).pc = "next" => Rest(k).stage = k.stage /\ Rest(k).job = k.job /\ Rest(k).st = k.st
         /\ Rest(k).pc = "stalled" => k.job = Nil
         /\ Rest(k).pc = "idle" => Rest(k).stage = "armed"
         /\ Rest(k).pc # "next" => Rest(k).todo = {}
<1>1. CASE k.todo # {}
  <2> DEFINE n == [k EXCEPT !.pc = "next", !.park = Nil, !.left = {}, !.as = "woken"]
  <2>1. Rest(k) = n
    BY <1>1 DEF Rest
  <2>2. n \in Work /\ n.pc = "next" /\ n.todo = k.todo /\ n.park = Nil /\ n.stage = k.stage
        /\ n.job = k.job /\ n.st = k.st
    BY DEF Work, Step, Resolved
  <2> QED BY <1>1, <2>1, <2>2
<1>2. CASE k.todo = {} /\ k.stage = "armed" /\ k.job = Nil
  <2> DEFINE n == [Idle EXCEPT !.pc = "stalled", !.stage = "stalled"]
  <2>1. Rest(k) = n
    BY <1>2 DEF Rest
  <2>2. n \in Work /\ n.pc = "stalled" /\ n.todo = {} /\ n.park = Nil
    BY DEF Work, Idle, Step, Resolved
  <2> QED BY <1>2, <2>1, <2>2
<1>3. CASE k.todo = {} /\ ~(k.stage = "armed" /\ k.job = Nil)
  <2>1. Rest(k) = Idle /\ Idle.park = Nil
    BY <1>3 DEF Rest, Idle
  <2> QED BY <1>3, <2>1, IdleType
<1> QED BY <1>1, <1>2, <1>3

LEMMA JobIsNotNil == Nil \notin Job
BY NameAssumption DEF Job

LEMMA WorkerType ==
  ASSUME TypeOK, NEW w \in Worker, NEW k \in Work, worker' = [worker EXCEPT ![w] = k],
         UNCHANGED << chat, job, sent, settling, user, faults, rows >>
  PROVE  TypeOK'
BY DEF TypeOK, chat, rows

\* The end of what a worker does about one park.
LEMMA RestKeeps ==
  ASSUME IInv, NEW w \in Worker, Go(w, "next"), worker[w].pc # "idle", ReadOnly
  PROVE  IInv'
<1> DEFINE k == Rest(worker[w])
<1>1. worker[w] \in Work /\ WorkOK(w) /\ SweepOK /\ TypeOK
  BY DEF IInv, TypeOK
<1>2. worker' = [worker EXCEPT ![w] = k]
  BY DEF Go
<1>3. /\ k \in Work /\ k.pc \in {"next", "stalled", "idle"} /\ k.todo = worker[w].todo /\ k.park = Nil
      /\ k.pc = "next" => k.stage = worker[w].stage /\ k.job = worker[w].job /\ k.st = worker[w].st
      /\ k.pc = "stalled" => worker[w].job = Nil
      /\ k.pc = "idle" => k.stage = "armed"
      /\ k.pc # "next" => k.todo = {}
  BY <1>1, RestIs
<1>4. TypeOK'
  BY <1>1, <1>2, <1>3, WorkerType DEF ReadOnly, ParksOnly
<1>5. Turn(w, k)
  BY <1>2, <1>3 DEF Turn, Dispatching, Sending
<1>6. Fit(w, k)
  BY <1>1, <1>3, JobIsNotNil DEF Fit, WorkOK, AtPark, Dispatching, Sending
<1>7. \A t \in worker[w].todo : t[1] # Nil
  BY <1>1, NameAssumption DEF Work
<1>8. SweepFit(w, k)
  BY <1>1, <1>3, <1>7 DEF SweepFit, SweepOK
<1>9. UNCHANGED park /\ SentMore
  BY DEF ReadOnly, ParksOnly, SentMore, rows
<1> QED BY <1>3, <1>4, <1>5, <1>6, <1>8, <1>9, ReadKeeps

LEMMA SettlementKeeps ==
  ASSUME IInv, NEW c \in Job, Judge(c) \/ Commit(c)
  PROVE  IInv'
<1> USE DEF IInv
<1>1. CASE Judge(c)
  <2>1. settling' = [settling EXCEPT ![c] = run[c]] /\ run[c].st \in Terminal /\ c \in Conv
        /\ UNCHANGED << chat, job, sent, rows, worker, user, faults >>
    BY <1>1, JobsAreConvs DEF Judge
  <2>2. TypeOK'
    BY <2>1 DEF TypeOK, EndedRun, chat, rows
  <2> QED BY <2>1, <2>2, ParksAlone DEF rows
<1>2. CASE Commit(c)
  <2> DEFINE k == [Idle EXCEPT !.pc = "list", !.job = c, !.st = settling[c].st]
             j == [job[c] EXCEPT !.st = settling[c].st]
  <2>1. /\ settling[c] # Nil /\ job' = [job EXCEPT ![c] = j]
        /\ settling' = [settling EXCEPT ![c] = Nil] /\ worker' = [worker EXCEPT ![c] = k]
        /\ UNCHANGED << chat, sent, rows, user, faults >>
    BY <1>2 DEF Commit
  <2>2. settling[c].st \in Terminal /\ c \in Worker /\ c # Sweep
    BY <2>1, NameAssumption DEF TypeOK, EndedRun, Worker, Job
  <2>3. k \in Work /\ k.pc = "list" /\ k.todo = {} /\ k.stage = "armed" /\ k.job = c
        /\ k.st = settling[c].st
    BY <2>2 DEF Idle, Work, Step, Resolved
  <2>4. j \in Snapshot
    BY <2>2 DEF TypeOK, Snapshot
  <2>5. TypeOK'
    BY <2>1, <2>2, <2>3, <2>4 DEF TypeOK, chat, rows
  <2>6. Turn(c, k) /\ Fit(c, k) /\ SweepFit(c, k)
    BY <2>1, <2>2, <2>3 DEF Turn, Fit, SweepFit, AtPark, Dispatching, Sending
  <2>7. UNCHANGED park /\ SentMore
    BY <2>1 DEF rows, SentMore
  <2> QED BY <2>2, <2>3, <2>5, <2>6, <2>7, ReadKeeps
<1> QED BY <1>1, <1>2

\* A step of a worker that only moves it.
LEMMA ReadOnlyKeeps ==
  ASSUME IInv, NEW w \in Worker, NEW k \in Work, Turn(w, k), ReadOnly, Fit(w, k), SweepFit(w, k)
  PROVE  IInv'
<1>1. TypeOK'
  BY WorkerType DEF IInv, Turn, ReadOnly, ParksOnly
<1>2. UNCHANGED park /\ SentMore
  BY DEF ReadOnly, ParksOnly, SentMore, rows
<1> QED BY <1>1, <1>2, ReadKeeps

LEMMA ListingKeeps ==
  ASSUME IInv, NEW w \in Worker, (Wakes /\ w = Sweep) \/ List(w) \/ Take(w)
  PROVE  IInv'
<1>1. worker[w] \in Work /\ WorkOK(w) /\ SweepOK
  BY DEF IInv, TypeOK
<1>2. CASE Wakes /\ w = Sweep
  <2> DEFINE k == [worker[w] EXCEPT !.pc = "list"]
  <2>1. worker' = [worker EXCEPT ![w] = k] /\ ReadOnly /\ worker[w].pc = "idle"
    BY <1>2 DEF Wakes, Go, At
  <2>2. k \in Work /\ k.pc = "list" /\ k.todo = worker[w].todo /\ k.stage = worker[w].stage
    BY <1>1 DEF Work, Step
  <2>3. worker[w].stage = "armed"
    BY <1>1, <1>2, <2>1 DEF SweepOK
  <2>4. Turn(w, k) /\ Fit(w, k) /\ SweepFit(w, k)
    BY <1>1, <1>2, <2>1, <2>2, <2>3 DEF Turn, Fit, SweepFit, WorkOK, AtPark, Dispatching, Sending
  <2> QED BY <2>1, <2>2, <2>4, ReadOnlyKeeps
<1>3. CASE List(w)
  <2> DEFINE ps == IF At(w, "list") THEN Armed(w) ELSE Stalled
             l  == [worker[w] EXCEPT !.todo = Listed(ps)]
             k  == Rest(l)
  <2>1. worker' = [worker EXCEPT ![w] = k] /\ ReadOnly /\ worker[w].pc \in {"list", "stalled"}
    BY <1>3 DEF List, At
  <2>2. ps \subseteq Park /\ \A p \in ps : In(p, Live)
    BY DEF Armed, Stalled, In, Live
  <2>3. Listed(ps) \in SUBSET (Park \X SUBSET Job)
    BY <2>2 DEF Listed, Unsettled
  <2>4. l \in Work /\ l.todo = Listed(ps) /\ l.stage = worker[w].stage /\ l.job = worker[w].job
        /\ l.st = worker[w].st
    BY <1>1, <2>3 DEF Work
  <2> HIDE DEF l
  <2>5. /\ k \in Work /\ k.pc \in {"next", "stalled", "idle"} /\ k.todo = Listed(ps) /\ k.park = Nil
        /\ k.pc = "next" => k.stage = worker[w].stage /\ k.job = worker[w].job
                            /\ k.st = worker[w].st
        /\ k.pc = "stalled" => worker[w].job = Nil
        /\ k.pc = "idle" => k.stage = "armed"
        /\ k.pc # "next" => k.todo = {}
    BY <2>4, RestIs
  <2>6. Turn(w, k)
    BY <2>1, <2>5 DEF Turn, Dispatching, Sending
  <2>7. \A t \in k.todo : t[1] \in ps /\ t = << t[1], Unsettled(t[1]) >>
    BY <2>5 DEF Listed
  <2>8. \A t \in k.todo : In(t[1], Begun) /\ t[1] # Nil
    BY <2>2, <2>7, NameAssumption DEF In, Begun
  <2>9. Fit(w, k)
    BY <1>1, <2>1, <2>5, <2>8, JobIsNotNil DEF Fit, WorkOK, AtPark, Dispatching, Sending
  <2>10. SweepFit(w, k)
    <3>1. w = Sweep /\ k.stage = "stalled" /\ k.todo # {} => ps = Stalled
      BY <1>1, <2>1, <2>5 DEF SweepOK, At
    <3>2. \A p \in Stalled : Gone(p)
      BY DEF Stalled, Gone, IInv, ParkOK, In, Taken
    <3> QED BY <2>5, <2>7, <2>8, <3>1, <3>2 DEF SweepFit
  <2> QED BY <2>1, <2>5, <2>6, <2>9, <2>10, ReadOnlyKeeps
<1>4. CASE Take(w)
  <2>1. PICK t \in worker[w].todo :
          worker' = [worker EXCEPT ![w].pc = Begins(w, t), ![w].todo = @ \ {t},
                                   ![w].park = t[1], ![w].left = t[2]]
    BY <1>4 DEF Take
  <2> DEFINE k == [worker[w] EXCEPT !.pc = Begins(w, t), !.todo = worker[w].todo \ {t},
                                    !.park = t[1], !.left = t[2]]
  <2>2. t[1] \in Park /\ t[2] \in SUBSET Job
    BY <1>1 DEF Work
  <2>3. Begins(w, t) \in {"record", "reset", "check", "decide"}
        /\ (w # Sweep => Begins(w, t) = "record")
        /\ (w = Sweep => Begins(w, t) # "record")
        /\ (w = Sweep /\ Begins(w, t) = "reset" => worker[w].stage = "stalled")
        /\ (w = Sweep /\ worker[w].stage = "stalled" => Begins(w, t) = "reset")
    BY DEF Begins, Looks
  <2>4. k \in Work /\ k.pc = Begins(w, t) /\ k.todo = worker[w].todo \ {t} /\ k.park = t[1]
        /\ k.stage = worker[w].stage /\ k.job = worker[w].job /\ k.st = worker[w].st
    BY <1>1, <2>2, <2>3 DEF Work, Step
  <2>5. worker' = [worker EXCEPT ![w] = k] /\ ReadOnly /\ worker[w].pc = "next"
    BY <1>4, <2>1 DEF Take, At, IInv, TypeOK
  <2>6. Turn(w, k)
    BY <2>3, <2>4, <2>5 DEF Turn, Dispatching, Sending
  <2>7. Fit(w, k)
    BY <1>1, <2>2, <2>3, <2>4, <2>5 DEF Fit, WorkOK, AtPark, Dispatching, Sending
  <2>8. SweepFit(w, k)
    BY <1>1, <2>3, <2>4 DEF SweepFit, SweepOK
  <2> QED BY <2>4, <2>5, <2>6, <2>7, <2>8, ReadOnlyKeeps
<1> QED BY <1>2, <1>3, <1>4

\* Moving on with the same park.
LEMMA GoKeeps ==
  ASSUME IInv, NEW w \in Worker, NEW k \in Work, worker' = [worker EXCEPT ![w] = k], ReadOnly,
         worker[w].pc \in AtPark, k.pc \in AtPark \ {"reset"},
         k.park = P(w), k.todo = worker[w].todo, k.stage = worker[w].stage,
         k.pc = "record" \/ w # Sweep => k.job \in Job /\ k.st \in Terminal,
         k.pc = "claim" => Due(park[P(w)]),
         k.pc \in Dispatching => worker[w].pc \in Dispatching,
         k.pc \in Sending => worker[w].pc \in Sending,
         k.pc = "settle" => k.as \notin {"woken", "expired"}
  PROVE  IInv'
<1>1. worker[w] \in Work /\ WorkOK(w) /\ SweepOK
  BY DEF IInv, TypeOK
<1>2. Turn(w, k)
  BY DEF Turn
<1>3. Fit(w, k)
  BY <1>1 DEF Fit, WorkOK, AtPark, Dispatching, Sending
<1>4. SweepFit(w, k)
  BY <1>1 DEF SweepFit, SweepOK, AtPark, P
<1> QED BY <1>2, <1>3, <1>4, ReadOnlyKeeps

LEMMA ReadingKeeps ==
  ASSUME IInv, NEW w \in Worker, Check(w) \/ Decide(w) \/ Look(w) \/ Get(w) \/ SendFails(w)
  PROVE  IInv'
<1>1. worker[w] \in Work /\ WorkOK(w) /\ ReadOnly
  BY DEF IInv, TypeOK, Check, Decide, Look, Get, SendFails
<1>2. CASE Check(w)
  <2>1. PICK c \in worker[w].left :
          LET left == worker[w].left \ {c} IN
          worker' = [worker EXCEPT ![w] =
            IF Done(c) THEN [@ EXCEPT !.left = left, !.pc = "record", !.job = c, !.st = run[c].st]
                       ELSE [@ EXCEPT !.left = left, !.pc = Looks(left)]]
    BY <1>2 DEF Check
  <2> DEFINE left == worker[w].left \ {c}
  <2>2. left \in SUBSET Job /\ c \in Job /\ worker[w].pc = "check"
    BY <1>1, <1>2 DEF Work, Check, At
  <2>3. CASE Done(c)
    <3> DEFINE k == [worker[w] EXCEPT !.left = left, !.pc = "record", !.job = c, !.st = run[c].st]
    <3>1. run[c].st \in Terminal
      BY <2>3 DEF Done
    <3>2. k \in Work /\ k.pc = "record" /\ k.todo = worker[w].todo /\ k.park = P(w)
          /\ k.stage = worker[w].stage /\ k.job = c /\ k.st = run[c].st
      BY <1>1, <2>2, <3>1 DEF Work, Step, P
    <3>3. worker' = [worker EXCEPT ![w] = k]
      BY <2>1, <2>3
    <3> QED BY <1>1, <2>2, <3>1, <3>2, <3>3, GoKeeps DEF AtPark, Dispatching, Sending
  <2>4. CASE ~Done(c)
    <3> DEFINE k == [worker[w] EXCEPT !.left = left, !.pc = Looks(left)]
    <3>1. Looks(left) \in {"check", "decide"}
      BY DEF Looks
    <3>2. k \in Work /\ k.pc = Looks(left) /\ k.todo = worker[w].todo /\ k.park = P(w)
          /\ k.stage = worker[w].stage /\ k.job = worker[w].job /\ k.st = worker[w].st
      BY <1>1, <2>2, <3>1 DEF Work, Step, P
    <3>3. worker' = [worker EXCEPT ![w] = k]
      BY <2>1, <2>4
    <3> QED BY <1>1, <2>2, <3>1, <3>2, <3>3, GoKeeps DEF AtPark, Dispatching, Sending, WorkOK
  <2> QED BY <2>3, <2>4
<1>3. ASSUME NEW pc \in {"claim", "send", "count"}, Go(w, pc), worker[w].pc \in AtPark,
             pc = "claim" => Due(park[P(w)]),
             pc # "claim" => worker[w].pc \in Sending
      PROVE  IInv'
  <2> DEFINE k == [worker[w] EXCEPT !.pc = pc]
  <2>1. worker' = [worker EXCEPT ![w] = k]
    BY <1>3 DEF Go
  <2>2. k \in Work /\ k.pc = pc /\ k.todo = worker[w].todo /\ k.park = P(w)
        /\ k.stage = worker[w].stage /\ k.job = worker[w].job /\ k.st = worker[w].st
    BY <1>1 DEF Work, Step, P
  <2> QED BY <1>1, <1>3, <2>1, <2>2, GoKeeps DEF AtPark, Dispatching, Sending, WorkOK
<1>4. CASE Decide(w)
  <2>1. worker[w].pc = "decide" /\ P(w) \in Park
    BY <1>1, <1>4 DEF Decide, At, WorkOK, AtPark
  <2>2. CASE w = Sweep /\ park[P(w)].due
    <3> DEFINE k == [worker[w] EXCEPT !.pc = "claim", !.as = "expired"]
    <3>1. worker' = [worker EXCEPT ![w] = k]
      BY <1>4, <2>2 DEF Decide, IInv, TypeOK
    <3>2. k \in Work /\ k.pc = "claim" /\ k.todo = worker[w].todo /\ k.park = P(w)
          /\ k.stage = worker[w].stage /\ k.job = worker[w].job /\ k.st = worker[w].st
      BY <1>1 DEF Work, Step, P, Resolved
    <3>3. Due(park[P(w)])
      BY <2>2 DEF Due
    <3> QED BY <1>1, <2>1, <2>2, <3>1, <3>2, <3>3, GoKeeps DEF AtPark, Dispatching, Sending
  <2>3. CASE ~(w = Sweep /\ park[P(w)].due)
    <3>1. Go(w, IF Decides(P(w)) THEN "claim" ELSE "next")
      BY <1>4, <2>3 DEF Decide
    <3>2. CASE Decides(P(w))
      <4>1. Due(park[P(w)])
        BY <2>1, <3>2 DEF Decides, Due, Failed, Unsettled, Watched
      <4> QED BY <1>3, <2>1, <3>1, <3>2, <4>1 DEF AtPark
    <3>3. CASE ~Decides(P(w))
      BY <1>1, <2>1, <3>1, <3>3, RestKeeps
    <3> QED BY <3>2, <3>3
  <2> QED BY <2>2, <2>3
<1>5. CASE Look(w)
  <2>1. worker[w].pc = "look" /\ P(w) \in Park
    BY <1>1, <1>5 DEF Look, At, WorkOK, AtPark
  <2> DEFINE pc == IF Outrun(P(w)) THEN "settle" ELSE "get"
             as == IF Outrun(P(w)) THEN "superseded" ELSE worker[w].as
             k  == [worker[w] EXCEPT !.pc = pc, !.as = as]
  <2>2. worker' = [worker EXCEPT ![w] = k]
    BY <1>5 DEF Look, IInv, TypeOK
  <2>3. pc \in {"settle", "get"} /\ as \in Resolved /\ (pc = "settle" => as = "superseded")
    BY <1>1 DEF Work, Resolved
  <2> HIDE DEF pc, as
  <2>4. k \in Work /\ k.pc = pc /\ k.todo = worker[w].todo /\ k.park = P(w)
        /\ k.stage = worker[w].stage /\ k.job = worker[w].job /\ k.st = worker[w].st /\ k.as = as
    BY <1>1, <2>3 DEF Work, Step, P
  <2> QED BY <1>1, <2>1, <2>2, <2>3, <2>4, GoKeeps DEF AtPark, Dispatching, Sending, WorkOK
<1>6. CASE Get(w)
  <2>1. worker[w].pc = "get" /\ Go(w, IF In(P(w), {"waking"}) THEN "send" ELSE "next")
    BY <1>6 DEF Get, At
  <2>2. CASE In(P(w), {"waking"})
    BY <1>3, <2>1, <2>2 DEF AtPark, Sending
  <2>3. CASE ~In(P(w), {"waking"})
    BY <1>1, <2>1, <2>3, RestKeeps
  <2> QED BY <2>2, <2>3
<1>7. CASE SendFails(w)
  <2>1. worker[w].pc = "send" /\ Go(w, "count")
    BY <1>7 DEF SendFails, At
  <2> QED BY <1>3, <2>1 DEF AtPark, Sending
<1> QED BY <1>2, <1>4, <1>5, <1>6, <1>7

LEMMA SendKeeps ==
  ASSUME IInv, NEW w \in Worker, Send(w)
  PROVE  IInv'
<1> DEFINE k == [worker[w] EXCEPT !.pc = "settle"]
           c == park[P(w)].conv
<1>1. worker[w] \in Work /\ WorkOK(w) /\ SweepOK /\ worker[w].pc = "send" /\ P(w) \in Park
      /\ In(P(w), Taken) /\ In(P(w), Begun)
  BY DEF IInv, TypeOK, Send, At, WorkOK, AtPark, Dispatching, Sending
<1>2. worker' = [worker EXCEPT ![w] = k] /\ sent' = [sent EXCEPT ![P(w)] = sent[P(w)] + 1]
      /\ inbox' = [inbox EXCEPT ![c] = inbox[c] \cup {P(w)}]
      /\ UNCHANGED << run, ghost, job, settling, rows, user, faults >>
  BY DEF Send, Go
<1>3. park[P(w)] \in Row
  BY <1>1, RowOf DEF IInv, In
<1>4. c \in Conv
  BY <1>3 DEF Row
<1>5. k \in Work /\ k.pc = "settle" /\ k.todo = worker[w].todo /\ k.park = P(w)
      /\ k.stage = worker[w].stage /\ k.job = worker[w].job /\ k.st = worker[w].st
  BY <1>1 DEF Work, Step, P
<1>6. /\ sent' \in [Park -> Nat] /\ sent'[P(w)] > 0 /\ SentMore
  BY <1>1, <1>2 DEF IInv, TypeOK, SentMore
<1>7. inbox' \in [Conv -> SUBSET Park]
  BY <1>1, <1>2, <1>4 DEF IInv, TypeOK
<1>8. TypeOK'
  BY <1>2, <1>5, <1>6, <1>7 DEF IInv, TypeOK, rows
<1>9. Turn(w, k)
  BY <1>1, <1>2, <1>5 DEF Turn, Dispatching, Sending
<1>10. Fit(w, k)
  BY <1>1, <1>5, <1>6 DEF Fit, WorkOK, AtPark, Sending
<1>11. SweepFit(w, k)
  BY <1>1, <1>5 DEF SweepFit, SweepOK, P
<1>12. UNCHANGED park
  BY <1>2 DEF rows
<1> QED BY <1>5, <1>6, <1>8, <1>9, <1>10, <1>11, <1>12, ReadKeeps

LEMMA WriteType ==
  ASSUME TypeOK, NEW w \in Worker, NEW k \in Work, worker' = [worker EXCEPT ![w] = k],
         P(w) \in Park, NEW r \in Row, Put(P(w), r), ParksOnly
  PROVE  TypeOK'
<1>1. newer' \subseteq Park \X Park /\ park' \in [Park -> Row \cup {Free}]
  BY PutRow
<1> QED BY <1>1 DEF TypeOK, ParksOnly, chat

\* WriteKeeps, of a row that is put.
LEMMA PutKeeps ==
  ASSUME IInv, NEW w \in Worker, NEW k \in Work, Turn(w, k), ParksOnly,
         P(w) \in Park, NEW r \in Row, Put(P(w), r),
         GoodChange(park[P(w)], r),
         FirmChange(park[P(w)], r) \/ Holds(w, P(w)) \/ Gone(P(w)),
         w # Sweep /\ In(P(w), Taken) => r.state \in Taken,
         k.pc \in AtPark => k.park = P(w) /\ r.state \in Begun,
         k.todo \subseteq worker[w].todo,
         k.pc = "record" \/ (w # Sweep /\ k.pc # "idle") => k.job \in Job /\ k.st \in Terminal,
         k.pc \notin {"claim", "reset"},
         k.pc \in Dispatching => r.state \in Taken,
         k.pc \in Sending => r.tries < RetryMax,
         k.pc = "settle" /\ k.as \in {"woken", "expired"} => sent[P(w)] > 0,
         k.pc \in {"idle", "list"} => k.stage = "armed",
         k.stage = "stalled" => k.todo = {} \/ (worker[w].stage = "stalled" /\ k.park \in {P(w), Nil})
  PROVE  IInv'
<1> DEFINE b == [r EXCEPT !.old = FALSE]
<1>1. TypeOK'
  BY WriteType DEF IInv, Turn
<1>2. park'[P(w)] = b /\ \A q \in Park \ {P(w)} : park'[q] = park[q]
  BY PutRow DEF IInv
<1>3. b.old = FALSE /\ b.state = r.state /\ b.tries = r.tries /\ b.due = r.due /\ b.jobs = r.jobs
      /\ b.policy = r.policy
  BY DEF Row
<1> HIDE DEF b
<1>4. GoodChange(park[P(w)], b)
  BY <1>3 DEF GoodChange, RowOK, Due
<1>5. FirmChange(park[P(w)], b) \/ Holds(w, P(w)) \/ Gone(P(w))
  BY <1>3 DEF FirmChange
<1>6. UNCHANGED sent
  BY DEF ParksOnly
<1> QED BY <1>1, <1>2, <1>3, <1>4, <1>5, <1>6, WriteKeeps

LEMMA WritingKeeps ==
  ASSUME IInv, NEW w \in Worker, Reset(w) \/ Record(w) \/ Claim(w) \/ Count(w) \/ Settle(w)
  PROVE  IInv'
<1> DEFINE a == park[P(w)]
<1>1. /\ worker[w] \in Work /\ WorkOK(w) /\ SweepOK /\ ParksOnly
      /\ worker[w].pc \in {"reset", "record", "claim", "count", "settle"}
      /\ P(w) \in Park /\ In(P(w), Begun)
  BY DEF IInv, TypeOK, Reset, Record, Claim, Count, Settle, At, WorkOK, AtPark
<1>2. a \in Row /\ ParkOK(P(w)) /\ a.state \in Begun
  BY <1>1, RowOf DEF IInv, In
<1>3. /\ worker[w].pc \in Dispatching => In(P(w), Taken) /\ Holds(w, P(w))
      /\ w # Sweep => worker[w].job \in Job /\ worker[w].st \in Terminal
  BY <1>1 DEF WorkOK, Dispatching, Sending, Holds
<1>4. ASSUME Go(w, "next"), UNCHANGED rows PROVE IInv'
  BY <1>1, <1>4, RestKeeps DEF ReadOnly
<1>5. CASE Reset(w) /\ In(P(w), {"waking"})
  <2> DEFINE r == Unclaimed(a)
             left == Unsettled(P(w))
             k == [worker[w] EXCEPT !.pc = Looks(left), !.left = left]
  <2>1. Put(P(w), r) /\ worker[w].pc = "reset"
        /\ worker' = [worker EXCEPT ![w].pc = Looks(left), ![w].left = left]
    BY <1>5 DEF Reset, At
  <2>2. worker' = [worker EXCEPT ![w] = k]
    BY <2>1 DEF IInv, TypeOK
  <2>3. w = Sweep /\ Gone(P(w)) /\ worker[w].stage = "stalled"
    BY <1>1, <2>1 DEF SweepOK, At
  <2>4. left \in SUBSET Job /\ Looks(left) \in {"check", "decide"}
    BY DEF Unsettled, Looks
  <2> HIDE DEF left
  <2>5. k \in Work /\ k.pc \in {"check", "decide"} /\ k.todo = worker[w].todo /\ k.park = P(w)
        /\ k.stage = worker[w].stage
    BY <1>1, <2>4 DEF Work, Step, P
  <2>6. r \in Row /\ r.state = "armed" /\ r.tries = 0 /\ r.due = a.due /\ r.jobs = a.jobs
        /\ r.policy = a.policy
    <3>1. 0 \in 0..RetryMax /\ 0 \in 0..MaxRuns
      BY BoundAssumption
    <3>2. a \in Row
      BY <1>2
    <3> HIDE DEF a
    <3> QED BY <3>1, <3>2 DEF Unclaimed, Row, Live
  <2> HIDE DEF r, a, k
  <2>7. GoodChange(a, r)
    BY <2>6 DEF GoodChange, RowOK, Begun, Live, Due
  <2>8. Turn(w, k)
    BY <2>2, <2>5 DEF Turn, Dispatching, Sending
  <2>9. r.state \in Begun
    BY <2>6 DEF Begun, Live
  <2> QED BY <1>1, <2>1, <2>3, <2>5, <2>6, <2>7, <2>8, <2>9, PutKeeps DEF a, Dispatching, Sending
<1>6. CASE Reset(w) /\ ~In(P(w), {"waking"})
  BY <1>4, <1>6 DEF Reset
<1>7. CASE Record(w)
  <2> DEFINE c == worker[w].job
             js == [a.jobs EXCEPT ![c] = worker[w].st]
             r == [a EXCEPT !.jobs = js]
             pc == IF w = Sweep THEN Looks(worker[w].left) ELSE "decide"
             k == IF w = Sweep THEN [worker[w] EXCEPT !.pc = pc, !.job = Nil, !.st = "none"]
                               ELSE [worker[w] EXCEPT !.pc = pc]
  <2>1. worker[w].pc = "record" /\ c \in Job /\ worker[w].st \in Terminal
    BY <1>1, <1>7 DEF Record, At, WorkOK
  <2>2. Put(P(w), r) /\ worker' = [worker EXCEPT ![w] = k]
    BY <1>2, <1>7 DEF Record, IInv, TypeOK
  <2>3. pc \in {"check", "decide"}
    BY DEF Looks
  <2> HIDE DEF pc
  <2>4. k \in Work /\ k.pc = pc /\ k.todo = worker[w].todo /\ k.park = P(w)
        /\ k.stage = worker[w].stage
        /\ (w # Sweep => k.job = worker[w].job /\ k.st = worker[w].st)
    BY <1>1, <2>3 DEF Work, Step, P
  <2>5. js \in [Job -> {"out", "open"} \cup Terminal]
        /\ \A d \in Job : js[d] = IF d = c THEN worker[w].st ELSE a.jobs[d]
    BY <1>2, <2>1 DEF Row
  <2> HIDE DEF js
  <2>6. r \in Row /\ r.state = a.state /\ r.tries = a.tries /\ r.due = a.due /\ r.jobs = js
        /\ r.policy = a.policy
    BY <1>2, <2>5 DEF Row
  <2> HIDE DEF r, a, k
  <2>7. Due(a) => Due(r)
    BY <2>1, <2>5, <2>6 DEF Due, Terminal
  <2>8. GoodChange(a, r) /\ FirmChange(a, r)
    BY <1>2, <2>6, <2>7 DEF GoodChange, FirmChange, ParkOK, RowOK, a
  <2>9. Turn(w, k)
    BY <2>2, <2>3, <2>4 DEF Turn, Dispatching, Sending
  <2>10. w # Sweep /\ In(P(w), Taken) => r.state \in Taken
    BY <2>6 DEF In, a
  <2> QED BY <1>1, <1>2, <1>3, <2>2, <2>3, <2>4, <2>6, <2>8, <2>9, <2>10, PutKeeps
          DEF a, Dispatching, Sending
<1>8. CASE Claim(w) /\ Claims(P(w))
  <2> DEFINE n == run[a.conv].n
             r == [a EXCEPT !.state = "waking", !.claimed = n]
             k == [worker[w] EXCEPT !.pc = "look"]
  <2>1. worker[w].pc = "claim" /\ Put(P(w), r) /\ worker' = [worker EXCEPT ![w] = k]
        /\ a.state = "armed"
    BY <1>8 DEF Claim, At, Go, Claims, In
  <2>2. n \in 0..MaxRuns
    BY <1>2 DEF Row, IInv, TypeOK, Run
  <2> HIDE DEF n
  <2>3. r \in Row /\ r.state = "waking" /\ r.tries = a.tries /\ r.due = a.due /\ r.jobs = a.jobs
        /\ r.policy = a.policy
    BY <1>2, <2>2 DEF Row, Live
  <2>4. k \in Work /\ k.pc = "look" /\ k.todo = worker[w].todo /\ k.park = P(w)
        /\ k.stage = worker[w].stage /\ k.job = worker[w].job /\ k.st = worker[w].st
    BY <1>1 DEF Work, Step, P
  <2>5. Due(a) /\ a.tries = 0
    BY <1>1, <1>2, <2>1 DEF WorkOK, ParkOK, RowOK
  <2>6. Turn(w, k)
    BY <2>1, <2>4 DEF Turn, In
  <2> HIDE DEF r, a, k
  <2>7. GoodChange(a, r) /\ FirmChange(a, r)
    BY <2>1, <2>3, <2>5 DEF GoodChange, FirmChange, RowOK, Due, Begun, Live, Taken, Resolved
  <2>8. r.state \in Taken /\ r.state \in Begun /\ r.tries < RetryMax
    BY <2>3, <2>5, BoundAssumption DEF Taken, Begun, Live
  <2> QED BY <1>1, <1>3, <2>1, <2>3, <2>4, <2>6, <2>7, <2>8, PutKeeps DEF a
<1>9. CASE Claim(w) /\ ~Claims(P(w))
  BY <1>4, <1>9 DEF Claim
<1>10. CASE Count(w)
  <2> DEFINE t == a.tries + 1
             r == [a EXCEPT !.tries = t]
             pc == IF t >= RetryMax THEN "settle" ELSE "get"
             as == IF t >= RetryMax THEN "failed" ELSE worker[w].as
             k == [worker[w] EXCEPT !.pc = pc, !.as = as]
  <2>1. worker[w].pc = "count" /\ Put(P(w), r)
    BY <1>10 DEF Count, At
  <2>2. worker' = [worker EXCEPT ![w] = k]
    BY <1>10 DEF Count, IInv, TypeOK
  <2>3. a.tries \in Nat /\ a.tries < RetryMax /\ a.state \in Taken
    BY <1>1, <1>2, <2>1 DEF WorkOK, Row, Sending, Dispatching, In
  <2>4. t \in 0..RetryMax
    BY <2>3, BoundAssumption
  <2>5. pc \in {"settle", "get"} /\ as \in Resolved /\ (pc = "settle" => as = "failed")
        /\ (pc = "get" => t < RetryMax)
    BY <1>1, <2>4, BoundAssumption DEF Work, Resolved
  <2> HIDE DEF t, pc, as
  <2>6. k \in Work /\ k.pc = pc /\ k.todo = worker[w].todo /\ k.park = P(w)
        /\ k.stage = worker[w].stage /\ k.job = worker[w].job /\ k.st = worker[w].st /\ k.as = as
    BY <1>1, <2>5 DEF Work, Step, P
  <2>7. r \in Row /\ r.state = a.state /\ r.tries = t /\ r.due = a.due /\ r.jobs = a.jobs
        /\ r.policy = a.policy
    BY <1>2, <2>4 DEF Row
  <2>8. Turn(w, k)
    BY <2>1, <2>2, <2>6 DEF Turn, Dispatching, Sending
  <2> HIDE DEF r, a, k
  <2>9. GoodChange(a, r)
    BY <1>2, <2>3, <2>7 DEF GoodChange, ParkOK, RowOK, Due, Taken, Resolved, a
  <2> QED BY <1>1, <1>2, <1>3, <2>1, <2>3, <2>5, <2>6, <2>7, <2>8, <2>9, PutKeeps
          DEF a, Dispatching, Sending
<1>11. CASE Settle(w) /\ Settles(P(w))
  <2> DEFINE r == [a EXCEPT !.state = worker[w].as]
             k == Rest(worker[w])
  <2>1. worker[w].pc = "settle" /\ Put(P(w), r) /\ worker' = [worker EXCEPT ![w] = k]
        /\ a.state = "waking"
    BY <1>11 DEF Settle, At, Go, Settles, In
  <2>2. worker[w].as \in Resolved
    BY <1>1 DEF Work
  <2>3. r \in Row /\ r.state \in Resolved /\ r.tries = a.tries /\ r.due = a.due /\ r.jobs = a.jobs
        /\ r.policy = a.policy
    BY <1>2, <2>2 DEF Row
  <2>4. /\ k \in Work /\ k.pc \in {"next", "stalled", "idle"} /\ k.todo = worker[w].todo
        /\ k.park = Nil
        /\ k.pc = "next" => k.stage = worker[w].stage /\ k.job = worker[w].job /\ k.st = worker[w].st
        /\ k.pc = "stalled" => worker[w].job = Nil
        /\ k.pc = "idle" => k.stage = "armed"
        /\ k.pc # "next" => k.todo = {}
    BY <1>1, RestIs
  <2> HIDE DEF k, r, a
  <2>5. Turn(w, k)
    BY <2>1, <2>4 DEF Turn, Dispatching, Sending
  <2>6. Due(a)
    BY <1>2, <2>1 DEF ParkOK, RowOK, a
  <2>7. GoodChange(a, r) /\ FirmChange(a, r)
    BY <2>1, <2>3, <2>6 DEF GoodChange, FirmChange, RowOK, Due, Begun, Resolved, Taken
  <2>8. r.state \in Taken
    BY <2>3 DEF Taken
  <2>9. w # Sweep /\ k.pc # "idle" => k.job \in Job /\ k.st \in Terminal
    BY <1>3, <2>4, JobIsNotNil
  <2>10. k.pc \notin AtPark /\ k.pc \notin Dispatching /\ k.pc # "record"
    BY <2>4 DEF AtPark, Dispatching, Sending
  <2>11. k.pc \notin {"claim", "reset", "settle", "list"} /\ k.pc \notin Sending
    BY <2>4 DEF Sending
  <2> QED BY <1>1, <2>1, <2>3, <2>4, <2>5, <2>7, <2>8, <2>9, <2>10, <2>11, PutKeeps DEF a
<1>12. CASE Settle(w) /\ ~Settles(P(w))
  BY <1>4, <1>12 DEF Settle
<1> QED BY <1>5, <1>6, <1>7, <1>8, <1>9, <1>10, <1>11, <1>12

LEMMA BreaksKeep ==
  ASSUME IInv, NEW w \in Worker, Breaks(w)
  PROVE  IInv'
<1>1. worker[w] \in Work /\ WorkOK(w)
  BY DEF IInv, TypeOK
<1> DEFINE n == [worker[w] EXCEPT !.pc = "settle", !.as = "failed", !.todo = {},
                                  !.stage = "stalled"]
           k == IF worker[w].pc = "look" THEN n ELSE Idle
<1>2. worker' = [worker EXCEPT ![w] = k] /\ UNCHANGED << chat, job, sent, settling, rows, user >>
      /\ faults' \in 0..MaxFaults
  BY FaultType DEF Breaks, IInv
<1>3. n \in Work /\ n.pc = "settle" /\ n.as = "failed" /\ n.todo = {} /\ n.park = P(w)
      /\ n.job = worker[w].job /\ n.st = worker[w].st
  BY <1>1 DEF Work, Step, Resolved, P
<1>4. k \in Work
  BY <1>3, IdleType
<1>5. TypeOK'
  BY <1>2, <1>4 DEF IInv, TypeOK, chat, rows
<1>6. UNCHANGED park /\ SentMore
  BY <1>2 DEF rows, SentMore
<1>7. Turn(w, k) /\ Fit(w, k) /\ SweepFit(w, k)
  <2>1. CASE worker[w].pc = "look"
    <3>1. k = n
      BY <2>1
    <3> HIDE DEF n, k
    <3> QED BY <1>1, <1>2, <1>3, <2>1, <3>1 DEF Turn, Fit, SweepFit, WorkOK, AtPark, Dispatching,
                                                Sending
  <2>2. CASE worker[w].pc # "look"
    <3>1. k = Idle
      BY <2>2
    <3> HIDE DEF k
    <3> QED BY <1>2, <3>1, IdleType DEF Turn, Fit, SweepFit, AtPark, Dispatching, Sending
  <2> QED BY <2>1, <2>2
<1> QED BY <1>4, <1>5, <1>6, <1>7, ReadKeeps

-----------------------------------------------------------------------------
(* All steps.                                                              *)

LEMMA WorkerStepKeeps ==
  ASSUME IInv, NEW w \in Worker, WorkerStep(w)
  PROVE  IInv'
BY ListingKeeps, ReadingKeeps, SendKeeps, WritingKeeps DEF WorkerStep

LEMMA NextKeepsIInv == IInv /\ [Next]_vars => IInv'
<1> SUFFICES ASSUME IInv, [Next]_vars PROVE IInv'
  OBVIOUS
<1>1. CASE UNCHANGED vars
  <2>1. TypeOK'
    BY <1>1 DEF IInv, TypeOK, vars
  <2> QED BY <1>1, <2>1, ParksAlone DEF vars
<1>2. ASSUME NEW c \in Job, \E d \in Delegators[c] : Delegate(c, d) PROVE IInv'
  BY <1>2, JobsAreConvs, AgentsKeep
<1>3. CASE Agents
  BY <1>3, AgentsKeep, ArmingKeeps DEF Agents
<1>4. CASE Calls
  BY <1>4, ArmingKeeps DEF Calls
<1>5. CASE Settlement
  BY <1>5, SettlementKeeps DEF Settlement
<1>6. CASE Dispatch
  BY <1>6, WorkerStepKeeps, ListingKeeps DEF Dispatch, Worker
<1>7. CASE People
  BY <1>7, PeopleKeep, ConvAssumption DEF People
<1>8. CASE Time
  BY <1>8, TimeKeeps DEF Time
<1>9. CASE Faults
  BY <1>9, CrashKeeps, CleanUpKeeps, BreaksKeep, ArmingKeeps DEF Faults
<1> QED BY <1>1, <1>2, <1>3, <1>4, <1>5, <1>6, <1>7, <1>8, <1>9 DEF Next

LEMMA InitIInv == Init => IInv
<1> SUFFICES ASSUME Init PROVE IInv
  OBVIOUS
<1>1. /\ park = [p \in Park |-> Free] /\ worker = [w \in Worker |-> Idle]
      /\ ghost = {} /\ newer = {} /\ inbox = [c \in Conv |-> {}] /\ sent = [p \in Park |-> 0]
      /\ settling = [c \in Job |-> Nil] /\ user = [c \in Conv |-> NoRequest] /\ faults = 0
  BY DEF Init
<1>2. run \in [Conv -> Run]
  <2>1. 0 \in 0..MaxRuns /\ 1 \in 0..MaxRuns
    BY BoundAssumption
  <2>2. NoRun \in Run /\ [NoRun EXCEPT !.n = 1, !.st = "running"] \in Run
    BY <2>1 DEF NoRun, Run
  <2> QED BY <2>2 DEF Init
<1>3. job \in [Job -> Snapshot]
  <2>1. [from |-> Nil, by |-> 0, st |-> "none"] \in Snapshot
    BY BoundAssumption DEF Snapshot
  <2> QED BY <2>1 DEF Init
<1>4. NoRequest \in Request /\ 0 \in 0..MaxFaults
  BY BoundAssumption DEF NoRequest, Request
<1>5. TypeOK
  BY <1>1, <1>2, <1>3, <1>4, IdleType DEF TypeOK
<1>6. \A w \in Worker : worker[w].pc = "idle" /\ worker[w].todo = {} /\ worker[w].stage = "armed"
  BY <1>1, IdleType
<1>7. \A p \in Park : ParkOK(p)
  BY <1>1 DEF ParkOK, RowOK, In, Free
<1>8. \A w \in Worker : WorkOK(w)
  BY <1>6 DEF WorkOK, AtPark, Dispatching, Sending
<1>9. SweepOK /\ OneDispatcher
  BY <1>6 DEF SweepOK, OneDispatcher, Holds, At, Worker
<1> QED BY <1>5, <1>7, <1>8, <1>9 DEF IInv

LEMMA SpecIInv == Spec => []IInv
BY InitIInv, NextKeepsIInv, PTL DEF Spec

\* Rows, runs, the registry and the calls keep their types; a wake is tried
\* no more than park_wake_retry_max times on one claim (record_wake_failure).
THEOREM TypesHold == Spec => []TypeOK
<1>1. IInv => TypeOK
  BY DEF IInv
<1> QED BY <1>1, SpecIInv, PTL

\* However many notifiers there are, and however often the sweep takes back
\* claims whose dispatchers are gone: one dispatcher at a time is between the
\* claim of a park and its outcome (claim_wake, list_wake_stalled).
THEOREM DispatchersAreAlone == Spec => []OneDispatcher
<1>1. IInv => OneDispatcher
  BY DEF IInv
<1> QED BY <1>1, SpecIInv, PTL

\* No wake without a reason, for all policies, and though statuses that were
\* recorded are recorded anew while others judge the park.
THEOREM WakesHaveReasons == Spec => []WakeHasReason
<1>1. IInv => WakeHasReason
  BY ReasonIs DEF IInv, ParkOK, RowOK, In, WakeHasReason
<1> QED BY <1>1, SpecIInv, PTL

-----------------------------------------------------------------------------
(* The promise of a park.                                                  *)

Fate(r) == IF r.state \in {"free", "asked", "clear"} THEN "none"
           ELSE IF r.state \in Live THEN "open" ELSE r.state

LEMMA StandingIs == /\ Standing = [p \in Park |-> Fate(park[p])]
                    /\ Standing' = [p \in Park |-> Fate(park'[p])]
BY DEF Standing, Fate, In

Fated(p) ==
  \/ Fate(park'[p]) = Fate(park[p])
  \/ Fate(park[p]) = "none" /\ Fate(park'[p]) = "open"
  \/ /\ Fate(park[p]) = "open" /\ Fate(park'[p]) \in Resolved
     /\ Fate(park'[p]) \in {"woken", "expired"} => p \in Handed

LEMMA MovedFate ==
  ASSUME TypeOK, NEW S \in SUBSET Park, \A p \in S : In(p, Live), NEW p \in Park,
         NEW state \in {"superseded", "disarmed"}, park'[p] = Moved(S, state)[p]
  PROVE  Fated(p)
<1>1. CASE p \in S
  <2>1. park[p] \in Row
    BY <1>1, RowOf DEF In, Begun
  <2>2. park'[p].state = state /\ park[p].state \in Live
    BY <1>1, <2>1 DEF Moved, Row, In
  <2> QED BY <2>2 DEF Fated, Fate, Live, Resolved
<1>2. CASE p \notin S
  BY <1>2 DEF Moved, Fated
<1> QED BY <1>1, <1>2

\* Which row a worker writes, and how its state changes.
LEMMA PutFate ==
  ASSUME TypeOK, NEW p \in Park, NEW r \in Row, Put(p, r),
         \/ Fate(r) = Fate(park[p])
         \/ Fate(park[p]) = "none" /\ Fate(r) = "open"
         \/ /\ Fate(park[p]) = "open" /\ Fate(r) \in Resolved
            /\ Fate(r) \in {"woken", "expired"} => p \in Handed
  PROVE  \A q \in Park : Fated(q)
<1>1. park'[p] = [r EXCEPT !.old = FALSE] /\ \A q \in Park \ {p} : park'[q] = park[q]
  BY PutRow
<1>2. park'[p].state = r.state
  BY <1>1 DEF Row
<1>3. Fate(park'[p]) = Fate(r)
  BY <1>2 DEF Fate
<1> QED BY <1>1, <1>3 DEF Fated

LEMMA WritingFate ==
  ASSUME IInv, NEW w \in Worker, Reset(w) \/ Record(w) \/ Claim(w) \/ Count(w) \/ Settle(w)
  PROVE  \A q \in Park : Fated(q)
<1> DEFINE p == P(w)
<1>1. /\ worker[w] \in Work /\ WorkOK(w) /\ TypeOK /\ p \in Park /\ In(p, Begun)
      /\ worker[w].pc \in {"reset", "record", "claim", "count", "settle"}
  BY DEF IInv, TypeOK, Reset, Record, Claim, Count, Settle, At, WorkOK, AtPark
<1>2. park[p] \in Row
  BY <1>1, RowOf DEF In
<1>3. UNCHANGED park => \A q \in Park : Fated(q)
  BY DEF Fated
<1> HIDE DEF p
<1>4. CASE UNCHANGED rows
  BY <1>3, <1>4 DEF rows
<1>5. ASSUME NEW r \in Row, Put(p, r),
             r.state = park[p].state \/ (r.state \in Live /\ park[p].state \in Live)
      PROVE  \A q \in Park : Fated(q)
  <2>1. Fate(r) = Fate(park[p])
    BY <1>5 DEF Fate, Live
  <2> QED BY <1>1, <1>5, <2>1, PutFate
<1>6. CASE Reset(w) /\ In(p, {"waking"})
  <2>1. 0 \in 0..RetryMax /\ 0 \in 0..MaxRuns
    BY BoundAssumption
  <2> DEFINE r == Unclaimed(park[p])
  <2>2. r \in Row /\ r.state = "armed"
    BY <1>2, <2>1 DEF Unclaimed, Row, Live
  <2>3. Put(p, r) /\ park[p].state = "waking"
    BY <1>6 DEF Reset, In, p
  <2> HIDE DEF r
  <2> QED BY <1>5, <2>2, <2>3 DEF Live
<1>7. CASE Record(w)
  <2> DEFINE js == [park[p].jobs EXCEPT ![worker[w].job] = worker[w].st]
             r == [park[p] EXCEPT !.jobs = js]
  <2>1. worker[w].st \in Terminal
    BY <1>1, <1>7 DEF WorkOK, Record, At
  <2>2. js \in [Job -> {"out", "open"} \cup Terminal]
    BY <1>2, <2>1 DEF Row
  <2>3. r \in Row /\ r.state = park[p].state
    BY <1>2, <2>2 DEF Row
  <2>4. Put(p, r)
    BY <1>2, <1>7 DEF Record, p
  <2> HIDE DEF r
  <2> QED BY <1>5, <2>3, <2>4
<1>8. CASE Claim(w) /\ Claims(p)
  <2> DEFINE r == [park[p] EXCEPT !.state = "waking", !.claimed = run[park[p].conv].n]
  <2>1. run[park[p].conv].n \in 0..MaxRuns
    BY <1>1, <1>2 DEF Row, TypeOK, Run
  <2>2. r \in Row /\ r.state = "waking"
    BY <1>2, <2>1 DEF Row, Live
  <2>3. Put(p, r) /\ park[p].state = "armed"
    BY <1>8 DEF Claim, Claims, In, p
  <2> QED BY <1>5, <2>2, <2>3 DEF Live
<1>9. CASE Count(w)
  <2> DEFINE r == [park[p] EXCEPT !.tries = park[p].tries + 1]
  <2>1. park[p].tries + 1 \in 0..RetryMax
    <3>1. park[p].tries < RetryMax /\ park[p].tries \in 0..RetryMax
      BY <1>1, <1>2, <1>9 DEF WorkOK, Row, Count, At, Sending, p
    <3> QED BY <3>1, BoundAssumption
  <2>2. r \in Row /\ r.state = park[p].state
    BY <1>2, <2>1 DEF Row
  <2>3. Put(p, r)
    BY <1>9 DEF Count, p
  <2> HIDE DEF r
  <2> QED BY <1>5, <2>2, <2>3
<1>10. CASE Settle(w) /\ Settles(p)
  <2> DEFINE r == [park[p] EXCEPT !.state = worker[w].as]
  <2>1. worker[w].as \in Resolved
    BY <1>1 DEF Work
  <2>2. r \in Row /\ r.state = worker[w].as
    BY <1>2, <2>1 DEF Row
  <2>3. Put(p, r) /\ park[p].state = "waking"
    BY <1>10 DEF Settle, Settles, In, p
  <2>4. worker[w].as \in {"woken", "expired"} => p \in Handed
    BY <1>1, <1>10 DEF WorkOK, Settle, At, Handed, p
  <2>5. Fate(r) = worker[w].as /\ Fate(park[p]) = "open"
    BY <2>1, <2>2, <2>3 DEF Fate, Live, Resolved
  <2> QED BY <1>1, <2>1, <2>2, <2>3, <2>4, <2>5, PutFate
<1> QED BY <1>1, <1>4, <1>6, <1>7, <1>8, <1>9, <1>10 DEF Reset, Claim, Settle, p

LEMMA OtherFate ==
  ASSUME IInv, Next, ~\E w \in Worker : Send(w)
  PROVE  UNCHANGED sent /\ \A p \in Park : Fated(p)
<1> USE DEF IInv
<1>1. UNCHANGED park => \A p \in Park : Fated(p)
  BY DEF Fated
<1>2. ASSUME NEW c \in Job, \E d \in Delegators[c] : Delegate(c, d)
      PROVE  UNCHANGED << sent, park >>
  BY <1>2 DEF Delegate, rows
<1>3. ASSUME NEW c \in Conv, \/ \E st \in Ending : Ends(c, st)
                             \/ \E p \in Park : Resume(c, p)
      PROVE  UNCHANGED << sent, park >>
  BY <1>3 DEF Ends, Resume, rows
<1>4. ASSUME NEW p \in Park, NEW c, NEW jobs, NEW policy, Ask(p, c, jobs, policy)
      PROVE  UNCHANGED sent /\ \A q \in Park : Fated(q)
  BY <1>4 DEF Ask, Fated, Fate, TypeOK, Free
<1>5. ASSUME NEW p \in Park, Clear(p) PROVE UNCHANGED sent /\ \A q \in Park : Fated(q)
  <2> DEFINE c == park[p].conv
             m == Moved(Superseded(c), "superseded")
  <2>1. In(p, {"asked"}) /\ park' = [m EXCEPT ![p].state = "clear"] /\ UNCHANGED sent
    BY <1>5 DEF Clear
  <2>2. m \in [Park -> Row \cup {Free}] /\ \A q \in Park \ Superseded(c) : m[q] = park[q]
    BY ChosenOf, MovedRows
  <2>3. park[p] \in Row /\ p \notin Superseded(c)
    BY <2>1, RowOf, ChosenOf DEF In, Live
  <2>4. park'[p].state = "clear" /\ park[p].state = "asked"
    BY <2>1, <2>2, <2>3 DEF Row, In
  <2>5. \A q \in Park \ {p} : park'[q] = m[q]
    BY <2>1, <2>2
  <2>6. \A q \in Park \ {p} : Fated(q)
    BY <2>5, ChosenOf, MovedFate
  <2>7. Fated(p)
    BY <2>4 DEF Fated, Fate
  <2> QED BY <2>1, <2>6, <2>7
<1>6. ASSUME NEW p \in Park, Arm(p) PROVE UNCHANGED sent /\ \A q \in Park : Fated(q)
  <2> DEFINE r == [park[p] EXCEPT !.state = "armed"]
  <2>1. In(p, {"clear"}) /\ Put(p, r) /\ UNCHANGED sent
    BY <1>6 DEF Arm
  <2>2. park[p] \in Row /\ park[p].state = "clear"
    BY <2>1, RowOf DEF In
  <2>3. r \in Row /\ r.state = "armed"
    BY <2>2 DEF Row, Live
  <2>4. Fate(park[p]) = "none" /\ Fate(r) = "open"
    BY <2>2, <2>3 DEF Fate, Live
  <2> QED BY <2>1, <2>3, <2>4, PutFate
<1>7. CASE Settlement
  BY <1>1, <1>7 DEF Settlement, Judge, Commit, rows
<1>8. CASE Wakes
  BY <1>1, <1>8 DEF Wakes, ReadOnly, ParksOnly, rows
<1>9. ASSUME NEW w \in Worker, WorkerStep(w), ~Send(w)
      PROVE  UNCHANGED sent /\ \A q \in Park : Fated(q)
  <2>1. CASE \/ List(w) \/ Take(w) \/ Check(w) \/ Decide(w) \/ Look(w) \/ Get(w) \/ SendFails(w)
    BY <1>1, <2>1 DEF List, Take, Check, Decide, Look, Get, SendFails, ReadOnly, ParksOnly, rows
  <2>2. CASE Reset(w) \/ Record(w) \/ Claim(w) \/ Count(w) \/ Settle(w)
    BY <2>2, WritingFate DEF Reset, Record, Claim, Count, Settle, ParksOnly
  <2> QED BY <1>9, <2>1, <2>2 DEF WorkerStep
<1>10. ASSUME NEW c \in Conv,
              Write(c) \/ WriteUnheard(c) \/ Begin(c) \/ Stop(c) \/ Disarm(c) \/ DisarmFails(c)
       PROVE  UNCHANGED sent /\ \A q \in Park : Fated(q)
  <2>1. UNCHANGED sent
    BY <1>10 DEF Write, WriteUnheard, Begin, Stop, Disarm, DisarmFails
  <2>2. CASE Write(c)
    BY <2>1, <2>2, ChosenOf, MovedFate DEF Write
  <2>3. CASE Disarm(c)
    BY <2>1, <2>3, ChosenOf, MovedFate DEF Disarm
  <2>4. CASE WriteUnheard(c) \/ Begin(c) \/ Stop(c) \/ DisarmFails(c)
    BY <1>1, <2>1, <2>4 DEF WriteUnheard, Begin, Stop, DisarmFails, rows
  <2> QED BY <1>10, <2>2, <2>3, <2>4
<1>11. ASSUME NEW p \in Park, Deadline(p) \/ Age(p)
       PROVE  UNCHANGED sent /\ \A q \in Park : Fated(q)
  <2>1. UNCHANGED sent /\ park[p] \in Row
    BY <1>11, RowOf DEF Deadline, Age, In, Begun, Live, Resolved
  <2>2. park' = [park EXCEPT ![p] = [park[p] EXCEPT !.due = TRUE]]
        \/ park' = [park EXCEPT ![p] = [park[p] EXCEPT !.old = TRUE]]
    BY <1>11 DEF Deadline, Age
  <2>3. park'[p].state = park[p].state /\ \A q \in Park \ {p} : park'[q] = park[q]
    BY <2>1, <2>2 DEF TypeOK, Row
  <2> QED BY <2>1, <2>3 DEF Fated, Fate
<1>12. ASSUME NEW p \in Park, Drops(p) PROVE UNCHANGED sent /\ \A q \in Park : Fated(q)
  BY <1>12 DEF Drops, Fated, Fate, In, TypeOK, Free
<1>13. CASE Crash
  BY <1>13 DEF Crash, Fated, Fate, In, Free
<1>14. CASE CleanUp \/ \E w \in Worker : Breaks(w)
  BY <1>1, <1>14 DEF CleanUp, Breaks, rows
<1> QED BY <1>1, <1>2, <1>3, <1>4, <1>5, <1>6, <1>7, <1>8, <1>9, <1>10, <1>11, <1>12, <1>13, <1>14,
           ConvAssumption
        DEF Next, Agents, Calls, Dispatch, People, Time, Faults

\* Whatever users, notifiers, sweeps and faults do in between: a park is opened
\* once and gets one outcome, for good, and is woken or expired only after its
\* wake was handed to the conversation (supersede_for_conversation, disarm_*,
\* dispatch_wake, settle).
THEOREM ParksKeepTheirPromise == Spec => PromiseKept
<1>1. Init => Promise!Init
  BY DEF Init, Promise!Init, Standing, Handed, In, Free
<1>2. IInv /\ [Next]_vars => [Promise!Next]_<< Standing, Handed >>
  <2>1. ASSUME UNCHANGED vars PROVE UNCHANGED << Standing, Handed >>
    BY <2>1 DEF vars, Standing, Handed, In
  <2>2. ASSUME IInv, NEW w \in Worker, Send(w)
        PROVE  \E p \in Park : Promise!Hand(p)
    <3>1. P(w) \in Park /\ In(P(w), Taken)
      BY <2>2 DEF IInv, WorkOK, Send, At, AtPark, Dispatching, Sending
    <3>2. UNCHANGED park /\ sent' = [sent EXCEPT ![P(w)] = sent[P(w)] + 1]
      BY <2>2 DEF Send, rows
    <3>3. UNCHANGED Standing /\ Standing[P(w)] # "none"
      BY <3>1, <3>2 DEF Standing, In, Taken, Live, Resolved
    <3>4. Handed' = Handed \cup {P(w)}
      BY <2>2, <3>1, <3>2 DEF Handed, IInv, TypeOK
    <3> QED BY <3>1, <3>3, <3>4 DEF Promise!Hand
  <2>3. ASSUME IInv, Next, ~\E w \in Worker : Send(w) PROVE Promise!Decide
    <3>1. UNCHANGED sent /\ \A p \in Park : Fated(p)
      BY <2>3, OtherFate
    <3>2. \A p \in Park : Fate(park'[p]) \in Resolved \cup {"none", "open"}
      BY <2>3, NextKeepsIInv DEF IInv, TypeOK, Row, Free, Fate
    <3>3. UNCHANGED Handed
      BY <3>1 DEF Handed
    <3> QED BY <3>1, <3>2, <3>3, StandingIs DEF Promise!Decide, Fated
  <2> QED BY <2>1, <2>2, <2>3 DEF Promise!Next
<1> QED BY <1>1, <1>2, SpecIInv, PTL DEF Spec, PromiseKept, Promise!Spec
-----------------------------------------------------------------------------
(* A settlement judges a conversation and commits later: what may happen   *)
(* to its parks, its run and its wakes in between.                         *)

\* Parks stay with their conversation, are made by an active run, become live
\* when they are armed and woken after the wake was sent.
Course(p) ==
  LET same == park'[p].conv = park[p].conv IN
  /\ In(p, Begun) => park'[p].state \in Begun /\ same
  /\ park'[p].state \in {"asked", "clear"} =>
       \/ In(p, {"asked", "clear"}) /\ same
       \/ park'[p].conv \in Conv /\ Active(park'[p].conv)
  /\ park'[p].state \in Live => In(p, Live \cup {"clear"}) /\ same
  /\ park'[p].state = "woken" =>
       \/ /\ In(p, {"woken"}) /\ park'[p].claimed = park[p].claimed
          /\ park[p].due => park'[p].due
       \/ In(p, {"waking"}) /\ sent[p] > 0

LEMMA SameCourse == ASSUME NEW p \in Park, park'[p] = park[p] PROVE Course(p)
BY DEF Course, In

LEMMA MovedCourse ==
  ASSUME TypeOK, NEW S \in SUBSET Park, \A p \in S : In(p, Live), NEW p \in Park,
         NEW state \in {"superseded", "disarmed"}, park'[p] = Moved(S, state)[p]
  PROVE  Course(p)
<1>1. CASE p \in S
  <2>1. park[p] \in Row /\ In(p, Live)
    BY <1>1, RowOf DEF In, Begun
  <2>2. park'[p].state = state /\ park'[p].conv = park[p].conv
    BY <1>1, <2>1 DEF Moved, Row
  <2> QED BY <2>1, <2>2 DEF Course, In, Begun, Live, Resolved
<1>2. CASE p \notin S
  BY <1>2, SameCourse DEF Moved
<1> QED BY <1>1, <1>2

\* A worker, and the last step of arming, write one row.
LEMMA PutCourse ==
  ASSUME TypeOK, NEW p \in Park, NEW r \in Row, Put(p, r), r.conv = park[p].conv,
         \/ r.state = park[p].state /\ r.due = park[p].due /\ r.claimed = park[p].claimed
         \/ r.state \in Live /\ In(p, Live \cup {"clear"})
         \/ r.state \in Resolved /\ In(p, {"waking"}) /\ (r.state = "woken" => sent[p] > 0)
  PROVE  \A q \in Park : Course(q)
<1>1. park'[p] = [r EXCEPT !.old = FALSE] /\ \A q \in Park \ {p} : park'[q] = park[q]
  BY PutRow
<1>2. /\ park'[p].state = r.state /\ park'[p].due = r.due /\ park'[p].claimed = r.claimed
      /\ park'[p].conv = park[p].conv
  BY <1>1 DEF Row
<1>3. Course(p)
  BY <1>2 DEF Course, In, Begun, Live, Resolved
<1> QED BY <1>1, <1>3, SameCourse

LEMMA WritingCourse ==
  ASSUME IInv, NEW w \in Worker, Reset(w) \/ Record(w) \/ Claim(w) \/ Count(w) \/ Settle(w)
  PROVE  \A q \in Park : Course(q)
<1> DEFINE p == P(w)
<1>1. /\ worker[w] \in Work /\ WorkOK(w) /\ TypeOK /\ p \in Park /\ In(p, Begun)
      /\ worker[w].pc \in {"reset", "record", "claim", "count", "settle"}
  BY DEF IInv, TypeOK, Reset, Record, Claim, Count, Settle, At, WorkOK, AtPark
<1>2. park[p] \in Row
  BY <1>1, RowOf DEF In
<1> HIDE DEF p
<1>3. CASE UNCHANGED rows
  BY <1>3, SameCourse DEF rows
<1>4. CASE Reset(w) /\ In(p, {"waking"})
  <2>1. 0 \in 0..RetryMax /\ 0 \in 0..MaxRuns
    BY BoundAssumption
  <2> DEFINE r == Unclaimed(park[p])
  <2>2. r \in Row /\ r.state = "armed" /\ r.conv = park[p].conv
    BY <1>2, <2>1 DEF Unclaimed, Row, Live
  <2>3. Put(p, r)
    BY <1>4 DEF Reset, p
  <2> HIDE DEF r
  <2> QED BY <1>1, <1>4, <2>2, <2>3, PutCourse DEF Live, In
<1>5. CASE Record(w)
  <2> DEFINE js == [park[p].jobs EXCEPT ![worker[w].job] = worker[w].st]
             r == [park[p] EXCEPT !.jobs = js]
  <2>1. worker[w].st \in Terminal
    BY <1>1, <1>5 DEF WorkOK, Record, At
  <2>2. js \in [Job -> {"out", "open"} \cup Terminal]
    BY <1>2, <2>1 DEF Row
  <2>3. /\ r \in Row /\ r.state = park[p].state /\ r.due = park[p].due
        /\ r.claimed = park[p].claimed /\ r.conv = park[p].conv
    BY <1>2, <2>2 DEF Row
  <2>4. Put(p, r)
    BY <1>2, <1>5 DEF Record, p
  <2> HIDE DEF r
  <2> QED BY <1>1, <2>3, <2>4, PutCourse
<1>6. CASE Claim(w) /\ Claims(p)
  <2> DEFINE r == [park[p] EXCEPT !.state = "waking", !.claimed = run[park[p].conv].n]
  <2>1. run[park[p].conv].n \in 0..MaxRuns
    BY <1>1, <1>2 DEF Row, TypeOK, Run
  <2>2. r \in Row /\ r.state = "waking" /\ r.conv = park[p].conv
    BY <1>2, <2>1 DEF Row, Live
  <2>3. Put(p, r)
    BY <1>6 DEF Claim, p
  <2> HIDE DEF r
  <2> QED BY <1>1, <1>6, <2>2, <2>3, PutCourse DEF Claims, In, Live
<1>7. CASE Count(w)
  <2> DEFINE r == [park[p] EXCEPT !.tries = park[p].tries + 1]
  <2>1. park[p].tries + 1 \in 0..RetryMax
    <3>1. park[p].tries < RetryMax /\ park[p].tries \in 0..RetryMax
      BY <1>1, <1>2, <1>7 DEF WorkOK, Row, Count, At, Sending, p
    <3> QED BY <3>1, BoundAssumption
  <2>2. /\ r \in Row /\ r.state = park[p].state /\ r.due = park[p].due
        /\ r.claimed = park[p].claimed /\ r.conv = park[p].conv
    BY <1>2, <2>1 DEF Row
  <2>3. Put(p, r)
    BY <1>7 DEF Count, p
  <2> HIDE DEF r
  <2> QED BY <1>1, <2>2, <2>3, PutCourse
<1>8. CASE Settle(w) /\ Settles(p)
  <2> DEFINE r == [park[p] EXCEPT !.state = worker[w].as]
  <2>1. worker[w].as \in Resolved
    BY <1>1 DEF Work
  <2>2. r \in Row /\ r.state = worker[w].as /\ r.conv = park[p].conv
    BY <1>2, <2>1 DEF Row
  <2>3. Put(p, r) /\ In(p, {"waking"})
    BY <1>8 DEF Settle, Settles, p
  <2>4. worker[w].as = "woken" => sent[p] > 0
    BY <1>1, <1>8 DEF WorkOK, Settle, At, p
  <2> HIDE DEF r
  <2> QED BY <1>1, <2>1, <2>2, <2>3, <2>4, PutCourse
<1> QED BY <1>1, <1>3, <1>4, <1>5, <1>6, <1>7, <1>8 DEF Reset, Claim, Settle, p

LEMMA EveryCourse == ASSUME IInv, Next PROVE \A p \in Park : Course(p)
<1> USE DEF IInv
<1>1. UNCHANGED park => \A p \in Park : Course(p)
  BY SameCourse
<1>2. ASSUME NEW c \in Job, \E d \in Delegators[c] : Delegate(c, d) PROVE UNCHANGED park
  BY <1>2 DEF Delegate, rows
<1>3. ASSUME NEW c \in Conv, (\E st \in Ending : Ends(c, st)) \/ (\E p \in Park : Resume(c, p))
      PROVE  UNCHANGED park
  BY <1>3 DEF Ends, Resume, rows
<1>4. ASSUME NEW p \in Park, NEW c \in Conv, NEW jobs, NEW policy, Ask(p, c, jobs, policy)
      PROVE  \A q \in Park : Course(q)
  <2>1. /\ park[p] = Free /\ Active(c)
        /\ park'[p].state = "asked" /\ park'[p].conv = c
        /\ \A q \in Park \ {p} : park'[q] = park[q]
    BY <1>4 DEF Ask, TypeOK
  <2>2. Course(p)
    BY <2>1 DEF Course, In, Free, Begun, Live, Resolved
  <2> QED BY <2>1, <2>2, SameCourse
<1>5. ASSUME NEW p \in Park, Clear(p) PROVE \A q \in Park : Course(q)
  <2> DEFINE c == park[p].conv
             m == Moved(Superseded(c), "superseded")
  <2>1. In(p, {"asked"}) /\ park' = [m EXCEPT ![p].state = "clear"]
    BY <1>5 DEF Clear
  <2>2. m \in [Park -> Row \cup {Free}] /\ \A q \in Park \ Superseded(c) : m[q] = park[q]
    BY ChosenOf, MovedRows
  <2>3. park[p] \in Row /\ p \notin Superseded(c)
    BY <2>1, RowOf, ChosenOf DEF In, Live
  <2>4. park'[p].state = "clear" /\ park'[p].conv = park[p].conv
    BY <2>1, <2>2, <2>3 DEF Row
  <2>5. \A q \in Park \ {p} : park'[q] = m[q]
    BY <2>1, <2>2
  <2>6. \A q \in Park \ {p} : Course(q)
    BY <2>5, ChosenOf, MovedCourse
  <2>7. Course(p)
    BY <2>1, <2>4 DEF Course, In, Begun, Live, Resolved
  <2> QED BY <2>6, <2>7
<1>6. ASSUME NEW p \in Park, Arm(p) PROVE \A q \in Park : Course(q)
  <2> DEFINE r == [park[p] EXCEPT !.state = "armed"]
  <2>1. In(p, {"clear"}) /\ Put(p, r)
    BY <1>6 DEF Arm
  <2>2. park[p] \in Row
    BY <2>1, RowOf DEF In
  <2>3. r \in Row /\ r.state = "armed" /\ r.conv = park[p].conv
    BY <2>2 DEF Row, Live
  <2> HIDE DEF r
  <2> QED BY <2>1, <2>3, PutCourse DEF Live, In
<1>7. CASE Settlement
  BY <1>1, <1>7 DEF Settlement, Judge, Commit, rows
<1>8. CASE Wakes
  BY <1>1, <1>8 DEF Wakes, ReadOnly, ParksOnly, rows
<1>9. ASSUME NEW w \in Worker, WorkerStep(w) PROVE \A q \in Park : Course(q)
  <2>1. CASE \/ List(w) \/ Take(w) \/ Check(w) \/ Decide(w) \/ Look(w) \/ Get(w) \/ SendFails(w)
             \/ Send(w)
    BY <1>1, <2>1 DEF List, Take, Check, Decide, Look, Get, SendFails, Send, ReadOnly, ParksOnly, rows
  <2>2. CASE Reset(w) \/ Record(w) \/ Claim(w) \/ Count(w) \/ Settle(w)
    BY <2>2, WritingCourse
  <2> QED BY <1>9, <2>1, <2>2 DEF WorkerStep
<1>10. ASSUME NEW c \in Conv,
              Write(c) \/ WriteUnheard(c) \/ Begin(c) \/ Stop(c) \/ Disarm(c) \/ DisarmFails(c)
       PROVE  \A q \in Park : Course(q)
  <2>1. CASE Write(c)
    BY <2>1, ChosenOf, MovedCourse DEF Write
  <2>2. CASE Disarm(c)
    BY <2>2, ChosenOf, MovedCourse DEF Disarm
  <2>3. CASE WriteUnheard(c) \/ Begin(c) \/ Stop(c) \/ DisarmFails(c)
    BY <1>1, <2>3 DEF WriteUnheard, Begin, Stop, DisarmFails, rows
  <2> QED BY <1>10, <2>1, <2>2, <2>3
<1>11. ASSUME NEW p \in Park, Deadline(p) \/ Age(p) PROVE \A q \in Park : Course(q)
  <2>1. park[p] \in Row
    BY <1>11, RowOf DEF Deadline, Age, In, Begun, Live, Resolved
  <2>2. park' = [park EXCEPT ![p] = [park[p] EXCEPT !.due = TRUE]]
        \/ park' = [park EXCEPT ![p] = [park[p] EXCEPT !.old = TRUE]]
    BY <1>11 DEF Deadline, Age
  <2>3. /\ park'[p].state = park[p].state /\ park'[p].conv = park[p].conv
        /\ park'[p].claimed = park[p].claimed /\ (park[p].due => park'[p].due)
        /\ \A q \in Park \ {p} : park'[q] = park[q]
    BY <2>1, <2>2 DEF TypeOK, Row
  <2>4. Course(p)
    BY <2>3 DEF Course, In, Live
  <2> QED BY <2>3, <2>4, SameCourse
<1>12. ASSUME NEW p \in Park, Drops(p) PROVE \A q \in Park : Course(q)
  <2>1. /\ In(p, {"asked", "clear"}) /\ park'[p] = Free
        /\ \A q \in Park \ {p} : park'[q] = park[q]
    BY <1>12 DEF Drops, TypeOK
  <2>2. Course(p)
    BY <2>1 DEF Course, In, Free, Begun, Live, Resolved
  <2> QED BY <2>1, <2>2, SameCourse
<1>13. CASE Crash
  BY <1>13 DEF Crash, Course, In, Free, Begun, Live, Resolved
<1>14. CASE CleanUp \/ \E w \in Worker : Breaks(w)
  BY <1>1, <1>14 DEF CleanUp, Breaks, rows
<1> QED BY <1>1, <1>2, <1>3, <1>4, <1>5, <1>6, <1>7, <1>8, <1>9, <1>10, <1>11, <1>12, <1>13, <1>14,
           ConvAssumption
        DEF Next, Agents, Calls, Dispatch, People, Time, Faults

\* A run ends once, a new one has a higher number; a turn completes with no
\* park between its request and its row.
RunCourse(c) ==
  /\ \/ run'[c] = run[c]
     \/ /\ run[c].st = "running" /\ run'[c].n = run[c].n /\ run'[c].st \in Terminal
        /\ run'[c].st = "completed" => Of(c, {"asked", "clear"}) = {} /\ UNCHANGED park
        /\ c \notin ghost'
     \/ run'[c].st = "running" /\ (run'[c].n > run[c].n \/ (c \in Job /\ job[c].from = Nil))
  /\ c \in ghost' => c \in ghost \/ run'[c].st = "running"

GhostsRun == \A c \in ghost : run[c].st = "running"

LEMMA EveryRunCourse == ASSUME IInv, GhostsRun, Next, NEW c \in Conv PROVE RunCourse(c)
<1> USE DEF IInv
<1>0. run \in [Conv -> Run] /\ run[c].n \in 0..MaxRuns /\ MaxRuns \in Nat
  BY BoundAssumption DEF TypeOK, Run
<1>1. UNCHANGED << run, ghost >> => RunCourse(c)
  BY DEF RunCourse
<1>2. ASSUME NEW b \in Job, \E d \in Delegators[b] : Delegate(b, d) PROVE RunCourse(c)
  <2>1. run' = [run EXCEPT ![b] = [NoRun EXCEPT !.n = 1, !.st = "running"]] /\ job[b].from = Nil
       /\ UNCHANGED ghost
    BY <1>2 DEF Delegate
  <2>2. b \in Conv /\ [NoRun EXCEPT !.n = 1, !.st = "running"].st = "running"
    BY JobsAreConvs DEF NoRun
  <2> QED BY <1>0, <2>1, <2>2 DEF RunCourse
<1>3. ASSUME NEW b \in Conv, NEW st \in Ending, Ends(b, st) PROVE RunCourse(c)
  <2>1. /\ run[b].st = "running" /\ run' = [run EXCEPT ![b].st = st]
        /\ st = "completed" => Of(b, {"asked", "clear"}) = {}
        /\ UNCHANGED << park, ghost >> /\ b \notin ghost
    BY <1>3 DEF Ends, Active, rows
  <2>2. run[b] \in Run /\ st \in Terminal
    BY <1>0, EndingAssumption DEF Terminal
  <2>3. run'[b].st = st /\ run'[b].n = run[b].n
    BY <1>0, <2>1, <2>2 DEF Run
  <2> QED BY <1>0, <2>1, <2>2, <2>3 DEF RunCourse
<1>4. ASSUME NEW b \in Conv, NEW p \in Park, Resume(b, p) PROVE RunCourse(c)
  <2>1. run' = [run EXCEPT ![b] = [n |-> run[b].n + 1, st |-> "running", of |-> p]]
       /\ UNCHANGED ghost
    BY <1>4 DEF Resume
  <2>2. CASE b = c
    BY <1>0, <2>1, <2>2 DEF RunCourse
  <2>3. CASE b # c
    BY <1>0, <2>1, <2>3 DEF RunCourse
  <2> QED BY <2>2, <2>3
<1>5. ASSUME NEW b \in Conv, Begin(b) PROVE RunCourse(c)
  <2>1. /\ \/ run' = [run EXCEPT ![b] = run[b]]
           \/ run' = [run EXCEPT ![b] = [n |-> run[b].n + 1, st |-> "running", of |-> Nil]]
        /\ UNCHANGED ghost
    BY <1>5 DEF Begin
  <2>2. CASE b = c
    BY <1>0, <2>1, <2>2 DEF RunCourse
  <2>3. CASE b # c
    BY <1>0, <2>1, <2>3 DEF RunCourse
  <2> QED BY <2>2, <2>3
<1>6. ASSUME NEW b \in Conv, Stop(b) PROVE RunCourse(c)
  <2>1. run[b].st = "running" /\ run' = [run EXCEPT ![b].st = "failed"]
        /\ b \notin ghost /\ UNCHANGED ghost
    BY <1>6 DEF Stop, Active
  <2>2. run[b] \in Run
    BY <1>0
  <2>3. run'[b].st = "failed" /\ run'[b].n = run[b].n
    BY <1>0, <2>1, <2>2 DEF Run
  <2> QED BY <1>0, <2>1, <2>2, <2>3 DEF RunCourse, Terminal
<1>7. CASE CleanUp
  <2>1. run' = [b \in Conv |-> IF b \in ghost THEN [run[b] EXCEPT !.st = "cancelled"] ELSE run[b]]
        /\ ghost' = {}
    BY <1>7 DEF CleanUp
  <2>2. CASE c \in ghost
    <3>1. run[c] \in Run /\ run[c].st = "running" /\ run'[c] = [run[c] EXCEPT !.st = "cancelled"]
      BY <1>0, <2>1, <2>2 DEF GhostsRun
    <3>2. run'[c].st = "cancelled" /\ run'[c].n = run[c].n
      BY <3>1 DEF Run
    <3> QED BY <2>1, <3>1, <3>2 DEF RunCourse, Terminal
  <2>3. CASE c \notin ghost
    BY <2>1, <2>3 DEF RunCourse
  <2> QED BY <2>2, <2>3
<1>8. ASSUME NEW p \in Park,
             \/ \E b \in Conv, jobs \in SUBSET Job, policy \in Policy : Ask(p, b, jobs, policy)
             \/ Clear(p) \/ Arm(p) \/ Deadline(p) \/ Age(p) \/ Drops(p)
      PROVE  UNCHANGED << run, ghost >>
  BY <1>8 DEF Ask, Clear, Arm, Deadline, Age, Drops, chat
<1>9. CASE Settlement \/ Wakes \/ \E w \in Worker : Breaks(w)
  BY <1>1, <1>9 DEF Settlement, Judge, Commit, Wakes, ReadOnly, ParksOnly, Breaks, chat
<1>12. CASE Crash
  BY <1>12 DEF Crash, RunCourse
<1>10. ASSUME NEW w \in Worker, WorkerStep(w) PROVE UNCHANGED << run, ghost >>
  BY <1>10 DEF WorkerStep, List, Take, Reset, Check, Record, Decide, Claim, Look, Get, Send, SendFails,
               Count, Settle, ReadOnly, ParksOnly, chat
<1>11. ASSUME NEW b \in Conv, Write(b) \/ WriteUnheard(b) \/ Disarm(b) \/ DisarmFails(b)
       PROVE  UNCHANGED << run, ghost >>
  BY <1>11 DEF Write, WriteUnheard, Disarm, DisarmFails, chat
<1> QED BY <1>1, <1>2, <1>3, <1>4, <1>5, <1>6, <1>7, <1>8, <1>9, <1>10, <1>11, <1>12,
           ConvAssumption
        DEF Next, Agents, Calls, Dispatch, People, Time, Faults

\* Wakes go to the conversation of their park; a wake sent again is counted.
SentTo(w) ==
  /\ P(w) \in Park /\ In(P(w), Taken) /\ park[P(w)].conv \in Conv
  /\ inbox' = [inbox EXCEPT ![park[P(w)].conv] = inbox[park[P(w)].conv] \cup {P(w)}]
  /\ sent' = [sent EXCEPT ![P(w)] = sent[P(w)] + 1]
  /\ UNCHANGED << run, ghost, job, settling, park, newer >>

LEMMA Deliveries ==
  ASSUME IInv, Next
  PROVE  \/ \E w \in Worker : SentTo(w)
         \/ UNCHANGED sent /\ \A c \in Conv : inbox'[c] \subseteq inbox[c]
<1> USE DEF IInv
<1>1. UNCHANGED inbox => \A c \in Conv : inbox'[c] \subseteq inbox[c]
  OBVIOUS
<1>2. ASSUME NEW b \in Job, \E d \in Delegators[b] : Delegate(b, d)
      PROVE  UNCHANGED << inbox, sent >>
  BY <1>2 DEF Delegate
<1>3. ASSUME NEW b \in Conv, NEW p \in Park, Resume(b, p)
      PROVE  UNCHANGED sent /\ \A c \in Conv : inbox'[c] \subseteq inbox[c]
  BY <1>3 DEF Resume, TypeOK
<1>4. ASSUME NEW b \in Conv,
             \/ \E st \in Ending : Ends(b, st)
             \/ \E p \in Park, jobs \in SUBSET Job, policy \in Policy : Ask(p, b, jobs, policy)
             \/ Write(b) \/ WriteUnheard(b) \/ Begin(b) \/ Stop(b) \/ Disarm(b) \/ DisarmFails(b)
      PROVE  UNCHANGED << inbox, sent >>
  BY <1>4 DEF Ends, Ask, Write, WriteUnheard, Begin, Stop, Disarm, DisarmFails, chat
<1>5. ASSUME NEW p \in Park, Clear(p) \/ Arm(p) \/ Deadline(p) \/ Age(p) \/ Drops(p)
      PROVE  UNCHANGED << inbox, sent >>
  BY <1>5 DEF Clear, Arm, Deadline, Age, Drops, chat
<1>6. CASE Settlement \/ Wakes \/ Crash \/ CleanUp \/ \E w \in Worker : Breaks(w)
  BY <1>1, <1>6 DEF Settlement, Judge, Commit, Wakes, ReadOnly, ParksOnly, Crash, CleanUp, Breaks, chat
<1>7. ASSUME NEW w \in Worker, WorkerStep(w), ~Send(w) PROVE UNCHANGED << inbox, sent >>
  BY <1>7 DEF WorkerStep, List, Take, Reset, Check, Record, Decide, Claim, Look, Get, SendFails,
              Count, Settle, ReadOnly, ParksOnly, chat
<1>8. ASSUME NEW w \in Worker, Send(w) PROVE SentTo(w)
  <2>1. P(w) \in Park /\ In(P(w), Taken)
    BY <1>8 DEF WorkOK, Send, At, AtPark, Dispatching, Sending
  <2>2. park[P(w)].conv \in Conv
    BY <2>1, RowOf DEF Row, In, Taken, Begun, Live
  <2> QED BY <1>8, <2>1, <2>2 DEF Send, SentTo, rows
<1> QED BY <1>1, <1>2, <1>3, <1>4, <1>5, <1>6, <1>7, <1>8, ConvAssumption
        DEF Next, Agents, Calls, Dispatch, People, Time, Faults

\* A settlement is begun by Judge only, for a job that was delegated.
LEMMA Settlements ==
  ASSUME IInv, Next, NEW c \in Job
  PROVE  /\ \/ settling'[c] \in {settling[c], Nil}
            \/ Judge(c) /\ settling'[c] = run[c]
         /\ job'[c].from = job[c].from \/ (job[c].from = Nil /\ job'[c].from # Nil)
         /\ job'[c].st # "none" => job[c].st # "none" \/ job'[c].from # Nil
         /\ job[c].st = "running" /\ job'[c].st = "completed"
              => settling[c] # Nil /\ settling[c].st = "completed"
<1> USE DEF IInv
<1>0. job \in [Job -> Snapshot] /\ settling \in [Job -> EndedRun \cup {Nil}]
  BY DEF TypeOK
<1>1. ASSUME NEW b \in Job, \E d \in Delegators[b] : Delegate(b, d)
      PROVE  /\ UNCHANGED settling
             /\ job'[c].from = job[c].from \/ (job[c].from = Nil /\ job'[c].from # Nil)
             /\ job'[c].st # "none" => job[c].st # "none" \/ job'[c].from # Nil
             /\ job'[c].st = job[c].st \/ job'[c].st = "running"
  <2>1. PICK d \in Conv : Delegate(b, d)
    BY <1>1, ConvAssumption
  <2>2. d # Nil
    BY <2>1, NameAssumption
  <2> QED BY <1>0, <2>1, <2>2 DEF Delegate, calls
<1>2. ASSUME NEW b \in Job, Judge(b)
      PROVE  /\ settling'[c] = settling[c] \/ (Judge(c) /\ settling'[c] = run[c])
             /\ UNCHANGED job
  BY <1>0, <1>2 DEF Judge
<1>3. ASSUME NEW b \in Job, Commit(b)
      PROVE  /\ settling'[c] \in {settling[c], Nil} /\ job'[c].from = job[c].from
             /\ job'[c].st # "none" => job[c].st # "none"
             /\ \/ job'[c].st = job[c].st
                \/ settling[c] # Nil /\ job'[c].st = settling[c].st
  <2>1. settling' = [settling EXCEPT ![b] = Nil] /\ job' = [job EXCEPT ![b].st = settling[b].st]
       /\ job[b].st = "running" /\ settling[b] # Nil
    BY <1>3 DEF Commit
  <2>2. job[b] \in Snapshot
    BY <1>0
  <2>3. job'[b].from = job[b].from /\ job'[b].st = settling[b].st
    BY <1>0, <2>1, <2>2 DEF Snapshot
  <2> QED BY <1>0, <2>1, <2>3
<1>4. ASSUME NEW b \in Conv,
             \/ \E st \in Ending : Ends(b, st)
             \/ \E p \in Park : Resume(b, p)
             \/ \E p \in Park, jobs \in SUBSET Job, policy \in Policy : Ask(p, b, jobs, policy)
             \/ Write(b) \/ WriteUnheard(b) \/ Begin(b) \/ Stop(b) \/ Disarm(b) \/ DisarmFails(b)
      PROVE  UNCHANGED << job, settling >>
  BY <1>4 DEF Ends, Resume, Ask, Write, WriteUnheard, Begin, Stop, Disarm, DisarmFails, calls
<1>5. ASSUME NEW p \in Park, Clear(p) \/ Arm(p) \/ Deadline(p) \/ Age(p) \/ Drops(p)
      PROVE  UNCHANGED << job, settling >>
  BY <1>5 DEF Clear, Arm, Deadline, Age, Drops, calls
<1>6. CASE Wakes \/ CleanUp \/ \E w \in Worker : Breaks(w)
  BY <1>6 DEF Wakes, ReadOnly, ParksOnly, CleanUp, Breaks, calls
<1>7. ASSUME NEW w \in Worker, WorkerStep(w) PROVE UNCHANGED << job, settling >>
  BY <1>7 DEF WorkerStep, List, Take, Reset, Check, Record, Decide, Claim, Look, Get, Send, SendFails,
              Count, Settle, ReadOnly, ParksOnly
<1>8. CASE Crash
  <2>1. settling'[c] = Nil
    BY <1>8 DEF Crash
  <2>2. job'[c] = [job[c] EXCEPT !.st = IF job[c].st = "running" THEN "lost" ELSE job[c].st]
    BY <1>8 DEF Crash
  <2>3. job[c] \in Snapshot
    BY <1>0
  <2> QED BY <2>1, <2>2, <2>3 DEF Snapshot
<1> QED BY <1>1, <1>2, <1>3, <1>4, <1>5, <1>6, <1>7, <1>8, ConvAssumption
        DEF Next, Agents, Calls, Settlement, Dispatch, People, Time, Faults

LEMMA PutApart ==
  ASSUME NEW p \in Park, NEW r, Put(p, r), \A e \in newer : e[1] # e[2]
  PROVE  \A e \in newer' : e[1] # e[2]
BY DEF Put

LEMMA RowsStayApart ==
  ASSUME IInv, Next, \A e \in newer : e[1] # e[2]
  PROVE  \A e \in newer' : e[1] # e[2]
<1> USE DEF IInv
<1>1. ASSUME NEW b \in Job, \E d \in Delegators[b] : Delegate(b, d) PROVE UNCHANGED newer
  BY <1>1 DEF Delegate, rows
<1>2. ASSUME NEW b \in Conv,
             \/ \E st \in Ending : Ends(b, st)
             \/ \E p \in Park : Resume(b, p)
             \/ \E p \in Park, jobs \in SUBSET Job, policy \in Policy : Ask(p, b, jobs, policy)
             \/ Write(b) \/ WriteUnheard(b) \/ Begin(b) \/ Stop(b) \/ Disarm(b) \/ DisarmFails(b)
      PROVE  UNCHANGED newer
  BY <1>2 DEF Ends, Resume, Ask, Write, WriteUnheard, Begin, Stop, Disarm, DisarmFails, rows
<1>3. ASSUME NEW p \in Park, Clear(p) \/ Deadline(p) \/ Age(p) \/ Drops(p) PROVE UNCHANGED newer
  BY <1>3 DEF Clear, Deadline, Age, Drops, rows
<1>4. ASSUME NEW p \in Park, Arm(p) PROVE \A e \in newer' : e[1] # e[2]
  BY <1>4, PutApart DEF Arm
<1>5. CASE Settlement \/ Wakes \/ Crash \/ CleanUp \/ \E w \in Worker : Breaks(w)
  BY <1>5 DEF Settlement, Judge, Commit, Wakes, ReadOnly, ParksOnly, Crash, CleanUp, Breaks, rows
<1>6. ASSUME NEW w \in Worker, WorkerStep(w) PROVE \A e \in newer' : e[1] # e[2]
  <2>1. CASE UNCHANGED newer
    BY <2>1
  <2>2. CASE \E r : Put(P(w), r)
    <3>1. CASE P(w) \in Park
      BY <2>2, <3>1, PutApart
    <3>2. CASE P(w) \notin Park
      BY <2>2, <3>2 DEF Put
    <3> QED BY <3>1, <3>2
  <2> QED BY <1>6, <2>1, <2>2
       DEF WorkerStep, List, Take, Reset, Check, Record, Decide, Claim, Look, Get, Send, SendFails,
           Count, Settle, ReadOnly, ParksOnly, rows
<1> QED BY <1>1, <1>2, <1>3, <1>4, <1>5, <1>6, ConvAssumption
        DEF Next, Agents, Calls, Dispatch, People, Time, Faults

\* A settlement that found a run completed, and its conversation over, still
\* does at its commit, unless a run has begun.  Steps between the two: a run
\* that has ended asks for no park, a wake is counted, a deadline stays passed.
Judged(c) ==
  settling[c] # Nil /\ settling[c].st = "completed" /\ settling[c] = run[c] /\ ParkedOnce(c)
    => Of(c, {"asked", "clear"}) = {} /\ Over(c)

Behind(c) ==
  settling[c] # Nil =>
    job[c].from # Nil /\ (settling[c] = run[c] \/ settling[c].n < run[c].n)

JInv ==
  /\ \A e \in newer : e[1] # e[2]
  /\ GhostsRun
  /\ \A c \in Conv : run[c].st = "completed" => Of(c, {"asked", "clear"}) = {}
  /\ \A c \in Conv : \A p \in inbox[c] : In(p, Begun) /\ park[p].conv = c
  /\ \A p \in Park : In(p, {"woken"}) => sent[p] > 0
  /\ \A c \in Job : job[c].st # "none" => job[c].from # Nil
  /\ \A c \in Job : Behind(c)
  /\ \A c \in Job : Judged(c)

LEMMA InitJInv == Init => JInv
<1> SUFFICES ASSUME Init PROVE JInv
  OBVIOUS
<1>1. \A p \in Park : \A S : Free.state \notin S => ~In(p, S)
  BY DEF Init, In
<1>2. \A c \in Conv : Of(c, {"asked", "clear"}) = {}
  BY <1>1 DEF Of, Free
<1> QED BY <1>1, <1>2 DEF Init, JInv, GhostsRun, Behind, Judged, Free

LEMMA GhostsKeepRunning == ASSUME IInv, JInv, Next PROVE GhostsRun'
<1> SUFFICES ASSUME NEW c \in ghost' PROVE run'[c].st = "running"
  BY DEF GhostsRun
<1>1. c \in Conv
  BY NextKeepsIInv DEF IInv, TypeOK
<1>2. RunCourse(c)
  BY <1>1, EveryRunCourse DEF JInv
<1> QED BY <1>2 DEF RunCourse, JInv, GhostsRun

\* The parks a conversation has before a step, of those it has after.
LEMMA ParksBefore ==
  ASSUME IInv, Next, NEW c \in Conv
  PROVE  /\ \A p \in Park : p \in Of(c, Begun) => p \in Of(c, Begun)'
         /\ ~Active(c) => \A p \in Of(c, {"asked", "clear"})' : p \in Of(c, {"asked", "clear"})
         /\ \A p \in Of(c, Live)' : p \in Of(c, Live \cup {"clear"})
BY EveryCourse DEF Course, Of, In, Active

LEMMA CompletedAsksNothing ==
  ASSUME IInv, JInv, Next, NEW c \in Conv, run'[c].st = "completed"
  PROVE  Of(c, {"asked", "clear"})' = {}
<1>1. RunCourse(c)
  BY EveryRunCourse DEF JInv
<1>2. CASE run'[c] = run[c]
  <2>1. Of(c, {"asked", "clear"}) = {} /\ ~Active(c)
    BY <1>2 DEF JInv, Active
  <2> QED BY <2>1, ParksBefore
<1>3. CASE Of(c, {"asked", "clear"}) = {} /\ UNCHANGED park
  BY <1>3 DEF Of, In
<1> QED BY <1>1, <1>2, <1>3 DEF RunCourse

LEMMA InboxesKeep ==
  ASSUME IInv, JInv, Next
  PROVE  /\ \A c \in Conv : \A p \in inbox'[c] : park'[p].state \in Begun /\ park'[p].conv = c
         /\ \A p \in Park : park'[p].state = "woken" => sent'[p] > 0
<1> USE DEF IInv, JInv
<1>1. inbox \in [Conv -> SUBSET Park] /\ sent \in [Park -> Nat]
  BY DEF TypeOK
<1>2. \A p \in Park : In(p, Begun) => park'[p].state \in Begun /\ park'[p].conv = park[p].conv
  BY EveryCourse DEF Course
<1>3. \A p \in Park : park'[p].state = "woken" => sent[p] > 0
  BY EveryCourse DEF Course
<1>4. CASE UNCHANGED sent /\ \A c \in Conv : inbox'[c] \subseteq inbox[c]
  BY <1>1, <1>2, <1>3, <1>4
<1>5. ASSUME NEW w \in Worker, SentTo(w)
      PROVE  /\ \A c \in Conv : \A p \in inbox'[c] : park'[p].state \in Begun /\ park'[p].conv = c
             /\ \A p \in Park : park'[p].state = "woken" => sent'[p] > 0
  <2>1. \A p \in Park : sent'[p] >= sent[p]
    BY <1>1, <1>5 DEF SentTo
  <2>2. In(P(w), Begun)
    BY <1>5 DEF SentTo, In, Taken, Begun, Live
  <2>3. \A c \in Conv : \A p \in inbox'[c] : p \in inbox[c] \/ (p = P(w) /\ park[p].conv = c)
    BY <1>1, <1>5 DEF SentTo
  <2>4. \A c \in Conv : \A p \in inbox'[c] : p \in Park /\ In(p, Begun) /\ park[p].conv = c
    BY <1>1, <1>5, <2>2, <2>3 DEF SentTo
  <2>5. \A p \in Park : sent[p] \in Nat /\ sent'[p] \in Nat
    BY <1>1, <1>5 DEF SentTo
  <2> QED BY <1>2, <1>3, <2>1, <2>4, <2>5
<1> QED BY <1>4, <1>5, Deliveries

LEMMA BehindKeeps == ASSUME IInv, JInv, Next, NEW c \in Job PROVE Behind(c)'
<1> USE DEF IInv, JInv
<1>1. /\ \/ settling'[c] \in {settling[c], Nil}
         \/ Judge(c) /\ settling'[c] = run[c]
      /\ job'[c].from = job[c].from \/ (job[c].from = Nil /\ job'[c].from # Nil)
  BY Settlements
<1>2. /\ c \in Conv /\ RunCourse(c) /\ job[c] \in Snapshot /\ Nil \notin Conv
      /\ settling[c] \in EndedRun \cup {Nil} /\ run[c] \in Run /\ run'[c] \in Run
  BY JobsAreConvs, EveryRunCourse, NextKeepsIInv, NameAssumption DEF TypeOK
<1>3. CASE Judge(c) /\ settling'[c] = run[c]
  <2>1. UNCHANGED << run, job >> /\ job[c].st = "running"
    BY <1>3 DEF Judge, chat
  <2>2. job[c].from # Nil
    BY <2>1
  <2> QED BY <1>3, <2>1, <2>2 DEF Behind
<1>4. CASE settling'[c] = settling[c] /\ settling[c] # Nil
  <2>1. job[c].from # Nil /\ (settling[c] = run[c] \/ settling[c].n < run[c].n)
    BY <1>4 DEF Behind
  <2>2. settling[c] \in Run /\ settling[c].st \in Terminal /\ "running" \notin Terminal
    BY <1>2, <1>4 DEF EndedRun, Terminal
  <2>3. settling[c].n \in Nat /\ run[c].n \in Nat /\ run'[c].n \in Nat
    BY <1>2, <2>2, BoundAssumption DEF Run
  <2>4. settling[c] = run'[c] \/ settling[c].n < run'[c].n
    BY <1>2, <2>1, <2>2, <2>3 DEF RunCourse
  <2> QED BY <1>1, <1>4, <2>1, <2>4 DEF Behind
<1> QED BY <1>1, <1>3, <1>4 DEF Behind

\* The look at the parks: the newest one of a conversation that parked once is
\* the only one.
LEMMA JudgedAtFirst ==
  ASSUME IInv, JInv, NEW c \in Job, Judge(c), run[c].st = "completed", ParkedOnce(c)
  PROVE  Of(c, {"asked", "clear"}) = {} /\ Over(c)
<1> USE DEF IInv, JInv
<1>1. c \in Conv /\ Of(c, {"asked", "clear"}) = {} /\ \A p \in Blocking(c) : ~Blocks(p, c)
  BY JobsAreConvs DEF Judge
<1>2. ASSUME NEW p \in Of(c, {"armed", "waking", "woken"}) PROVE ~Blocks(p, c)
  <2>1. \A q \in Of(c, {"armed", "waking", "woken"}) : q = p
    BY <1>2 DEF ParkedOnce, Of, In, Live, Resolved
  <2>2. << p, p >> \notin newer
    OBVIOUS
  <2>3. p \in Blocking(c)
    BY <1>2, <2>1, <2>2 DEF Blocking
  <2> QED BY <1>1, <2>3
<1>3. Of(c, Live) = {}
  BY <1>2 DEF Of, In, Live, Blocks
<1>4. ASSUME NEW p \in inbox[c], In(p, {"woken"}), ~park[p].due
      PROVE  run[c].n > park[p].claimed
  <2>1. p \in Park /\ park[p].conv = c
    BY <1>1, <1>4 DEF TypeOK
  <2>2. ~Blocks(p, c) /\ park[p] \in Row /\ run[c] \in Run
    BY <1>1, <1>2, <1>4, <2>1, RowOf DEF Of, In, Begun, Resolved, TypeOK
  <2>3. park[p].claimed \in Nat /\ run[c].n \in Nat /\ ~(run[c].n <= park[p].claimed)
    BY <1>4, <2>2, BoundAssumption DEF Row, Run, Blocks
  <2> QED BY <2>3
<1> QED BY <1>1, <1>3, <1>4 DEF Over

\* Between the look and the commit nothing opens the conversation again.
LEMMA JudgedStays ==
  ASSUME IInv, JInv, Next, NEW c \in Job, run'[c] = run[c], run[c].st = "completed",
         ParkedOnce(c)', Of(c, {"asked", "clear"}) = {}, Over(c)
  PROVE  Of(c, {"asked", "clear"})' = {} /\ Over(c)'
<1> USE DEF IInv, JInv
<1>1. c \in Conv /\ ~Active(c)
  BY JobsAreConvs DEF Active
<1>2. Of(c, {"asked", "clear"})' = {}
  BY <1>1, ParksBefore
<1>3. Of(c, Live)' = {}
  <2>1. Of(c, Live \cup {"clear"}) = {}
    BY DEF Over, Of, In
  <2> QED BY <1>1, <2>1, ParksBefore
<1>4. ASSUME NEW p \in inbox'[c], park'[p].state = "woken", sent'[p] = 1
      PROVE  park'[p].due \/ run'[c].n > park'[p].claimed
  <2>1. /\ p \in Park /\ Course(p) /\ park'[p].conv = c
        /\ inbox \in [Conv -> SUBSET Park] /\ sent \in [Park -> Nat]
    BY <1>1, EveryCourse, NextKeepsIInv, InboxesKeep DEF TypeOK
  <2>2. ~In(p, {"waking"})
    BY <2>1 DEF Course, In, Over, Of, Live, Begun
  <2>3. In(p, {"woken"}) /\ park'[p].claimed = park[p].claimed /\ (park[p].due => park'[p].due)
    BY <1>4, <2>1, <2>2 DEF Course
  <2>4. sent[p] \in Nat /\ sent[p] > 0
    BY <2>1, <2>3
  <2>5. sent[p] = 1 /\ p \in inbox[c]
    <3>1. CASE UNCHANGED sent /\ \A d \in Conv : inbox'[d] \subseteq inbox[d]
      BY <1>1, <1>4, <3>1
    <3>2. ASSUME NEW w \in Worker, SentTo(w) PROVE sent[p] = 1 /\ p \in inbox[c]
      <4>1. CASE p = P(w)
        BY <1>4, <2>1, <2>4, <3>2, <4>1 DEF SentTo
      <4>2. CASE p # P(w)
        BY <1>1, <1>4, <2>1, <3>2, <4>2 DEF SentTo
      <4> QED BY <4>1, <4>2
    <3> QED BY <3>1, <3>2, Deliveries
  <2>6. park[p].due \/ run[c].n > park[p].claimed
    BY <2>3, <2>5 DEF Over
  <2> QED BY <2>3, <2>6
<1> QED BY <1>2, <1>3, <1>4 DEF Over, In

LEMMA JudgedKeeps == ASSUME IInv, JInv, Next, NEW c \in Job PROVE Judged(c)'
<1> SUFFICES ASSUME settling'[c] # Nil, settling'[c].st = "completed", settling'[c] = run'[c],
                    ParkedOnce(c)'
             PROVE  Of(c, {"asked", "clear"})' = {} /\ Over(c)'
  BY DEF Judged
<1> USE DEF IInv, JInv
<1>1. c \in Conv /\ IInv'
  BY JobsAreConvs, NextKeepsIInv
<1>2. ParkedOnce(c)
  <2>1. \A p \in Of(c, Begun) : p \in Park /\ p \in Of(c, Begun)'
    BY <1>1, ParksBefore DEF Of
  <2>2. \A p, q \in Of(c, Begun)' : p = q
    BY DEF ParkedOnce, Begun
  <2>3. \A p, q \in Of(c, Begun) : p = q
    BY <2>1, <2>2
  <2> QED BY <2>3 DEF ParkedOnce, Begun
<1>3. CASE Judge(c) /\ settling'[c] = run[c]
  <2>1. UNCHANGED << run, park, inbox, sent >> /\ run[c].st = "completed"
    BY <1>3 DEF Judge, chat, rows
  <2>2. Of(c, {"asked", "clear"}) = {} /\ Over(c)
    BY <1>2, <1>3, <2>1, JudgedAtFirst
  <2> QED BY <2>1, <2>2 DEF Of, In, Over
<1>4. CASE settling'[c] = settling[c]
  <2>1. settling[c] = run[c] \/ settling[c].n < run[c].n
    BY <1>4 DEF Behind
  <2>2. settling[c] = run[c]
    <3>1. RunCourse(c) /\ settling[c] \in EndedRun /\ run[c] \in Run
      BY <1>1, <1>4, EveryRunCourse DEF TypeOK
    <3>2. settling[c].n \in Nat /\ run[c].n \in Nat
      BY <3>1, BoundAssumption DEF EndedRun, Run
    <3>3. settling[c].n >= run[c].n
      BY <1>4, <3>1, <3>2 DEF RunCourse
    <3> QED BY <2>1, <3>2, <3>3
  <2>3. Of(c, {"asked", "clear"}) = {} /\ Over(c)
    BY <1>2, <1>4, <2>2 DEF Judged
  <2> QED BY <1>4, <2>2, <2>3, JudgedStays
<1> QED BY <1>3, <1>4, Settlements

LEMMA NextJInv == IInv /\ JInv /\ [Next]_vars => JInv'
<1> SUFFICES ASSUME IInv, JInv, [Next]_vars PROVE JInv'
  OBVIOUS
<1>1. CASE UNCHANGED vars
  BY <1>1 DEF vars, JInv, GhostsRun, Behind, Judged, Over, ParkedOnce, Of, In
<1>2. CASE Next
  <2>1. \A e \in newer' : e[1] # e[2]
    BY <1>2, RowsStayApart DEF JInv
  <2>2. \A c \in Job : job'[c].st # "none" => job'[c].from # Nil
    BY <1>2, Settlements DEF JInv
  <2>3. \A c \in Conv : \A p \in inbox'[c] : In(p, Begun)' /\ park'[p].conv = c
    BY <1>2, InboxesKeep DEF In
  <2>4. \A p \in Park : In(p, {"woken"})' => sent'[p] > 0
    BY <1>2, InboxesKeep DEF In
  <2> QED BY <1>2, <2>1, <2>2, <2>3, <2>4, GhostsKeepRunning, CompletedAsksNothing, BehindKeeps,
             JudgedKeeps DEF JInv
<1> QED BY <1>1, <1>2

\* A delegate's job is settled as completed only when its conversation is
\* over, whatever dispatchers, sweeps, users and faults do between the look
\* at its parks and the commit, for a conversation that has parked once and
\* begun no run in between (settle_delegation_from_run,
\* get_settlement_blocking_for_conversation).
THEOREM SettlementsWait == Spec => SettledIsOver
<1>1. IInv /\ JInv /\ [Next]_vars =>
        [\A c \in Job :
           /\ job[c].st = "running" /\ job'[c].st = "completed"
           /\ settling[c] = run[c] /\ ParkedOnce(c)
           => Over(c)]_vars
  <2> SUFFICES ASSUME IInv, JInv, Next, NEW c \in Job,
                      job[c].st = "running", job'[c].st = "completed",
                      settling[c] = run[c], ParkedOnce(c)
               PROVE  Over(c)
    OBVIOUS
  <2>1. settling[c] # Nil /\ settling[c].st = "completed"
    BY Settlements
  <2> QED BY <2>1 DEF JInv, Judged
<1>2. Spec => []JInv
  BY InitJInv, NextJInv, SpecIInv, PTL DEF Spec
<1> QED BY <1>1, <1>2, SpecIInv, PTL DEF Spec, SettledIsOver
=============================================================================
