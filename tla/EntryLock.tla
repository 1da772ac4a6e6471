------------------------------ MODULE EntryLock ------------------------------
(***************************************************************************)
(* What an in-flight set keyed by task promises to its users: for every    *)
(* task at most one caller is inside, a caller enters only while nobody is *)
(* inside, and it leaves by its own step, or with all others when the      *)
(* process that keeps the set in memory starts again.  The guards of the execution     *)
(* state (execution entries, scheduling) are shown to implement it.        *)
(***************************************************************************)
CONSTANTS Task, Caller, Nobody

VARIABLE holder     \* holder[t]: the caller inside the guard of t

TypeOK == holder \in [Task -> Caller \cup {Nobody}]

Init == holder = [t \in Task |-> Nobody]

Acquire(t, c) == /\ holder[t] = Nobody
                 /\ holder' = [holder EXCEPT ![t] = c]

Release(t, c) == /\ holder[t] = c
                 /\ holder' = [holder EXCEPT ![t] = Nobody]

Restart == holder' = [t \in Task |-> Nobody]

Next == \/ \E t \in Task, c \in Caller : Acquire(t, c) \/ Release(t, c)
        \/ Restart

Spec == Init /\ [][Next]_holder
=============================================================================
