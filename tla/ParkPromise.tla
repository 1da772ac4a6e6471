----------------------------- MODULE ParkPromise -----------------------------
(***************************************************************************)
(* What a park promises the conversation that parked: it is opened once    *)
(* and gets one outcome, which stays; it is woken, or woken late, only     *)
(* after the wake has been handed to the conversation; and nothing is      *)
(* handed to it that was never parked.                                     *)
(***************************************************************************)
CONSTANTS Park, Delivered, Outcome

VARIABLES
  outcome,   \* outcome[p]: "none" before p is opened, "open" until its end
  handed     \* the parks whose wake the conversation has been given

Init == /\ outcome = [p \in Park |-> "none"]
        /\ handed = {}

Hand(p) == /\ outcome[p] # "none"
           /\ handed' = handed \cup {p}
           /\ UNCHANGED outcome

\* One statement may decide several parks.
Decide == /\ outcome' \in [Park -> Outcome \cup {"none", "open"}]
          /\ \A p \in Park :
               \/ outcome'[p] = outcome[p]
               \/ outcome[p] = "none" /\ outcome'[p] = "open"
               \/ /\ outcome[p] = "open"
                  /\ outcome'[p] \in Outcome
                  /\ outcome'[p] \in Delivered => p \in handed
          /\ UNCHANGED handed

Next == (\E p \in Park : Hand(p)) \/ Decide

Spec == Init /\ [][Next]_<< outcome, handed >>
=============================================================================
