---------------------------- MODULE FencedLease ----------------------------
(***************************************************************************)
(* What a durable lease on a Git target promises.  A target has at most    *)
(* one holder; every new holder gets a higher token, so that a former      *)
(* holder can be told from the present one; and while a mutation of the    *)
(* target is in flight the holder neither changes nor leaves.              *)
(***************************************************************************)
EXTENDS Naturals

CONSTANTS Target, Holder, Nobody

VARIABLES
  holder,     \* holder[g]: who may change target g
  token,      \* token[g]: the token of the last holder
  writing     \* the targets with a mutation in flight

vars == << holder, token, writing >>

TypeOK == /\ holder \in [Target -> Holder \cup {Nobody}]
          /\ token \in [Target -> Nat]
          /\ writing \subseteq Target

Init == /\ holder = [g \in Target |-> Nobody]
        /\ token = [g \in Target |-> 0]
        /\ writing = {}

\* A holder takes a free target, or the holder hands the target to another.
Take(g, h) == /\ g \notin writing
              /\ holder' = [holder EXCEPT ![g] = h]
              /\ token' = [token EXCEPT ![g] = @ + 1]
              /\ UNCHANGED writing

Begin(g) == /\ holder[g] # Nobody
            /\ g \notin writing
            /\ writing' = writing \cup {g}
            /\ UNCHANGED << holder, token >>

End(g) == /\ g \in writing
          /\ writing' = writing \ {g}
          /\ UNCHANGED << holder, token >>

Leave(g) == /\ g \notin writing
            /\ holder' = [holder EXCEPT ![g] = Nobody]
            /\ UNCHANGED << token, writing >>

Next == \E g \in Target :
          \/ \E h \in Holder : Take(g, h)
          \/ Begin(g)
          \/ End(g)
          \/ Leave(g)

Spec == Init /\ [][Next]_vars
=============================================================================
