-------------------------- MODULE DelegationParkMC --------------------------
(***************************************************************************)
(* Small instances of DelegationPark.                                      *)
(***************************************************************************)
EXTENDS DelegationPark, TLC

CONSTANT Middle   \* a delegate that may delegate all but itself

\* The root delegates every job, or only the middle, which delegates the rest.
Flat  == [c \in Job |-> {Root}]
Tree  == [c \in Job |-> IF c = Middle THEN {Root} ELSE {Root, Middle}]

Every == {"all", "any"} \X BOOLEAN
Two == { << "all", TRUE >>, << "any", FALSE >> }
AllOf == { << "all", FALSE >> }
=============================================================================
