------------------------ MODULE TaskTransitionsClaims ------------------------
(***************************************************************************)
(* What the comments and the guides of the repository say about the        *)
(* transitions of a task and the code does not keep.                       *)
(***************************************************************************)
EXTENDS TaskTransitions

\* "Terminal states (`merged`, `failed`, `cancelled`, `stopped`) cannot
\* transition to other states except via Retry -> `ready`."  Failed is left out
\* here: a recovery takes it back to review on purpose.
TerminalOnlyRetried ==
  [][\A t \in Task :
       /\ status[t] \in {"Merged", "Cancelled", "Stopped"}
       /\ status'[t] # status[t]
       => status'[t] = "Ready"]_vars
=============================================================================
