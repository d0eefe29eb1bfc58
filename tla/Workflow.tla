------------------------------ MODULE Workflow ------------------------------
(***************************************************************************)
(* The life of a structured request, as the decision table of              *)
(* agent_peer/workflows.py allows it: one table for every caller, and      *)
(* nothing ever leaves a terminal state.                                   *)
(***************************************************************************)

CONSTANT Request      \* request ids

VARIABLE state        \* workflow state of each request, or "absent"

Active == {"created", "queued", "accepted", "in_progress"}
Terminal == {"completed", "failed", "refused", "cancelled", "expired"}
RequestState == Active \cup Terminal

(* The states a request may be moved to.                                   *)
Successors ==
  [ absent      |-> {"created"},
    created     |-> {"queued", "cancelled", "expired"},
    queued      |-> {"accepted", "refused", "cancelled", "expired"},
    accepted    |-> {"in_progress", "cancelled", "failed", "expired"},
    in_progress |-> {"completed", "failed", "cancelled", "expired"} ]

Legal(from, to) == from \notin Terminal /\ to \in Successors[from]

TypeOK == state \in [Request -> RequestState \cup {"absent"}]

Init == state = [r \in Request |-> "absent"]

(* One call moves one request, the expiry sweep several at once.           *)
Move(R, to) ==
  /\ \A r \in R : Legal(state[r], to)
  /\ state' = [r \in Request |-> IF r \in R THEN to ELSE state[r]]

Next == \E R \in SUBSET Request, to \in RequestState : Move(R, to)

Spec == Init /\ [][Next]_state

----------------------------------------------------------------------------
(* What the documentation calls frozen: a request that has ended stays as  *)
(* it ended.                                                               *)
TerminalFrozen ==
  [][\A r \in Request : state[r] \in Terminal => state'[r] = state[r]]_state
=============================================================================
