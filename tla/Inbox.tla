------------------------------- MODULE Inbox -------------------------------
(***************************************************************************)
(* What the inbound side of a peer promises about each message_id, as the  *)
(* docstring of SessionManager._on_inbound and docs/protocol.md put it: a  *)
(* message is decided once, `queued' means the host accepted it, the host  *)
(* gets it at most once, a held message waits for one explicit release or  *)
(* refusal, and a refusal or a drop is final.                              *)
(***************************************************************************)

CONSTANT Message      \* message ids addressed to one recipient peer

VARIABLES
  status,             \* what the recipient has decided about each message
  delivered           \* messages the host session has been handed

vars == <<status, delivered>>

Status == {"new", "deciding", "queued", "held", "refused", "dropped"}

TypeOK ==
  /\ status \in [Message -> Status]
  /\ delivered \subseteq Message

Init ==
  /\ status = [m \in Message |-> "new"]
  /\ delivered = {}

Move(m, from, to) ==
  /\ status[m] \in from
  /\ status' = [status EXCEPT ![m] = to]

(* The first arrival of the id: later ones change nothing.                 *)
Receive(m) == Move(m, {"new"}, "deciding") /\ UNCHANGED delivered

(* The host takes the message, from the pipeline or on explicit release.   *)
Deliver(m) ==
  /\ m \notin delivered
  /\ Move(m, {"deciding", "held"}, "queued")
  /\ delivered' = delivered \cup {m}

Hold(m) == Move(m, {"deciding"}, "held") /\ UNCHANGED delivered

Refuse(m) == Move(m, {"deciding", "held"}, "refused") /\ UNCHANGED delivered

Drop(m) == Move(m, {"deciding"}, "dropped") /\ UNCHANGED delivered

Next ==
  \E m \in Message :
    Receive(m) \/ Deliver(m) \/ Hold(m) \/ Refuse(m) \/ Drop(m)

Spec == Init /\ [][Next]_vars
=============================================================================
