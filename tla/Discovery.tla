----------------------------- MODULE Discovery -----------------------------
(***************************************************************************)
(* The stale repair a second process runs over the registry directory of   *)
(* Sessions, while the process that owns the records opens, changes and    *)
(* closes its peers, or has died.  The two share files and sockets only:   *)
(* neither sees a lock of the other.                                       *)
(***************************************************************************)
EXTENDS Sessions

CONSTANT
  Crowded           \* peers whose backlog of connections may be full

ASSUME CrowdedAssumption == Crowded \subseteq Peer

VARIABLES
  repair,           \* the record under repair, and where its repair is
  misled            \* history: listeners that a connect of a repair has missed

vars == <<processVars, repair, misled>>

Repair == [peer : Peer \cup {None},
           step : {"next", "probe", "check", "challenge", "bound", "record", "socket"}]
NoRepair == [peer |-> None, step |-> "next"]

TypeOK == ProcessTypeOK /\ repair \in Repair /\ misled \subseteq bound

RepairInit == Init /\ repair = NoRepair /\ misled = {}

(* Only a live peer answers.  The answer may come late, and one with       *)
(* another status than the record is a failure: a failure is always        *)
(* possible, and so is the failure that is still in the cache of probes.   *)
Answers == repair.peer \in bound /\ answers[repair.peer] # "none"

Proceed(step) == repair' = [repair EXCEPT !.step = step]
Drop == repair' = NoRepair

ConsiderSocket(p) ==
  /\ repair = NoRepair /\ file[p] # "none" /\ p \in sockets
  /\ repair' = [peer |-> p, step |-> "probe"]
  /\ UNCHANGED <<processVars, misled>>

Consider(p) ==
  /\ repair = NoRepair /\ file[p] # "none"
  /\ repair' = [peer |-> p, step |-> "probe"]
  /\ UNCHANGED <<processVars, misled>>

(* A heartbeat that is old makes a candidate without a probe.              *)
Probe ==
  /\ repair.step = "probe"
  /\ (Answers /\ Drop) \/ Proceed("check")
  /\ UNCHANGED <<processVars, misled>>

(* The record is read again; inodes that changed under the check refuse.   *)
Check ==
  /\ repair.step = "check"
  /\ \/ file[repair.peer] # "none" /\ Proceed("challenge")
     \/ (up \/ file[repair.peer] = "none") /\ Drop
  /\ UNCHANGED <<processVars, misled>>

Challenge ==
  /\ repair.step = "challenge"
  /\ (Answers /\ Drop) \/ Proceed("bound")
  /\ UNCHANGED <<processVars, misled>>

BoundAssumed ==
  /\ repair.step = "bound"
  /\ Proceed("record")
  /\ UNCHANGED <<processVars, misled>>

(* The connect tells a listener from none, but it fails for any OSError:   *)
(* also where the backlog of a listener is full.                           *)
BoundCheck ==
  /\ repair.step = "bound"
  /\ \/ repair.peer \in bound /\ Drop /\ UNCHANGED misled
     \/ repair.peer \notin bound /\ Proceed("record") /\ UNCHANGED misled
     \/ /\ repair.peer \in bound \cap Crowded /\ Proceed("record")
        /\ misled' = misled \cup {repair.peer}
  /\ UNCHANGED processVars

RemoveRecord ==
  /\ repair.step = "record"
  /\ IF file[repair.peer] = "none" THEN Drop ELSE Proceed("socket")
  /\ file' = [file EXCEPT ![repair.peer] = "none"]
  /\ UNCHANGED <<up, mapVars, peerVars, lockVars, job, beatVars, misled>>

RemoveSocket ==
  /\ repair.step = "socket"
  /\ sockets' = sockets \ {repair.peer}
  /\ Drop
  /\ UNCHANGED <<up, mapVars, used, answers, bound, file, lockVars, job, beatVars, misled>>

Fence == Probe \/ Check \/ Challenge \/ BoundCheck \/ RemoveRecord \/ RemoveSocket

Next ==
  \/ ProcessNext /\ UNCHANGED repair /\ misled' = misled \cap bound'
  \/ \E p \in Peer : Consider(p)
  \/ Fence

(* Whoever repairs runs again and again over all records.                  *)
Fairness == WF_vars(Fence) /\ \A p \in Peer : SF_vars(Consider(p))
Spec == RepairInit /\ [][Next]_vars /\ Fairness

----------------------------------------------------------------------------
Busy(p) == \E t \in Thread : job[t].peer = p

(* Between hooks the four maps, the runtime and the registry tell one      *)
(* story of a session: one peer that listens and that answers a probe with *)
(* the status its record shows, or no peer and no record.  Only a repair   *)
(* whose connect failed may have taken record and socket, and then no      *)
(* heartbeat and no hook brings back a record that says anything else.     *)
MapsAgree ==
  \A s \in Session : Quiet(s) =>
    /\ recordOf[s] = toPeer[s]
    /\ toPeer[s] # None =>
         /\ beating[s] = toPeer[s]
         /\ toPeer[s] \in handles \cap bound
         /\ answers[toPeer[s]] \in {"idle", "working"}
         /\ file[toPeer[s]] \in {answers[toPeer[s]], "none"}
         /\ toPeer[s] \notin misled => file[toPeer[s]] # "none" /\ toPeer[s] \in sockets

(* A peer that was closed leaves nothing: no listener, socket or record,   *)
(* whatever the heartbeat that still knows it writes.                      *)
ClosedLeavesNothing ==
  up => \A p \in used : ~Busy(p) /\ (\A s \in Session : toPeer[s] # p) =>
    p \notin bound \cup sockets \cup handles /\ file[p] = "none" /\ beat.peer # p

(* Nothing takes the record or the socket of a peer that listens, but a    *)
(* repair whose own connect to that listener failed: neither a stale       *)
(* probe, nor a status in change, nor a hook, nor another peer's repair.   *)
(* _fenced_remove says of its connect that it excepts nothing.             *)
ListeningKeepsRecord ==
  [][\A p \in (bound \cap bound') \ misled :
       /\ file[p] # "none" => file'[p] # "none"
       /\ p \in sockets => p \in sockets']_vars

(* What a dead process published is removed.                               *)
CrashedIsRepaired ==
  \A p \in Peer : (~up /\ file[p] # "none") ~> (file[p] = "none" /\ p \notin sockets)
=============================================================================
