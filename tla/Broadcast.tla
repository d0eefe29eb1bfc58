----------------------------- MODULE Broadcast -----------------------------
(***************************************************************************)
(* One broadcast: BroadcastEngine.fan_out called by several threads on one *)
(* parent row, the sends SessionManager and PeerRuntimeManager make for    *)
(* it, and what the recipients do with the messages.                       *)
(*                                                                         *)
(* A caller reads the parent, takes the gate, resolves the members and     *)
(* inserts their children, then runs one task per member on a bounded pool *)
(* of threads.  Each attempt of a task is a message with an id of its own: *)
(* the send callback ignores the deterministic child id.                   *)
(***************************************************************************)
EXTENDS Naturals, FiniteSets

CONSTANTS
  Member,           \* agents in the group
  Self,             \* the sending agent, when it is a member too
  Caller,           \* threads that call fan_out on this broadcast
  MaxRetries,       \* BROADCAST_MAX_RETRIES
  Concurrency,      \* threads of the pool
  Timeouts,         \* TRUE if an answer may be late or lost
  Faults            \* TRUE if an update may raise or the process may crash

ASSUME BroadcastAssumption ==
  /\ IsFiniteSet(Member)
  /\ Self \subseteq Member
  /\ MaxRetries \in Nat
  /\ Concurrency \in Nat \ {0}
  /\ Timeouts \in BOOLEAN
  /\ Faults \in BOOLEAN

VARIABLES
  status,           \* broadcasts.status
  children,         \* broadcast_children.state, "absent" where there is no row
  caller,           \* per caller: next step
  report,           \* per caller: the outcomes it returned
  task,             \* per member: its task in the pool
  receipt,          \* per member: state of the last receipt
  attempts,         \* per member: sends made for it
  wire,             \* messages sent and not yet handled, <<member, attempt>>
  verdict,          \* history: what the recipient made of each message
  replied           \* history: messages whose receipt reached the sender

rowVars == <<status, children>>
taskVars == <<task, receipt, attempts>>
messageVars == <<wire, verdict, replied>>
vars == <<rowVars, caller, report, taskVars, messageVars>>

Attempt == 1 .. MaxRetries + 1
(* The receipts only a host gives; `refused' stands for every answer of an *)
(* inbound pipeline but queued: held, expired, rate_limited, over_capacity.*)
HostAnswer == {"queued", "refused"}
(* A recipient whose handler raises answers `invalid'.                     *)
Answer == HostAnswer \cup {"invalid"}
Outcome == Answer \cup {"unreachable"}
Row == Outcome \cup {"absent", "skipped"}

CallerStep == {"idle", "gate", "reread", "insert", "pool", "done", "raised"}
TaskStep == {"none", "waiting", "ready", "sent", "back", "recorded", "raised"}

TypeOK ==
  /\ status \in {"created", "in_flight", "completed"}
  /\ children \in [Member -> Row]
  /\ caller \in [Caller -> CallerStep]
  /\ report \in [Caller -> [Member -> Row]]
  /\ task \in [Member -> TaskStep]
  /\ receipt \in [Member -> Outcome]
  /\ attempts \in [Member -> 0 .. MaxRetries + 1]
  /\ wire \subseteq Member \X Attempt
  /\ verdict \in [Member \X Attempt -> Answer \cup {"none"}]
  /\ replied \subseteq Member \X Attempt

Nobody == [m \in Member |-> "absent"]

Init ==
  /\ status = "created"
  /\ children = Nobody
  /\ caller = [c \in Caller |-> "idle"]
  /\ report = [c \in Caller |-> Nobody]
  /\ task = [m \in Member |-> "none"]
  /\ receipt = [m \in Member |-> "queued"]
  /\ attempts = [m \in Member |-> 0]
  /\ wire = {}
  /\ verdict = [a \in Member \X Attempt |-> "none"]
  /\ replied = {}

----------------------------------------------------------------------------
(* fan_out, up to the sends                                                *)

Go(c, from, to) ==
  /\ caller[c] = from
  /\ caller' = [caller EXCEPT ![c] = to]

ReadParent(c) ==
  /\ Go(c, "idle", IF status = "created" THEN "gate" ELSE "reread")
  /\ UNCHANGED <<rowVars, report, taskVars, messageVars>>

(* Faulty variant: the update does not compare the status.                 *)
GateUnfenced(c) ==
  /\ Go(c, "gate", "insert")
  /\ status' = "in_flight"
  /\ UNCHANGED <<children, report, taskVars, messageVars>>

(* One UPDATE ... WHERE status = 'created': one caller wins.               *)
Gate(c) ==
  /\ Go(c, "gate", IF status = "created" THEN "insert" ELSE "reread")
  /\ status' = IF status = "created" THEN "in_flight" ELSE status
  /\ UNCHANGED <<children, report, taskVars, messageVars>>

(* The losers return the rows as they are now.                             *)
Reread(c) ==
  /\ Go(c, "reread", "done")
  /\ report' = [report EXCEPT ![c] = children]
  /\ UNCHANGED <<rowVars, taskVars, messageVars>>

(* Every member is resolved, then all rows are committed at once.  A       *)
(* resolved member is `queued' before anything is sent to it.              *)
InsertChildren(c) ==
  /\ Go(c, "insert", "pool")
  /\ \E live \in SUBSET (Member \ Self) :
       /\ children' = [m \in Member |->
            IF children[m] # "absent" THEN children[m]
            ELSE IF m \in Self THEN "skipped"
            ELSE IF m \in live THEN "queued" ELSE "unreachable"]
       /\ task' = [m \in Member |-> IF m \in live THEN "waiting" ELSE "recorded"]
  /\ UNCHANGED <<status, report, receipt, attempts, messageVars>>

----------------------------------------------------------------------------
(* The tasks                                                               *)

Move(m, from, to) ==
  /\ task[m] = from
  /\ task' = [task EXCEPT ![m] = to]

(* Faulty variant: a thread is not given back when its task is done.       *)
WorkingForever == {m \in Member : task[m] \notin {"none", "waiting"}}

(* A thread of the pool keeps its task through all the attempts.           *)
Working == {m \in Member : task[m] \in {"ready", "sent", "back"}}

Start(m) ==
  /\ Cardinality(Working) < Concurrency
  /\ Move(m, "waiting", "ready")
  /\ UNCHANGED <<rowVars, caller, report, receipt, attempts, messageVars>>

(* The message never leaves, or it is on its way.  What never leaves is    *)
(* `unreachable' (no record, no connection, no handler there, the callback *)
(* raises) or `invalid' (the sender is no longer registered here, or its   *)
(* envelope cannot be encoded).                                            *)
Send(m) ==
  /\ attempts' = [attempts EXCEPT ![m] = @ + 1]
  /\ \/ /\ Move(m, "ready", "back")
        /\ \E state \in {"unreachable", "invalid"} : receipt' = [receipt EXCEPT ![m] = state]
        /\ UNCHANGED wire
     \/ /\ Move(m, "ready", "sent")
        /\ wire' = wire \cup {<<m, attempts[m] + 1>>}
        /\ UNCHANGED receipt
  /\ UNCHANGED <<rowVars, caller, report, verdict, replied>>

(* The recipient has never seen this id: its pipeline decides afresh.      *)
Receive(m, n) ==
  /\ <<m, n>> \in wire
  /\ wire' = wire \ {<<m, n>>}
  /\ \E state \in Answer : verdict' = [verdict EXCEPT ![<<m, n>>] = state]
  /\ UNCHANGED <<rowVars, caller, report, taskVars, replied>>

Reply(m) ==
  /\ Move(m, "sent", "back")
  /\ verdict[<<m, attempts[m]>>] # "none"
  /\ receipt' = [receipt EXCEPT ![m] = verdict[<<m, attempts[m]>>]]
  /\ replied' = replied \cup {<<m, attempts[m]>>}
  /\ UNCHANGED <<rowVars, caller, report, attempts, wire, verdict>>

(* What came back is no receipt: it does not decode, names no state or is  *)
(* of another kind.  The sender says `invalid', whatever the host did.     *)
BadReply(m) ==
  /\ Move(m, "sent", "back")
  /\ receipt' = [receipt EXCEPT ![m] = "invalid"]
  /\ UNCHANGED <<rowVars, caller, report, attempts, messageVars>>

(* RECEIPT_TIMEOUT, reported as unreachable; the message stays on its way. *)
Timeout(m) ==
  /\ Timeouts
  /\ Move(m, "sent", "back")
  /\ receipt' = [receipt EXCEPT ![m] = "unreachable"]
  /\ UNCHANGED <<rowVars, caller, report, attempts, messageVars>>

MayRetry(m) == receipt[m] = "unreachable" /\ attempts[m] <= MaxRetries

Retry(m) ==
  /\ MayRetry(m)
  /\ Move(m, "back", "ready")
  /\ UNCHANGED <<rowVars, caller, report, receipt, attempts, messageVars>>

(* Faulty variant: the row keeps the state it was inserted with.           *)
RecordNothing(m) ==
  /\ ~ MayRetry(m)
  /\ Move(m, "back", "recorded")
  /\ UNCHANGED <<rowVars, caller, report, receipt, attempts, messageVars>>

Record(m) ==
  /\ ~ MayRetry(m)
  /\ Move(m, "back", "recorded")
  /\ children' = [children EXCEPT ![m] = receipt[m]]
  /\ UNCHANGED <<status, caller, report, receipt, attempts, messageVars>>

RecordFails(m) ==
  /\ Faults
  /\ ~ MayRetry(m)
  /\ Move(m, "back", "raised")
  /\ UNCHANGED <<rowVars, caller, report, receipt, attempts, messageVars>>

----------------------------------------------------------------------------
(* fan_out, after the sends                                                *)

Returned(m) == task[m] \in {"recorded", "raised"}

(* Faulty variant: the first task back ends the fan-out.                   *)
CompleteEarly(c) ==
  /\ \E m \in Member : task[m] = "recorded"
  /\ Go(c, "pool", "done")
  /\ status' = "completed"
  /\ report' = [report EXCEPT ![c] = children]
  /\ UNCHANGED <<children, taskVars, messageVars>>

(* The pool is joined; the winner returns what its tasks recorded.         *)
Complete(c) ==
  /\ \A m \in Member : task[m] = "recorded"
  /\ Go(c, "pool", "done")
  /\ status' = "completed"
  /\ report' = [report EXCEPT ![c] = children]
  /\ UNCHANGED <<children, taskVars, messageVars>>

(* An exception of a task reaches the caller once the pool is joined.      *)
Abandon(c) ==
  /\ \A m \in Member : Returned(m)
  /\ \E m \in Member : task[m] = "raised"
  /\ Go(c, "pool", "raised")
  /\ UNCHANGED <<rowVars, report, taskVars, messageVars>>

(* The winner's process dies, its tasks with it; messages sent live on.    *)
Crash(c) ==
  /\ Faults
  /\ caller[c] \in {"insert", "pool"}
  /\ caller' = [caller EXCEPT ![c] = "raised"]
  /\ task' = [m \in Member |-> IF Returned(m) THEN task[m] ELSE "raised"]
  /\ UNCHANGED <<rowVars, report, receipt, attempts, messageVars>>

----------------------------------------------------------------------------

CallerNext(c) ==
  \/ ReadParent(c) \/ Gate(c) \/ Reread(c) \/ InsertChildren(c)
  \/ Complete(c) \/ Abandon(c)

TaskNext(m) ==
  \/ Start(m) \/ Send(m) \/ Reply(m) \/ BadReply(m) \/ Timeout(m)
  \/ Retry(m) \/ Record(m) \/ RecordFails(m)

Next ==
  \/ \E c \in Caller : CallerNext(c) \/ Crash(c)
  \/ \E m \in Member : TaskNext(m) \/ \E n \in Attempt : Receive(m, n)

Spec == Init /\ [][Next]_vars

(* Callers and pool threads run, and a recipient that was sent a message   *)
(* handles it.                                                             *)
Fairness ==
  /\ \A c \in Caller : WF_vars(CallerNext(c))
  /\ \A m \in Member : WF_vars(TaskNext(m))
  /\ \A m \in Member, n \in Attempt : WF_vars(Receive(m, n))

FairSpec == Spec /\ Fairness

----------------------------------------------------------------------------
(* Properties                                                              *)

Injected(m) == {n \in Attempt : verdict[<<m, n>>] = "queued"}

(* A message is on its way or handled only if its child row was committed  *)
(* first, and the sender itself is never sent one (G3.5).                  *)
RecordedBeforeSent ==
  \A m \in Member, n \in Attempt :
    <<m, n>> \in wire \/ verdict[<<m, n>>] # "none"
      => children[m] \notin {"absent", "skipped"}

(* Concurrent broadcasters converge: one of them at most fans out.         *)
FansOut(c) == caller[c] \in {"insert", "pool"}
OneFanOut == \A c, d \in Caller : FansOut(c) /\ FansOut(d) => c = d

(* When the fan-out has completed, a row that says queued or refused is    *)
(* what the host of that member made of the last message, a receipt that   *)
(* reached the sender is what its row says, and nobody was given up as     *)
(* unreachable before the last retry.  `invalid' and `unreachable' may be  *)
(* the sender's own words.                                                 *)
CompletedMeansAnswered ==
  status = "completed" =>
    \A m \in Member :
      /\ children[m] = "queued" => Injected(m) # {}
      /\ children[m] \in HostAnswer => verdict[<<m, attempts[m]>>] = children[m]
      /\ \A n \in Attempt : <<m, n>> \in replied => children[m] = verdict[<<m, n>>]
      /\ children[m] = "unreachable" => attempts[m] \in {0, MaxRetries + 1}

(* A member whose answer reached the sender is never sent the content      *)
(* again, whatever connections fail and however many threads broadcast.    *)
AnsweredMeansLast == \A a \in replied : a[2] = attempts[a[1]]

(* Outcomes a completed fan-out returned are never changed afterwards.     *)
OutcomesFinal ==
  [][status = "completed" => UNCHANGED <<status, children>>]_vars

(* An outcome given to any caller stays as it is, except a row that was    *)
(* not there yet or still said `queued'.                                   *)
OutcomesConverge ==
  \A c \in Caller, m \in Member :
    caller[c] = "done" /\ report[c][m] # children[m]
      => report[c][m] \in {"absent", "queued"}

(* Every fan-out that started completes, or its caller learns that it will *)
(* not, though the pool has fewer threads than there are members.          *)
FanOutCompletes ==
  status = "in_flight" ~>
    status = "completed" \/ \E c \in Caller : caller[c] = "raised"
=============================================================================
