------------------------------ MODULE Inbound ------------------------------
(***************************************************************************)
(* The inbound pipeline of one recipient peer: SessionManager._on_inbound, *)
(* the store calls it makes, DeliveryAdapter.deliver, and the user         *)
(* operations that act on a held message (release_message, refuse_message) *)
(* or on the policy (set_policy).                                          *)
(*                                                                         *)
(* A step is one call on the store, on the policy engine or on the host.   *)
(* MessageStore holds its own lock only for the length of one call, so     *)
(* threads interleave between calls.  Handler threads run the pipeline     *)
(* (the supervisor, or several threads at once); operator threads run the  *)
(* tools and commands of the owning session.                               *)
(*                                                                         *)
(* Time, hop counts and the rate limiter are the environment's choice      *)
(* here: GateDrops says which of those gates may close.                    *)
(***************************************************************************)
EXTENDS Naturals, FiniteSets

CONSTANTS
  Message,          \* message ids addressed to this peer
  Handler,          \* threads that run _on_inbound
  Operator,         \* threads that run release, refuse and set_policy
  Capacity,         \* PolicyEngine capacity (INBOX_CAPACITY)
  DefaultPolicy,    \* policy of the engine shared by the whole process
  SessionPolicies,  \* policies operators may give to the session
  GateDrops,        \* drops of the expiry, hop and rate gates that may happen
  HostOutcomes,     \* what deliver may meet: see Deliver
  StoreFaults,      \* TRUE if a store call may raise (locked, disk full)
  NoMessage         \* a thread that works on no message

Policy == {"accept", "hold", "refuse"}
GateDrop == {"expired", "invalid", "rate_limited"}
HostOutcome == {"accepted", "rejected", "unavailable"}
ReceiptState == {"queued", "held", "refused", "over_capacity"} \cup GateDrop

ASSUME ConstantsAssumption ==
  /\ NoMessage \notin Message
  /\ Handler \cap Operator = {}
  /\ Capacity \in Nat \ {0}
  /\ DefaultPolicy \in Policy
  /\ SessionPolicies \subseteq Policy
  /\ GateDrops \subseteq GateDrop
  /\ HostOutcomes \subseteq HostOutcome
  /\ StoreFaults \in BOOLEAN

ASSUME FiniteAssumption == IsFiniteSet(Message)

VARIABLES
  row,              \* state column of the messages table
  content,          \* messages whose row still carries the content
  sessionPolicy,    \* _session_policies entry of this peer, or "unset"
  registered,       \* pending count last registered in the shared engine
  pc, msg,          \* per thread: next call, message it works on
  engine, counted,  \* per handler: engine it got, count it read
  verdict,          \* history: what evaluate decided for each message
  injections,       \* history: times the host accepted each message (Tally)
  receipt,          \* history: the receipt sent last, and to whose call
  stranded          \* history: untaken messages a fault has left `queued'

storeVars == <<row, content>>
engineVars == <<sessionPolicy, registered, engine, counted>>
historyVars == <<verdict, injections, receipt, stranded>>
vars == <<storeVars, engineVars, pc, msg, historyVars>>

Thread == Handler \cup Operator

RowState == {"absent"} \cup ReceiptState

(* A receipt answers the call that claimed the message, or a duplicate:    *)
(* an early one, while the first is at work, or one that finds it settled. *)
Caller == {"first", "early", "settled"}
Receipt == [message : Message \cup {NoMessage}, state : ReceiptState, caller : Caller]

HandlerStep == {"count", "register", "evaluate", "drop", "refuse", "erase", "hold"}
DeliveryStep == {"deliver", "mark_queued", "mark_held"}
Step == {"idle", "refuse_held"} \cup HandlerStep \cup DeliveryStep

TypeOK ==
  /\ row \in [Message -> RowState]
  /\ content \subseteq Message
  /\ sessionPolicy \in Policy \cup {"unset"}
  /\ registered \in Nat
  /\ pc \in [Thread -> Step]
  /\ msg \in [Thread -> Message \cup {NoMessage}]
  /\ engine \in [Handler -> Policy \cup {"shared"}]
  /\ counted \in [Handler -> Nat]
  /\ verdict \in [Message -> ReceiptState \cup {"none"}]
  /\ injections \in [Message -> 0 .. 2]
  /\ receipt \in Receipt
  /\ stranded \subseteq Message

Init ==
  /\ row = [m \in Message |-> "absent"]
  /\ content = {}
  /\ sessionPolicy = "unset"
  /\ registered = 0
  /\ pc = [t \in Thread |-> "idle"]
  /\ msg = [t \in Thread |-> NoMessage]
  /\ engine = [h \in Handler |-> "shared"]
  /\ counted = [h \in Handler |-> 0]
  /\ verdict = [m \in Message |-> "none"]
  /\ injections = [m \in Message |-> 0]
  /\ receipt = [message |-> NoMessage, state |-> "queued", caller |-> "first"]
  /\ stranded = {}

----------------------------------------------------------------------------
(* Control flow of a thread.                                               *)

Begin(t, m, step) ==
  /\ pc[t] = "idle"
  /\ pc' = [pc EXCEPT ![t] = step]
  /\ msg' = [msg EXCEPT ![t] = m]

GoTo(t, from, to) ==
  /\ pc[t] = from
  /\ pc' = [pc EXCEPT ![t] = to]
  /\ UNCHANGED msg

Return(t) ==
  /\ pc' = [pc EXCEPT ![t] = "idle"]
  /\ msg' = [msg EXCEPT ![t] = NoMessage]

(* A handler's return value goes back to the sender as a receipt.          *)
Send(m, state, caller) ==
  receipt' = [message |-> m, state |-> state, caller |-> caller]

Answer(t, state) ==
  IF t \in Handler THEN Send(msg[t], state, "first") ELSE UNCHANGED receipt

(* UPDATE messages SET state: whatever the row holds at that moment.       *)
Transition(m, state) == row' = [row EXCEPT ![m] = state]

----------------------------------------------------------------------------
(* _on_inbound                                                             *)

(* Faulty variant: the insert replaces a row that is already there.        *)
ClaimReplacing(h, m) ==
  /\ Begin(h, m, "count")
  /\ Transition(m, "queued")
  /\ content' = content \cup {m}
  /\ UNCHANGED <<engineVars, historyVars>>

(* The claim inserts the row as queued, content included, iff the id is    *)
(* absent: the primary key decides.                                        *)
Claim(h, m) ==
  /\ row[m] = "absent"
  /\ Begin(h, m, "count")
  /\ Transition(m, "queued")
  /\ content' = content \cup {m}
  /\ UNCHANGED <<engineVars, historyVars>>

WorkingOn(m) == {h \in Handler : msg[h] = m}

CallerOf(m) == IF WorkingOn(m) = {} THEN "settled" ELSE "early"

(* A claim that loses returns the state of the row it found.               *)
Duplicate(h, m) ==
  /\ pc[h] = "idle"
  /\ row[m] # "absent"
  /\ Send(m, row[m], CallerOf(m))
  /\ UNCHANGED <<storeVars, engineVars, pc, msg, verdict, injections, stranded>>

(* A claim that raises, whoever has the row.                               *)
ClaimFails(h, m) ==
  /\ StoreFaults /\ pc[h] = "idle"
  /\ Send(m, "invalid", CallerOf(m))
  /\ UNCHANGED <<storeVars, engineVars, pc, msg, verdict, injections, stranded>>

(* Faulty variant: only held rows count against the capacity.              *)
HeldOnly == {m \in Message : row[m] = "held"}

Pending == {m \in Message : row[m] \in {"queued", "held"}}

(* A session policy gets an engine of its own, made for this call.         *)
EngineFor == IF sessionPolicy = "unset" THEN "shared" ELSE sessionPolicy

CountPending(h) ==
  /\ GoTo(h, "count", "register")
  /\ engine' = [engine EXCEPT ![h] = EngineFor]
  /\ counted' = [counted EXCEPT ![h] = Cardinality(Pending)]
  /\ UNCHANGED <<storeVars, sessionPolicy, registered, historyVars>>

RegisterPending(h) ==
  /\ GoTo(h, "register", "evaluate")
  /\ registered' = IF engine[h] = "shared" THEN counted[h] ELSE registered
  /\ UNCHANGED <<storeVars, sessionPolicy, engine, counted, historyVars>>

EnginePolicy(h) == IF engine[h] = "shared" THEN DefaultPolicy ELSE engine[h]
EnginePending(h) == IF engine[h] = "shared" THEN registered ELSE counted[h]

(* Expiry, hop count and rate come first, then capacity, then policy.      *)
Decision(h) ==
  IF EnginePending(h) >= Capacity THEN "over_capacity"
  ELSE CASE EnginePolicy(h) = "hold" -> "held"
         [] EnginePolicy(h) = "refuse" -> "refused"
         [] EnginePolicy(h) = "accept" -> "queued"

Route(state) ==
  CASE state = "held" -> "hold"
    [] state = "refused" -> "refuse"
    [] state = "queued" -> "deliver"
    [] OTHER -> "drop"

Evaluate(h) ==
  \E state \in GateDrops \cup {Decision(h)} :
    /\ GoTo(h, "evaluate", Route(state))
    /\ verdict' = [verdict EXCEPT ![msg[h]] = state]
    /\ UNCHANGED <<storeVars, engineVars, injections, receipt, stranded>>

ApplyDrop(h) ==
  /\ pc[h] = "drop"
  /\ Transition(msg[h], verdict[msg[h]])
  /\ Answer(h, verdict[msg[h]])
  /\ Return(h)
  /\ UNCHANGED <<content, engineVars, verdict, injections, stranded>>

ApplyRefuse(h) ==
  /\ GoTo(h, "refuse", "erase")
  /\ Transition(msg[h], "refused")
  /\ UNCHANGED <<content, engineVars, historyVars>>

(* Faulty variant: the refusal returns without blanking the content.       *)
EraseNothing(h) ==
  /\ pc[h] = "erase"
  /\ Answer(h, "refused")
  /\ Return(h)
  /\ UNCHANGED <<storeVars, engineVars, verdict, injections, stranded>>

EraseContent(h) ==
  /\ pc[h] = "erase"
  /\ content' = content \ {msg[h]}
  /\ Answer(h, "refused")
  /\ Return(h)
  /\ UNCHANGED <<row, engineVars, verdict, injections, stranded>>

(* Reached by the hold policy, and again after a delivery that failed.     *)
ApplyHold(h) ==
  /\ pc[h] = "hold"
  /\ Transition(msg[h], "held")
  /\ Answer(h, "held")
  /\ Return(h)
  /\ UNCHANGED <<content, engineVars, verdict, injections, stranded>>

----------------------------------------------------------------------------
(* DeliveryAdapter.deliver(force=True), from the pipeline or a release     *)

(* Injections are counted as none, one, or more than one.                  *)
Tally(n) == IF n = 0 THEN 1 ELSE 2

(* "unavailable": no host seam, or the recipient is not resolved: deliver  *)
(* returns before it touches the store.  "rejected": inject_message        *)
(* returned false or raised.                                               *)
Deliver(t) ==
  /\ pc[t] = "deliver"
  /\ \/ /\ "accepted" \in HostOutcomes
        /\ injections' = [injections EXCEPT ![msg[t]] = Tally(@)]
        /\ GoTo(t, "deliver", "mark_queued")
     \/ /\ "rejected" \in HostOutcomes
        /\ GoTo(t, "deliver", "mark_held")
        /\ UNCHANGED injections
     \/ /\ "unavailable" \in HostOutcomes
        /\ IF t \in Handler THEN GoTo(t, "deliver", "hold") ELSE Return(t)
        /\ UNCHANGED injections
  /\ UNCHANGED <<storeVars, engineVars, verdict, receipt, stranded>>

MarkQueued(t) ==
  /\ pc[t] = "mark_queued"
  /\ Transition(msg[t], "queued")
  /\ Answer(t, "queued")
  /\ Return(t)
  /\ UNCHANGED <<content, engineVars, verdict, injections, stranded>>

(* deliver marks the row held and returns false: the pipeline will then    *)
(* mark it held a second time.                                             *)
MarkHeld(t) ==
  /\ pc[t] = "mark_held"
  /\ Transition(msg[t], "held")
  /\ IF t \in Handler THEN GoTo(t, "mark_held", "hold") ELSE Return(t)
  /\ UNCHANGED <<content, engineVars, historyVars>>

----------------------------------------------------------------------------
(* release_message, refuse_message, set_policy                             *)

(* Faulty variants: the row's state is not looked at first.                *)
BeginReleaseAny(o, m) ==
  /\ row[m] # "absent"
  /\ Begin(o, m, "deliver")
  /\ UNCHANGED <<storeVars, engineVars, historyVars>>

BeginRefuseAny(o, m) ==
  /\ row[m] # "absent"
  /\ Begin(o, m, "refuse_held")
  /\ UNCHANGED <<storeVars, engineVars, historyVars>>

BeginRelease(o, m) ==
  /\ row[m] = "held"
  /\ Begin(o, m, "deliver")
  /\ UNCHANGED <<storeVars, engineVars, historyVars>>

BeginRefuse(o, m) ==
  /\ row[m] = "held"
  /\ Begin(o, m, "refuse_held")
  /\ UNCHANGED <<storeVars, engineVars, historyVars>>

RefuseHeld(o) ==
  /\ pc[o] = "refuse_held"
  /\ Transition(msg[o], "refused")
  /\ Return(o)
  /\ UNCHANGED <<content, engineVars, historyVars>>

SetPolicy(o, p) ==
  /\ pc[o] = "idle"
  /\ sessionPolicy' = p
  /\ UNCHANGED <<storeVars, registered, engine, counted, pc, msg, historyVars>>

----------------------------------------------------------------------------
(* A store call that raises ends the thread's operation where it stands;   *)
(* the supervisor answers a failed handler with `invalid'.  Where a second *)
(* call follows a write within a step, the write may have been done.       *)

StoreStep == Step \ {"idle", "register", "evaluate"}

Fault(t) ==
  /\ StoreFaults
  /\ pc[t] \in StoreStep
  /\ \/ UNCHANGED row
     \/ pc[t] = "hold" /\ Transition(msg[t], "held")
  /\ Answer(t, "invalid")
  /\ stranded' = stranded \cup {m \in {msg[t]} : row'[m] = "queued" /\ injections[m] = 0}
  /\ Return(t)
  /\ UNCHANGED <<content, engineVars, verdict, injections>>

----------------------------------------------------------------------------

HandlerNext(h) ==
  \/ \E m \in Message : Claim(h, m) \/ Duplicate(h, m) \/ ClaimFails(h, m)
  \/ CountPending(h) \/ RegisterPending(h) \/ Evaluate(h)
  \/ ApplyDrop(h) \/ ApplyRefuse(h) \/ EraseContent(h) \/ ApplyHold(h)

OperatorNext(o) ==
  \/ \E m \in Message : BeginRelease(o, m) \/ BeginRefuse(o, m)
  \/ RefuseHeld(o)
  \/ \E p \in SessionPolicies : SetPolicy(o, p)

DeliverNext(t) == Deliver(t) \/ MarkQueued(t) \/ MarkHeld(t) \/ Fault(t)

Next ==
  \/ \E h \in Handler : HandlerNext(h)
  \/ \E o \in Operator : OperatorNext(o)
  \/ \E t \in Thread : DeliverNext(t)

Spec == Init /\ [][Next]_vars

----------------------------------------------------------------------------
(* Properties                                                              *)

Dropped == GateDrop \cup {"over_capacity"}

(* However many threads receive the same id, and whatever the host and the *)
(* store do, the pipeline hands it to the host at most once.  With         *)
(* operators present this is the stronger claim that explicit releases do  *)
(* not hand it over twice either.                                          *)
DeliveredOnce == \A m \in Message : injections[m] <= 1

(* A message the gates dropped or the policy refused never reaches the     *)
(* host and is never held: no release or refusal racing the pipeline can   *)
(* turn a negative receipt into a delivery.                                *)
NegativeVerdictFinal ==
  \A m \in Message : verdict[m] \in Dropped \cup {"refused"} =>
    injections[m] = 0 /\ row[m] \in {"queued", verdict[m]}

(* Once the pipeline is done with a message its policy refused, the row    *)
(* keeps no content (AP-606).                                              *)
RefusedErased ==
  \A m \in Message :
    verdict[m] = "refused" /\ WorkingOn(m) = {} => m \notin content

(* Rows let in that still wait or sit delivered never exceed Capacity,     *)
(* though a thread can evaluate with a count another thread registered.    *)
Admitted == {m \in Pending : verdict[m] \in {"queued", "held"}}
InboxBounded == Cardinality(Admitted) <= Capacity

(* Every receipt says what became of the message.  Queued means that the   *)
(* host has taken it, with two exceptions that docs/protocol.md and the    *)
(* docstring of _on_inbound do not make: a duplicate that comes while the  *)
(* first call is still at work is told the queued of its claim, whatever   *)
(* the verdict then is; and a row whose call was cut short by the store    *)
(* may stay queued.  Any other receipt is the verdict; or held for one let *)
(* in that the host would not take; or, to a duplicate, what an operator   *)
(* made of it; or invalid, for a store call that raised.                   *)
ReceiptsMatchVerdict ==
  LET m == receipt.message
      s == receipt.state
  IN m # NoMessage =>
       \/ s = "queued" /\ (injections[m] > 0 \/ receipt.caller = "early" \/ m \in stranded)
       \/ s # "queued" /\ s = verdict[m]
       \/ s = "held" /\ verdict[m] = "queued"
       \/ receipt.caller # "first" /\ s \in {"held", "refused"} /\ verdict[m] \in {"queued", "held"}
       \/ s = "invalid" /\ StoreFaults

----------------------------------------------------------------------------
(* What every reachable state satisfies, strong enough to be inductive.    *)

ControlInv ==
  /\ \A t \in Thread : pc[t] = "idle" <=> msg[t] = NoMessage
  /\ \A h \in Handler : pc[h] # "refuse_held"
  /\ \A o \in Operator : pc[o] \notin HandlerStep

(* A handler owns the id it claimed until it answers.                      *)
OwnershipInv ==
  /\ \A h \in Handler : pc[h] # "idle" => row[msg[h]] # "absent"
  /\ \A h1, h2 \in Handler :
       pc[h1] # "idle" /\ msg[h1] = msg[h2] => h1 = h2

VerdictsAt(step) ==
  CASE step \in {"count", "register", "evaluate"} -> {"none"}
    [] step = "drop" -> Dropped
    [] step \in {"refuse", "erase"} -> {"refused"}
    [] OTHER -> {"queued", "held"}

VerdictInv ==
  /\ \A t \in Thread : pc[t] # "idle" => verdict[msg[t]] \in VerdictsAt(pc[t])
  /\ \A m \in Message : row[m] = "absent" => verdict[m] = "none"
  /\ \A m \in Message :
       verdict[m] = "none" => row[m] \in {"absent", "queued"} /\ injections[m] = 0
  /\ NegativeVerdictFinal

(* No two handlers ever work on one id, a thread only reaches a step whose *)
(* verdict was given, and only admitted messages are held or injected.     *)
PipelineInv == ControlInv /\ OwnershipInv /\ VerdictInv

(* A handler that is about to inject is the first to do so.                *)
FirstDeliveryInv ==
  \A h \in Handler : pc[h] = "deliver" => injections[msg[h]] = 0

----------------------------------------------------------------------------
(* The pipeline implements Inbox when one operator acts at a time, the     *)
(* host never rejects after being asked, and the store never raises.       *)

Undecided(m) ==
  \E h \in Handler : msg[h] = m /\ pc[h] # "erase"

RowStatus(state) == IF state \in Dropped THEN "dropped" ELSE state

StatusOf(m) ==
  IF row[m] = "absent" THEN "new"
  ELSE IF \E t \in Thread : msg[t] = m /\ pc[t] = "mark_queued" THEN "queued"
  ELSE IF Undecided(m) THEN "deciding"
  ELSE RowStatus(row[m])

Promise == INSTANCE Inbox WITH
  status <- [m \in Message |-> StatusOf(m)],
  delivered <- {m \in Message : injections[m] > 0}

(* Every behaviour of the pipeline, its duplicates and its operator is one *)
(* the abstract inbox allows: decided once, delivered once, final refusal. *)
ImplementsInbox == Promise!Spec
=============================================================================
