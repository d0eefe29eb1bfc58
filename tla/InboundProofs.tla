--------------------------- MODULE InboundProofs ---------------------------
(***************************************************************************)
(* Proofs about the inbound pipeline, for every set of ids, handlers and   *)
(* operators, every capacity, policy, host and store.  The theorems that   *)
(* need less than that state it: OneOperator, NeverRejects, TwoHandlers,   *)
(* or a store that never raises.                                           *)
(***************************************************************************)
EXTENDS Inbound, FiniteSetTheorems, TLAPS

LEMMA PendingIsNat == Cardinality(Pending) \in Nat
<1>1. IsFiniteSet(Pending)
  BY FiniteAssumption, FS_Subset DEF Pending
<1>2. QED
  BY <1>1, FS_CardinalityType

LEMMA DecisionType ==
  ASSUME NEW h \in Handler
  PROVE  Decision(h) \in {"queued", "held", "refused", "over_capacity"}
                     \/ ~ EnginePolicy(h) \in Policy
BY DEF Decision, Policy

LEMMA RouteType ==
  ASSUME NEW state
  PROVE  Route(state) \in {"hold", "refuse", "deliver", "drop"}
BY DEF Route

IInv == TypeOK /\ PipelineInv

LEMMA InitIInv == Init => IInv
<1> SUFFICES ASSUME Init PROVE IInv
  OBVIOUS
<1> USE ConstantsAssumption
<1>1. TypeOK
  BY DEF Init, TypeOK, Thread, Step, RowState, Receipt, ReceiptState, Caller
<1>2. ControlInv
  BY DEF Init, ControlInv, Thread, HandlerStep
<1>3. OwnershipInv
  BY DEF Init, OwnershipInv, Thread
<1>4. VerdictInv
  BY DEF Init, VerdictInv, Thread, NegativeVerdictFinal, Dropped, GateDrop
<1>5. QED
  BY <1>1, <1>2, <1>3, <1>4 DEF IInv, PipelineInv

(* A thread that is not idle works on a message that has been claimed.     *)
LEMMA BusyHasMessage ==
  ASSUME TypeOK, ControlInv, NEW t \in Thread, pc[t] # "idle"
  PROVE  msg[t] \in Message
BY DEF TypeOK, ControlInv

(* Every variable keeps its type.                                          *)
LEMMA TypeStep == IInv /\ [Next]_vars => TypeOK'
<1> SUFFICES ASSUME IInv, [Next]_vars PROVE TypeOK'
  OBVIOUS
<1>0. TypeOK /\ ControlInv /\ VerdictInv
  BY DEF IInv, PipelineInv
<1> USE DEF Begin, GoTo, Return, Answer, Send, Transition, Thread, Step, HandlerStep,
            DeliveryStep, RowState, ReceiptState, GateDrop, Receipt, Caller, CallerOf,
            storeVars, engineVars, historyVars
<1>1. ASSUME NEW h \in Handler, NEW m \in Message, Claim(h, m) PROVE TypeOK'
  BY <1>0, <1>1 DEF TypeOK, Claim
<1>2. ASSUME NEW h \in Handler, NEW m \in Message, Duplicate(h, m) \/ ClaimFails(h, m) PROVE TypeOK'
  BY <1>0, <1>2 DEF TypeOK, Duplicate, ClaimFails
<1>3. ASSUME NEW h \in Handler, CountPending(h) PROVE TypeOK'
  BY <1>0, <1>3, PendingIsNat, ConstantsAssumption DEF TypeOK, CountPending, EngineFor, Policy
<1>4. ASSUME NEW h \in Handler, RegisterPending(h) PROVE TypeOK'
  BY <1>0, <1>4 DEF TypeOK, RegisterPending
<1>5. ASSUME NEW h \in Handler, Evaluate(h) PROVE TypeOK'
  <2>1. EnginePolicy(h) \in Policy
    BY <1>0, ConstantsAssumption DEF TypeOK, EnginePolicy, Policy
  <2>2. PICK state \in GateDrops \cup {Decision(h)} :
          /\ GoTo(h, "evaluate", Route(state))
          /\ verdict' = [verdict EXCEPT ![msg[h]] = state]
          /\ UNCHANGED <<storeVars, engineVars, injections, receipt, stranded>>
    BY <1>5 DEF Evaluate
  <2>3. state \in ReceiptState
    BY <2>1, <2>2, DecisionType, ConstantsAssumption
  <2>4. QED
    BY <1>0, <2>2, <2>3, RouteType DEF TypeOK
<1>6. ASSUME NEW h \in Handler, ApplyDrop(h) PROVE TypeOK'
  <2>1. msg[h] \in Message
    BY <1>0, <1>6, BusyHasMessage DEF ApplyDrop
  <2>2. verdict[msg[h]] \in ReceiptState
    BY <1>0, <1>6, <2>1 DEF TypeOK, ApplyDrop, VerdictInv, VerdictsAt, Dropped
  <2>3. QED
    BY <1>0, <1>6, <2>1, <2>2 DEF TypeOK, ApplyDrop
<1>7. ASSUME NEW h \in Handler, ApplyRefuse(h) PROVE TypeOK'
  BY <1>0, <1>7 DEF TypeOK, ApplyRefuse
<1>8. ASSUME NEW h \in Handler, EraseContent(h) PROVE TypeOK'
  BY <1>0, <1>8, BusyHasMessage DEF TypeOK, EraseContent
<1>9. ASSUME NEW h \in Handler, ApplyHold(h) PROVE TypeOK'
  BY <1>0, <1>9, BusyHasMessage DEF TypeOK, ApplyHold
<1>10. ASSUME NEW o \in Operator, OperatorNext(o) PROVE TypeOK'
  BY <1>0, <1>10, ConstantsAssumption
     DEF TypeOK, OperatorNext, BeginRelease, BeginRefuse, RefuseHeld, SetPolicy
<1>11. ASSUME NEW t \in Thread, Deliver(t) PROVE TypeOK'
  BY <1>0, <1>11 DEF TypeOK, Deliver, Tally
<1>12. ASSUME NEW t \in Thread, MarkQueued(t) PROVE TypeOK'
  BY <1>0, <1>12, BusyHasMessage DEF TypeOK, MarkQueued
<1>13. ASSUME NEW t \in Thread, MarkHeld(t) PROVE TypeOK'
  BY <1>0, <1>13, BusyHasMessage DEF TypeOK, MarkHeld
<1>14. ASSUME NEW t \in Thread, Fault(t) PROVE TypeOK'
  BY <1>0, <1>14, BusyHasMessage DEF TypeOK, Fault, StoreStep
<1>15. CASE UNCHANGED vars
  BY <1>0, <1>15 DEF TypeOK, vars
<1>16. QED
  BY <1>1, <1>2, <1>3, <1>4, <1>5, <1>6, <1>7, <1>8, <1>9, <1>10, <1>11,
     <1>12, <1>13, <1>14, <1>15
     DEF Next, HandlerNext, DeliverNext

(* Threads only take their own steps.                                      *)
LEMMA ControlStep == IInv /\ [Next]_vars => ControlInv'
<1> SUFFICES ASSUME IInv, [Next]_vars PROVE ControlInv'
  OBVIOUS
<1>0. TypeOK /\ ControlInv
  BY DEF IInv, PipelineInv
<1> USE ConstantsAssumption
    DEF TypeOK, ControlInv, Begin, GoTo, Return, Thread, Step, HandlerStep, DeliveryStep
<1>1. ASSUME NEW h \in Handler, HandlerNext(h) PROVE ControlInv'
  <2>1. ASSUME NEW m \in Message, Claim(h, m) \/ Duplicate(h, m) \/ ClaimFails(h, m) PROVE ControlInv'
    BY <1>0, <2>1 DEF Claim, Duplicate, ClaimFails
  <2>2. CASE CountPending(h) \/ RegisterPending(h) \/ ApplyRefuse(h)
    BY <1>0, <2>2 DEF CountPending, RegisterPending, ApplyRefuse
  <2>3. CASE Evaluate(h)
    BY <1>0, <2>3, RouteType DEF Evaluate
  <2>4. CASE ApplyDrop(h) \/ EraseContent(h) \/ ApplyHold(h)
    BY <1>0, <2>4 DEF ApplyDrop, EraseContent, ApplyHold
  <2>5. QED
    BY <1>1, <2>1, <2>2, <2>3, <2>4 DEF HandlerNext
<1>2. ASSUME NEW o \in Operator, OperatorNext(o) PROVE ControlInv'
  BY <1>0, <1>2 DEF OperatorNext, BeginRelease, BeginRefuse, RefuseHeld, SetPolicy
<1>3. ASSUME NEW t \in Thread, DeliverNext(t) PROVE ControlInv'
  BY <1>0, <1>3 DEF DeliverNext, Deliver, MarkQueued, MarkHeld, Fault
<1>4. CASE UNCHANGED vars
  BY <1>0, <1>4 DEF vars
<1>5. QED
  BY <1>1, <1>2, <1>3, <1>4 DEF Next

(* Rows never disappear, and only the absence of a row lets a claim in.    *)
LEMMA OwnershipStep == IInv /\ [Next]_vars => OwnershipInv'
<1> SUFFICES ASSUME IInv, [Next]_vars PROVE OwnershipInv'
  OBVIOUS
<1>0. TypeOK /\ ControlInv /\ OwnershipInv /\ VerdictInv
  BY DEF IInv, PipelineInv
<1> USE ConstantsAssumption
    DEF TypeOK, ControlInv, OwnershipInv, Begin, GoTo, Return, Transition,
        Thread, Step, HandlerStep, DeliveryStep, storeVars
<1>1. ASSUME NEW h \in Handler, HandlerNext(h) PROVE OwnershipInv'
  <2>1. ASSUME NEW m \in Message, Claim(h, m) PROVE OwnershipInv'
    BY <1>0, <2>1 DEF Claim
  <2>2. ASSUME NEW m \in Message, Duplicate(h, m) \/ ClaimFails(h, m) PROVE OwnershipInv'
    BY <1>0, <2>2 DEF Duplicate, ClaimFails
  <2>3. CASE CountPending(h) \/ RegisterPending(h)
    BY <1>0, <2>3 DEF CountPending, RegisterPending
  <2>4. CASE Evaluate(h)
    BY <1>0, <2>4, RouteType DEF Evaluate
  <2>5. CASE ApplyDrop(h)
    BY <1>0, <2>5 DEF ApplyDrop, VerdictInv, VerdictsAt, Dropped, GateDrop
  <2>6. CASE ApplyRefuse(h) \/ EraseContent(h) \/ ApplyHold(h)
    BY <1>0, <2>6 DEF ApplyRefuse, EraseContent, ApplyHold
  <2>7. QED
    BY <1>1, <2>1, <2>2, <2>3, <2>4, <2>5, <2>6 DEF HandlerNext
<1>2. ASSUME NEW o \in Operator, OperatorNext(o) PROVE OwnershipInv'
  BY <1>0, <1>2 DEF OperatorNext, BeginRelease, BeginRefuse, RefuseHeld, SetPolicy
<1>3. ASSUME NEW t \in Thread, DeliverNext(t) PROVE OwnershipInv'
  BY <1>0, <1>3 DEF DeliverNext, Deliver, MarkQueued, MarkHeld, Fault
<1>4. CASE UNCHANGED vars
  BY <1>0, <1>4 DEF vars
<1>5. QED
  BY <1>1, <1>2, <1>3, <1>4 DEF Next

(* A verdict is given once, by the owner of the id, and every later step   *)
(* on the id is one the verdict allows.                                    *)
LEMMA VerdictStep == IInv /\ [Next]_vars => VerdictInv'
<1> SUFFICES ASSUME IInv, [Next]_vars PROVE VerdictInv'
  OBVIOUS
<1>0. TypeOK /\ ControlInv /\ OwnershipInv /\ VerdictInv
  BY DEF IInv, PipelineInv
<1> USE ConstantsAssumption
    DEF TypeOK, ControlInv, OwnershipInv, VerdictInv, VerdictsAt, NegativeVerdictFinal,
        Begin, GoTo, Return, Transition, Dropped, GateDrop,
        Thread, Step, HandlerStep, DeliveryStep, storeVars, historyVars
<1>1. ASSUME NEW h \in Handler, HandlerNext(h) PROVE VerdictInv'
  <2>1. ASSUME NEW m \in Message, Claim(h, m) PROVE VerdictInv'
    <3>1. /\ pc' = [pc EXCEPT ![h] = "count"]
          /\ msg' = [msg EXCEPT ![h] = m]
          /\ row' = [row EXCEPT ![m] = "queued"]
          /\ UNCHANGED <<verdict, injections>>
      BY <2>1 DEF Claim
    <3>2. verdict[m] = "none"
      BY <1>0, <2>1 DEF Claim
    <3>3. \A t \in Thread : pc'[t] # "idle" => verdict'[msg'[t]] \in VerdictsAt(pc'[t])
      BY <1>0, <3>1, <3>2
    <3>4. \A i \in Message : row'[i] = "absent" => verdict'[i] = "none"
      BY <1>0, <3>1
    <3>5. \A i \in Message :
            verdict'[i] = "none" => row'[i] \in {"absent", "queued"} /\ injections'[i] = 0
      BY <1>0, <3>1
    <3>6. NegativeVerdictFinal'
      BY <1>0, <3>1, <3>2
    <3>7. QED
      BY <3>3, <3>4, <3>5, <3>6
  <2>2. ASSUME NEW m \in Message, Duplicate(h, m) \/ ClaimFails(h, m) PROVE VerdictInv'
    BY <1>0, <2>2 DEF Duplicate, ClaimFails
  <2>3. CASE CountPending(h) \/ RegisterPending(h)
    BY <1>0, <2>3 DEF CountPending, RegisterPending
  <2>4. CASE Evaluate(h)
    <3>1. PICK state \in GateDrops \cup {Decision(h)} :
            /\ GoTo(h, "evaluate", Route(state))
            /\ verdict' = [verdict EXCEPT ![msg[h]] = state]
            /\ UNCHANGED <<storeVars, engineVars, injections, receipt, stranded>>
      BY <2>4 DEF Evaluate
    <3>2. state \in Dropped \cup {"queued", "held", "refused"}
      BY <1>0, <3>1, DecisionType DEF EnginePolicy, Policy
    <3>3. state \in VerdictsAt(Route(state))
      BY <3>2 DEF Route
    <3>4. msg[h] \in Message
      BY <1>0, <3>1, BusyHasMessage
    <3>5. \A t \in Thread \ {h} : msg[t] # msg[h]
      BY <1>0, <3>1, <3>4
    <3>6. QED
      BY <1>0, <3>1, <3>2, <3>3, <3>4, <3>5, RouteType
  <2>5. CASE ApplyDrop(h)
    BY <1>0, <2>5, BusyHasMessage DEF ApplyDrop
  <2>6. CASE ApplyRefuse(h)
    BY <1>0, <2>6, BusyHasMessage DEF ApplyRefuse
  <2>7. CASE EraseContent(h)
    BY <1>0, <2>7 DEF EraseContent
  <2>8. CASE ApplyHold(h)
    BY <1>0, <2>8, BusyHasMessage DEF ApplyHold
  <2>9. QED
    BY <1>1, <2>1, <2>2, <2>3, <2>4, <2>5, <2>6, <2>7, <2>8 DEF HandlerNext
<1>2. ASSUME NEW o \in Operator, OperatorNext(o) PROVE VerdictInv'
  <2>1. ASSUME NEW m \in Message, BeginRelease(o, m) \/ BeginRefuse(o, m) PROVE VerdictInv'
    <3>1. PICK step \in {"deliver", "refuse_held"} :
            /\ pc' = [pc EXCEPT ![o] = step]
            /\ msg' = [msg EXCEPT ![o] = m]
            /\ UNCHANGED <<row, verdict, injections>>
      BY <2>1 DEF BeginRelease, BeginRefuse
    <3>2. verdict[m] \in {"queued", "held"}
      BY <1>0, <2>1 DEF BeginRelease, BeginRefuse, RowState, ReceiptState
    <3>3. \A t \in Thread : pc'[t] # "idle" => verdict'[msg'[t]] \in VerdictsAt(pc'[t])
      BY <1>0, <3>1, <3>2
    <3>4. QED
      BY <1>0, <3>1, <3>3
  <2>2. CASE RefuseHeld(o)
    BY <1>0, <2>2, BusyHasMessage DEF RefuseHeld
  <2>3. ASSUME NEW p \in SessionPolicies, SetPolicy(o, p) PROVE VerdictInv'
    BY <1>0, <2>3 DEF SetPolicy
  <2>4. QED
    BY <1>2, <2>1, <2>2, <2>3 DEF OperatorNext
<1>3. ASSUME NEW t \in Thread, DeliverNext(t) PROVE VerdictInv'
  <2>1. CASE Deliver(t)
    BY <1>0, <2>1, BusyHasMessage DEF Deliver, Tally
  <2>2. CASE MarkQueued(t)
    BY <1>0, <2>2, BusyHasMessage DEF MarkQueued
  <2>3. CASE MarkHeld(t)
    BY <1>0, <2>3, BusyHasMessage DEF MarkHeld
  <2>4. CASE Fault(t)
    BY <1>0, <2>4, BusyHasMessage DEF Fault
  <2>5. QED
    BY <1>3, <2>1, <2>2, <2>3, <2>4 DEF DeliverNext
<1>4. CASE UNCHANGED vars
  BY <1>0, <1>4 DEF vars
<1>5. QED
  BY <1>1, <1>2, <1>3, <1>4 DEF Next

LEMMA IInvAlways == Spec => []IInv
<1>1. IInv /\ [Next]_vars => IInv'
  BY TypeStep, ControlStep, OwnershipStep, VerdictStep DEF IInv, PipelineInv
<1>2. QED
  BY InitIInv, <1>1, PTL DEF Spec

(* The pipeline keeps its types and its inductive invariant: a handler     *)
(* owns the id it claimed, and no step is taken that the verdict on the id *)
(* does not allow.                                                         *)
THEOREM TypeCorrect == Spec => []TypeOK
<1>1. IInv => TypeOK
  BY DEF IInv
<1>2. QED
  BY IInvAlways, <1>1, PTL

THEOREM PipelineCorrect == Spec => []PipelineInv
<1>1. IInv => PipelineInv
  BY DEF IInv
<1>2. QED
  BY IInvAlways, <1>1, PTL

(* Whatever handlers, operators, faults and hosts do, a message the gates  *)
(* dropped or the policy refused is never handed to the host nor held.     *)
THEOREM NegativeVerdicts == Spec => []NegativeVerdictFinal
<1>1. IInv => NegativeVerdictFinal
  BY DEF IInv, PipelineInv, VerdictInv
<1>2. QED
  BY IInvAlways, <1>1, PTL

(* With no explicit release, any number of threads that receive an id any  *)
(* number of times hand it to the host at most once.                       *)
THEOREM PipelineDeliversOnce ==
  ASSUME Operator = {}
  PROVE  Spec => []DeliveredOnce
<1> DEFINE Once == DeliveredOnce /\ FirstDeliveryInv
<1>1. Init => Once
  BY DEF Init, DeliveredOnce, FirstDeliveryInv, Thread
<1>2. IInv /\ Once /\ [Next]_vars => Once'
  <2> SUFFICES ASSUME IInv, Once, [Next]_vars PROVE Once'
    OBVIOUS
  <2>0. TypeOK /\ ControlInv /\ OwnershipInv /\ VerdictInv
    BY DEF IInv, PipelineInv
  <2> USE ConstantsAssumption
      DEF TypeOK, ControlInv, OwnershipInv, Begin, GoTo, Return, Thread, Step,
          HandlerStep, DeliveryStep, historyVars, DeliveredOnce, FirstDeliveryInv
  <2>1. ASSUME NEW h \in Handler, HandlerNext(h) PROVE Once'
    <3>1. ASSUME NEW m \in Message, Claim(h, m) \/ Duplicate(h, m) \/ ClaimFails(h, m) PROVE Once'
      BY <2>0, <3>1 DEF Claim, Duplicate, ClaimFails
    <3>2. CASE CountPending(h) \/ RegisterPending(h) \/ ApplyRefuse(h)
      BY <2>0, <3>2 DEF CountPending, RegisterPending, ApplyRefuse
    <3>3. CASE Evaluate(h)
      <4>1. msg[h] \in Message /\ injections[msg[h]] = 0
        BY <2>0, <3>3, BusyHasMessage DEF Evaluate, VerdictInv, VerdictsAt
      <4>2. QED
        BY <2>0, <3>3, <4>1 DEF Evaluate
    <3>4. CASE ApplyDrop(h) \/ EraseContent(h) \/ ApplyHold(h)
      BY <2>0, <3>4 DEF ApplyDrop, EraseContent, ApplyHold
    <3>5. QED
      BY <2>1, <3>1, <3>2, <3>3, <3>4 DEF HandlerNext
  <2>2. ASSUME NEW t \in Handler, DeliverNext(t) PROVE Once'
    <3>1. CASE Deliver(t)
      <4>1. msg[t] \in Message /\ injections[msg[t]] = 0
        BY <2>0, <3>1, BusyHasMessage DEF Deliver
      <4>2. \A h \in Handler \ {t} : msg[h] # msg[t]
        BY <2>0, <3>1 DEF Deliver
      <4>3. QED
        BY <2>0, <3>1, <4>1, <4>2 DEF Deliver, Tally
    <3>2. CASE MarkQueued(t) \/ MarkHeld(t) \/ Fault(t)
      BY <2>0, <3>2 DEF MarkQueued, MarkHeld, Fault
    <3>3. QED
      BY <2>2, <3>1, <3>2 DEF DeliverNext
  <2>3. CASE UNCHANGED vars
    BY <2>0, <2>3 DEF vars
  <2>4. QED
    BY <2>1, <2>2, <2>3 DEF Next
<1>3. Once => DeliveredOnce
  OBVIOUS
<1>4. QED
  BY IInvAlways, <1>1, <1>2, <1>3, PTL DEF Spec

----------------------------------------------------------------------------
(* What senders are told                                                   *)

(* A message that was let in moves between these states only.              *)
AdmittedRows ==
  \A m \in Message :
    verdict[m] \in {"queued", "held"} => row[m] \in {"queued", "held", "refused"}

(* Who comes to mark a row queued has the host's word for it, and a        *)
(* refusal that comes to erase the content has written the row.            *)
MarkInv ==
  /\ \A t \in Thread : pc[t] = "mark_queued" => injections[msg[t]] > 0
  /\ \A h \in Handler : pc[h] = "erase" => row[msg[h]] # "queued"

(* The host has a message whose row says queued, or its first call is at   *)
(* work on it, or a fault has left it so.                                  *)
Explained(m) == injections[m] > 0 \/ m \in stranded \/ WorkingOn(m) # {}
RowsExplained == \A m \in Message : row[m] = "queued" => Explained(m)

ReceiptInv == AdmittedRows /\ MarkInv /\ RowsExplained /\ ReceiptsMatchVerdict

(* What a receipt may say of its message as things stand.                  *)
Truthful(m, s, caller) ==
  \/ s = "queued" /\ (injections[m] > 0 \/ caller = "early" \/ m \in stranded)
  \/ s # "queued" /\ s = verdict[m]
  \/ s = "held" /\ verdict[m] = "queued"
  \/ caller # "first" /\ s \in {"held", "refused"} /\ verdict[m] \in {"queued", "held"}
  \/ s = "invalid" /\ StoreFaults

(* What no step undoes.                                                    *)
Onwards ==
  /\ \A m \in Message : injections[m] > 0 => injections'[m] > 0
  /\ stranded \subseteq stranded'
  /\ \A m \in Message : verdict[m] # "none" => verdict'[m] = verdict[m]

(* A receipt sent stays true.                                              *)
LEMMA ReceiptKept ==
  ASSUME TypeOK, ReceiptsMatchVerdict, UNCHANGED receipt, Onwards
  PROVE  ReceiptsMatchVerdict'
<1> DEFINE m == receipt.message
<1>1. CASE m = NoMessage
  BY <1>1 DEF ReceiptsMatchVerdict
<1>2. CASE m # NoMessage
  <2>1. m \in Message /\ receipt.state \in ReceiptState
    BY <1>2 DEF TypeOK, Receipt
  <2>2. Truthful(m, receipt.state, receipt.caller)
    BY <1>2 DEF ReceiptsMatchVerdict, Truthful
  <2>3. receipt.state # "none"
    BY <2>1 DEF ReceiptState, GateDrop
  <2>4. Truthful(m, receipt.state, receipt.caller)'
    BY <2>1, <2>2, <2>3 DEF Truthful, Onwards
  <2>5. QED
    BY <2>4 DEF ReceiptsMatchVerdict, Truthful
<1>3. QED
  BY <1>1, <1>2

(* A receipt that is true when it is sent.                                 *)
LEMMA ReceiptSent ==
  ASSUME NEW m \in Message, NEW s, NEW c, Send(m, s, c), Truthful(m, s, c)'
  PROVE  ReceiptsMatchVerdict'
<1>1. receipt'.message = m /\ receipt'.state = s /\ receipt'.caller = c
  BY DEF Send
<1>2. QED
  BY <1>1 DEF ReceiptsMatchVerdict, Truthful

(* The answer of a thread: a handler sends it, an operator reads it.       *)
LEMMA ReceiptAnswered ==
  ASSUME TypeOK, ReceiptsMatchVerdict, Onwards, NEW t \in Thread, NEW m \in Message,
         msg[t] = m, NEW s, Answer(t, s), t \in Handler => Truthful(m, s, "first")'
  PROVE  ReceiptsMatchVerdict'
<1>1. CASE t \in Handler
  BY <1>1, ReceiptSent DEF Answer, Send
<1>2. CASE t \notin Handler
  BY <1>2, ReceiptKept DEF Answer
<1>3. QED
  BY <1>1, <1>2

(* No step undoes an injection, a verdict or what a fault has left.        *)
LEMMA OnwardsStep == IInv /\ [Next]_vars => Onwards
<1> SUFFICES ASSUME IInv, [Next]_vars PROVE Onwards
  OBVIOUS
<1>0. TypeOK /\ ControlInv /\ VerdictInv
  BY DEF IInv, PipelineInv
<1> USE DEF Onwards, storeVars, engineVars, historyVars
<1>1. ASSUME NEW h \in Handler, HandlerNext(h) PROVE Onwards
  <2>1. CASE Evaluate(h)
    <3>1. msg[h] \in Message /\ verdict[msg[h]] = "none"
      BY <1>0, <2>1, BusyHasMessage DEF Evaluate, GoTo, VerdictInv, VerdictsAt, Thread
    <3>2. QED
      BY <1>0, <2>1, <3>1 DEF Evaluate, TypeOK
  <2>2. CASE ~ Evaluate(h)
    BY <1>1, <2>2
       DEF HandlerNext, Claim, Duplicate, ClaimFails, CountPending, RegisterPending,
           ApplyDrop, ApplyRefuse, EraseContent, ApplyHold
  <2>3. QED
    BY <2>1, <2>2
<1>2. ASSUME NEW o \in Operator, OperatorNext(o) PROVE Onwards
  BY <1>2 DEF OperatorNext, BeginRelease, BeginRefuse, RefuseHeld, SetPolicy
<1>3. ASSUME NEW t \in Thread, DeliverNext(t) PROVE Onwards
  <2>1. CASE Deliver(t)
    BY <1>0, <2>1 DEF Deliver, Tally, TypeOK
  <2>2. CASE ~ Deliver(t)
    BY <1>3, <2>2 DEF DeliverNext, MarkQueued, MarkHeld, Fault
  <2>3. QED
    BY <2>1, <2>2
<1>4. CASE UNCHANGED vars
  BY <1>4 DEF vars
<1>5. QED
  BY <1>1, <1>2, <1>3, <1>4 DEF Next

LEMMA AdmittedStep == IInv /\ AdmittedRows /\ [Next]_vars => AdmittedRows'
<1> SUFFICES ASSUME IInv, AdmittedRows, [Next]_vars PROVE AdmittedRows'
  OBVIOUS
<1>0. TypeOK /\ ControlInv /\ VerdictInv /\ OwnershipInv
  BY DEF IInv, PipelineInv
<1> USE DEF AdmittedRows, Begin, GoTo, Transition, Thread, storeVars, engineVars, historyVars
<1>1. ASSUME NEW h \in Handler, HandlerNext(h) PROVE AdmittedRows'
  <2>1. ASSUME NEW m \in Message, Claim(h, m) PROVE AdmittedRows'
    BY <1>0, <2>1 DEF Claim, TypeOK, VerdictInv
  <2>2. CASE Evaluate(h)
    <3>1. msg[h] \in Message /\ row[msg[h]] = "queued"
      BY <1>0, <2>2, BusyHasMessage DEF Evaluate, VerdictInv, VerdictsAt, OwnershipInv
    <3>2. QED
      BY <1>0, <2>2, <3>1 DEF Evaluate, TypeOK
  <2>3. CASE ApplyDrop(h) \/ ApplyRefuse(h) \/ ApplyHold(h)
    BY <1>0, <2>3, BusyHasMessage
       DEF ApplyDrop, ApplyRefuse, ApplyHold, TypeOK, VerdictInv, VerdictsAt, Dropped, GateDrop
  <2>4. CASE UNCHANGED <<row, verdict>>
    BY <2>4
  <2>5. QED
    BY <1>1, <2>1, <2>2, <2>3, <2>4
       DEF HandlerNext, Duplicate, ClaimFails, CountPending, RegisterPending, EraseContent
<1>2. ASSUME NEW o \in Operator, OperatorNext(o) PROVE AdmittedRows'
  BY <1>0, <1>2, BusyHasMessage
     DEF OperatorNext, BeginRelease, BeginRefuse, RefuseHeld, SetPolicy, TypeOK
<1>3. ASSUME NEW t \in Thread, DeliverNext(t) PROVE AdmittedRows'
  BY <1>0, <1>3, BusyHasMessage DEF DeliverNext, Deliver, MarkQueued, MarkHeld, Fault, TypeOK
<1>4. CASE UNCHANGED vars
  BY <1>4 DEF vars
<1>5. QED
  BY <1>1, <1>2, <1>3, <1>4 DEF Next

(* Nobody else writes the row of a message that is being refused.          *)
LEMMA MarkStep == IInv /\ MarkInv /\ [Next]_vars => MarkInv'
<1> SUFFICES ASSUME IInv, MarkInv, [Next]_vars PROVE MarkInv'
  OBVIOUS
<1>0. TypeOK /\ ControlInv /\ VerdictInv /\ OwnershipInv
  BY DEF IInv, PipelineInv
<1> USE ConstantsAssumption
    DEF MarkInv, Begin, GoTo, Return, Transition, Thread, storeVars, engineVars, historyVars
<1>1. ASSUME NEW t \in Thread, NEW m \in Message,
             \A u \in Thread \ {t} : pc'[u] = pc[u] /\ msg'[u] = msg[u],
             \A n \in Message \ {m} : row'[n] = row[n],
             UNCHANGED injections, pc'[t] # "mark_queued",
             pc'[t] = "erase" => row'[msg'[t]] # "queued",
             \A h \in Handler \ {t} : pc[h] = "erase" /\ msg[h] = m => row'[m] # "queued"
      PROVE  MarkInv'
  BY <1>0, <1>1, BusyHasMessage
<1>2. ASSUME NEW h \in Handler, HandlerNext(h) PROVE MarkInv'
  <2>1. ASSUME NEW m \in Message, Claim(h, m) PROVE MarkInv'
    <3>1. \A g \in Handler : pc[g] = "erase" => msg[g] # m
      BY <1>0, <2>1 DEF Claim, OwnershipInv
    <3>2. QED
      BY <1>0, <1>1, <2>1, <3>1 DEF Claim, TypeOK
  <2>2. ASSUME msg[h] \in Message,
               ApplyDrop(h) \/ ApplyRefuse(h) \/ ApplyHold(h) \/ EraseContent(h)
        PROVE  MarkInv'
    <3>1. \A g \in Handler \ {h} : pc[g] = "erase" => msg[g] # msg[h]
      BY <1>0, <2>2 DEF OwnershipInv, ApplyDrop, ApplyRefuse, ApplyHold, EraseContent
    <3>2. QED
      BY <1>0, <1>1, <2>2, <3>1
         DEF ApplyDrop, ApplyRefuse, ApplyHold, EraseContent, TypeOK
  <2>3. ASSUME UNCHANGED <<row, injections, msg>>,
               \A u \in Thread \ {h} : pc'[u] = pc[u],
               pc'[h] \in {pc[h], "register", "evaluate", "hold", "refuse", "deliver", "drop"}
        PROVE  MarkInv'
    BY <2>3
  <2>4. ASSUME NEW m \in Message, Duplicate(h, m) \/ ClaimFails(h, m) PROVE MarkInv'
    BY <2>4 DEF Duplicate, ClaimFails
  <2>5. CASE CountPending(h) \/ RegisterPending(h) \/ Evaluate(h)
    BY <1>0, <2>3, <2>5, RouteType DEF CountPending, RegisterPending, Evaluate, TypeOK
  <2>6. QED
    BY <1>0, <1>2, <2>1, <2>2, <2>4, <2>5, BusyHasMessage
       DEF HandlerNext, ApplyDrop, ApplyRefuse, ApplyHold, EraseContent
<1>3. ASSUME NEW o \in Operator, OperatorNext(o) PROVE MarkInv'
  <2>1. ASSUME NEW m \in Message, BeginRelease(o, m) \/ BeginRefuse(o, m) PROVE MarkInv'
    BY <1>0, <1>1, <2>1 DEF BeginRelease, BeginRefuse, TypeOK
  <2>2. ASSUME msg[o] \in Message, RefuseHeld(o) PROVE MarkInv'
    BY <1>0, <1>1, <2>2 DEF RefuseHeld, TypeOK
  <2>3. ASSUME NEW p \in SessionPolicies, SetPolicy(o, p) PROVE MarkInv'
    BY <2>3 DEF SetPolicy
  <2>4. QED
    BY <1>0, <1>3, <2>1, <2>2, <2>3, BusyHasMessage DEF OperatorNext, RefuseHeld
<1>4. ASSUME NEW t \in Thread, DeliverNext(t) PROVE MarkInv'
  <2>1. msg[t] \in Message /\ pc[t] # "idle"
    BY <1>0, <1>4, BusyHasMessage
       DEF DeliverNext, Deliver, MarkQueued, MarkHeld, Fault, StoreStep
  <2>2. CASE Deliver(t)
    <3>1. /\ UNCHANGED row /\ pc'[t] # "erase"
          /\ \A u \in Thread \ {t} : pc'[u] = pc[u] /\ msg'[u] = msg[u]
          /\ pc'[t] = "mark_queued" => msg'[t] = msg[t] /\ injections'[msg[t]] > 0
      BY <1>0, <2>1, <2>2 DEF Deliver, Tally, TypeOK
    <3>2. \A n \in Message : injections[n] > 0 => injections'[n] > 0
      BY <1>0, <2>1, <2>2 DEF Deliver, Tally, TypeOK
    <3>3. QED
      BY <1>0, <3>1, <3>2, BusyHasMessage
  <2>3. CASE MarkQueued(t) \/ MarkHeld(t) \/ (Fault(t) /\ ~ UNCHANGED row)
    <3>1. verdict[msg[t]] # "refused"
      BY <1>0, <2>1, <2>3 DEF MarkQueued, MarkHeld, Fault, VerdictInv, VerdictsAt
    <3>2. \A h \in Handler : pc[h] = "erase" => msg[h] # msg[t]
      BY <1>0, <3>1 DEF VerdictInv, VerdictsAt
    <3>3. QED
      BY <1>0, <1>1, <2>1, <2>3, <3>2 DEF MarkQueued, MarkHeld, Fault, TypeOK
  <2>4. CASE Fault(t) /\ UNCHANGED row
    BY <1>0, <2>1, <2>4 DEF Fault, TypeOK
  <2>5. QED
    BY <1>4, <2>2, <2>3, <2>4 DEF DeliverNext
<1>5. CASE UNCHANGED vars
  BY <1>5 DEF vars
<1>6. QED
  BY <1>2, <1>3, <1>4, <1>5 DEF Next

(* A step of one thread, which writes the row of one message and stops     *)
(* working on no other.                                                    *)
LEMMA ExplainedMove ==
  ASSUME RowsExplained, Onwards, NEW t \in Thread, NEW m \in Message,
         \A n \in Message \ {m} : row'[n] = row[n],
         \A u \in Thread \ {t} : msg'[u] = msg[u],
         t \in Handler => msg[t] \in {m, NoMessage},
         row'[m] = "queued" => Explained(m)'
  PROVE  RowsExplained'
<1> SUFFICES ASSUME NEW n \in Message \ {m}, row'[n] = "queued" PROVE Explained(n)'
  BY DEF RowsExplained
<1>1. Explained(n)
  BY DEF RowsExplained
<1>2. WorkingOn(n) # {} => WorkingOn(n)' # {}
  BY ConstantsAssumption DEF WorkingOn, Thread
<1>3. QED
  BY <1>1, <1>2 DEF Explained, Onwards

LEMMA ExplainedStep ==
  ASSUME IInv, MarkInv, RowsExplained, Onwards, [Next]_vars
  PROVE  RowsExplained'
<1>0. TypeOK /\ ControlInv /\ VerdictInv
  BY DEF IInv, PipelineInv
<1> USE ConstantsAssumption
    DEF Begin, GoTo, Return, Transition, Thread, storeVars, engineVars, historyVars
<1>1. ASSUME NEW h \in Handler, HandlerNext(h) PROVE RowsExplained'
  <2>1. ASSUME NEW m \in Message, Claim(h, m) PROVE RowsExplained'
    <3>1. msg'[h] = m
      BY <1>0, <2>1 DEF Claim, TypeOK
    <3>2. Explained(m)'
      BY <3>1 DEF Explained, WorkingOn
    <3>3. msg[h] = NoMessage
      BY <1>0, <2>1 DEF Claim, ControlInv
    <3>4. QED
      BY <1>0, <2>1, <3>2, <3>3, ExplainedMove DEF Claim, TypeOK
  <2>2. ASSUME msg[h] \in Message,
               ApplyDrop(h) \/ ApplyRefuse(h) \/ ApplyHold(h) \/ EraseContent(h)
        PROVE  RowsExplained'
    <3>1. row'[msg[h]] # "queued"
      BY <1>0, <2>2
         DEF ApplyDrop, ApplyRefuse, ApplyHold, EraseContent, TypeOK,
             VerdictInv, VerdictsAt, Dropped, GateDrop, MarkInv
    <3>2. QED
      BY <1>0, <2>2, <3>1, ExplainedMove
         DEF ApplyDrop, ApplyRefuse, ApplyHold, EraseContent, TypeOK
  <2>3. CASE UNCHANGED <<row, msg>>
    BY <2>3 DEF RowsExplained, Explained, WorkingOn, Onwards
  <2>4. QED
    BY <1>0, <1>1, <2>1, <2>2, <2>3, BusyHasMessage
       DEF HandlerNext, Duplicate, ClaimFails, CountPending, RegisterPending, Evaluate,
           ApplyDrop, ApplyRefuse, ApplyHold, EraseContent
<1>2. ASSUME NEW t \in Operator, \A m \in Message : row'[m] = row[m] \/ row'[m] # "queued",
             \A u \in Thread \ {t} : msg'[u] = msg[u]
      PROVE  RowsExplained'
  <2>1. \A m \in Message : WorkingOn(m)' = WorkingOn(m)
    BY <1>2 DEF WorkingOn
  <2>2. QED
    BY <1>2, <2>1 DEF RowsExplained, Explained, Onwards
<1>3. ASSUME NEW o \in Operator, OperatorNext(o) PROVE RowsExplained'
  BY <1>0, <1>2, <1>3
     DEF OperatorNext, BeginRelease, BeginRefuse, RefuseHeld, SetPolicy, TypeOK
<1>4. ASSUME NEW t \in Thread, DeliverNext(t) PROVE RowsExplained'
  <2>1. msg[t] \in Message /\ pc[t] # "idle"
    BY <1>0, <1>4, BusyHasMessage
       DEF DeliverNext, Deliver, MarkQueued, MarkHeld, Fault, StoreStep
  <2>2. CASE Deliver(t) \/ MarkHeld(t)
    <3>1. CASE t \in Operator
      BY <1>0, <1>2, <2>2, <3>1 DEF Deliver, MarkHeld, TypeOK
    <3>2. CASE t \in Handler /\ Deliver(t)
      BY <3>2 DEF Deliver, RowsExplained, Explained, WorkingOn, Onwards
    <3>3. CASE t \in Handler /\ MarkHeld(t)
      BY <1>0, <2>1, <3>3, ExplainedMove DEF MarkHeld, TypeOK
    <3>4. QED
      BY <2>2, <3>1, <3>2, <3>3
  <2>3. CASE MarkQueued(t)
    <3>1. PICK m \in Message : m = msg[t]
      BY <2>1
    <3>2. Explained(m)'
      BY <2>3, <3>1 DEF MarkQueued, MarkInv, Explained, Onwards
    <3>3. QED
      BY <1>0, <2>3, <3>1, <3>2, ExplainedMove DEF MarkQueued, TypeOK
  <2>4. CASE Fault(t)
    <3>1. PICK m \in Message : m = msg[t]
      BY <2>1
    <3>2. row'[m] = "queued" => injections[m] > 0 \/ m \in stranded'
      BY <1>0, <2>4, <3>1 DEF Fault, TypeOK
    <3>3. row'[m] = "queued" => Explained(m)'
      BY <3>2 DEF Explained, Onwards
    <3>4. QED
      BY <1>0, <2>4, <3>1, <3>3, ExplainedMove DEF Fault, TypeOK
  <2>5. QED
    BY <1>4, <2>2, <2>3, <2>4 DEF DeliverNext
<1>5. CASE UNCHANGED vars
  BY <1>5 DEF vars, RowsExplained, Explained, WorkingOn
<1>6. QED
  BY <1>1, <1>3, <1>4, <1>5 DEF Next

LEMMA ReceiptStep ==
  ASSUME IInv, AdmittedRows, MarkInv, RowsExplained, ReceiptsMatchVerdict, Onwards,
         [Next]_vars
  PROVE  ReceiptsMatchVerdict'
<1>0. TypeOK /\ ControlInv /\ VerdictInv
  BY DEF IInv, PipelineInv
<1>1. CASE UNCHANGED receipt
  BY <1>0, <1>1, ReceiptKept
<1> USE DEF Thread, engineVars, storeVars, historyVars
<1>2. ASSUME NEW h \in Handler, NEW m \in Message, Duplicate(h, m)
      PROVE  ReceiptsMatchVerdict'
  <2>1. /\ row[m] \in ReceiptState /\ verdict[m] \in ReceiptState \cup {"none"}
        /\ Send(m, row[m], CallerOf(m)) /\ UNCHANGED <<verdict, injections, stranded>>
    BY <1>0, <1>2 DEF Duplicate, TypeOK, RowState
  <2>2. CallerOf(m) # "first" /\ (WorkingOn(m) # {} => CallerOf(m) = "early")
    BY DEF CallerOf
  <2>3. CASE row[m] = "queued"
    <3>1. Truthful(m, "queued", CallerOf(m))
      BY <2>2, <2>3 DEF RowsExplained, Explained, Truthful
    <3>2. \A c : Truthful(m, "queued", c) => Truthful(m, "queued", c)'
      BY <2>1 DEF Truthful
    <3>3. QED
      BY <2>1, <2>3, <3>1, <3>2, ReceiptSent DEF Send
  <2>4. CASE row[m] # "queued"
    <3>1. row[m] = verdict[m] \/ (row[m] \in {"held", "refused"} /\ verdict[m] \in {"queued", "held"})
      BY <1>0, <2>1, <2>4
         DEF VerdictInv, NegativeVerdictFinal, AdmittedRows, Dropped, ReceiptState, GateDrop
    <3>2. \A s, c : s # "queued" /\ c # "first" /\
            (s = verdict[m] \/ (s \in {"held", "refused"} /\ verdict[m] \in {"queued", "held"}))
            => Truthful(m, s, c)'
      BY <2>1 DEF Truthful
    <3>3. QED
      BY <2>1, <2>2, <2>4, <3>1, <3>2, ReceiptSent DEF Send
  <2>5. QED
    BY <2>3, <2>4
<1>3. ASSUME NEW h \in Handler, NEW m \in Message, ClaimFails(h, m)
      PROVE  ReceiptsMatchVerdict'
  BY <1>3 DEF ClaimFails, Send, ReceiptsMatchVerdict
<1>4. ASSUME NEW t \in Thread, NEW m \in Message, msg[t] = m, NEW s, Answer(t, s),
             Truthful(m, s, "first")'
      PROVE  ReceiptsMatchVerdict'
  BY <1>0, <1>4, ReceiptAnswered
<1>5. ASSUME NEW h \in Handler, ApplyDrop(h) \/ EraseContent(h) PROVE ReceiptsMatchVerdict'
  <2>1. msg[h] \in Message /\ verdict[msg[h]] \in Dropped \cup {"refused"}
    BY <1>0, <1>5, BusyHasMessage DEF ApplyDrop, EraseContent, VerdictInv, VerdictsAt
  <2>2. PICK m \in Message, s \in Dropped \cup {"refused"} : m = msg[h] /\ s = verdict[m]
    BY <2>1
  <2>3. Answer(h, s) /\ UNCHANGED verdict
    BY <1>0, <1>5, <2>2
       DEF ApplyDrop, EraseContent, VerdictInv, VerdictsAt
  <2>4. Truthful(m, s, "first")'
    BY <2>2, <2>3 DEF Truthful, Dropped, GateDrop
  <2>5. QED
    BY <1>4, <2>2, <2>3, <2>4
<1>6. ASSUME NEW h \in Handler, ApplyHold(h) PROVE ReceiptsMatchVerdict'
  <2>1. msg[h] \in Message /\ verdict[msg[h]] \in {"queued", "held"}
    BY <1>0, <1>6, BusyHasMessage DEF ApplyHold, VerdictInv, VerdictsAt
  <2>2. PICK m \in Message : m = msg[h]
    BY <2>1
  <2>3. Answer(h, "held") /\ UNCHANGED verdict
    BY <1>6 DEF ApplyHold
  <2>4. Truthful(m, "held", "first")'
    BY <2>1, <2>2, <2>3 DEF Truthful
  <2>5. QED
    BY <1>4, <2>2, <2>3, <2>4
<1>7. ASSUME NEW t \in Thread, MarkQueued(t) PROVE ReceiptsMatchVerdict'
  <2>1. msg[t] \in Message /\ injections[msg[t]] > 0
    BY <1>0, <1>7, BusyHasMessage DEF MarkQueued, MarkInv
  <2>2. PICK m \in Message : m = msg[t]
    BY <2>1
  <2>3. Answer(t, "queued") /\ UNCHANGED injections
    BY <1>7 DEF MarkQueued
  <2>4. Truthful(m, "queued", "first")'
    BY <2>1, <2>2, <2>3 DEF Truthful
  <2>5. QED
    BY <1>4, <2>2, <2>3, <2>4
<1>8. ASSUME NEW t \in Thread, Fault(t) PROVE ReceiptsMatchVerdict'
  <2>1. PICK m \in Message : m = msg[t]
    BY <1>0, <1>8, BusyHasMessage DEF Fault, StoreStep
  <2>2. Answer(t, "invalid") /\ StoreFaults
    BY <1>8 DEF Fault
  <2>3. Truthful(m, "invalid", "first")'
    BY <2>2 DEF Truthful
  <2>4. QED
    BY <1>4, <2>1, <2>2, <2>3
<1>9. QED
  <2>1. CASE UNCHANGED vars
    BY <1>1, <2>1 DEF vars
  <2>2. ASSUME NEW h \in Handler, HandlerNext(h) PROVE ReceiptsMatchVerdict'
    BY <1>1, <1>2, <1>3, <1>5, <1>6, <2>2
       DEF HandlerNext, Claim, CountPending, RegisterPending, Evaluate, ApplyRefuse
  <2>3. ASSUME NEW o \in Operator, OperatorNext(o) PROVE ReceiptsMatchVerdict'
    BY <1>1, <2>3 DEF OperatorNext, BeginRelease, BeginRefuse, RefuseHeld, SetPolicy
  <2>4. ASSUME NEW t \in Thread, DeliverNext(t) PROVE ReceiptsMatchVerdict'
    BY <1>1, <1>7, <1>8, <2>4 DEF DeliverNext, Deliver, MarkHeld
  <2>5. QED
    BY <2>1, <2>2, <2>3, <2>4 DEF Next

(* A sender told queued has a message the host took, unless it asked while *)
(* the first call was still at work or a store call had raised; any other  *)
(* receipt is the verdict, or what the host's or an operator's refusal     *)
(* made of it: for any number of handlers and operators, whatever the host *)
(* answers and whichever store call raises.                                *)
THEOREM ReceiptsNeverContradict == Spec => []ReceiptsMatchVerdict
<1>1. Init => ReceiptInv
  BY ConstantsAssumption
     DEF Init, ReceiptInv, AdmittedRows, MarkInv, RowsExplained, ReceiptsMatchVerdict, Thread
<1>2. IInv /\ ReceiptInv /\ [Next]_vars => ReceiptInv'
  BY OnwardsStep, AdmittedStep, MarkStep, ExplainedStep, ReceiptStep DEF ReceiptInv
<1>3. ReceiptInv => ReceiptsMatchVerdict
  BY DEF ReceiptInv
<1>4. QED
  BY IInvAlways, <1>1, <1>2, <1>3, PTL DEF Spec

----------------------------------------------------------------------------
(* With one operator at a time and a host that never rejects, the pipeline *)
(* implements the abstract inbox.                                          *)

(* With one operator and a host that does not reject, nobody changes a row *)
(* under a thread that works on it.                                        *)
RowsAt(t) ==
  IF t \in Operator THEN {"held"}
  ELSE IF pc[t] = "erase" THEN {"refused"} ELSE {"queued"}

SteadyInv ==
  \A t \in Thread : pc[t] # "idle" =>
    pc[t] # "mark_held" /\ row[msg[t]] \in RowsAt(t)

(* Whoever may still hand a message over would be the first to do so.      *)
FirstInv ==
  /\ DeliveredOnce
  /\ \A t \in Thread : pc[t] \in {"deliver", "hold"} => injections[msg[t]] = 0
  /\ \A m \in Message : row[m] = "held" /\ injections[m] # 0 =>
       \E o \in Operator : pc[o] = "mark_queued" /\ msg[o] = m

(* A handler that may yet let its message in: it read, or would find, a    *)
(* count below the capacity.                                               *)
Unsaid(h) == pc[h] = "register" /\ counted[h] < Capacity
MayAdmit(h) == Unsaid(h) \/ (pc[h] = "evaluate" /\ EnginePending(h) < Capacity)

(* Rows that are in and handlers that may let one in fit together; one     *)
(* more place is left as long as a count that was read is not registered:  *)
(* the other handler may come to evaluate with it.                         *)
RoomInv ==
  /\ InboxBounded
  /\ \A h \in Handler : MayAdmit(h) =>
       Cardinality(Admitted) + 1 + (IF Unsaid(h) THEN 1 ELSE 0) <= Capacity
  /\ \A g, h \in Handler : g # h /\ MayAdmit(g) /\ MayAdmit(h) =>
       Cardinality(Admitted) + 2 + (IF Unsaid(g) \/ Unsaid(h) THEN 1 ELSE 0) <= Capacity

OneOperator == \A o1, o2 \in Operator : o1 = o2
NeverRejects == "rejected" \notin HostOutcomes

(* A message has at most one thread that works on it.                      *)
LEMMA WorksAlone ==
  ASSUME OneOperator, IInv, SteadyInv,
         NEW t \in Thread, NEW u \in Thread, pc[t] # "idle", msg[t] = msg[u]
  PROVE  t = u
<1>0. TypeOK /\ ControlInv /\ OwnershipInv
  BY DEF IInv, PipelineInv
<1>1. pc[u] # "idle"
  BY <1>0 DEF TypeOK, ControlInv
<1>2. row[msg[t]] \in RowsAt(t) /\ row[msg[t]] \in RowsAt(u)
  BY <1>1 DEF SteadyInv
<1>3. CASE t \in Operator /\ u \in Operator
  BY <1>3 DEF OneOperator
<1>4. CASE t \in Handler /\ u \in Handler
  BY <1>0, <1>4 DEF OwnershipInv
<1>5. CASE (t \in Operator) # (u \in Operator)
  BY <1>2, <1>5 DEF RowsAt
<1>6. QED
  BY <1>3, <1>4, <1>5, ConstantsAssumption DEF Thread

(* A step of one thread, which writes the row of its own message only.     *)
LEMMA SteadyMove ==
  ASSUME OneOperator, IInv, SteadyInv, NEW t \in Thread, NEW m \in Message,
         msg'[t] = m \/ pc'[t] = "idle",
         \A u \in Thread \ {t} : pc'[u] = pc[u] /\ msg'[u] = msg[u],
         \A n \in Message \ {m} : row'[n] = row[n],
         pc'[t] # "idle" => pc'[t] # "mark_held" /\ row'[m] \in RowsAt(t)',
         row'[m] = row[m] \/ (pc[t] # "idle" /\ msg[t] = m) \/ row[m] = "absent"
  PROVE  SteadyInv'
<1>0. TypeOK /\ ControlInv
  BY DEF IInv, PipelineInv
<1> SUFFICES ASSUME NEW u \in Thread, pc'[u] # "idle"
             PROVE  pc'[u] # "mark_held" /\ row'[msg'[u]] \in RowsAt(u)'
  BY DEF SteadyInv
<1>1. CASE u = t
  BY <1>1
<1>2. CASE u # t
  <2>1. pc'[u] = pc[u] /\ msg'[u] = msg[u] /\ msg[u] \in Message
    BY <1>0, <1>2 DEF TypeOK, ControlInv
  <2>2. pc[u] # "mark_held" /\ row[msg[u]] \in RowsAt(u)
    BY <2>1 DEF SteadyInv
  <2>3. row'[msg[u]] = row[msg[u]]
    <3>1. CASE msg[u] # m
      BY <2>1, <3>1
    <3>2. CASE msg[u] = m
      <4>1. ~ (pc[t] # "idle" /\ msg[t] = m)
        BY <1>2, <3>2, WorksAlone
      <4>2. row[m] # "absent"
        BY <2>2, <3>2 DEF RowsAt
      <4>3. QED
        BY <3>2, <4>1, <4>2
    <3>3. QED
      BY <3>1, <3>2
  <2>4. QED
    BY <2>1, <2>2, <2>3 DEF RowsAt
<1>3. QED
  BY <1>1, <1>2

LEMMA SteadyStep ==
  ASSUME OneOperator, NeverRejects, IInv, SteadyInv, [Next]_vars
  PROVE  SteadyInv'
<1>0. TypeOK /\ ControlInv /\ VerdictInv
  BY DEF IInv, PipelineInv
<1> USE ConstantsAssumption
    DEF Begin, GoTo, Return, Transition, Thread, Step, HandlerStep, DeliveryStep,
        storeVars, RowsAt
<1>1. ASSUME NEW h \in Handler, HandlerNext(h) PROVE SteadyInv'
  <2>1. ASSUME NEW m \in Message, Claim(h, m) PROVE SteadyInv'
    BY <1>0, <2>1, SteadyMove DEF Claim, TypeOK
  <2>2. ASSUME NEW m \in Message, Duplicate(h, m) \/ ClaimFails(h, m) PROVE SteadyInv'
    BY <1>0, <2>2 DEF Duplicate, ClaimFails, SteadyInv
  <2>3. ASSUME msg[h] \in Message, CountPending(h) \/ RegisterPending(h) \/ Evaluate(h)
        PROVE  SteadyInv'
    <3>1. /\ pc[h] # "idle" /\ pc[h] # "erase" /\ UNCHANGED <<row, msg>>
          /\ \E to \in Step \ {"idle", "erase", "mark_held"} : pc' = [pc EXCEPT ![h] = to]
      BY <2>3, RouteType DEF CountPending, RegisterPending, Evaluate
    <3>2. QED
      BY <1>0, <2>3, <3>1, SteadyMove DEF SteadyInv, TypeOK
  <2>4. ASSUME msg[h] \in Message, ApplyDrop(h) \/ EraseContent(h) \/ ApplyHold(h)
        PROVE  SteadyInv'
    <3>1. /\ pc[h] # "idle" /\ pc' = [pc EXCEPT ![h] = "idle"]
          /\ msg' = [msg EXCEPT ![h] = NoMessage]
          /\ \A n \in Message \ {msg[h]} : row'[n] = row[n]
      BY <1>0, <2>4 DEF ApplyDrop, EraseContent, ApplyHold, TypeOK
    <3>2. QED
      BY <1>0, <2>4, <3>1, SteadyMove DEF TypeOK
  <2>5. ASSUME msg[h] \in Message, ApplyRefuse(h) PROVE SteadyInv'
    BY <1>0, <2>5, SteadyMove DEF ApplyRefuse, TypeOK
  <2>6. QED
    BY <1>0, <1>1, <2>1, <2>2, <2>3, <2>4, <2>5, BusyHasMessage
       DEF HandlerNext, CountPending, RegisterPending, Evaluate,
           ApplyDrop, ApplyRefuse, EraseContent, ApplyHold
<1>2. ASSUME NEW o \in Operator, OperatorNext(o) PROVE SteadyInv'
  <2>1. ASSUME NEW m \in Message, BeginRelease(o, m) \/ BeginRefuse(o, m) PROVE SteadyInv'
    BY <1>0, <2>1, SteadyMove DEF BeginRelease, BeginRefuse, TypeOK
  <2>2. ASSUME msg[o] \in Message, RefuseHeld(o) PROVE SteadyInv'
    BY <1>0, <2>2, SteadyMove DEF RefuseHeld, TypeOK
  <2>3. ASSUME NEW p \in SessionPolicies, SetPolicy(o, p) PROVE SteadyInv'
    BY <2>3 DEF SetPolicy, SteadyInv
  <2>4. QED
    BY <1>0, <1>2, <2>1, <2>2, <2>3, BusyHasMessage DEF OperatorNext, RefuseHeld
<1>3. ASSUME NEW t \in Thread, DeliverNext(t) PROVE SteadyInv'
  <2>1. pc[t] # "idle" /\ msg[t] \in Message /\ pc[t] # "mark_held"
    BY <1>0, <1>3, BusyHasMessage
       DEF DeliverNext, Deliver, MarkQueued, MarkHeld, Fault, StoreStep, SteadyInv
  <2>2. CASE Deliver(t)
    <3>1. /\ UNCHANGED row
          /\ \/ UNCHANGED msg /\ \E to \in {"mark_queued", "hold"} : pc' = [pc EXCEPT ![t] = to]
             \/ pc' = [pc EXCEPT ![t] = "idle"] /\ msg' = [msg EXCEPT ![t] = NoMessage]
      BY <2>2 DEF Deliver, NeverRejects
    <3>2. row[msg[t]] \in IF t \in Operator THEN {"held"} ELSE {"queued"}
      BY <2>1, <2>2 DEF SteadyInv, Deliver
    <3>3. QED
      BY <1>0, <2>1, <3>1, <3>2, SteadyMove DEF TypeOK
  <2>3. CASE MarkQueued(t) \/ Fault(t)
    <3>1. /\ pc' = [pc EXCEPT ![t] = "idle"] /\ msg' = [msg EXCEPT ![t] = NoMessage]
          /\ \A n \in Message \ {msg[t]} : row'[n] = row[n]
      BY <1>0, <2>1, <2>3 DEF MarkQueued, Fault, TypeOK
    <3>2. QED
      BY <1>0, <2>1, <3>1, SteadyMove DEF TypeOK
  <2>4. QED
    BY <1>3, <2>1, <2>2, <2>3 DEF DeliverNext, MarkHeld
<1>4. CASE UNCHANGED vars
  BY <1>4 DEF vars, SteadyInv
<1>5. QED
  BY <1>1, <1>2, <1>3, <1>4 DEF Next

(* One operator, a host that does not reject and a store that does not     *)
(* fail: nothing interrupts the way from a release to the row it marks.    *)
LEMMA FirstStep ==
  ASSUME OneOperator, NeverRejects, ~ StoreFaults, IInv, SteadyInv, FirstInv, [Next]_vars
  PROVE  FirstInv'
<1>0. TypeOK /\ ControlInv /\ VerdictInv
  BY DEF IInv, PipelineInv
<1> USE ConstantsAssumption
    DEF Begin, GoTo, Return, Transition, Thread, storeVars, historyVars, FirstInv, DeliveredOnce
<1>1. ASSUME NEW h \in Handler, HandlerNext(h) PROVE FirstInv'
  <2>1. ASSUME NEW m \in Message, Claim(h, m) \/ Duplicate(h, m) \/ ClaimFails(h, m) PROVE FirstInv'
    BY <1>0, <2>1 DEF Claim, Duplicate, ClaimFails, TypeOK, ControlInv
  <2>2. CASE CountPending(h) \/ RegisterPending(h)
    BY <1>0, <2>2 DEF CountPending, RegisterPending, TypeOK, ControlInv
  <2>3. CASE Evaluate(h)
    <3>1. msg[h] \in Message /\ injections[msg[h]] = 0 /\ h \notin Operator
      BY <1>0, <2>3, BusyHasMessage DEF Evaluate, VerdictInv, VerdictsAt
    <3>2. UNCHANGED <<row, msg, injections>> /\ \A t \in Thread \ {h} : pc'[t] = pc[t]
      BY <1>0, <2>3 DEF Evaluate, TypeOK
    <3>3. QED
      BY <3>1, <3>2
  <2>4. ASSUME msg[h] \in Message, ApplyDrop(h) \/ ApplyRefuse(h) \/ EraseContent(h)
        PROVE  FirstInv'
    <3>1. /\ UNCHANGED injections /\ h \notin Operator
          /\ pc'[h] \in {"idle", "erase"}
          /\ \A t \in Thread \ {h} : pc'[t] = pc[t] /\ msg'[t] = msg[t]
      BY <1>0, <2>4 DEF ApplyDrop, ApplyRefuse, EraseContent, TypeOK
    <3>2. \A m \in Message : row'[m] = "held" => row[m] = "held"
      BY <1>0, <2>4
         DEF ApplyDrop, ApplyRefuse, EraseContent, TypeOK, VerdictInv, VerdictsAt, Dropped, GateDrop
    <3>3. QED
      BY <3>1, <3>2
  <2>5. ASSUME msg[h] \in Message, ApplyHold(h) PROVE FirstInv'
    <3>1. injections[msg[h]] = 0 /\ UNCHANGED injections /\ h \notin Operator
      BY <2>5 DEF ApplyHold
    <3>2. /\ pc'[h] = "idle" /\ \A t \in Thread \ {h} : pc'[t] = pc[t] /\ msg'[t] = msg[t]
          /\ \A m \in Message \ {msg[h]} : row'[m] = row[m]
      BY <1>0, <2>5 DEF ApplyHold, TypeOK
    <3>3. QED
      BY <3>1, <3>2
  <2>6. QED
    BY <1>0, <1>1, <2>1, <2>2, <2>3, <2>4, <2>5, BusyHasMessage
       DEF HandlerNext, ApplyDrop, ApplyRefuse, EraseContent, ApplyHold
<1>2. ASSUME NEW o \in Operator, OperatorNext(o) PROVE FirstInv'
  <2>1. ASSUME NEW m \in Message, BeginRelease(o, m) \/ BeginRefuse(o, m) PROVE FirstInv'
    <3>1. row[m] = "held" /\ pc[o] = "idle" /\ UNCHANGED <<row, injections>>
      BY <2>1 DEF BeginRelease, BeginRefuse
    <3>2. injections[m] = 0
      BY <3>1 DEF OneOperator
    <3>3. /\ msg'[o] = m /\ pc'[o] # "mark_queued"
          /\ \A t \in Thread \ {o} : pc'[t] = pc[t] /\ msg'[t] = msg[t]
      BY <1>0, <2>1 DEF BeginRelease, BeginRefuse, TypeOK
    <3>4. QED
      BY <3>1, <3>2, <3>3
  <2>2. ASSUME msg[o] \in Message, RefuseHeld(o) PROVE FirstInv'
    <3>1. /\ UNCHANGED injections /\ pc[o] = "refuse_held" /\ pc'[o] = "idle"
          /\ \A t \in Thread \ {o} : pc'[t] = pc[t] /\ msg'[t] = msg[t]
          /\ \A m \in Message : row'[m] = "held" => row[m] = "held"
      BY <1>0, <2>2 DEF RefuseHeld, TypeOK
    <3>2. QED
      BY <3>1
  <2>3. ASSUME NEW p \in SessionPolicies, SetPolicy(o, p) PROVE FirstInv'
    BY <2>3 DEF SetPolicy
  <2>4. QED
    BY <1>0, <1>2, <2>1, <2>2, <2>3, BusyHasMessage DEF OperatorNext, RefuseHeld
<1>3. ASSUME NEW t \in Thread, DeliverNext(t) PROVE FirstInv'
  <2>1. pc[t] # "idle" /\ msg[t] \in Message /\ pc[t] # "mark_held"
    BY <1>0, <1>3, BusyHasMessage
       DEF DeliverNext, Deliver, MarkQueued, MarkHeld, Fault, StoreStep, SteadyInv
  <2>2. CASE Deliver(t)
    <3>1. /\ pc[t] = "deliver" /\ UNCHANGED row /\ injections[msg[t]] = 0
          /\ \A u \in Thread \ {t} : pc'[u] = pc[u] /\ msg'[u] = msg[u]
      BY <1>0, <2>2 DEF Deliver, TypeOK
    <3>2. CASE UNCHANGED injections
      <4>1. msg'[t] = msg[t] \/ pc'[t] = "idle"
        BY <1>0, <2>2 DEF Deliver, TypeOK
      <4>2. QED
        BY <2>1, <3>1, <3>2, <4>1
    <3>3. ASSUME injections' = [injections EXCEPT ![msg[t]] = Tally(@)],
                 GoTo(t, "deliver", "mark_queued")
          PROVE  FirstInv'
      <4>1. /\ injections'[msg[t]] = 1
            /\ \A n \in Message \ {msg[t]} : injections'[n] = injections[n]
        BY <1>0, <2>1, <3>1, <3>3 DEF Tally, TypeOK
      <4>2. pc'[t] = "mark_queued" /\ msg'[t] = msg[t]
        BY <1>0, <3>3 DEF TypeOK
      <4>3. \A u \in Thread \ {t} : pc[u] # "idle" => msg[u] # msg[t]
        BY <2>1, WorksAlone
      <4>4. row[msg[t]] = "held" => t \in Operator
        BY <2>1, <3>1 DEF SteadyInv, RowsAt
      <4>5. \A u \in Thread : pc'[u] \in {"deliver", "hold"} => injections'[msg'[u]] = 0
        <5>1. ASSUME NEW u \in Thread \ {t}, pc[u] \in {"deliver", "hold"}
              PROVE  injections'[msg[u]] = 0
          BY <1>0, <4>1, <4>3, <5>1 DEF TypeOK, ControlInv
        <5>2. QED
          BY <3>1, <4>2, <5>1
      <4>6. QED
        BY <3>1, <4>1, <4>2, <4>4, <4>5
    <3>4. QED
      BY <2>2, <3>2, <3>3 DEF Deliver
  <2>3. CASE MarkQueued(t)
    <3>1. /\ pc'[t] = "idle" /\ UNCHANGED injections
          /\ row'[msg[t]] = "queued" /\ \A n \in Message \ {msg[t]} : row'[n] = row[n]
          /\ \A u \in Thread \ {t} : pc'[u] = pc[u] /\ msg'[u] = msg[u]
      BY <1>0, <2>1, <2>3 DEF MarkQueued, TypeOK
    <3>2. QED
      BY <3>1
  <2>4. QED
    BY <1>3, <2>1, <2>2, <2>3 DEF DeliverNext, MarkHeld, Fault
<1>4. CASE UNCHANGED vars
  BY <1>4 DEF vars
<1>5. QED
  BY <1>1, <1>2, <1>3, <1>4 DEF Next

----------------------------------------------------------------------------
(* The abstract status of a message, from the thread that works on it or,  *)
(* where there is none, from its row.                                      *)
BusyStatus(t) ==
  IF pc[t] = "mark_queued" THEN "queued"
  ELSE IF t \in Operator THEN "held"
  ELSE IF pc[t] = "erase" THEN "refused" ELSE "deciding"

RestStatus(m) == IF row[m] = "absent" THEN "new" ELSE RowStatus(row[m])

StatusFacts ==
  /\ \A t \in Thread : pc[t] # "idle" => StatusOf(msg[t]) = BusyStatus(t)
  /\ \A m \in Message : (\A t \in Thread : msg[t] # m) => StatusOf(m) = RestStatus(m)

LEMMA StatusKnown == OneOperator /\ IInv /\ SteadyInv => StatusFacts
<1> SUFFICES ASSUME OneOperator, IInv, SteadyInv PROVE StatusFacts
  OBVIOUS
<1>0. TypeOK /\ ControlInv
  BY DEF IInv, PipelineInv
<1>1. ASSUME NEW t \in Thread, pc[t] # "idle" PROVE StatusOf(msg[t]) = BusyStatus(t)
  <2>1. row[msg[t]] \in RowsAt(t) /\ row[msg[t]] # "absent"
    BY <1>1 DEF SteadyInv, RowsAt
  <2>2. (\E u \in Thread : msg[u] = msg[t] /\ pc[u] = "mark_queued") <=> pc[t] = "mark_queued"
    BY <1>1, WorksAlone
  <2>3. Undecided(msg[t]) <=> t \in Handler /\ pc[t] # "erase"
    BY <1>1, WorksAlone DEF Undecided, Thread
  <2>4. RowStatus("held") = "held" /\ RowStatus("refused") = "refused"
    BY DEF RowStatus, Dropped, GateDrop
  <2>5. QED
    BY <2>1, <2>2, <2>3, <2>4, ConstantsAssumption DEF StatusOf, BusyStatus, RowsAt, Thread
<1>2. ASSUME NEW m \in Message, \A t \in Thread : msg[t] # m
      PROVE  StatusOf(m) = RestStatus(m)
  BY <1>2 DEF StatusOf, RestStatus, Undecided, Thread
<1>3. QED
  BY <1>1, <1>2 DEF StatusFacts

LEMMA StatusKnownNext ==
  ASSUME OneOperator, IInv', SteadyInv' PROVE StatusFacts'
<1>1. (OneOperator /\ IInv /\ SteadyInv => StatusFacts)'
  BY StatusKnown, PTL
<1>2. OneOperator'
  BY DEF OneOperator
<1>3. QED
  BY <1>1, <1>2

(* A message whose row and whose threads stand still keeps its status.     *)
LEMMA StatusElsewhere ==
  ASSUME NEW m \in Message, row'[m] = row[m],
         \A t \in Thread : /\ msg'[t] = m <=> msg[t] = m
                           /\ msg[t] = m => pc'[t] = pc[t]
  PROVE  StatusOf(m)' = StatusOf(m)
BY DEF StatusOf, Undecided, Thread, RowStatus

(* Steps that hand over nothing.                                           *)
Decides(before, after) ==
  \/ before = after
  \/ before = "new" /\ after = "deciding"
  \/ before = "deciding" /\ after \in {"held", "refused", "dropped"}
  \/ before = "held" /\ after = "refused"

LEMMA AbstractDecision ==
  ASSUME NEW m \in Message, UNCHANGED injections, Decides(StatusOf(m), StatusOf(m)'),
         \A n \in Message \ {m} : StatusOf(n)' = StatusOf(n)
  PROVE  [Promise!Next]_(Promise!vars)
<1> DEFINE S == [n \in Message |-> StatusOf(n)]
           D == {n \in Message : injections[n] > 0}
<1>1. S' = [S EXCEPT ![m] = StatusOf(m)'] /\ S[m] = StatusOf(m)
  OBVIOUS
<1>2. UNCHANGED D
  OBVIOUS
<1>3. CASE StatusOf(m)' = StatusOf(m)
  <2>1. UNCHANGED S
    BY <1>3
  <2>2. QED
    BY <1>2, <2>1 DEF Promise!vars
<1>4. CASE StatusOf(m) = "new" /\ StatusOf(m)' = "deciding"
  BY <1>1, <1>2, <1>4 DEF Promise!Next, Promise!Receive, Promise!Move
<1>5. CASE StatusOf(m) = "deciding" /\ StatusOf(m)' = "held"
  BY <1>1, <1>2, <1>5 DEF Promise!Next, Promise!Hold, Promise!Move
<1>6. CASE StatusOf(m) \in {"deciding", "held"} /\ StatusOf(m)' = "refused"
  BY <1>1, <1>2, <1>6 DEF Promise!Next, Promise!Refuse, Promise!Move
<1>7. CASE StatusOf(m) = "deciding" /\ StatusOf(m)' = "dropped"
  BY <1>1, <1>2, <1>7 DEF Promise!Next, Promise!Drop, Promise!Move
<1>8. QED
  BY <1>3, <1>4, <1>5, <1>6, <1>7 DEF Decides

(* The step at which the host takes the message.                           *)
LEMMA AbstractDelivery ==
  ASSUME NEW m \in Message, StatusOf(m) \in {"deciding", "held"}, StatusOf(m)' = "queued",
         injections \in [Message -> 0 .. 2], injections[m] = 0,
         injections' = [injections EXCEPT ![m] = 1],
         \A n \in Message \ {m} : StatusOf(n)' = StatusOf(n)
  PROVE  Promise!Next
<1> DEFINE S == [n \in Message |-> StatusOf(n)]
           D == {n \in Message : injections[n] > 0}
<1>1. S' = [S EXCEPT ![m] = StatusOf(m)'] /\ S[m] = StatusOf(m)
  OBVIOUS
<1>2. m \notin D /\ D' = D \cup {m}
  OBVIOUS
<1>3. QED
  BY <1>1, <1>2 DEF Promise!Next, Promise!Deliver, Promise!Move

(* A step of thread t that leaves the rows and the threads of all messages *)
(* but m alone, and changes no injection count.                            *)
LEMMA AbstractStepOf ==
  ASSUME NEW t \in Thread, NEW m \in Message, UNCHANGED injections,
         \A n \in Message \ {m} : row'[n] = row[n],
         \A u \in Thread \ {t} : pc'[u] = pc[u] /\ msg'[u] = msg[u],
         msg[t] \in {m, NoMessage}, msg'[t] \in {m, NoMessage},
         Decides(StatusOf(m), StatusOf(m)')
  PROVE  [Promise!Next]_(Promise!vars)
<1>1. ASSUME NEW n \in Message \ {m} PROVE StatusOf(n)' = StatusOf(n)
  BY <1>1, StatusElsewhere, ConstantsAssumption
<1>2. QED
  BY <1>1, AbstractDecision

(* A thread that works on m takes a step, or stops working on it.          *)
LEMMA WorkerImplements ==
  ASSUME OneOperator, IInv, SteadyInv, SteadyInv', IInv', NEW t \in Thread, NEW m \in Message,
         msg[t] = m, UNCHANGED injections,
         \A n \in Message \ {m} : row'[n] = row[n],
         \A u \in Thread \ {t} : pc'[u] = pc[u] /\ msg'[u] = msg[u],
         \/ msg'[t] = m /\ Decides(BusyStatus(t), BusyStatus(t)')
         \/ msg'[t] = NoMessage /\ Decides(BusyStatus(t), RestStatus(m)')
  PROVE  [Promise!Next]_(Promise!vars)
<1>0. ControlInv /\ ControlInv'
  BY DEF IInv, PipelineInv
<1>1. StatusFacts /\ StatusFacts'
  BY StatusKnown, StatusKnownNext
<1>2. pc[t] # "idle" /\ StatusOf(m) = BusyStatus(t)
  BY <1>0, <1>1, ConstantsAssumption DEF StatusFacts, ControlInv
<1>3. CASE msg'[t] = m /\ Decides(BusyStatus(t), BusyStatus(t)')
  <2>1. StatusOf(m)' = BusyStatus(t)'
    BY <1>0, <1>1, <1>3, ConstantsAssumption DEF StatusFacts, ControlInv
  <2>2. QED
    BY <1>2, <1>3, <2>1, AbstractStepOf
<1>4. CASE msg'[t] = NoMessage /\ Decides(BusyStatus(t), RestStatus(m)')
  <2>1. \A u \in Thread : msg'[u] # m
    BY <1>2, <1>4, WorksAlone, ConstantsAssumption
  <2>2. StatusOf(m)' = RestStatus(m)'
    BY <1>1, <2>1 DEF StatusFacts
  <2>3. QED
    BY <1>2, <1>4, <2>2, AbstractStepOf
<1>5. QED
  BY <1>3, <1>4

LEMMA HandlerImplements ==
  ASSUME OneOperator, NeverRejects, IInv, SteadyInv, IInv', SteadyInv',
         NEW h \in Handler, HandlerNext(h)
  PROVE  [Promise!Next]_(Promise!vars)
<1>0. TypeOK /\ ControlInv /\ VerdictInv /\ TypeOK'
  BY DEF IInv, PipelineInv
<1>1. StatusFacts /\ StatusFacts' /\ h \in Thread /\ h \notin Operator
  BY StatusKnown, StatusKnownNext, ConstantsAssumption DEF Thread
<1> USE DEF Begin, GoTo, Return, Transition, storeVars, historyVars, BusyStatus, Decides
<1>2. ASSUME NEW m \in Message, Claim(h, m) PROVE [Promise!Next]_(Promise!vars)
  <2>1. \A t \in Thread : msg[t] # m
    <3>1. SUFFICES ASSUME NEW t \in Thread, msg[t] = m PROVE FALSE
      OBVIOUS
    <3>2. pc[t] # "idle"
      BY <1>0, <3>1, ConstantsAssumption DEF ControlInv
    <3>3. QED
      BY <1>2, <3>1, <3>2 DEF Claim, SteadyInv, RowsAt
  <2>2. StatusOf(m) = "new"
    BY <1>1, <1>2, <2>1 DEF StatusFacts, RestStatus, Claim
  <2>3. msg'[h] = m /\ pc'[h] = "count" /\ msg[h] = NoMessage
    BY <1>0, <1>1, <1>2 DEF Claim, TypeOK, ControlInv
  <2>4. StatusOf(m)' = "deciding"
    BY <1>1, <2>3 DEF StatusFacts
  <2>5. /\ UNCHANGED injections /\ \A n \in Message \ {m} : row'[n] = row[n]
        /\ \A u \in Thread \ {h} : pc'[u] = pc[u] /\ msg'[u] = msg[u]
    BY <1>0, <1>2 DEF Claim, TypeOK
  <2>6. QED
    BY <1>1, <2>2, <2>3, <2>4, <2>5, AbstractStepOf
<1>3. ASSUME NEW m \in Message, Duplicate(h, m) \/ ClaimFails(h, m) PROVE [Promise!Next]_(Promise!vars)
  <2>1. UNCHANGED <<row, injections, pc, msg>>
    BY <1>3 DEF Duplicate, ClaimFails
  <2>2. \A n \in Message : StatusOf(n)' = StatusOf(n)
    BY <2>1, StatusElsewhere
  <2>3. QED
    BY <1>3, <2>1, <2>2, AbstractDecision
<1>4. ASSUME NEW m \in Message, msg[h] = m,
             CountPending(h) \/ RegisterPending(h) \/ Evaluate(h)
      PROVE  [Promise!Next]_(Promise!vars)
  <2>1. /\ pc[h] \in {"count", "register", "evaluate"}
        /\ pc'[h] \in {"register", "evaluate", "hold", "refuse", "deliver", "drop"}
        /\ UNCHANGED <<row, injections, msg>>
        /\ \A u \in Thread \ {h} : pc'[u] = pc[u]
    BY <1>0, <1>1, <1>4, RouteType DEF CountPending, RegisterPending, Evaluate, TypeOK
  <2>2. QED
    BY <1>1, <1>4, <2>1, WorkerImplements
<1>5. ASSUME NEW m \in Message, msg[h] = m, ApplyRefuse(h) PROVE [Promise!Next]_(Promise!vars)
  <2>1. /\ pc[h] = "refuse" /\ pc'[h] = "erase" /\ UNCHANGED <<injections, msg>>
        /\ \A n \in Message \ {m} : row'[n] = row[n]
        /\ \A u \in Thread \ {h} : pc'[u] = pc[u]
    BY <1>0, <1>1, <1>5 DEF ApplyRefuse, TypeOK
  <2>2. QED
    BY <1>1, <1>5, <2>1, WorkerImplements
<1>6. ASSUME NEW m \in Message, msg[h] = m, ApplyDrop(h) \/ EraseContent(h) \/ ApplyHold(h)
      PROVE  [Promise!Next]_(Promise!vars)
  <2>1. /\ msg'[h] = NoMessage /\ UNCHANGED injections
        /\ \A n \in Message \ {m} : row'[n] = row[n]
        /\ \A u \in Thread \ {h} : pc'[u] = pc[u] /\ msg'[u] = msg[u]
    BY <1>0, <1>1, <1>6 DEF ApplyDrop, EraseContent, ApplyHold, TypeOK
  <2>2. CASE ApplyDrop(h)
    <3>1. pc[h] = "drop" /\ row'[m] = verdict[m] /\ verdict[m] \in Dropped
      BY <1>0, <1>1, <1>6, <2>2 DEF ApplyDrop, TypeOK, VerdictInv, VerdictsAt
    <3>2. RestStatus(m)' = "dropped"
      BY <3>1 DEF RestStatus, RowStatus, Dropped, GateDrop
    <3>3. QED
      BY <1>1, <1>6, <2>1, <3>1, <3>2, WorkerImplements
  <2>3. CASE EraseContent(h)
    <3>1. pc[h] = "erase" /\ row'[m] = "refused"
      BY <1>1, <1>6, <2>3 DEF EraseContent, SteadyInv, RowsAt
    <3>2. RestStatus(m)' = "refused"
      BY <3>1 DEF RestStatus, RowStatus, Dropped, GateDrop
    <3>3. QED
      BY <1>1, <1>6, <2>1, <3>1, <3>2, WorkerImplements
  <2>4. CASE ApplyHold(h)
    <3>1. pc[h] = "hold" /\ row'[m] = "held"
      BY <1>0, <1>1, <1>6, <2>4 DEF ApplyHold, TypeOK
    <3>2. RestStatus(m)' = "held"
      BY <3>1 DEF RestStatus, RowStatus, Dropped, GateDrop
    <3>3. QED
      BY <1>1, <1>6, <2>1, <3>1, <3>2, WorkerImplements
  <2>5. QED
    BY <1>6, <2>2, <2>3, <2>4
<1>7. QED
  BY <1>0, <1>1, <1>2, <1>3, <1>4, <1>5, <1>6, BusyHasMessage
     DEF HandlerNext, CountPending, RegisterPending, Evaluate, ApplyDrop, ApplyRefuse,
         EraseContent, ApplyHold

LEMMA OperatorImplements ==
  ASSUME OneOperator, NeverRejects, IInv, SteadyInv, IInv', SteadyInv',
         NEW o \in Operator, OperatorNext(o)
  PROVE  [Promise!Next]_(Promise!vars)
<1>0. TypeOK /\ ControlInv /\ ControlInv'
  BY DEF IInv, PipelineInv
<1>1. StatusFacts /\ StatusFacts' /\ o \in Thread
  BY StatusKnown, StatusKnownNext DEF Thread
<1> USE DEF Begin, GoTo, Return, Transition, storeVars, historyVars, BusyStatus, Decides
<1>2. ASSUME NEW m \in Message, BeginRelease(o, m) \/ BeginRefuse(o, m)
      PROVE  [Promise!Next]_(Promise!vars)
  <2>1. /\ UNCHANGED <<row, injections>> /\ row[m] = "held"
        /\ msg[o] = NoMessage /\ msg'[o] = m /\ pc'[o] \in {"deliver", "refuse_held"}
        /\ \A u \in Thread \ {o} : pc'[u] = pc[u] /\ msg'[u] = msg[u]
    BY <1>0, <1>1, <1>2 DEF BeginRelease, BeginRefuse, TypeOK, ControlInv
  <2>2. StatusOf(m)' = "held"
    BY <1>1, <2>1 DEF StatusFacts
  <2>3. \A t \in Thread : msg[t] # m
    <3>1. SUFFICES ASSUME NEW t \in Thread, msg[t] = m PROVE FALSE
      OBVIOUS
    <3>2. t = o
      <4>1. pc'[o] # "idle" /\ \/ t = o
                               \/ msg'[t] = msg'[o]
        BY <2>1, <3>1
      <4>2. CASE t \in Handler
        <5>1. pc[t] # "idle" /\ row[m] \in RowsAt(t)
          BY <1>0, <1>1, <3>1, ConstantsAssumption DEF ControlInv, SteadyInv
        <5>2. QED
          BY <2>1, <4>2, <5>1, ConstantsAssumption DEF RowsAt
      <4>3. QED
        BY <4>2 DEF OneOperator, Thread
    <3>3. QED
      BY <2>1, <3>1, <3>2, ConstantsAssumption
  <2>4. StatusOf(m) = "held"
    BY <1>1, <2>1, <2>3 DEF StatusFacts, RestStatus, RowStatus, Dropped, GateDrop
  <2>5. QED
    BY <1>1, <2>1, <2>2, <2>4, AbstractStepOf
<1>3. ASSUME NEW m \in Message, msg[o] = m, RefuseHeld(o) PROVE [Promise!Next]_(Promise!vars)
  <2>1. /\ pc[o] = "refuse_held" /\ msg'[o] = NoMessage /\ UNCHANGED injections
        /\ row'[m] = "refused" /\ \A n \in Message \ {m} : row'[n] = row[n]
        /\ \A u \in Thread \ {o} : pc'[u] = pc[u] /\ msg'[u] = msg[u]
    BY <1>0, <1>1, <1>3 DEF RefuseHeld, TypeOK
  <2>2. RestStatus(m)' = "refused"
    BY <2>1 DEF RestStatus, RowStatus, Dropped, GateDrop
  <2>3. QED
    BY <1>1, <1>3, <2>1, <2>2, WorkerImplements
<1>4. ASSUME NEW p \in SessionPolicies, SetPolicy(o, p) PROVE [Promise!Next]_(Promise!vars)
  BY <1>4 DEF SetPolicy, Promise!vars, StatusOf, Undecided, RowStatus
<1>5. QED
  BY <1>0, <1>1, <1>2, <1>3, <1>4, BusyHasMessage DEF OperatorNext, RefuseHeld

LEMMA DeliveryImplements ==
  ASSUME OneOperator, NeverRejects, ~ StoreFaults, IInv, SteadyInv, FirstInv, IInv', SteadyInv',
         NEW t \in Thread, DeliverNext(t)
  PROVE  [Promise!Next]_(Promise!vars)
<1>0. TypeOK /\ ControlInv
  BY DEF IInv, PipelineInv
<1>1. StatusFacts /\ StatusFacts'
  BY StatusKnown, StatusKnownNext
<1>2. pc[t] \in {"deliver", "mark_queued"} /\ msg[t] \in Message
  BY <1>0, BusyHasMessage
     DEF DeliverNext, Deliver, MarkQueued, MarkHeld, Fault, GoTo, SteadyInv
<1>3. PICK m \in Message : m = msg[t]
  BY <1>2
<1> USE DEF GoTo, Return, Transition, storeVars, historyVars, BusyStatus, Decides
<1>4. CASE Deliver(t) /\ UNCHANGED injections
  <2>1. /\ pc[t] = "deliver" /\ UNCHANGED row
        /\ \A u \in Thread \ {t} : pc'[u] = pc[u] /\ msg'[u] = msg[u]
    BY <1>0, <1>4 DEF Deliver, TypeOK
  <2>2. CASE msg'[t] = m /\ pc'[t] = "hold" /\ t \notin Operator
    BY <1>3, <1>4, <2>1, <2>2, WorkerImplements
  <2>3. CASE msg'[t] = NoMessage /\ t \in Operator
    <3>1. row'[m] = "held"
      BY <1>2, <1>3, <2>1, <2>3 DEF SteadyInv, RowsAt
    <3>2. RestStatus(m)' = "held"
      BY <3>1 DEF RestStatus, RowStatus, Dropped, GateDrop
    <3>3. QED
      BY <1>3, <1>4, <2>1, <2>3, <3>2, WorkerImplements
  <2>4. injections' # [injections EXCEPT ![msg[t]] = Tally(@)]
    BY <1>0, <1>2, <1>4 DEF TypeOK, Tally, FirstInv, Deliver
  <2>5. QED
    BY <1>0, <1>3, <1>4, <2>2, <2>3, <2>4, ConstantsAssumption
       DEF Deliver, TypeOK, NeverRejects, Thread
<1>5. CASE injections' = [injections EXCEPT ![msg[t]] = Tally(@)] /\ GoTo(t, "deliver", "mark_queued")
           /\ UNCHANGED row
  <2>1. pc[t] = "deliver" /\ pc'[t] = "mark_queued" /\ msg'[t] = m /\ UNCHANGED msg
    BY <1>0, <1>3, <1>5 DEF TypeOK
  <2>2. injections[m] = 0 /\ injections' = [injections EXCEPT ![m] = 1]
    BY <1>3, <1>5, <2>1 DEF FirstInv, Tally
  <2>3. StatusOf(m) \in {"deciding", "held"} /\ StatusOf(m)' = "queued"
    BY <1>1, <1>3, <2>1 DEF StatusFacts
  <2>4. ASSUME NEW n \in Message \ {m} PROVE StatusOf(n)' = StatusOf(n)
    <3>1. \A u \in Thread : msg[u] = n => pc'[u] = pc[u]
      BY <1>0, <1>3, <1>5, <2>4 DEF TypeOK
    <3>2. QED
      BY <1>5, <2>1, <3>1, StatusElsewhere
  <2>5. QED
    BY <1>0, <2>2, <2>3, <2>4, AbstractDelivery DEF TypeOK
<1>6. CASE MarkQueued(t)
  <2>1. /\ pc[t] = "mark_queued" /\ msg'[t] = NoMessage /\ UNCHANGED injections
        /\ row'[m] = "queued" /\ \A n \in Message \ {m} : row'[n] = row[n]
        /\ \A u \in Thread \ {t} : pc'[u] = pc[u] /\ msg'[u] = msg[u]
    BY <1>0, <1>3, <1>6 DEF MarkQueued, TypeOK
  <2>2. RestStatus(m)' = "queued"
    BY <2>1 DEF RestStatus, RowStatus, Dropped, GateDrop
  <2>3. QED
    BY <1>3, <2>1, <2>2, WorkerImplements
<1>7. QED
  BY <1>2, <1>4, <1>5, <1>6 DEF DeliverNext, Deliver, MarkHeld, Fault, NeverRejects

(* SteadyInv and FirstInv hold where they are to be used.                  *)
LEMMA SteadyAlways ==
  ASSUME OneOperator, NeverRejects
  PROVE  Spec => [](IInv /\ SteadyInv)
<1>1. Init => SteadyInv
  BY DEF Init, SteadyInv
<1>2. IInv /\ SteadyInv /\ [Next]_vars => SteadyInv'
  BY SteadyStep
<1>3. QED
  BY IInvAlways, <1>1, <1>2, PTL DEF Spec

LEMMA FirstAlways ==
  ASSUME OneOperator, NeverRejects, ~ StoreFaults
  PROVE  Spec => []FirstInv
<1>1. Init => FirstInv
  BY DEF Init, FirstInv, DeliveredOnce
<1>2. IInv /\ SteadyInv /\ FirstInv /\ [Next]_vars => FirstInv'
  BY FirstStep
<1>3. QED
  BY SteadyAlways, <1>1, <1>2, PTL DEF Spec

(* An explicit release does not hand a message over a second time either.  *)
THEOREM ReleaseDeliversOnce ==
  ASSUME OneOperator, NeverRejects, ~ StoreFaults
  PROVE  Spec => []DeliveredOnce
<1>1. FirstInv => DeliveredOnce
  BY DEF FirstInv
<1>2. QED
  BY FirstAlways, <1>1, PTL

(* Any number of handlers on any messages, with one operator and nothing   *)
(* that raises or rejects, behave like the inbox of module Inbox.          *)
THEOREM PipelineImplementsInbox ==
  ASSUME OneOperator, NeverRejects, ~ StoreFaults
  PROVE  Spec => ImplementsInbox
<1>1. Init => Promise!Init
  BY ConstantsAssumption DEF Init, Promise!Init, StatusOf
<1>2. /\ IInv /\ SteadyInv /\ FirstInv /\ (IInv /\ SteadyInv)' /\ [Next]_vars
      => [Promise!Next]_(Promise!vars)
  <2> SUFFICES ASSUME IInv, SteadyInv, FirstInv, IInv', SteadyInv', [Next]_vars
               PROVE  [Promise!Next]_(Promise!vars)
    OBVIOUS
  <2>1. CASE UNCHANGED vars
    BY <2>1 DEF vars, storeVars, historyVars, Promise!vars, StatusOf, Undecided, RowStatus
  <2>2. QED
    BY <2>1, HandlerImplements, OperatorImplements, DeliveryImplements DEF Next
<1>3. QED
  BY SteadyAlways, FirstAlways, <1>1, <1>2, PTL DEF Spec, ImplementsInbox, Promise!Spec
----------------------------------------------------------------------------
(* What a refusal leaves behind                                            *)

(* A step of one thread keeps RefusedErased if the message it leaves was   *)
(* not refused, or has no content left.                                    *)
LEMMA ErasedMove ==
  ASSUME IInv, RefusedErased, NEW t \in Thread, NEW m \in Message,
         \A h \in Handler \ {t} : msg'[h] = msg[h],
         t \in Handler => msg[t] \in {m, NoMessage},
         \A n \in Message \ {m} :
           /\ verdict'[n] = verdict[n]
           /\ n \in content' => n \in content
           /\ t \in Handler => msg[t] # n,
         \/ verdict'[m] # "refused"
         \/ m \notin content'
         \/ t \in Handler /\ msg'[t] = m
         \/ t \in Operator /\ verdict'[m] = verdict[m] /\ (m \in content' => m \in content)
  PROVE  RefusedErased'
<1> SUFFICES ASSUME NEW n \in Message, verdict'[n] = "refused",
                    \A h \in Handler : msg'[h] # n, n \in content'
             PROVE  FALSE
  BY DEF RefusedErased, WorkingOn
<1>1. CASE n = m
  BY <1>1, ConstantsAssumption DEF RefusedErased, WorkingOn, Thread
<1>2. CASE n # m
  <2>1. verdict[n] = "refused" /\ n \in content
    BY <1>2
  <2>2. \A h \in Handler : msg[h] # n
    BY <1>2
  <2>3. QED
    BY <2>1, <2>2 DEF RefusedErased, WorkingOn
<1>3. QED
  BY <1>1, <1>2

(* When no store call raises, the pipeline is done with a message its      *)
(* policy refused only once the row carries no content, however handlers   *)
(* and operators interleave.                                               *)
THEOREM RefusalsErase ==
  ASSUME ~ StoreFaults
  PROVE  Spec => []RefusedErased
<1>1. Init => RefusedErased
  BY DEF Init, RefusedErased
<1>2. IInv /\ RefusedErased /\ [Next]_vars => RefusedErased'
  <2> SUFFICES ASSUME IInv, RefusedErased, [Next]_vars PROVE RefusedErased'
    OBVIOUS
  <2>0. TypeOK /\ ControlInv /\ VerdictInv
    BY DEF IInv, PipelineInv
  <2> USE ConstantsAssumption
      DEF Begin, GoTo, Return, Thread, storeVars, engineVars, historyVars
  <2>1. ASSUME NEW h \in Handler, HandlerNext(h) PROVE RefusedErased'
    <3>1. ASSUME NEW m \in Message, Claim(h, m) PROVE RefusedErased'
      BY <2>0, <3>1, ErasedMove DEF Claim, TypeOK, ControlInv
    <3>2. ASSUME NEW m \in Message, Duplicate(h, m) \/ ClaimFails(h, m) PROVE RefusedErased'
      BY <3>2 DEF Duplicate, ClaimFails, RefusedErased, WorkingOn
    <3>3. CASE CountPending(h) \/ RegisterPending(h) \/ ApplyRefuse(h)
      BY <3>3 DEF CountPending, RegisterPending, ApplyRefuse, RefusedErased, WorkingOn
    <3>4. ASSUME msg[h] \in Message, Evaluate(h) PROVE RefusedErased'
      BY <2>0, <3>4, ErasedMove DEF Evaluate, TypeOK
    <3>5. ASSUME msg[h] \in Message, ApplyDrop(h) \/ ApplyHold(h) PROVE RefusedErased'
      <4>1. verdict[msg[h]] # "refused" /\ UNCHANGED <<verdict, content>>
        BY <2>0, <3>5 DEF ApplyDrop, ApplyHold, VerdictInv, VerdictsAt, Dropped, GateDrop
      <4>2. msg' = [msg EXCEPT ![h] = NoMessage]
        BY <3>5 DEF ApplyDrop, ApplyHold
      <4>3. QED
        BY <2>0, <3>5, <4>1, <4>2, ErasedMove DEF TypeOK
    <3>6. ASSUME msg[h] \in Message, EraseContent(h) PROVE RefusedErased'
      BY <2>0, <3>6, ErasedMove DEF EraseContent, TypeOK
    <3>7. QED
      BY <2>0, <2>1, <3>1, <3>2, <3>3, <3>4, <3>5, <3>6, BusyHasMessage
         DEF HandlerNext, Evaluate, ApplyDrop, ApplyHold, EraseContent
  <2>2. ASSUME NEW o \in Operator, OperatorNext(o) PROVE RefusedErased'
    <3>1. UNCHANGED <<content, verdict>> /\ \A h \in Handler : msg'[h] = msg[h]
      BY <2>0, <2>2
         DEF OperatorNext, BeginRelease, BeginRefuse, RefuseHeld, SetPolicy, TypeOK
    <3>2. QED
      BY <3>1 DEF RefusedErased, WorkingOn
  <2>3. ASSUME NEW t \in Thread, DeliverNext(t) PROVE RefusedErased'
    <3>1. ~ Fault(t)
      BY DEF Fault
    <3>2. pc[t] \in DeliveryStep /\ msg[t] \in Message
      BY <2>0, <2>3, <3>1, BusyHasMessage
         DEF DeliverNext, Deliver, MarkQueued, MarkHeld, DeliveryStep
    <3>3. verdict[msg[t]] # "refused"
      BY <2>0, <3>2 DEF VerdictInv, VerdictsAt, DeliveryStep
    <3>4. /\ UNCHANGED <<content, verdict>>
          /\ msg' = msg \/ msg' = [msg EXCEPT ![t] = NoMessage]
      BY <2>3, <3>1 DEF DeliverNext, Deliver, MarkQueued, MarkHeld
    <3>5. QED
      BY <2>0, <3>2, <3>3, <3>4, ErasedMove DEF TypeOK, RefusedErased, WorkingOn
  <2>4. CASE UNCHANGED vars
    BY <2>4 DEF vars, RefusedErased, WorkingOn
  <2>5. QED
    BY <2>1, <2>2, <2>3, <2>4 DEF Next
<1>3. QED
  BY IInvAlways, <1>1, <1>2, PTL DEF Spec
----------------------------------------------------------------------------
(* Capacity                                                                *)

TwoHandlers == \A g, h, k \in Handler : g = h \/ g = k \/ h = k

LEMMA AdmittedIsNat == Cardinality(Admitted) \in Nat /\ IsFiniteSet(Admitted)
<1>1. IsFiniteSet(Admitted)
  BY FiniteAssumption, FS_Subset DEF Admitted, Pending
<1>2. QED
  BY <1>1, FS_CardinalityType

(* A claimed message without a verdict takes a place of its own in the     *)
(* pending count.                                                          *)
LEMMA UndecidedCounted ==
  ASSUME NEW m \in Message, row[m] = "queued", verdict[m] = "none"
  PROVE  Cardinality(Admitted) + 1 <= Cardinality(Pending)
<1>1. Admitted \cup {m} \subseteq Pending /\ m \notin Admitted
  BY DEF Admitted, Pending
<1>2. IsFiniteSet(Pending)
  BY FiniteAssumption, FS_Subset DEF Pending
<1>3. Cardinality(Admitted \cup {m}) = Cardinality(Admitted) + 1
  BY <1>1, AdmittedIsNat, FS_AddElement
<1>4. QED
  BY <1>1, <1>2, <1>3, FS_Subset

LEMMA TwoUndecidedCounted ==
  ASSUME NEW m \in Message, row[m] = "queued", verdict[m] = "none",
         NEW n \in Message, row[n] = "queued", verdict[n] = "none", m # n
  PROVE  Cardinality(Admitted) + 2 <= Cardinality(Pending)
<1>1. /\ (Admitted \cup {m}) \cup {n} \subseteq Pending
      /\ m \notin Admitted /\ n \notin Admitted \cup {m}
  BY DEF Admitted, Pending
<1>2. IsFiniteSet(Pending)
  BY FiniteAssumption, FS_Subset DEF Pending
<1>3. /\ Cardinality(Admitted \cup {m}) = Cardinality(Admitted) + 1
      /\ IsFiniteSet(Admitted \cup {m})
  BY <1>1, AdmittedIsNat, FS_AddElement
<1>4. Cardinality((Admitted \cup {m}) \cup {n}) = Cardinality(Admitted \cup {m}) + 1
  BY <1>1, <1>3, FS_AddElement
<1>5. Cardinality((Admitted \cup {m}) \cup {n}) <= Cardinality(Pending)
  BY <1>1, <1>2, FS_Subset
<1>6. QED
  BY <1>3, <1>4, <1>5, AdmittedIsNat

(* A step that lets nobody in and gives no handler a smaller count.        *)
LEMMA RoomKept ==
  ASSUME TypeOK, TypeOK', RoomInv, Admitted' \subseteq Admitted,
         \A h \in Handler : MayAdmit(h)' => MayAdmit(h),
         \A h \in Handler : Unsaid(h)' => Unsaid(h)
  PROVE  RoomInv'
<1>1. Cardinality(Admitted') <= Cardinality(Admitted) /\ Cardinality(Admitted') \in Nat
  <2>1. IsFiniteSet(Admitted') /\ Cardinality(Admitted') <= Cardinality(Admitted)
    BY AdmittedIsNat, FS_Subset
  <2>2. QED
    BY <2>1, FS_CardinalityType
<1>2. Capacity \in Nat
  BY ConstantsAssumption
<1>3. InboxBounded'
  BY <1>1, <1>2, AdmittedIsNat DEF RoomInv, InboxBounded
<1>4. ASSUME NEW h \in Handler, MayAdmit(h)'
      PROVE  Cardinality(Admitted') + 1 + (IF Unsaid(h)' THEN 1 ELSE 0) <= Capacity
  BY <1>1, <1>2, <1>4, AdmittedIsNat DEF RoomInv
<1>5. ASSUME NEW g \in Handler, NEW h \in Handler, g # h, MayAdmit(g)', MayAdmit(h)'
      PROVE  Cardinality(Admitted') + 2
               + (IF Unsaid(g)' \/ Unsaid(h)' THEN 1 ELSE 0) <= Capacity
  BY <1>1, <1>2, <1>5, AdmittedIsNat DEF RoomInv
<1>6. QED
  BY <1>3, <1>4, <1>5 DEF RoomInv

(* The count a handler reads includes its own message, and the other       *)
(* handler's while that one is not decided.                                *)
LEMMA RoomCounted ==
  ASSUME IInv, SteadyInv, RoomInv, TypeOK', NEW h \in Handler, CountPending(h)
  PROVE  RoomInv'
<1>0. TypeOK /\ ControlInv /\ OwnershipInv /\ VerdictInv
  BY DEF IInv, PipelineInv
<1> USE ConstantsAssumption, AdmittedIsNat, PendingIsNat
<1> DEFINE a == Cardinality(Admitted)
<1>1. ASSUME NEW g \in Handler, pc[g] \in {"count", "register", "evaluate"}
      PROVE  msg[g] \in Message /\ row[msg[g]] = "queued" /\ verdict[msg[g]] = "none"
  BY <1>0, <1>1, BusyHasMessage DEF SteadyInv, RowsAt, VerdictInv, VerdictsAt, Thread
<1>2. /\ pc[h] = "count" /\ pc'[h] = "register"
      /\ counted'[h] = Cardinality(Pending) /\ UNCHANGED <<row, verdict, registered>>
      /\ \A g \in Handler \ {h} :
           pc'[g] = pc[g] /\ counted'[g] = counted[g] /\ engine'[g] = engine[g]
  BY <1>0 DEF CountPending, GoTo, TypeOK, storeVars, historyVars, Thread
<1>3. Cardinality(Admitted)' = a
  BY <1>2 DEF Admitted, Pending
<1>4. \A g \in Handler \ {h} :
        (MayAdmit(g)' <=> MayAdmit(g)) /\ (Unsaid(g)' <=> Unsaid(g))
  BY <1>2 DEF MayAdmit, Unsaid, EnginePending
<1>5. MayAdmit(h)' => a + 2 <= Capacity
  BY <1>1, <1>2, UndecidedCounted DEF MayAdmit, Unsaid
<1>6. ASSUME NEW g \in Handler \ {h}, MayAdmit(g), MayAdmit(h)'
      PROVE  a + 3 <= Capacity
  <2>1. msg[g] # msg[h] /\ pc[g] \in {"register", "evaluate"}
    BY <1>0, <1>2, <1>6 DEF MayAdmit, Unsaid, OwnershipInv
  <2>2. a + 2 <= Cardinality(Pending)
    BY <1>1, <1>2, <2>1, TwoUndecidedCounted
  <2>3. QED
    BY <1>2, <1>6, <2>2 DEF MayAdmit, Unsaid
<1>7. InboxBounded'
  BY <1>3 DEF RoomInv, InboxBounded
<1>8. ASSUME NEW g \in Handler, MayAdmit(g)'
      PROVE  Cardinality(Admitted)' + 1 + (IF Unsaid(g)' THEN 1 ELSE 0) <= Capacity
  BY <1>3, <1>4, <1>5, <1>8 DEF RoomInv
<1>9. ASSUME NEW g \in Handler, NEW k \in Handler, g # k, MayAdmit(g)', MayAdmit(k)'
      PROVE  Cardinality(Admitted)' + 2
               + (IF Unsaid(g)' \/ Unsaid(k)' THEN 1 ELSE 0) <= Capacity
  BY <1>3, <1>4, <1>6, <1>9 DEF RoomInv
<1>10. QED
  BY <1>7, <1>8, <1>9 DEF RoomInv

(* Registering a count may let the other handler in with it: the place     *)
(* kept for that is the one given up.                                      *)
LEMMA RoomRegistered ==
  ASSUME IInv, RoomInv, TypeOK', TwoHandlers, NEW h \in Handler, RegisterPending(h)
  PROVE  RoomInv'
<1>0. TypeOK
  BY DEF IInv
<1> USE ConstantsAssumption, AdmittedIsNat
<1> DEFINE a == Cardinality(Admitted)
<1>1. /\ pc[h] = "register" /\ pc'[h] = "evaluate"
      /\ UNCHANGED <<row, verdict, counted, engine>>
      /\ registered' = IF engine[h] = "shared" THEN counted[h] ELSE registered
      /\ \A g \in Handler \ {h} : pc'[g] = pc[g]
  BY <1>0 DEF RegisterPending, GoTo, TypeOK, storeVars, historyVars, Thread
<1>2. Cardinality(Admitted)' = a
  BY <1>1 DEF Admitted, Pending
<1>3. MayAdmit(h)' => Unsaid(h) /\ MayAdmit(h)
  BY <1>1 DEF MayAdmit, Unsaid, EnginePending
<1>4. ~ Unsaid(h)'
  BY <1>1 DEF Unsaid
<1>5. \A g \in Handler \ {h} : Unsaid(g)' <=> Unsaid(g)
  BY <1>1 DEF Unsaid
<1>6. ASSUME NEW g \in Handler \ {h}, MayAdmit(g)', ~ MayAdmit(g)
      PROVE  Unsaid(h) /\ ~ Unsaid(g)
  BY <1>0, <1>1, <1>6 DEF MayAdmit, Unsaid, EnginePending, TypeOK
<1>7. Unsaid(h) => a + 2 <= Capacity
  BY DEF RoomInv, MayAdmit
<1>8. InboxBounded'
  BY <1>2 DEF RoomInv, InboxBounded
<1>9. ASSUME NEW g \in Handler, MayAdmit(g)'
      PROVE  Cardinality(Admitted)' + 1 + (IF Unsaid(g)' THEN 1 ELSE 0) <= Capacity
  <2>1. CASE g = h
    BY <1>2, <1>3, <1>4, <1>7, <1>9, <2>1
  <2>2. CASE g # h /\ MayAdmit(g)
    BY <1>2, <1>5, <2>2 DEF RoomInv
  <2>3. CASE g # h /\ ~ MayAdmit(g)
    BY <1>2, <1>5, <1>6, <1>7, <1>9, <2>3
  <2>4. QED
    BY <2>1, <2>2, <2>3
<1>10. ASSUME NEW g \in Handler, g # h, MayAdmit(g)', MayAdmit(h)'
       PROVE  a + 2 + (IF Unsaid(g)' THEN 1 ELSE 0) <= Capacity
  <2>1. CASE MayAdmit(g)
    BY <1>3, <1>5, <1>10, <2>1 DEF RoomInv
  <2>2. CASE ~ MayAdmit(g)
    BY <1>5, <1>6, <1>7, <1>10, <2>2
  <2>3. QED
    BY <2>1, <2>2
<1>11. ASSUME NEW g \in Handler, NEW k \in Handler, g # k, MayAdmit(g)', MayAdmit(k)'
       PROVE  Cardinality(Admitted)' + 2
                + (IF Unsaid(g)' \/ Unsaid(k)' THEN 1 ELSE 0) <= Capacity
  <2>1. g = h \/ k = h
    BY <1>11 DEF TwoHandlers
  <2>2. QED
    BY <1>2, <1>4, <1>10, <1>11, <2>1
<1>12. QED
  BY <1>8, <1>9, <1>11 DEF RoomInv

(* A verdict lets one message in at most, and its handler was counted on.  *)
LEMMA RoomEvaluated ==
  ASSUME IInv, RoomInv, TypeOK', TwoHandlers, NEW h \in Handler, Evaluate(h)
  PROVE  RoomInv'
<1>0. TypeOK /\ ControlInv
  BY DEF IInv, PipelineInv
<1> USE ConstantsAssumption, AdmittedIsNat
<1> DEFINE a == Cardinality(Admitted)
<1>1. PICK state \in GateDrops \cup {Decision(h)} :
        /\ GoTo(h, "evaluate", Route(state))
        /\ verdict' = [verdict EXCEPT ![msg[h]] = state]
        /\ UNCHANGED <<storeVars, engineVars, injections, receipt, stranded>>
  BY DEF Evaluate
<1>2. /\ UNCHANGED <<row, registered, counted, engine>>
      /\ pc[h] = "evaluate" /\ pc'[h] \notin {"register", "evaluate"}
      /\ \A g \in Handler \ {h} : pc'[g] = pc[g]
      /\ \A m \in Message \ {msg[h]} : verdict'[m] = verdict[m]
  BY <1>0, <1>1, RouteType DEF GoTo, TypeOK, storeVars, engineVars, Thread
<1>3. ~ MayAdmit(h)' /\ ~ Unsaid(h)'
  BY <1>2 DEF MayAdmit, Unsaid
<1>4. \A g \in Handler \ {h} :
        (MayAdmit(g)' <=> MayAdmit(g)) /\ (Unsaid(g)' <=> Unsaid(g))
  BY <1>2 DEF MayAdmit, Unsaid, EnginePending
<1>5. CASE state \notin {"queued", "held"}
  <2>1. Admitted' \subseteq Admitted
    BY <1>0, <1>1, <1>2, <1>5, BusyHasMessage DEF Admitted, Pending, TypeOK, Thread
  <2>2. QED
    BY <1>0, <1>3, <1>4, <2>1, RoomKept
<1>6. CASE state \in {"queued", "held"}
  <2>1. MayAdmit(h)
    <3>1. state = Decision(h)
      BY <1>1, <1>6 DEF GateDrop
    <3>2. ~ EnginePending(h) >= Capacity
      BY <1>6, <3>1 DEF Decision
    <3>3. EnginePending(h) \in Nat
      BY <1>0 DEF TypeOK, EnginePending
    <3>4. QED
      BY <1>2, <3>2, <3>3 DEF MayAdmit
  <2>2. Admitted' \subseteq Admitted \cup {msg[h]}
    BY <1>2 DEF Admitted, Pending
  <2>3. /\ IsFiniteSet(Admitted \cup {msg[h]})
        /\ Cardinality(Admitted \cup {msg[h]}) <= a + 1
    <3>1. /\ IsFiniteSet(Admitted \cup {msg[h]})
          /\ Cardinality(Admitted \cup {msg[h]}) = IF msg[h] \in Admitted THEN a ELSE a + 1
      BY FS_AddElement
    <3>2. QED
      BY <3>1
  <2>4. Cardinality(Admitted') <= a + 1 /\ Cardinality(Admitted') \in Nat
    <3>1. Cardinality(Admitted') <= Cardinality(Admitted \cup {msg[h]})
      BY <2>2, <2>3, FS_Subset
    <3>2. Cardinality(Admitted') \in Nat /\ Cardinality(Admitted \cup {msg[h]}) \in Nat
      BY <2>2, <2>3, FS_Subset, FS_CardinalityType
    <3>3. QED
      BY <2>3, <3>1, <3>2
  <2>5. InboxBounded'
    BY <2>1, <2>4 DEF RoomInv, InboxBounded, Unsaid
  <2>6. ASSUME NEW g \in Handler, MayAdmit(g)'
        PROVE  Cardinality(Admitted') + 1 + (IF Unsaid(g)' THEN 1 ELSE 0) <= Capacity
    <3>1. g # h /\ MayAdmit(g)
      BY <1>3, <1>4, <2>6
    <3>2. a + 2 + (IF Unsaid(g) THEN 1 ELSE 0) <= Capacity
      BY <2>1, <3>1 DEF RoomInv
    <3>3. QED
      BY <1>4, <2>4, <3>1, <3>2
  <2>7. QED
    BY <1>3, <2>5, <2>6 DEF RoomInv, TwoHandlers
<1>7. QED
  BY <1>5, <1>6

LEMMA RoomStep ==
  ASSUME TwoHandlers, NeverRejects, IInv, SteadyInv, RoomInv, TypeOK', [Next]_vars
  PROVE  RoomInv'
<1>0. TypeOK /\ ControlInv /\ VerdictInv
  BY DEF IInv, PipelineInv
<1> DEFINE Quiet(t) ==
      /\ Admitted' \subseteq Admitted
      /\ UNCHANGED <<registered, engine, counted>>
      /\ pc'[t] \notin {"register", "evaluate"}
      /\ \A u \in Thread \ {t} : pc'[u] = pc[u]
<1>1. ASSUME NEW t \in Thread, Quiet(t) PROVE RoomInv'
  <2>1. \A h \in Handler : MayAdmit(h)' => MayAdmit(h)
    BY <1>1 DEF MayAdmit, Unsaid, EnginePending, Thread
  <2>2. \A h \in Handler : Unsaid(h)' => Unsaid(h)
    BY <1>1 DEF Unsaid, Thread
  <2>3. QED
    BY <1>0, <1>1, <2>1, <2>2, RoomKept
<1> USE DEF Begin, GoTo, Return, Transition, Thread, Step, HandlerStep, DeliveryStep,
            storeVars, engineVars, historyVars
<1>2. ASSUME UNCHANGED <<row, verdict>> PROVE Admitted' \subseteq Admitted
  BY <1>2 DEF Admitted, Pending
<1>3. ASSUME NEW t \in Thread, pc[t] # "idle", NEW s, UNCHANGED verdict,
             row' = [row EXCEPT ![msg[t]] = s],
             verdict[msg[t]] \in {"queued", "held"} => row[msg[t]] \in {"queued", "held"}
      PROVE  Admitted' \subseteq Admitted
  BY <1>0, <1>3, BusyHasMessage DEF Admitted, Pending, TypeOK
<1>4. ASSUME NEW h \in Handler, HandlerNext(h) PROVE RoomInv'
  <2>1. ASSUME NEW m \in Message, Claim(h, m) PROVE RoomInv'
    <3>1. verdict[m] = "none"
      BY <1>0, <2>1 DEF Claim, VerdictInv
    <3>2. Admitted' \subseteq Admitted
      BY <1>0, <2>1, <3>1 DEF Claim, Admitted, Pending, TypeOK
    <3>3. Quiet(h)
      BY <1>0, <2>1, <3>2 DEF Claim, TypeOK
    <3>4. QED
      BY <1>1, <3>3
  <2>2. ASSUME NEW m \in Message, Duplicate(h, m) \/ ClaimFails(h, m) PROVE RoomInv'
    BY <1>0, <1>1, <1>2, <2>2 DEF Duplicate, ClaimFails
  <2>3. CASE CountPending(h)
    BY <2>3, RoomCounted
  <2>4. CASE RegisterPending(h)
    BY <2>4, RoomRegistered
  <2>5. CASE Evaluate(h)
    BY <2>5, RoomEvaluated
  <2>6. CASE ApplyDrop(h) \/ ApplyRefuse(h) \/ ApplyHold(h)
    <3>1. row[msg[h]] = "queued"
      BY <1>0, <2>6, ConstantsAssumption
         DEF ApplyDrop, ApplyRefuse, ApplyHold, SteadyInv, RowsAt
    <3>2. Admitted' \subseteq Admitted
      BY <1>0, <1>3, <2>6, <3>1 DEF ApplyDrop, ApplyRefuse, ApplyHold
    <3>3. Quiet(h)
      BY <1>0, <2>6, <3>2 DEF ApplyDrop, ApplyRefuse, ApplyHold, TypeOK
    <3>4. QED
      BY <1>1, <3>3
  <2>7. CASE EraseContent(h)
    <3>1. Quiet(h)
      BY <1>0, <1>2, <2>7 DEF EraseContent, TypeOK
    <3>2. QED
      BY <1>1, <3>1
  <2>8. QED
    BY <1>4, <2>1, <2>2, <2>3, <2>4, <2>5, <2>6, <2>7 DEF HandlerNext
<1>5. ASSUME NEW o \in Operator, OperatorNext(o) PROVE RoomInv'
  <2>1. ASSUME NEW m \in Message, BeginRelease(o, m) \/ BeginRefuse(o, m)
        PROVE  Quiet(o)
    BY <1>0, <1>2, <2>1 DEF BeginRelease, BeginRefuse, TypeOK
  <2>2. CASE RefuseHeld(o)
    <3>1. row[msg[o]] = "held"
      BY <1>0, <2>2 DEF RefuseHeld, SteadyInv, RowsAt
    <3>2. Admitted' \subseteq Admitted
      BY <1>0, <1>3, <2>2, <3>1 DEF RefuseHeld
    <3>3. QED
      BY <1>0, <1>1, <2>2, <3>2 DEF RefuseHeld, TypeOK
  <2>3. ASSUME NEW p \in SessionPolicies, SetPolicy(o, p) PROVE RoomInv'
    BY <1>0, <1>1, <1>2, <2>3 DEF SetPolicy
  <2>4. QED
    BY <1>1, <1>5, <2>1, <2>2, <2>3 DEF OperatorNext
<1>6. ASSUME NEW t \in Thread, DeliverNext(t) PROVE RoomInv'
  <2>1. CASE Deliver(t) \/ (Fault(t) /\ UNCHANGED row)
    <3>1. Quiet(t)
      BY <1>0, <1>2, <2>1 DEF Deliver, Fault, TypeOK
    <3>2. QED
      BY <1>1, <3>1
  <2>4. CASE Fault(t) /\ ~ UNCHANGED row
    <3>1. pc[t] = "hold" /\ row' = [row EXCEPT ![msg[t]] = "held"] /\ UNCHANGED verdict
      BY <2>4 DEF Fault
    <3>2. row[msg[t]] \in {"queued", "held"}
      BY <1>0, <3>1 DEF SteadyInv, RowsAt
    <3>3. Admitted' \subseteq Admitted
      BY <1>0, <1>3, <3>1, <3>2
    <3>4. Quiet(t)
      BY <1>0, <2>4, <3>1, <3>3 DEF Fault, TypeOK
    <3>5. QED
      BY <1>1, <3>4
  <2>2. CASE MarkQueued(t) \/ MarkHeld(t)
    <3>1. row[msg[t]] \in {"queued", "held"}
      BY <1>0, <2>2 DEF MarkQueued, MarkHeld, SteadyInv, RowsAt
    <3>2. Admitted' \subseteq Admitted
      BY <1>0, <1>3, <2>2, <3>1 DEF MarkQueued, MarkHeld
    <3>3. Quiet(t)
      BY <1>0, <2>2, <3>2 DEF MarkQueued, MarkHeld, TypeOK
    <3>4. QED
      BY <1>1, <3>3
  <2>3. QED
    BY <1>6, <2>1, <2>2, <2>4 DEF DeliverNext
<1>7. CASE UNCHANGED vars
  <2>1. Admitted' \subseteq Admitted /\ UNCHANGED <<registered, engine, counted, pc>>
    BY <1>2, <1>7 DEF vars
  <2>2. QED
    BY <1>0, <2>1, RoomKept DEF MayAdmit, Unsaid, EnginePending
<1>8. QED
  BY <1>4, <1>5, <1>6, <1>7 DEF Next

(* Two handlers, one operator and a host that does not reject never let    *)
(* more in than the capacity, though each may evaluate with the count the  *)
(* other registered, and whichever store call raises.                      *)
THEOREM CapacityHolds ==
  ASSUME OneOperator, NeverRejects, TwoHandlers
  PROVE  Spec => []InboxBounded
<1>1. Init => RoomInv
  <2> SUFFICES ASSUME Init PROVE RoomInv
    OBVIOUS
  <2>1. Admitted = {}
    BY DEF Init, Admitted, Pending
  <2>2. Cardinality(Admitted) = 0
    BY <2>1, FS_EmptySet
  <2>3. \A h \in Handler : ~ MayAdmit(h)
    BY DEF Init, MayAdmit, Unsaid, Thread
  <2>4. QED
    BY <2>2, <2>3, ConstantsAssumption DEF RoomInv, InboxBounded
<1>2. IInv /\ IInv' /\ SteadyInv /\ RoomInv /\ [Next]_vars => RoomInv'
  BY RoomStep DEF IInv
<1>3. RoomInv => InboxBounded
  BY DEF RoomInv
<1>4. QED
  BY IInvAlways, SteadyAlways, <1>1, <1>2, <1>3, PTL DEF Spec
=============================================================================
