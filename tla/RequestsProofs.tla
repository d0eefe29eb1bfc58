--------------------------- MODULE RequestsProofs ---------------------------
(***************************************************************************)
(* Proofs about structured requests: for any processes what the event log  *)
(* may hold, and for one process that requests live by the decision table. *)
(***************************************************************************)
EXTENDS Requests, FiniteSetTheorems, TLAPS

Target == Workflow!RequestState

DbTyped ==
  /\ state \in [Request -> MaybeState]
  /\ keyOf \in [Request -> Key \cup {NoKey}]
  /\ log \in [Request -> Seq(Target)]

ConnTyped ==
  /\ txn \in [Process -> Connection]
  /\ view \in [Process -> [Request -> MaybeState]]

(* A thread that is about to write has a target state.                     *)
ThreadTyped ==
  /\ pc \in [Thread -> Step]
  /\ work \in [Thread -> SUBSET Request]
  /\ goal \in [Thread -> Target \cup {"none"}]
  /\ wanted \in [Thread -> Key \cup {NoKey}]
  /\ \A t \in Thread : pc[t] = "write" => goal[t] \in Target

HistoryTyped == announced \subseteq Request

TypeInv == DbTyped /\ ConnTyped /\ ThreadTyped /\ HistoryTyped

LEMMA TypeInvImpliesTypeOK == TypeInv => TypeOK
BY DEF TypeInv, DbTyped, ConnTyped, ThreadTyped, HistoryTyped, TypeOK, Target,
       Workflow!TypeOK, MaybeState

LEMMA Targets ==
  /\ {"created", "queued", "expired", "cancelled"} \subseteq Target
  /\ Answers \subseteq Target
  /\ Target \subseteq MaybeState
  /\ "none" \notin Target
BY DEF Target, Answers, MaybeState, Workflow!RequestState, Workflow!Active, Workflow!Terminal

LEMMA SeenType ==
  ASSUME DbTyped, ConnTyped, NEW p \in Process
  PROVE  Seen(p) \in [Request -> MaybeState]
BY DEF DbTyped, ConnTyped, Seen

(* What any use of a connection does to the connections.                   *)
LEMMA ConnStep ==
  ASSUME DbTyped, ConnTyped, NEW p \in Process,
         Read(p) \/ Commit(p) \/ Locked(p) \/ Violate(p)
  PROVE  ConnTyped'
<1>1. CASE Read(p) \/ Locked(p) \/ Violate(p)
  BY <1>1 DEF ConnTyped, Connection, Read, Locked, Violate
<1>2. CASE Commit(p)
  BY <1>2 DEF ConnTyped, DbTyped, Connection, Commit
<1>3. QED
  BY <1>1, <1>2

(* What a move of one thread does to the threads.                          *)
LEMMA ThreadStep ==
  ASSUME ThreadTyped, NEW t \in Thread, NEW step \in Step, NEW R \in SUBSET Request,
         NEW target \in Target \cup {"none"}, NEW k \in Key \cup {NoKey},
         step = "write" => target \in Target,
         Become(t, step, R, target, k)
  PROVE  ThreadTyped'
BY DEF ThreadTyped, Become

LEMMA ReturnStep ==
  ASSUME ThreadTyped, NEW t \in Thread, Return(t)
  PROVE  ThreadTyped'
BY ThreadStep DEF Return, Step

(* Every variable keeps its type.                                          *)
LEMMA InitTypeInv == Init => TypeInv
BY RequestsAssumption
   DEF Init, TypeInv, DbTyped, ConnTyped, ThreadTyped, HistoryTyped, Workflow!Init,
       Connection, Step, MaybeState, Nothing

LEMMA TypeInvStep == TypeInv /\ [Next]_vars => TypeInv'
<1> SUFFICES ASSUME TypeInv, [Next]_vars PROVE TypeInv'
  OBVIOUS
<1>0. DbTyped /\ ConnTyped /\ ThreadTyped /\ HistoryTyped
  BY DEF TypeInv
<1>a. \A t \in Thread : Home[t] \in Process
  BY RequestsAssumption
<1> USE DEF TypeInv, dbVars, connVars, threadVars
<1>1. ASSUME NEW t \in Thread, CreateKeyless(t) PROVE TypeInv'
  BY <1>0, <1>1, ThreadStep DEF CreateKeyless, Step, DbTyped, ConnTyped, HistoryTyped
<1>2. ASSUME NEW t \in Thread, NEW k \in Key, LookUp(t, k) PROVE TypeInv'
  <2>1. ThreadTyped'
    BY <1>0, <1>2, ThreadStep DEF LookUp, Step, Holders
  <2>2. ConnTyped'
    BY <1>0, <1>2, <1>a, ConnStep DEF LookUp
  <2>3. QED
    BY <1>0, <1>2, <2>1, <2>2 DEF LookUp, DbTyped, HistoryTyped
<1>3. ASSUME NEW t \in Thread, InsertRow(t) PROVE TypeInv'
  <2>1. PICK r \in Request :
          /\ state' = [state EXCEPT ![r] = "created"]
          /\ keyOf' = [keyOf EXCEPT ![r] = wanted[t]]
          /\ log' = [log EXCEPT ![r] = <<"created">>]
          /\ Become(t, "enqueue", {r}, "none", NoKey)
    BY <1>3 DEF InsertRow
  <2>2. ThreadTyped'
    BY <1>0, <2>1, ThreadStep DEF Step
  <2>3. DbTyped'
    BY <1>0, <2>1, Targets DEF DbTyped, ThreadTyped
  <2>4. ConnTyped'
    BY <1>0, <1>3, <1>a, ConnStep DEF InsertRow
  <2>5. QED
    BY <1>0, <1>3, <2>2, <2>3, <2>4 DEF InsertRow, HistoryTyped
<1>4. ASSUME NEW t \in Thread, InsertConflict(t) PROVE TypeInv'
  <2>1. ThreadTyped' /\ ConnTyped'
    BY <1>0, <1>4, <1>a, ReturnStep, ConnStep DEF InsertConflict
  <2>2. QED
    BY <1>0, <1>4, <2>1 DEF InsertConflict, Taken, DbTyped, HistoryTyped, ThreadTyped
<1>5. ASSUME NEW t \in Thread, Enqueue(t) PROVE TypeInv'
  <2>1. work[t] \in SUBSET Request
    BY <1>0 DEF ThreadTyped
  <2>2. ThreadTyped'
    BY <1>0, <1>5, <2>1, ThreadStep, Targets DEF Enqueue, Step
  <2>3. ConnTyped'
    BY <1>0, <1>5, <1>a, ConnStep DEF Enqueue
  <2>4. QED
    BY <1>0, <1>5, <2>2, <2>3 DEF Enqueue, DbTyped, HistoryTyped
<1>6. ASSUME NEW t \in Thread, Send(t) PROVE TypeInv'
  <2>1. ThreadTyped'
    BY <1>0, <1>6, ReturnStep DEF Send
  <2>2. HistoryTyped'
    BY <1>0, <1>6 DEF Send, HistoryTyped, ThreadTyped
  <2>3. QED
    BY <1>0, <1>6, <2>1, <2>2 DEF Send, DbTyped, ConnTyped
<1>7. ASSUME NEW t \in Thread, NEW r \in Request, NEW target \in Target, Transition(t, r, target)
      PROVE  TypeInv'
  <2>1. ThreadTyped'
    <3>1. CASE Become(t, "write", {r}, target, NoKey)
      BY <1>0, <3>1, ThreadStep DEF Step
    <3>2. CASE UNCHANGED threadVars
      BY <1>0, <3>2 DEF ThreadTyped
    <3>3. QED
      BY <1>7, <3>1, <3>2 DEF Transition
  <2>2. ConnTyped'
    BY <1>0, <1>7, <1>a, ConnStep DEF Transition
  <2>3. QED
    BY <1>0, <1>7, <2>1, <2>2 DEF Transition, DbTyped, HistoryTyped
<1>8. ASSUME NEW t \in Thread, SelectOverdue(t) PROVE TypeInv'
  <2>1. ThreadTyped'
    <3>1. PICK R \in SUBSET Request :
            UNCHANGED threadVars \/ Become(t, "write", R, "expired", NoKey)
      BY <1>8 DEF SelectOverdue
    <3>2. QED
      BY <1>0, <3>1, ThreadStep, Targets DEF Step, ThreadTyped
  <2>2. ConnTyped'
    BY <1>0, <1>8, <1>a, ConnStep DEF SelectOverdue
  <2>3. QED
    BY <1>0, <1>8, <2>1, <2>2 DEF SelectOverdue, DbTyped, HistoryTyped
<1>9. ASSUME NEW t \in Thread, Write(t) PROVE TypeInv'
  <2>1. work[t] \in SUBSET Request /\ goal[t] \in Target
    BY <1>0, <1>9 DEF ThreadTyped, Write
  <2>2. ThreadTyped'
    BY <1>0, <1>9, <2>1, ThreadStep, ReturnStep DEF Write, Step
  <2>3. DbTyped'
    BY <1>0, <1>9, <2>1, Targets DEF Write, DbTyped
  <2>4. ConnTyped'
    BY <1>0, <1>9, <1>a, ConnStep DEF Write
  <2>5. QED
    BY <1>0, <1>9, <2>2, <2>3, <2>4 DEF Write, HistoryTyped
<1>10. ASSUME NEW t \in Thread, WriteFails(t) PROVE TypeInv'
  <2>1. ThreadTyped' /\ ConnTyped'
    BY <1>0, <1>10, <1>a, ReturnStep, ConnStep DEF WriteFails
  <2>2. QED
    BY <1>0, <1>10, <2>1 DEF WriteFails, DbTyped, HistoryTyped
<1>11. ASSUME NEW p \in Process, OtherUse(p) \/ GroupConflict(p) PROVE TypeInv'
  <2>1. ConnTyped'
    BY <1>0, <1>11, ConnStep DEF OtherUse, GroupConflict
  <2>2. QED
    BY <1>0, <1>11, <2>1 DEF OtherUse, GroupConflict, DbTyped, ThreadTyped, HistoryTyped
<1>12. CASE UNCHANGED vars
  BY <1>0, <1>12 DEF vars, DbTyped, ConnTyped, ThreadTyped, HistoryTyped
<1>13. Sender \cup Keyless \cup Recipient \cup Sweeper \subseteq Thread
  BY RequestsAssumption
<1>14. QED
  BY <1>1, <1>2, <1>3, <1>4, <1>5, <1>6, <1>7, <1>8, <1>9, <1>10, <1>11, <1>12, <1>13, Targets
     DEF Next, ThreadNext, Respond, Cancel

LEMMA TypeInvAlways == Spec => []TypeInv
BY InitTypeInv, TypeInvStep, PTL DEF Spec

(* Every variable of the request store keeps its type, for any processes,  *)
(* threads, keys and group conflicts.                                      *)
THEOREM RequestsTypeCorrect == Spec => []TypeOK
BY TypeInvAlways, TypeInvImpliesTypeOK, PTL

----------------------------------------------------------------------------
(* One process: the store lock covers the SELECT and the UPDATE.           *)

LocalInv ==
  /\ \A p \in Process : txn[p] # "stale"
  /\ \A t, u \in Thread : InStore(t) /\ InStore(u) => t = u
  /\ \A t \in Thread : pc[t] = "write" =>
       \A r \in work[t] : Workflow!Legal(state[r], goal[t])

LEMMA LocalInit == Init => LocalInv
BY DEF Init, LocalInv, InStore

(* A thread outside the store moves, or one inside goes on writing.        *)
LEMMA LocalThreadStep ==
  ASSUME TypeInv, LocalInv, \A p, q \in Process : p = q,
         NEW t \in Thread, NEW step \in Step, NEW R \in SUBSET Request,
         NEW target, NEW k,
         Become(t, step, R, target, k),
         LockFree(t) \/ step \notin {"insert", "write"},
         step = "write" => \A r \in R : Workflow!Legal(state[r], target),
         UNCHANGED state
  PROVE  /\ \A i, j \in Thread : InStore(i)' /\ InStore(j)' => i = j
         /\ \A i \in Thread : pc'[i] = "write" =>
              \A r \in work'[i] : Workflow!Legal(state'[r], goal'[i])
<1>1. \A i, j \in Thread : Home[i] = Home[j]
  BY RequestsAssumption
<1>2. \A i \in Thread \ {t} : pc'[i] = pc[i] /\ work'[i] = work[i] /\ goal'[i] = goal[i]
  BY DEF TypeInv, ThreadTyped, Become
<1>3. pc'[t] = step /\ work'[t] = R /\ goal'[t] = target
  BY DEF TypeInv, ThreadTyped, Become
<1>4. \A i, j \in Thread : InStore(i)' /\ InStore(j)' => i = j
  BY <1>1, <1>2, <1>3 DEF LocalInv, LockFree, InStore
<1>5. QED
  BY <1>2, <1>3, <1>4 DEF LocalInv

(* A connection that shares the file with no other never goes stale.       *)
LEMMA LocalConnStep ==
  ASSUME TypeInv, LocalInv, \A p, q \in Process : p = q, NEW p \in Process,
         Read(p) \/ Commit(p) \/ Locked(p) \/ Violate(p)
  PROVE  \A q \in Process : txn'[q] # "stale"
<1>1. \A q \in Process : q = p /\ txn[q] # "stale"
  BY DEF LocalInv
<1>2. QED
  BY <1>1 DEF TypeInv, ConnTyped, Read, Commit, Locked, Violate

(* Every step keeps the decision a thread read true until it writes, and   *)
(* moves requests by the table.                                            *)
LEMMA LocalStep ==
  ASSUME \A p, q \in Process : p = q, TypeInv, LocalInv, [Next]_vars
  PROVE  LocalInv' /\ [Workflow!Next]_state
<1>0. DbTyped /\ ConnTyped /\ ThreadTyped
  BY DEF TypeInv
<1>a. \A t \in Thread : Home[t] \in Process
  BY RequestsAssumption
<1>b. \A p \in Process : Seen(p) = state
  BY DEF LocalInv, Seen
<1> USE DEF dbVars, connVars, threadVars
<1>1. ASSUME NEW t \in Thread, CreateKeyless(t) PROVE LocalInv' /\ UNCHANGED state
  BY <1>1, LocalThreadStep DEF CreateKeyless, Step, LocalInv
<1>2. ASSUME NEW t \in Thread, NEW k \in Key, LookUp(t, k) PROVE LocalInv' /\ UNCHANGED state
  <2>1. PICK step \in {"insert", "enqueue"}, R \in SUBSET Request, j \in Key \cup {NoKey} :
          Become(t, step, R, "none", j)
    BY <1>2 DEF LookUp, Holders
  <2>2. \A q \in Process : txn'[q] # "stale"
    BY <1>2, <1>a, LocalConnStep DEF LookUp
  <2>3. LockFree(t) /\ UNCHANGED state
    BY <1>2 DEF LookUp
  <2>4. step \in Step /\ step # "write"
    BY <2>1 DEF Step
  <2>5. QED
    BY <2>1, <2>2, <2>3, <2>4, LocalThreadStep DEF LocalInv
<1>3. ASSUME NEW t \in Thread, InsertRow(t) PROVE LocalInv' /\ Workflow!Next
  <2>1. PICK r \in Request :
          /\ state[r] = "absent"
          /\ state' = [state EXCEPT ![r] = "created"]
          /\ Become(t, "enqueue", {r}, "none", NoKey)
    BY <1>3 DEF InsertRow
  <2>2. Workflow!Next
    <3>1. Workflow!Legal("absent", "created")
      BY DEF Workflow!Legal, Workflow!Terminal, Workflow!Successors
    <3>2. Workflow!Move({r}, "created")
      BY <1>0, <2>1, <3>1 DEF Workflow!Move, DbTyped
    <3>3. QED
      BY <3>2, Targets DEF Workflow!Next, Target
  <2>3. \A i \in Thread : i # t => ~ InStore(i)
    BY <1>3 DEF InsertRow, LocalInv, InStore
  <2>4. \A i \in Thread : ~ InStore(i)'
    BY <1>0, <2>1, <2>3 DEF Become, ThreadTyped, InStore
  <2>5. \A q \in Process : txn'[q] # "stale"
    BY <1>3, <1>a, LocalConnStep DEF InsertRow
  <2>6. QED
    BY <2>2, <2>4, <2>5 DEF LocalInv, InStore
<1>4. ASSUME NEW t \in Thread, InsertConflict(t) \/ WriteFails(t) PROVE LocalInv' /\ UNCHANGED state
  <2>1. Become(t, "idle", {}, "none", NoKey)
    BY <1>4 DEF InsertConflict, WriteFails, Return
  <2>2. QED
    BY <1>4, <1>a, <2>1, LocalThreadStep, LocalConnStep DEF InsertConflict, WriteFails, Step, LocalInv
<1>5. ASSUME NEW t \in Thread, Enqueue(t) PROVE LocalInv' /\ UNCHANGED state
  <2>1. PICK step \in {"write", "send"}, target \in {"queued", "none"} :
          /\ Become(t, step, work[t], target, NoKey)
          /\ step = "write" => \A r \in work[t] : Workflow!Legal(state[r], target)
    BY <1>5, <1>a, <1>b DEF Enqueue
  <2>2. work[t] \in SUBSET Request
    BY <1>0 DEF ThreadTyped
  <2>3. \A q \in Process : txn'[q] # "stale"
    BY <1>5, <1>a, LocalConnStep DEF Enqueue
  <2>4. LockFree(t) /\ UNCHANGED state
    BY <1>5 DEF Enqueue
  <2>5. QED
    BY <2>1, <2>2, <2>3, <2>4, LocalThreadStep DEF Step, LocalInv
<1>6. ASSUME NEW t \in Thread, Send(t) PROVE LocalInv' /\ UNCHANGED state
  <2>1. Become(t, "idle", {}, "none", NoKey)
    BY <1>6 DEF Send, Return
  <2>2. QED
    BY <1>6, <2>1, LocalThreadStep DEF Send, Step, LocalInv
<1>7. ASSUME NEW t \in Thread, NEW r \in Request, NEW target \in Target, Transition(t, r, target)
      PROVE  LocalInv' /\ UNCHANGED state
  <2>1. \A q \in Process : txn'[q] # "stale"
    BY <1>7, <1>a, LocalConnStep DEF Transition
  <2>2. CASE UNCHANGED threadVars
    BY <1>7, <2>1, <2>2 DEF Transition, LocalInv, InStore
  <2>3. CASE Become(t, "write", {r}, target, NoKey) /\ Workflow!Legal(state[r], target)
    BY <1>7, <2>1, <2>3, LocalThreadStep DEF Transition, Step, LocalInv
  <2>4. QED
    BY <1>7, <1>a, <1>b, <2>2, <2>3 DEF Transition
<1>8. ASSUME NEW t \in Thread, SelectOverdue(t) PROVE LocalInv' /\ UNCHANGED state
  <2>1. \A q \in Process : txn'[q] # "stale"
    BY <1>8, <1>a, LocalConnStep DEF SelectOverdue
  <2>2. PICK R \in SUBSET {r \in Request : state[r] \in Workflow!Active} :
          UNCHANGED threadVars \/ Become(t, "write", R, "expired", NoKey)
    BY <1>8, <1>a, <1>b DEF SelectOverdue
  <2>3. \A r \in R : Workflow!Legal(state[r], "expired")
    BY <2>2 DEF Workflow!Active, Workflow!Legal, Workflow!Terminal, Workflow!Successors
  <2>4. CASE UNCHANGED threadVars
    BY <1>8, <2>1, <2>4 DEF SelectOverdue, LocalInv, InStore
  <2>5. CASE Become(t, "write", R, "expired", NoKey)
    BY <1>8, <2>1, <2>2, <2>3, <2>5, LocalThreadStep DEF SelectOverdue, Step, LocalInv
  <2>6. QED
    BY <2>2, <2>4, <2>5
<1>9. ASSUME NEW t \in Thread, Write(t) PROVE LocalInv' /\ Workflow!Next
  <2>1. work[t] \in SUBSET Request /\ goal[t] \in Target
    BY <1>0, <1>9 DEF ThreadTyped, Write
  <2>2. Workflow!Next
    BY <1>9, <2>1 DEF Write, LocalInv, Workflow!Next, Workflow!Move, Target
  <2>3. \A i \in Thread : i # t => ~ InStore(i)
    BY <1>9 DEF Write, LocalInv, InStore
  <2>4. \A i \in Thread : ~ InStore(i)'
    BY <1>0, <1>9, <2>3 DEF Write, Return, Become, ThreadTyped, InStore
  <2>5. \A q \in Process : txn'[q] # "stale"
    BY <1>9, <1>a, LocalConnStep DEF Write
  <2>6. QED
    BY <2>2, <2>4, <2>5 DEF LocalInv, InStore
<1>10. ASSUME NEW p \in Process, OtherUse(p) \/ GroupConflict(p) PROVE LocalInv' /\ UNCHANGED state
  BY <1>10, LocalConnStep DEF OtherUse, GroupConflict, LocalInv, InStore
<1>11. CASE UNCHANGED vars
  BY <1>11 DEF vars, LocalInv, InStore
<1>12. Sender \cup Keyless \cup Recipient \cup Sweeper \subseteq Thread
  BY RequestsAssumption
<1>13. QED
  BY <1>1, <1>2, <1>3, <1>4, <1>5, <1>6, <1>7, <1>8, <1>9, <1>10, <1>11, <1>12, Targets
     DEF Next, ThreadNext, Respond, Cancel

(* In one process, whatever its threads do and whatever becomes of its     *)
(* transactions, requests live by the decision table.                      *)
THEOREM OneProcessRefines ==
  ASSUME \A p, q \in Process : p = q
  PROVE  Spec => ImplementsWorkflow
<1>1. Init => Workflow!Init
  BY DEF Init
<1>2. TypeInv /\ LocalInv /\ [Next]_vars => LocalInv' /\ [Workflow!Next]_state
  BY LocalStep
<1>3. QED
  BY TypeInvAlways, LocalInit, <1>1, <1>2, PTL DEF Spec, ImplementsWorkflow, Workflow!Spec

(* In one process a request that has ended stays as it ended.              *)
THEOREM OneProcessFreezes ==
  ASSUME \A p, q \in Process : p = q
  PROVE  Spec => TerminalFrozen
<1>1. [Workflow!Next]_state =>
        [\A r \in Request : state[r] \in Workflow!Terminal => state'[r] = state[r]]_state
  BY DEF Workflow!Next, Workflow!Move, Workflow!Legal
<1>2. QED
  BY OneProcessRefines, <1>1, PTL
     DEF ImplementsWorkflow, Workflow!Spec, TerminalFrozen, Workflow!TerminalFrozen

----------------------------------------------------------------------------
(* Any number of processes: a decision rests on a state that was logged.   *)

Logged(events) == {events[i] : i \in 1 .. Len(events)}

(* What a connection shows of a request has been in its log.               *)
SeenInv ==
  /\ \A r \in Request : state[r] \in {"absent"} \cup Logged(log[r])
  /\ \A r \in Request : state[r] = "absent" => log[r] = <<>>
  /\ \A p \in Process, r \in Request : view[p][r] \in {"absent"} \cup Logged(log[r])

(* And so has the state a thread that is about to write has read.          *)
Decided(events, target) == \E s \in Logged(events) : Workflow!Legal(s, target)
DecisionInv ==
  \A t \in Thread : pc[t] = "write" => \A r \in work[t] : Decided(log[r], goal[t])

LogInv == SeenInv /\ DecisionInv /\ LoggedDecisions

LEMMA LogInit == Init => LogInv
BY DEF Init, LogInv, SeenInv, DecisionInv, LoggedDecisions, Workflow!Init, Nothing

(* Only a create may follow the absence of a row.                          *)
LEMMA AbsentLeadsNowhere ==
  ASSUME NEW target, Workflow!Legal("absent", target)
  PROVE  target = "created"
BY DEF Workflow!Legal, Workflow!Successors

LEMMA SeenDecides ==
  ASSUME SeenInv, NEW p \in Process, NEW r \in Request, NEW target,
         target # "created", Workflow!Legal(Seen(p)[r], target)
  PROVE  Decided(log[r], target)
<1>1. Seen(p)[r] \in {"absent"} \cup Logged(log[r])
  BY DEF SeenInv, Seen
<1>2. QED
  BY <1>1, AbsentLeadsNowhere DEF Decided

LEMMA ViewStep ==
  ASSUME ConnTyped, NEW p \in Process,
         Read(p) \/ Commit(p) \/ Locked(p) \/ Violate(p)
  PROVE  \A q \in Process : view'[q] \in {view[q], state}
BY DEF ConnTyped, Read, Commit, Locked, Violate

(* A log that grows by one keeps what it had.                              *)
LEMMA LoggedAppend ==
  ASSUME NEW events \in Seq(Target), NEW target \in Target
  PROVE  /\ Append(events, target) \in Seq(Target)
         /\ Logged(Append(events, target)) = Logged(events) \cup {target}
         /\ Len(Append(events, target)) = Len(events) + 1
         /\ \A i \in 1 .. Len(events) : Append(events, target)[i] = events[i]
         /\ Append(events, target)[Len(events) + 1] = target
BY DEF Logged

(* What LoggedDecisions says of one log.                                   *)
Founded(events) ==
  \A i \in 2 .. Len(events) : \E j \in 1 .. i - 1 : Workflow!Legal(events[j], events[i])

LEMMA FoundedAppend ==
  ASSUME NEW events \in Seq(Target), NEW target \in Target,
         Founded(events), Decided(events, target)
  PROVE  Founded(Append(events, target))
<1> DEFINE longer == Append(events, target)
<1>1. PICK k \in 1 .. Len(events) : Workflow!Legal(events[k], target)
  BY DEF Decided, Logged
<1>2. SUFFICES ASSUME NEW i \in 2 .. Len(longer)
               PROVE  \E j \in 1 .. i - 1 : Workflow!Legal(longer[j], longer[i])
  BY DEF Founded
<1>3. CASE i \in 2 .. Len(events)
  <2>1. PICK j \in 1 .. i - 1 : Workflow!Legal(events[j], events[i])
    BY <1>3 DEF Founded
  <2>2. longer[j] = events[j] /\ longer[i] = events[i]
    BY <1>3, LoggedAppend
  <2>3. QED
    BY <2>1, <2>2
<1>4. CASE i = Len(events) + 1
  <2>1. longer[k] = events[k] /\ longer[i] = target
    BY <1>4, LoggedAppend
  <2>2. QED
    BY <1>1, <1>4, <2>1
<1>5. QED
  BY <1>3, <1>4, LoggedAppend

(* A step that writes no request: what matters is what a thread decided.   *)
LEMMA LogReadStep ==
  ASSUME LogInv, UNCHANGED <<state, log>>,
         \A p \in Process : view'[p] \in {view[p], state},
         \A t \in Thread : pc'[t] = "write" =>
           \/ pc[t] = "write" /\ work'[t] = work[t] /\ goal'[t] = goal[t]
           \/ \A r \in work'[t] : Decided(log[r], goal'[t])
  PROVE  LogInv'
<1>1. SeenInv'
  BY DEF LogInv, SeenInv
<1>2. DecisionInv'
  BY DEF LogInv, DecisionInv
<1>3. LoggedDecisions'
  BY DEF LogInv, LoggedDecisions
<1>4. QED
  BY <1>1, <1>2, <1>3 DEF LogInv

(* One thread moves, and nothing is written.                               *)
LEMMA LogMoveStep ==
  ASSUME LogInv, ThreadTyped, UNCHANGED <<state, log>>,
         \A p \in Process : view'[p] \in {view[p], state},
         NEW t \in Thread, NEW step, NEW R, NEW target, NEW k,
         Become(t, step, R, target, k),
         step = "write" => \A r \in R : Decided(log[r], target)
  PROVE  LogInv'
<1>1. \A u \in Thread : pc'[u] = "write" =>
        \/ pc[u] = "write" /\ work'[u] = work[u] /\ goal'[u] = goal[u]
        \/ \A r \in work'[u] : Decided(log[r], goal'[u])
  BY DEF Become, ThreadTyped
<1>2. QED
  BY <1>1, LogReadStep

(* A step that writes: logs grow at the end, by what was decided.          *)
LEMMA LogWriteStep ==
  ASSUME LogInv, DbTyped, ThreadTyped, NEW t \in Thread,
         NEW R \in SUBSET Request, NEW target \in Target,
         \A r \in R : Founded(Append(log[r], target)),
         state' = [r \in Request |-> IF r \in R THEN target ELSE state[r]],
         log' = [r \in Request |-> IF r \in R THEN Append(log[r], target) ELSE log[r]],
         \A q \in Process : view'[q] \in {view[q], state},
         pc'[t] # "write",
         \A u \in Thread \ {t} : pc'[u] = pc[u] /\ work'[u] = work[u] /\ goal'[u] = goal[u]
  PROVE  LogInv'
<1>1. \A r \in Request : Logged(log[r]) \subseteq Logged(log'[r])
  BY LoggedAppend DEF DbTyped
<1>2. \A r \in R : target \in Logged(log'[r])
  BY LoggedAppend DEF DbTyped
<1>3. "absent" \notin Target
  BY DEF Target, Workflow!RequestState, Workflow!Active, Workflow!Terminal
<1>4. SeenInv'
  BY <1>1, <1>2, <1>3 DEF LogInv, SeenInv, DbTyped
<1>5. DecisionInv'
  <2> SUFFICES ASSUME NEW u \in Thread, pc'[u] = "write", NEW r \in work'[u]
               PROVE  Decided(log'[r], goal'[u])
    BY DEF DecisionInv
  <2>1. u # t /\ r \in Request /\ Decided(log[r], goal'[u])
    BY DEF LogInv, DecisionInv, ThreadTyped
  <2>2. QED
    BY <1>1, <2>1 DEF Decided
<1>6. LoggedDecisions'
  <2>1. \A r \in Request : Founded(log'[r])
    BY DEF LogInv, LoggedDecisions, Founded
  <2>2. QED
    BY <2>1 DEF LoggedDecisions, Founded
<1>7. QED
  BY <1>4, <1>5, <1>6 DEF LogInv

LEMMA LogInvStep ==
  ASSUME TypeInv, LogInv, [Next]_vars
  PROVE  LogInv'
<1>0. DbTyped /\ ConnTyped /\ ThreadTyped /\ SeenInv
  BY DEF TypeInv, LogInv
<1>a. \A t \in Thread : Home[t] \in Process
  BY RequestsAssumption
<1>b. \A p \in Process : view[p] \in {view[p], state}
  OBVIOUS
<1> USE DEF dbVars, connVars, threadVars
<1>1. ASSUME NEW t \in Thread, CreateKeyless(t) PROVE LogInv'
  <2>1. Become(t, "insert", {}, "none", NoKey) /\ UNCHANGED <<state, log, view>>
    BY <1>1 DEF CreateKeyless
  <2>2. QED
    BY <1>0, <2>1, LogMoveStep
<1>2. ASSUME NEW t \in Thread, NEW k \in Key, LookUp(t, k) PROVE LogInv'
  <2>1. PICK step, R, j :
          step \in {"insert", "enqueue"} /\ Become(t, step, R, "none", j)
    BY <1>2 DEF LookUp
  <2>2. UNCHANGED <<state, log>> /\ \A p \in Process : view'[p] \in {view[p], state}
    BY <1>0, <1>2, <1>a, ViewStep DEF LookUp
  <2>3. QED
    BY <1>0, <2>1, <2>2, LogMoveStep
<1>3. ASSUME NEW t \in Thread, InsertRow(t) PROVE LogInv'
  <2>1. PICK r \in Request :
          /\ state[r] = "absent"
          /\ state' = [state EXCEPT ![r] = "created"]
          /\ log' = [log EXCEPT ![r] = <<"created">>]
          /\ Become(t, "enqueue", {r}, "none", NoKey)
    BY <1>3 DEF InsertRow
  <2>2. Append(log[r], "created") = <<"created">> /\ Founded(<<"created">>)
    <3>1. log[r] = <<>>
      BY <1>0, <2>1 DEF SeenInv
    <3>2. Append(<<>>, "created") = <<"created">>
      OBVIOUS
    <3>3. Len(<<"created">>) = 1
      OBVIOUS
    <3>4. Founded(<<"created">>)
      BY <3>3 DEF Founded
    <3>5. QED
      BY <3>1, <3>2, <3>4
  <2>3. /\ state' = [i \in Request |-> IF i \in {r} THEN "created" ELSE state[i]]
        /\ log' = [i \in Request |-> IF i \in {r} THEN Append(log[i], "created") ELSE log[i]]
    BY <1>0, <2>1, <2>2 DEF DbTyped
  <2>4. \A p \in Process : view'[p] \in {view[p], state}
    BY <1>0, <1>3, <1>a, ViewStep DEF InsertRow
  <2>5. pc'[t] # "write" /\ \A u \in Thread \ {t} :
          pc'[u] = pc[u] /\ work'[u] = work[u] /\ goal'[u] = goal[u]
    BY <1>0, <2>1 DEF Become, ThreadTyped
  <2>6. \A i \in {r} : Founded(Append(log[i], "created"))
    BY <2>2
  <2>7. "created" \in Target /\ {r} \in SUBSET Request
    BY Targets
  <2>8. QED
    BY <1>0, <1>a, <2>3, <2>4, <2>5, <2>6, <2>7, LogWriteStep
<1>4. ASSUME NEW t \in Thread, InsertConflict(t) \/ WriteFails(t) PROVE LogInv'
  <2>1. Become(t, "idle", {}, "none", NoKey) /\ UNCHANGED <<state, log>>
    BY <1>4 DEF InsertConflict, WriteFails, Return
  <2>2. \A p \in Process : view'[p] \in {view[p], state}
    BY <1>0, <1>4, <1>a, ViewStep DEF InsertConflict, WriteFails
  <2>3. QED
    BY <1>0, <2>1, <2>2, LogMoveStep
<1>5. ASSUME NEW t \in Thread, Enqueue(t) PROVE LogInv'
  <2>1. PICK step \in {"write", "send"}, target \in {"queued", "none"} :
          /\ Become(t, step, work[t], target, NoKey)
          /\ step = "write" => \A r \in work[t] :
               target = "queued" /\ Workflow!Legal(Seen(Home[t])[r], target)
    BY <1>5 DEF Enqueue
  <2>2. work[t] \in SUBSET Request
    BY <1>0 DEF ThreadTyped
  <2>3. step = "write" => \A r \in work[t] : Decided(log[r], target)
    BY <1>0, <1>a, <2>1, <2>2, SeenDecides
  <2>4. UNCHANGED <<state, log>> /\ \A p \in Process : view'[p] \in {view[p], state}
    BY <1>0, <1>5, <1>a, ViewStep DEF Enqueue
  <2>5. QED
    BY <1>0, <2>1, <2>3, <2>4, LogMoveStep
<1>6. ASSUME NEW t \in Thread, Send(t) PROVE LogInv'
  <2>1. Become(t, "idle", {}, "none", NoKey) /\ UNCHANGED <<state, log, view>>
    BY <1>6 DEF Send, Return
  <2>2. QED
    BY <1>0, <2>1, LogMoveStep
<1>7. ASSUME NEW t \in Thread, NEW r \in Request, NEW target, target # "created",
             Transition(t, r, target)
      PROVE  LogInv'
  <2>1. UNCHANGED <<state, log>> /\ \A p \in Process : view'[p] \in {view[p], state}
    BY <1>0, <1>7, <1>a, ViewStep DEF Transition
  <2>2. CASE UNCHANGED threadVars
    BY <2>1, <2>2, LogReadStep
  <2>3. CASE Become(t, "write", {r}, target, NoKey) /\ Workflow!Legal(Seen(Home[t])[r], target)
    <3>1. Decided(log[r], target)
      BY <1>0, <1>7, <1>a, <2>3, SeenDecides
    <3>2. QED
      BY <1>0, <2>1, <2>3, <3>1, LogMoveStep
  <2>4. QED
    BY <1>7, <2>2, <2>3 DEF Transition
<1>8. ASSUME NEW t \in Thread, SelectOverdue(t) PROVE LogInv'
  <2>1. UNCHANGED <<state, log>> /\ \A p \in Process : view'[p] \in {view[p], state}
    BY <1>0, <1>8, <1>a, ViewStep DEF SelectOverdue
  <2>2. CASE UNCHANGED threadVars
    BY <2>1, <2>2, LogReadStep
  <2>3. ASSUME NEW R \in SUBSET {r \in Request : Seen(Home[t])[r] \in Workflow!Active},
               Become(t, "write", R, "expired", NoKey)
        PROVE  LogInv'
    <3>1. \A r \in R : Workflow!Legal(Seen(Home[t])[r], "expired")
      BY <2>3 DEF Workflow!Active, Workflow!Legal, Workflow!Terminal, Workflow!Successors
    <3>2. \A r \in R : Decided(log[r], "expired")
      BY <1>0, <1>a, <3>1, SeenDecides
    <3>3. QED
      BY <1>0, <2>1, <2>3, <3>2, LogMoveStep
  <2>4. QED
    BY <1>8, <2>2, <2>3 DEF SelectOverdue
<1>9. ASSUME NEW t \in Thread, Write(t) PROVE LogInv'
  <2>1. work[t] \in SUBSET Request /\ goal[t] \in Target /\ \A r \in work[t] : Decided(log[r], goal[t])
    BY <1>0, <1>9 DEF ThreadTyped, Write, LogInv, DecisionInv
  <2>2. \A r \in work[t] : Founded(Append(log[r], goal[t]))
    <3> SUFFICES ASSUME NEW r \in work[t] PROVE Founded(Append(log[r], goal[t]))
      OBVIOUS
    <3>1. log[r] \in Seq(Target)
      BY <1>0, <2>1 DEF DbTyped
    <3>2. Founded(log[r])
      BY <2>1 DEF LogInv, LoggedDecisions, Founded
    <3>3. QED
      BY <2>1, <3>1, <3>2, FoundedAppend
  <2>3. pc'[t] # "write" /\ \A u \in Thread \ {t} :
          pc'[u] = pc[u] /\ work'[u] = work[u] /\ goal'[u] = goal[u]
    BY <1>0, <1>9 DEF Write, Return, Become, ThreadTyped
  <2>4. \A p \in Process : view'[p] \in {view[p], state}
    BY <1>0, <1>9, <1>a, ViewStep DEF Write
  <2>5. /\ state' = [r \in Request |-> IF r \in work[t] THEN goal[t] ELSE state[r]]
        /\ log' = [r \in Request |-> IF r \in work[t] THEN Append(log[r], goal[t]) ELSE log[r]]
    BY <1>9 DEF Write
  <2>6. QED
    BY <1>0, <1>a, <2>1, <2>2, <2>3, <2>4, <2>5, LogWriteStep
<1>10. ASSUME NEW p \in Process, OtherUse(p) \/ GroupConflict(p) PROVE LogInv'
  <2>1. UNCHANGED <<state, log, pc, work, goal>>
    BY <1>10 DEF OtherUse, GroupConflict
  <2>2. \A q \in Process : view'[q] \in {view[q], state}
    BY <1>0, <1>10, ViewStep DEF OtherUse, GroupConflict
  <2>3. QED
    BY <2>1, <2>2, LogReadStep
<1>11. CASE UNCHANGED vars
  BY <1>11, LogReadStep DEF vars
<1>12. Sender \cup Keyless \cup Recipient \cup Sweeper \subseteq Thread
  BY RequestsAssumption
<1>13. "cancelled" # "created" /\ "created" \notin Answers
  BY DEF Answers
<1>14. QED
  BY <1>1, <1>2, <1>3, <1>4, <1>5, <1>6, <1>7, <1>8, <1>9, <1>10, <1>11, <1>12, <1>13
     DEF Next, ThreadNext, Respond, Cancel

(* However many processes share the file, every state that is ever logged  *)
(* for a request follows by the decision table from one logged before it.  *)
THEOREM DecisionsAreLogged == Spec => []LoggedDecisions
<1>1. LogInv => LoggedDecisions
  BY DEF LogInv
<1>2. TypeInv /\ LogInv /\ [Next]_vars => LogInv'
  BY LogInvStep
<1>3. QED
  BY TypeInvAlways, LogInit, <1>1, <1>2, PTL DEF Spec

----------------------------------------------------------------------------
(* Keys and envelopes, with any number of processes                        *)

(* A connection never loses sight of a row it has shown.                   *)
LEMMA SeenKept ==
  ASSUME TypeInv, SeenInv, [Next]_vars
  PROVE  \A p \in Process, r \in Request :
           Seen(p)[r] # "absent" => Seen(p)'[r] # "absent"
<1>0. DbTyped /\ ConnTyped /\ ThreadTyped
  BY DEF TypeInv
<1>a. \A t \in Thread : Home[t] \in Process
  BY RequestsAssumption
<1>b. "absent" \notin Target
  BY DEF Target, Workflow!RequestState, Workflow!Active, Workflow!Terminal
<1> USE DEF dbVars, connVars, threadVars
<1>1. \A r \in Request : state[r] # "absent" => state'[r] # "absent"
  <2>1. ASSUME NEW t \in Thread, InsertRow(t)
        PROVE  \A r \in Request : state[r] # "absent" => state'[r] # "absent"
    BY <1>0, <2>1 DEF InsertRow, DbTyped
  <2>2. ASSUME NEW t \in Thread, Write(t)
        PROVE  \A r \in Request : state[r] # "absent" => state'[r] # "absent"
    BY <1>0, <1>b, <2>2 DEF Write, ThreadTyped
  <2>3. ASSUME UNCHANGED state
        PROVE  \A r \in Request : state[r] # "absent" => state'[r] # "absent"
    BY <2>3
  <2>4. QED
    BY <2>1, <2>2, <2>3
       DEF Next, ThreadNext, Respond, Cancel, vars, CreateKeyless, LookUp,
           InsertConflict, Enqueue, Send, Transition, SelectOverdue, WriteFails,
           OtherUse, GroupConflict
<1>2. \/ UNCHANGED <<txn, view>>
      \/ \E p \in Process : Read(p) \/ Commit(p) \/ Locked(p) \/ Violate(p)
  <2>1. Sender \cup Keyless \cup Recipient \cup Sweeper \subseteq Thread
    BY RequestsAssumption
  <2>2. QED
    BY <1>a, <2>1
       DEF Next, ThreadNext, Respond, Cancel, vars, CreateKeyless, LookUp,
           InsertRow, InsertConflict, Enqueue, Send, Write, Transition, SelectOverdue,
           WriteFails, OtherUse, GroupConflict
<1>3. \A p \in Process, r \in Request : view[p][r] # "absent" => state[r] # "absent"
  BY DEF SeenInv, Logged
<1>4. \A p \in Process :
        \/ txn'[p] # "stale"
        \/ txn[p] = "stale" /\ view'[p] = view[p]
        \/ txn[p] # "stale" /\ view'[p] = state
  BY <1>0, <1>2 DEF ConnTyped, Connection, Read, Commit, Locked, Violate
<1>5. QED
  BY <1>1, <1>3, <1>4 DEF Seen

(* Two rows never hold one key.                                            *)
UniqueKeys ==
  \A r, s \in Request :
    /\ state[r] # "absent" /\ state[s] # "absent"
    /\ keyOf[r] = keyOf[s] /\ keyOf[r] # NoKey
    => r = s

FirstCreated == \A r \in Request : log[r] # <<>> => log[r][1] = "created"

(* Creates enqueue one request, which their connection shows.              *)
EnqueueInv ==
  \A t \in Thread : pc[t] = "enqueue" =>
    \A r, s \in work[t] : r = s /\ Seen(Home[t])[r] # "absent"

SendInv == \A t \in Thread : pc[t] = "send" => \A r \in work[t] : Len(log[r]) >= 2

KeyInv == UniqueKeys /\ FirstCreated /\ EnqueueInv /\ SendInv /\ AnnouncedMeansEnqueued

LEMMA KeyInit == Init => KeyInv
BY DEF Init, KeyInv, UniqueKeys, FirstCreated, EnqueueInv, SendInv,
       AnnouncedMeansEnqueued, Workflow!Init

(* A step that writes no row.                                              *)
LEMMA KeyReadStep ==
  ASSUME TypeInv, KeyInv, UNCHANGED dbVars,
         \A p \in Process, r \in Request :
           Seen(p)[r] # "absent" => Seen(p)'[r] # "absent",
         \A r \in announced' \ announced : Len(log[r]) >= 2,
         \A t \in Thread :
           \/ pc'[t] \notin {"enqueue", "send"}
           \/ pc'[t] = pc[t] /\ work'[t] = work[t]
           \/ pc'[t] = "enqueue" /\
                \A r, s \in work'[t] : r = s /\ Seen(Home[t])'[r] # "absent"
           \/ pc'[t] = "send" /\ \A r \in work'[t] : Len(log[r]) >= 2
  PROVE  KeyInv'
<1>0. ThreadTyped /\ \A t \in Thread : Home[t] \in Process
  BY RequestsAssumption DEF TypeInv
<1>1. UniqueKeys' /\ FirstCreated'
  BY DEF KeyInv, UniqueKeys, FirstCreated, dbVars
<1>2. EnqueueInv'
  <2> SUFFICES ASSUME NEW t \in Thread, pc'[t] = "enqueue", NEW r \in work'[t], NEW s \in work'[t]
               PROVE  r = s /\ Seen(Home[t])'[r] # "absent"
    BY DEF EnqueueInv
  <2>1. CASE pc'[t] = pc[t] /\ work'[t] = work[t]
    BY <1>0, <2>1 DEF KeyInv, EnqueueInv, ThreadTyped
  <2>2. QED
    BY <2>1
<1>3. SendInv'
  BY DEF KeyInv, SendInv, dbVars
<1>4. AnnouncedMeansEnqueued'
  BY DEF KeyInv, AnnouncedMeansEnqueued, dbVars
<1>5. QED
  BY <1>1, <1>2, <1>3, <1>4 DEF KeyInv

(* One thread moves, and no row is written.                                *)
LEMMA KeyMoveStep ==
  ASSUME TypeInv, KeyInv, UNCHANGED dbVars, UNCHANGED announced,
         \A p \in Process, r \in Request :
           Seen(p)[r] # "absent" => Seen(p)'[r] # "absent",
         NEW t \in Thread, NEW step, NEW R, NEW target, NEW k,
         Become(t, step, R, target, k),
         step = "enqueue" => \A r, s \in R : r = s /\ Seen(Home[t])'[r] # "absent",
         step = "send" => \A r \in R : Len(log[r]) >= 2
  PROVE  KeyInv'
<1>1. ThreadTyped
  BY DEF TypeInv
<1>2. pc'[t] = step /\ work'[t] = R
  BY <1>1 DEF ThreadTyped, Become
<1>3. \A u \in Thread \ {t} : pc'[u] = pc[u] /\ work'[u] = work[u]
  BY <1>1 DEF ThreadTyped, Become
<1>4. QED
  BY <1>2, <1>3, KeyReadStep

(* A request whose row shows another state than `created' was logged twice.*)
LEMMA LoggedTwice ==
  ASSUME TypeInv, LogInv, KeyInv, NEW r \in Request, NEW s \in Logged(log[r]), s # "created"
  PROVE  Len(log[r]) >= 2
<1>1. log[r] \in Seq(Target)
  BY DEF TypeInv, DbTyped
<1>2. PICK i \in 1 .. Len(log[r]) : log[r][i] = s
  BY DEF Logged
<1>3. log[r] # <<>>
  BY <1>1, <1>2
<1>4. i # 1
  BY <1>2, <1>3 DEF KeyInv, FirstCreated
<1>5. QED
  BY <1>1, <1>2, <1>4

LEMMA KeyInvStep ==
  ASSUME TypeInv, LogInv, KeyInv, [Next]_vars
  PROVE  KeyInv'
<1>0. DbTyped /\ ConnTyped /\ ThreadTyped /\ HistoryTyped /\ SeenInv
  BY DEF TypeInv, LogInv
<1>a. \A t \in Thread : Home[t] \in Process
  BY RequestsAssumption
<1>k. \A p \in Process, r \in Request : Seen(p)[r] # "absent" => Seen(p)'[r] # "absent"
  BY <1>0, SeenKept
<1>p. \A p \in Process, r \in Request : Seen(p)[r] # "absent" => state[r] # "absent"
  BY <1>0 DEF SeenInv, Seen, Logged
<1>1. ASSUME NEW t \in Thread, CreateKeyless(t) PROVE KeyInv'
  BY <1>1, <1>k, KeyMoveStep DEF CreateKeyless
<1>2. ASSUME NEW t \in Thread, NEW k \in Key, LookUp(t, k) PROVE KeyInv'
  <2> DEFINE found == Holders(k, Seen(Home[t]))
  <2>1. \A r, s \in found : r = s /\ Seen(Home[t])'[r] # "absent"
    <3>1. \A r \in found : r \in Request /\ keyOf[r] = k /\ Seen(Home[t])[r] # "absent"
      BY DEF Holders
    <3>2. k # NoKey
      BY RequestsAssumption
    <3>3. QED
      BY <1>a, <1>k, <1>p, <3>1, <3>2 DEF KeyInv, UniqueKeys
  <2>2. PICK step \in {"insert", "enqueue"}, R \in {{}, found}, j \in {k, NoKey} :
          Become(t, step, R, "none", j)
    BY <1>2 DEF LookUp
  <2>3. \A r, s \in R : r = s /\ Seen(Home[t])'[r] # "absent"
    BY <2>1, <2>2
  <2>4. UNCHANGED dbVars /\ UNCHANGED announced
    BY <1>2 DEF LookUp
  <2>5. QED
    BY <1>k, <2>2, <2>3, <2>4, KeyMoveStep
<1>3. ASSUME NEW t \in Thread, InsertRow(t) PROVE KeyInv'
  <2>1. PICK r \in Request :
          /\ state[r] = "absent"
          /\ state' = [state EXCEPT ![r] = "created"]
          /\ keyOf' = [keyOf EXCEPT ![r] = wanted[t]]
          /\ log' = [log EXCEPT ![r] = <<"created">>]
          /\ Become(t, "enqueue", {r}, "none", NoKey)
    BY <1>3 DEF InsertRow
  <2>2. wanted[t] = NoKey \/ \A s \in Request : keyOf[s] = wanted[t] => state[s] = "absent"
    BY <1>3 DEF InsertRow, Taken, Holders
  <2>3. UniqueKeys'
    <3>1. \A s \in Request \ {r} : state'[s] = state[s] /\ keyOf'[s] = keyOf[s]
      BY <1>0, <2>1 DEF DbTyped
    <3>2. keyOf'[r] = wanted[t]
      BY <1>0, <2>1 DEF DbTyped
    <3>3. QED
      BY <2>2, <3>1, <3>2 DEF KeyInv, UniqueKeys
  <2>4. \A s \in Request : s # r => log'[s] = log[s]
    BY <1>0, <2>1 DEF DbTyped
  <2>5. log'[r] = <<"created">> /\ log'[r][1] = "created"
    BY <1>0, <2>1 DEF DbTyped
  <2>6. FirstCreated'
    BY <2>4, <2>5 DEF KeyInv, FirstCreated
  <2>7. log[r] = <<>> /\ Len(log[r]) = 0
    BY <1>0, <2>1 DEF SeenInv
  <2>8. pc'[t] = "enqueue" /\ work'[t] = {r}
    BY <1>0, <2>1 DEF Become, ThreadTyped
  <2>9. \A u \in Thread \ {t} : pc'[u] = pc[u] /\ work'[u] = work[u]
    BY <1>0, <2>1 DEF Become, ThreadTyped
  <2>10. Seen(Home[t])'[r] # "absent"
    <3>1. txn'[Home[t]] = "none"
      BY <1>3, <1>a DEF InsertRow, Commit
    <3>2. state'[r] = "created"
      BY <1>0, <2>1 DEF DbTyped
    <3>3. QED
      BY <3>1, <3>2 DEF Seen
  <2>11. EnqueueInv'
    <3> SUFFICES ASSUME NEW u \in Thread, pc'[u] = "enqueue", NEW i \in work'[u], NEW j \in work'[u]
                 PROVE  i = j /\ Seen(Home[u])'[i] # "absent"
      BY DEF EnqueueInv
    <3>1. CASE u = t
      BY <2>8, <2>10, <3>1
    <3>2. CASE u # t
      <4>1. pc[u] = "enqueue" /\ i \in work[u] /\ j \in work[u] /\ i \in Request
        BY <1>0, <2>9, <3>2 DEF ThreadTyped
      <4>2. i = j /\ Seen(Home[u])[i] # "absent"
        BY <4>1 DEF KeyInv, EnqueueInv
      <4>3. QED
        BY <1>a, <1>k, <4>1, <4>2
    <3>3. QED
      BY <3>1, <3>2
  <2>12. SendInv'
    <3> SUFFICES ASSUME NEW u \in Thread, pc'[u] = "send", NEW i \in work'[u]
                 PROVE  Len(log'[i]) >= 2
      BY DEF SendInv
    <3>1. u # t /\ i \in Request /\ Len(log[i]) >= 2
      BY <1>0, <2>8, <2>9 DEF KeyInv, SendInv, ThreadTyped
    <3>2. QED
      BY <2>4, <2>7, <3>1
  <2>13. AnnouncedMeansEnqueued'
    <3> SUFFICES ASSUME NEW i \in announced' PROVE Len(log'[i]) >= 2
      BY DEF AnnouncedMeansEnqueued
    <3>1. i \in Request /\ Len(log[i]) >= 2
      BY <1>0, <1>3 DEF InsertRow, KeyInv, AnnouncedMeansEnqueued, HistoryTyped
    <3>2. QED
      BY <2>4, <2>7, <3>1
  <2>14. QED
    BY <2>3, <2>6, <2>11, <2>12, <2>13 DEF KeyInv
<1>4. ASSUME NEW t \in Thread, InsertConflict(t) \/ WriteFails(t) PROVE KeyInv'
  BY <1>4, <1>k, KeyMoveStep DEF InsertConflict, WriteFails, Return
<1>5. ASSUME NEW t \in Thread, Enqueue(t) PROVE KeyInv'
  <2>1. CASE Become(t, "write", work[t], "queued", NoKey)
    BY <1>5, <1>k, <2>1, KeyMoveStep DEF Enqueue
  <2>2. CASE /\ \E r \in work[t] : ~ Workflow!Legal(Seen(Home[t])[r], "queued")
             /\ Become(t, "send", work[t], "none", NoKey)
    <3>1. PICK r \in work[t] : ~ Workflow!Legal(Seen(Home[t])[r], "queued")
      BY <2>2
    <3>2. r \in Request /\ \A s \in work[t] : s = r
      BY <1>0, <1>5 DEF Enqueue, KeyInv, EnqueueInv, ThreadTyped
    <3>3. Seen(Home[t])[r] # "absent"
      BY <1>5, <3>1 DEF Enqueue, KeyInv, EnqueueInv
    <3>4. Seen(Home[t])[r] \in Logged(log[r])
      BY <1>0, <1>a, <3>2, <3>3 DEF SeenInv, Seen
    <3>5. Workflow!Legal("created", "queued")
      BY DEF Workflow!Legal, Workflow!Terminal, Workflow!Successors
    <3>6. Len(log[r]) >= 2
      BY <3>1, <3>2, <3>4, <3>5, LoggedTwice
    <3>7. QED
      BY <1>5, <1>k, <2>2, <3>2, <3>6, KeyMoveStep DEF Enqueue
  <2>3. QED
    BY <1>5, <2>1, <2>2 DEF Enqueue
<1>6. ASSUME NEW t \in Thread, Send(t) PROVE KeyInv'
  <2>1. \A r \in announced' \ announced : Len(log[r]) >= 2
    BY <1>6 DEF Send, KeyInv, SendInv
  <2>2. \A u \in Thread : pc'[u] = "idle" \/ (pc'[u] = pc[u] /\ work'[u] = work[u])
    BY <1>0, <1>6 DEF Send, Return, Become, ThreadTyped
  <2>3. UNCHANGED dbVars
    BY <1>6 DEF Send
  <2>4. QED
    BY <1>k, <2>1, <2>2, <2>3, KeyReadStep
<1>7. ASSUME NEW t \in Thread, NEW r \in Request, NEW target, Transition(t, r, target)
      PROVE  KeyInv'
  <2>1. UNCHANGED dbVars /\ UNCHANGED announced
    BY <1>7 DEF Transition
  <2>2. CASE UNCHANGED threadVars
    BY <1>k, <2>1, <2>2, KeyReadStep DEF threadVars
  <2>3. CASE Become(t, "write", {r}, target, NoKey)
    BY <1>k, <2>1, <2>3, KeyMoveStep
  <2>4. QED
    BY <1>7, <2>2, <2>3 DEF Transition
<1>8. ASSUME NEW t \in Thread, SelectOverdue(t) PROVE KeyInv'
  <2>1. UNCHANGED dbVars /\ UNCHANGED announced
    BY <1>8 DEF SelectOverdue
  <2>2. CASE UNCHANGED threadVars
    BY <1>k, <2>1, <2>2, KeyReadStep DEF threadVars
  <2>3. ASSUME NEW R, Become(t, "write", R, "expired", NoKey) PROVE KeyInv'
    BY <1>k, <2>1, <2>3, KeyMoveStep
  <2>4. QED
    BY <1>8, <2>2, <2>3 DEF SelectOverdue
<1>9. ASSUME NEW t \in Thread, Write(t) PROVE KeyInv'
  <2>1. work[t] \in SUBSET Request /\ goal[t] \in Target
    BY <1>0, <1>9 DEF ThreadTyped, Write
  <2>2. \A r \in Request : log[r] \in Seq(Target)
    BY <1>0 DEF DbTyped
  <2>3. \A r \in work[t] : Len(log[r]) >= 1
    BY <1>9, <2>1, <2>2 DEF Write, LogInv, DecisionInv, Decided, Logged
  <2>4. \A r \in Request :
          /\ r \in work[t] => log'[r] = Append(log[r], goal[t])
          /\ r \notin work[t] => log'[r] = log[r]
    BY <1>9 DEF Write
  <2>5. \A r \in Request :
          /\ Len(log'[r]) >= Len(log[r])
          /\ r \in work[t] => Len(log'[r]) >= 2
    BY <2>1, <2>2, <2>3, <2>4
  <2>6. UniqueKeys'
    <3>1. \A r \in Request : state'[r] # "absent" => state[r] # "absent"
      <4>1. \A r \in work[t] : state[r] # "absent"
        BY <1>0, <2>1, <2>2, <2>3 DEF SeenInv
      <4>2. QED
        BY <1>9, <4>1 DEF Write
    <3>2. UNCHANGED keyOf
      BY <1>9 DEF Write
    <3>3. QED
      BY <3>1, <3>2 DEF KeyInv, UniqueKeys
  <2>7. FirstCreated'
    <3> SUFFICES ASSUME NEW r \in Request, log'[r] # <<>> PROVE log'[r][1] = "created"
      BY DEF FirstCreated
    <3>1. CASE r \in work[t]
      <4>1. log'[r][1] = log[r][1]
        BY <2>1, <2>2, <2>3, <2>4, <3>1
      <4>2. log[r] # <<>>
        BY <2>2, <2>3, <3>1
      <4>3. QED
        BY <4>1, <4>2 DEF KeyInv, FirstCreated
    <3>2. CASE r \notin work[t]
      BY <2>4, <3>2 DEF KeyInv, FirstCreated
    <3>3. QED
      BY <3>1, <3>2
  <2>8. \A u \in Thread \ {t} : pc'[u] = pc[u] /\ work'[u] = work[u]
    BY <1>0, <1>9 DEF Write, Return, Become, ThreadTyped
  <2>9. \/ pc'[t] = "send" /\ work'[t] = work[t]
        \/ pc'[t] = "idle"
    BY <1>0, <1>9 DEF Write, Return, Become, ThreadTyped
  <2>10. EnqueueInv'
    <3> SUFFICES ASSUME NEW u \in Thread, pc'[u] = "enqueue", NEW i \in work'[u], NEW j \in work'[u]
                 PROVE  i = j /\ Seen(Home[u])'[i] # "absent"
      BY DEF EnqueueInv
    <3>1. u # t
      BY <2>9
    <3>2. pc[u] = "enqueue" /\ i \in work[u] /\ j \in work[u] /\ i \in Request
      BY <1>0, <2>8, <3>1 DEF ThreadTyped
    <3>3. i = j /\ Seen(Home[u])[i] # "absent"
      BY <3>2 DEF KeyInv, EnqueueInv
    <3>4. QED
      BY <1>a, <1>k, <3>2, <3>3
  <2>11. SendInv'
    <3> SUFFICES ASSUME NEW u \in Thread, pc'[u] = "send", NEW i \in work'[u]
                 PROVE  Len(log'[i]) >= 2
      BY DEF SendInv
    <3>1. CASE u = t
      BY <2>1, <2>5, <2>9, <3>1
    <3>2. CASE u # t
      <4>1. i \in Request /\ Len(log[i]) >= 2
        BY <1>0, <2>8, <3>2 DEF KeyInv, SendInv, ThreadTyped
      <4>2. QED
        BY <2>2, <2>4, <4>1, <2>1
    <3>3. QED
      BY <3>1, <3>2
  <2>12. AnnouncedMeansEnqueued'
    <3> SUFFICES ASSUME NEW i \in announced' PROVE Len(log'[i]) >= 2
      BY DEF AnnouncedMeansEnqueued
    <3>1. i \in Request /\ Len(log[i]) >= 2
      BY <1>0, <1>9 DEF Write, KeyInv, AnnouncedMeansEnqueued, HistoryTyped
    <3>2. QED
      BY <2>1, <2>2, <2>4, <3>1
  <2>13. QED
    BY <2>6, <2>7, <2>10, <2>11, <2>12 DEF KeyInv
<1>10. ASSUME NEW p \in Process, OtherUse(p) \/ GroupConflict(p) PROVE KeyInv'
  <2>1. UNCHANGED <<dbVars, threadVars, announced>>
    BY <1>10 DEF OtherUse, GroupConflict
  <2>2. QED
    BY <1>k, <2>1, KeyReadStep DEF threadVars
<1>11. CASE UNCHANGED vars
  BY <1>k, <1>11, KeyReadStep DEF vars, threadVars
<1>12. Sender \cup Keyless \cup Recipient \cup Sweeper \subseteq Thread
  BY RequestsAssumption
<1>13. QED
  BY <1>1, <1>2, <1>3, <1>4, <1>5, <1>6, <1>7, <1>8, <1>9, <1>10, <1>11, <1>12
     DEF Next, ThreadNext, Respond, Cancel

LEMMA KeyInvAlways == Spec => []KeyInv
<1>1. TypeInv /\ LogInv /\ [Next]_vars => LogInv'
  BY LogInvStep
<1>2. TypeInv /\ LogInv /\ KeyInv /\ [Next]_vars => KeyInv'
  BY KeyInvStep
<1>3. QED
  BY TypeInvAlways, LogInit, KeyInit, <1>1, <1>2, PTL DEF Spec

(* Whoever races to create under one key, in however many processes, at    *)
(* most one request exists for it.                                         *)
THEOREM KeysAreUnique == Spec => []OneRequestPerKey
<1>1. KeyInv => OneRequestPerKey
  <2> SUFFICES ASSUME KeyInv, NEW k \in Key PROVE Cardinality(Holders(k, state)) <= 1
    BY DEF OneRequestPerKey
  <2>1. \A r, s \in Holders(k, state) : r = s
    BY RequestsAssumption DEF KeyInv, UniqueKeys, Holders
  <2>2. CASE Holders(k, state) = {}
    BY <2>2, FS_EmptySet
  <2>3. ASSUME NEW r \in Holders(k, state) PROVE Cardinality(Holders(k, state)) <= 1
    <3>1. Holders(k, state) = {r}
      BY <2>1
    <3>2. QED
      BY <3>1, FS_Singleton
  <2>4. QED
    BY <2>2, <2>3
<1>2. QED
  BY KeyInvAlways, <1>1, PTL

(* No recipient hears of a request that is still `created', whatever is    *)
(* stale, locked or retried.                                               *)
THEOREM AnnouncedAfterEnqueue == Spec => []AnnouncedMeansEnqueued
<1>1. KeyInv => AnnouncedMeansEnqueued
  BY DEF KeyInv
<1>2. QED
  BY KeyInvAlways, <1>1, PTL
=============================================================================
