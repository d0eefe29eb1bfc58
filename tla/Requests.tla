------------------------------ MODULE Requests ------------------------------
(***************************************************************************)
(* Structured requests on the SQLite file that every process of a profile  *)
(* opens: RequestStore.create, transition and expire_overdue, and the      *)
(* session operations that call them.                                      *)
(*                                                                         *)
(* The store lock makes the SELECT and the UPDATE of one call exclusive    *)
(* among the threads of a process, not among processes: Python's sqlite3   *)
(* opens a transaction at the first write, so the SELECT is outside it.    *)
(* An UPDATE with its event row and the commit is one step, because the    *)
(* database holds its write lock that long.                                *)
(*                                                                         *)
(* A write that fails leaves the transaction it opened: nobody rolls back. *)
(* Per connection:  "none"      no transaction                             *)
(*                  "write"     a failed INSERT, write lock still held     *)
(*                  "open"      the database was locked, nothing read yet  *)
(*                  "snapshot"  read since then, and nobody committed      *)
(*                  "stale"     read since then, and somebody committed    *)
(***************************************************************************)
EXTENDS Naturals, Sequences, FiniteSets

CONSTANTS
  Request,          \* ids new requests may get
  Key,              \* (sender agent, idempotency key) pairs
  NoKey,            \* a request created without a key
  Process, Thread,  \* processes that open the file, their threads
  Home,             \* the process of each thread
  Sender,           \* threads that create requests with a key
  Keyless,          \* threads that create requests without one
  Recipient,        \* threads of the agent the requests are addressed to
  Sweeper,          \* threads that run request_expire_overdue
  GroupConflicts    \* TRUE if groups are created under names already taken

ASSUME RequestsAssumption ==
  /\ NoKey \notin Key
  /\ Home \in [Thread -> Process]
  /\ Sender \subseteq Thread
  /\ Keyless \subseteq Thread
  /\ Recipient \subseteq Thread
  /\ Sweeper \subseteq Thread
  /\ GroupConflicts \in BOOLEAN

VARIABLES
  state,            \* requests.state, "absent" where there is no row
  keyOf,            \* requests.idempotency_key
  log,              \* request_events of each request, in event_id order
  txn, view,        \* per process: its connection, and what "stale" reads
  pc, work,         \* per thread: next step, requests it works on
  goal, wanted,     \* per thread: target state, key of its create
  announced         \* history: requests whose envelope was sent

dbVars == <<state, keyOf, log>>
connVars == <<txn, view>>
threadVars == <<pc, work, goal, wanted>>
vars == <<dbVars, connVars, threadVars, announced>>

Workflow == INSTANCE Workflow

Connection == {"none", "write", "open", "snapshot", "stale"}
Step == {"idle", "insert", "enqueue", "write", "send"}
MaybeState == Workflow!RequestState \cup {"absent"}
Nothing == [r \in Request |-> "absent"]

TypeOK ==
  /\ Workflow!TypeOK
  /\ keyOf \in [Request -> Key \cup {NoKey}]
  /\ log \in [Request -> Seq(Workflow!RequestState)]
  /\ txn \in [Process -> Connection]
  /\ view \in [Process -> [Request -> MaybeState]]
  /\ pc \in [Thread -> Step]
  /\ work \in [Thread -> SUBSET Request]
  /\ goal \in [Thread -> Workflow!RequestState \cup {"none"}]
  /\ wanted \in [Thread -> Key \cup {NoKey}]
  /\ announced \subseteq Request

Init ==
  /\ Workflow!Init
  /\ keyOf = [r \in Request |-> NoKey]
  /\ log = [r \in Request |-> <<>>]
  /\ txn = [p \in Process |-> "none"]
  /\ view = [p \in Process |-> Nothing]
  /\ pc = [t \in Thread |-> "idle"]
  /\ work = [t \in Thread |-> {}]
  /\ goal = [t \in Thread |-> "none"]
  /\ wanted = [t \in Thread |-> NoKey]
  /\ announced = {}

----------------------------------------------------------------------------
(* The connection of a process                                             *)

Seen(p) == IF txn[p] = "stale" THEN view[p] ELSE state

(* A SELECT inside a transaction that is still open pins a snapshot.       *)
Read(p) ==
  /\ txn' = [txn EXCEPT ![p] = IF @ = "open" THEN "snapshot" ELSE @]
  /\ UNCHANGED view

Writable(p) == txn[p] # "stale" /\ \A q \in Process \ {p} : txn[q] # "write"

(* A commit ends the transaction and makes the snapshots of others stale.  *)
Commit(p) ==
  /\ Writable(p)
  /\ txn' = [q \in Process |->
               IF q = p THEN "none"
               ELSE IF txn[q] = "snapshot" THEN "stale" ELSE txn[q]]
  /\ view' = [q \in Process |-> IF txn[q] = "snapshot" /\ q # p THEN state ELSE view[q]]

(* `database is locked': after the busy timeout, or at once on a stale     *)
(* snapshot.  The caller gets the exception.                               *)
Locked(p) ==
  /\ ~ Writable(p)
  /\ txn' = [txn EXCEPT ![p] = IF @ = "none" THEN "open" ELSE @]
  /\ UNCHANGED view

(* IntegrityError: the constraint is met after the write lock was taken.   *)
Violate(p) ==
  /\ Writable(p)
  /\ txn' = [txn EXCEPT ![p] = "write"]
  /\ UNCHANGED view

----------------------------------------------------------------------------
(* Threads and the store lock                                              *)

InStore(t) == pc[t] \in {"insert", "write"}

(* Faulty variant: a store call does not take the lock.                    *)
LockIgnored(t) == TRUE

LockFree(t) == \A u \in Thread : Home[u] = Home[t] => ~ InStore(u)

Become(t, step, R, target, k) ==
  /\ pc' = [pc EXCEPT ![t] = step]
  /\ work' = [work EXCEPT ![t] = R]
  /\ goal' = [goal EXCEPT ![t] = target]
  /\ wanted' = [wanted EXCEPT ![t] = k]

Return(t) == Become(t, "idle", {}, "none", NoKey)

----------------------------------------------------------------------------
(* create_request: create, then transition to queued, then send            *)

Holders(k, s) == {r \in Request : keyOf[r] = k /\ s[r] # "absent"}

(* Bound: as many creates run at once as there are ids left.               *)
IdsLeft ==
  Cardinality({t \in Thread : pc[t] = "insert"})
    < Cardinality({r \in Request : state[r] = "absent"})

(* A create without a key goes straight to the INSERT.                     *)
CreateKeyless(t) ==
  /\ pc[t] = "idle" /\ LockFree(t) /\ IdsLeft
  /\ Become(t, "insert", {}, "none", NoKey)
  /\ UNCHANGED <<dbVars, connVars, announced>>

LookUp(t, k) ==
  /\ pc[t] = "idle" /\ LockFree(t)
  /\ IdsLeft \/ Holders(k, Seen(Home[t])) # {}
  /\ Read(Home[t])
  /\ LET found == Holders(k, Seen(Home[t]))
     IN IF found = {} THEN Become(t, "insert", {}, "none", k)
                      ELSE Become(t, "enqueue", found, "none", NoKey)
  /\ UNCHANGED <<dbVars, announced>>

(* Faulty variant: the key column has no UNIQUE constraint.                *)
NeverTaken(k) == FALSE

(* Keyless rows store NULL, which UNIQUE never compares equal.             *)
Taken(k) == k # NoKey /\ Holders(k, state) # {}

InsertRow(t) ==
  /\ pc[t] = "insert" /\ ~ Taken(wanted[t])
  /\ Commit(Home[t])
  /\ \E r \in Request :
       /\ state[r] = "absent"
       /\ state' = [state EXCEPT ![r] = "created"]
       /\ keyOf' = [keyOf EXCEPT ![r] = wanted[t]]
       /\ log' = [log EXCEPT ![r] = <<"created">>]
       /\ Become(t, "enqueue", {r}, "none", NoKey)
  /\ UNCHANGED announced

InsertConflict(t) ==
  /\ pc[t] = "insert" /\ Taken(wanted[t])
  /\ Violate(Home[t])
  /\ Return(t)
  /\ UNCHANGED <<dbVars, announced>>

(* Faulty variant: the write of `queued' is left to the recipient.         *)
EnqueueNothing(t) ==
  /\ pc[t] = "enqueue" /\ LockFree(t)
  /\ Read(Home[t])
  /\ Become(t, "send", work[t], "none", NoKey)
  /\ UNCHANGED <<dbVars, announced>>

(* The original request or the new one: both are enqueued, then sent.      *)
Enqueue(t) ==
  /\ pc[t] = "enqueue" /\ LockFree(t)
  /\ Read(Home[t])
  /\ IF \A r \in work[t] : Workflow!Legal(Seen(Home[t])[r], "queued")
       THEN Become(t, "write", work[t], "queued", NoKey)
       ELSE Become(t, "send", work[t], "none", NoKey)
  /\ UNCHANGED <<dbVars, announced>>

(* Nothing is sent when the recipient has no live session.                 *)
Send(t) ==
  /\ pc[t] = "send"
  /\ \/ announced' = announced \cup work[t]
     \/ UNCHANGED announced
  /\ Return(t)
  /\ UNCHANGED <<dbVars, connVars>>

----------------------------------------------------------------------------
(* request_respond, request_cancel, request_expire_overdue                 *)

(* Faulty variant: the decision table is not consulted.                    *)
TransitionUnchecked(t, r, target) ==
  /\ pc[t] = "idle" /\ LockFree(t)
  /\ Seen(Home[t])[r] # "absent"
  /\ Read(Home[t])
  /\ Become(t, "write", {r}, target, NoKey)
  /\ UNCHANGED <<dbVars, announced>>

(* A terminal or impossible transition returns the row as it is.           *)
Transition(t, r, target) ==
  /\ pc[t] = "idle" /\ LockFree(t)
  /\ Seen(Home[t])[r] # "absent"
  /\ Read(Home[t])
  /\ IF Workflow!Legal(Seen(Home[t])[r], target)
       THEN Become(t, "write", {r}, target, NoKey)
       ELSE UNCHANGED threadVars
  /\ UNCHANGED <<dbVars, announced>>

Answers == {"accepted", "in_progress", "completed", "failed", "refused"}

Respond(t, r) == \E target \in Answers : Transition(t, r, target)

Cancel(t, r) == Transition(t, r, "cancelled")

(* Which deadlines have passed is the environment's choice.                *)
SelectOverdue(t) ==
  /\ pc[t] = "idle" /\ LockFree(t)
  /\ Read(Home[t])
  /\ \E R \in SUBSET {r \in Request : Seen(Home[t])[r] \in Workflow!Active} :
       IF R = {} THEN UNCHANGED threadVars ELSE Become(t, "write", R, "expired", NoKey)
  /\ UNCHANGED <<dbVars, announced>>

(* UPDATE, event row and commit.  The state read before is not compared.   *)
Write(t) ==
  /\ pc[t] = "write"
  /\ Commit(Home[t])
  /\ state' = [r \in Request |-> IF r \in work[t] THEN goal[t] ELSE state[r]]
  /\ log' = [r \in Request |-> IF r \in work[t] THEN Append(log[r], goal[t]) ELSE log[r]]
  /\ IF goal[t] = "queued" THEN Become(t, "send", work[t], "none", NoKey) ELSE Return(t)
  /\ UNCHANGED <<keyOf, announced>>

WriteFails(t) ==
  /\ InStore(t)
  /\ Locked(Home[t])
  /\ Return(t)
  /\ UNCHANGED <<dbVars, announced>>

----------------------------------------------------------------------------
(* The rest of the process uses the same connection, under the same lock.  *)

StoreIdle(p) == \A t \in Thread : Home[t] = p => ~ InStore(t)

(* Messages, broadcasts, members: another table is read or written.        *)
OtherUse(p) ==
  /\ StoreIdle(p)
  /\ Read(p) \/ Commit(p) \/ Locked(p)
  /\ UNCHANGED <<dbVars, threadVars, announced>>

(* create_group and rename_group under a name that is taken.               *)
GroupConflict(p) ==
  /\ GroupConflicts
  /\ StoreIdle(p)
  /\ Violate(p)
  /\ UNCHANGED <<dbVars, threadVars, announced>>

----------------------------------------------------------------------------

ThreadNext(t) ==
  \/ InsertRow(t) \/ InsertConflict(t) \/ Enqueue(t) \/ Send(t)
  \/ Write(t) \/ WriteFails(t)
  \/ \E r \in Request : Cancel(t, r)

Next ==
  \/ \E t \in Thread : ThreadNext(t)
  \/ \E t \in Sender, k \in Key : LookUp(t, k)
  \/ \E t \in Keyless : CreateKeyless(t)
  \/ \E t \in Recipient, r \in Request : Respond(t, r)
  \/ \E t \in Sweeper : SelectOverdue(t)
  \/ \E p \in Process : OtherUse(p) \/ GroupConflict(p)

Spec == Init /\ [][Next]_vars

----------------------------------------------------------------------------
(* Properties                                                              *)

(* However the threads of one process interleave, requests live by the     *)
(* decision table: each write follows from the state it overwrites.        *)
ImplementsWorkflow == Workflow!Spec

(* A stale writer cannot mutate a terminal request.                        *)
TerminalFrozen == Workflow!TerminalFrozen

(* With any number of processes a state in the event log follows by the    *)
(* table from a state logged before it, though not always from the last.   *)
LoggedDecisions ==
  \A r \in Request : \A i \in 2 .. Len(log[r]) :
    \E j \in 1 .. i - 1 : Workflow!Legal(log[r][j], log[r][i])

(* At most one request exists for a key, whoever races to create it.       *)
OneRequestPerKey == \A k \in Key : Cardinality(Holders(k, state)) <= 1

(* The recipient never hears of a request that is still `created': its     *)
(* answer would not be a legal step.  The row was enqueued, or ended,      *)
(* before the envelope left, whatever failed or was stale on the way.      *)
AnnouncedMeansEnqueued == \A r \in announced : Len(log[r]) >= 2
=============================================================================
