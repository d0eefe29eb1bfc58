----------------------------- MODULE Supervisor -----------------------------
(***************************************************************************)
(* PeerRuntimeManager of one process on POSIX: host threads register and   *)
(* unregister peers under one lock; a supervisor thread, started with the  *)
(* first peer and joined with the last, reads the selector, calls the      *)
(* handlers and answers.  It takes no lock.                                *)
(***************************************************************************)
EXTENDS Naturals, FiniteSets

CONSTANTS
  Peer,             \* peers to register, each at most once: ids are fresh
  Thread,           \* host threads
  Loop,             \* supervisor threads the process can start
  Request,          \* messages of other processes, one per connection
  To,               \* the peer a message is sent to
  Foreign,          \* messages of an unknown major version
  MaxPeers,         \* peers registered at the same time
  SlowHost,         \* TRUE if a handler may outlast the join
  Faults,           \* TRUE if publishing a record may raise
  None              \* no thread, no peer, no message

ASSUME SupervisorAssumption ==
  /\ To \in [Request -> Peer]
  /\ Foreign \subseteq Request
  /\ MaxPeers \in Nat \ {0}
  /\ SlowHost \in BOOLEAN /\ Faults \in BOOLEAN
  /\ None \notin Thread \cup Loop \cup Peer \cup Request

VARIABLES
  lock,             \* _lock: the thread that holds it
  step,             \* per host thread: next step of its call
  arg,              \* per host thread: the peer it works on
  used,             \* peers registered so far
  peers,            \* _peers, _handlers and _listeners
  listeners,        \* listeners in the selector
  records,          \* registry records of this process
  thread,           \* _thread
  stop,             \* _stop_event
  joined,           \* the supervisor a host thread waits for
  down,             \* shutdown: "up", "closing" or "down"
  loop,             \* per supervisor: next step of _run_loop
  work,             \* per supervisor: the message it handles
  conn              \* per message: what became of it

callVars == <<lock, step, arg, joined, down>>
bookVars == <<used, peers, listeners, records>>
controlVars == <<thread, stop>>
loopVars == <<loop, work, conn>>
vars == <<callVars, bookVars, controlVars, loopVars>>

Call == {"idle", "bound", "started", "listening", "failed", "popped", "closed", "join",
         "shutdown", "last"}
LoopStep == {"unborn", "check", "select", "handle", "scan", "peers", "halt", "exited", "killed"}
Fate == {"unsent", "waiting", "handling", "answered", "dropped", "ignored"}

(* The thread that holds the lock is the one inside a call.                *)
TypeOK ==
  /\ lock \in Thread \cup {None}
  /\ \A t \in Thread : step[t] # "idle" <=> lock = t
  /\ step \in [Thread -> Call]
  /\ arg \in [Thread -> Peer \cup {None}]
  /\ used \subseteq Peer /\ peers \subseteq used
  /\ listeners \subseteq used /\ records \subseteq used
  /\ thread \in Loop \cup {None} /\ joined \in Loop \cup {None}
  /\ stop \in BOOLEAN
  /\ down \in {"up", "closing", "down"}
  /\ loop \in [Loop -> LoopStep]
  /\ work \in [Loop -> Request \cup {None}]
  /\ conn \in [Request -> Fate]

Init ==
  /\ lock = None
  /\ step = [t \in Thread |-> "idle"]
  /\ arg = [t \in Thread |-> None]
  /\ used = {} /\ peers = {} /\ listeners = {} /\ records = {}
  /\ thread = None /\ joined = None
  /\ stop = FALSE
  /\ down = "up"
  /\ loop = [g \in Loop |-> "unborn"]
  /\ work = [g \in Loop |-> None]
  /\ conn = [r \in Request |-> "unsent"]

Alive(g) == loop[g] \notin {"unborn", "exited", "killed"}
Running == {g \in Loop : Alive(g)}

(* Supervisors that iterate over the selector's map, without a lock, while *)
(* another thread adds to it or removes from it: any of them may raise.    *)
Scanning == {g \in Loop : loop[g] = "scan"}
Disturbed(K) == [g \in Loop |-> IF g \in K THEN "killed" ELSE loop[g]]

----------------------------------------------------------------------------
(* Host threads                                                            *)

Take(t, s) == lock = None /\ step[t] = "idle" /\ lock' = t /\ step' = [step EXCEPT ![t] = s]

Go(t, from, to) == step[t] = from /\ step' = [step EXCEPT ![t] = to] /\ UNCHANGED lock

(* The call ends: a caller of shutdown goes on with the next peer.         *)
Leave(t, from) ==
  /\ step[t] = from
  /\ step' = [step EXCEPT ![t] = IF down = "closing" THEN "shutdown" ELSE "idle"]
  /\ lock' = IF down = "closing" THEN lock ELSE None

(* register_peer: bind and put the listener into the selector.             *)
Bind(t, p) ==
  /\ down = "up"
  /\ p \notin used
  /\ Cardinality(peers) < MaxPeers
  /\ \E g \in Loop : loop[g] = "unborn"
  /\ Take(t, "bound")
  /\ arg' = [arg EXCEPT ![t] = p]
  /\ used' = used \cup {p}
  /\ peers' = peers \cup {p}
  /\ listeners' = listeners \cup {p}
  /\ \E K \in SUBSET Scanning : loop' = Disturbed(K)
  /\ UNCHANGED <<records, controlVars, joined, down, work, conn>>

(* Faulty variants: the stop event stays set; a live thread is not looked  *)
(* for.                                                                    *)
EnsureStopped(t) ==
  /\ Go(t, "bound", "started")
  /\ IF thread # None /\ Alive(thread)
     THEN UNCHANGED <<controlVars, loop>>
     ELSE /\ \E g \in Loop :
               /\ loop[g] = "unborn"
               /\ thread' = g
               /\ loop' = [loop EXCEPT ![g] = "check"]
          /\ UNCHANGED stop
  /\ UNCHANGED <<arg, joined, down, bookVars, work, conn>>

EnsureAnother(t) ==
  /\ Go(t, "bound", "started")
  /\ stop' = FALSE
  /\ \E g \in Loop :
       /\ loop[g] = "unborn"
       /\ thread' = g
       /\ loop' = [loop EXCEPT ![g] = "check"]
  /\ UNCHANGED <<arg, joined, down, bookVars, work, conn>>

(* _ensure_thread                                                          *)
Ensure(t) ==
  /\ Go(t, "bound", "started")
  /\ IF thread # None /\ Alive(thread)
     THEN UNCHANGED <<controlVars, loop>>
     ELSE /\ stop' = FALSE
          /\ \E g \in Loop :
               /\ loop[g] = "unborn"
               /\ thread' = g
               /\ loop' = [loop EXCEPT ![g] = "check"]
  /\ UNCHANGED <<arg, joined, down, bookVars, work, conn>>

(* The thread is looked at once more: none, or a dead one, fails the call. *)
Confirm(t) ==
  /\ Go(t, "started", IF thread # None /\ Alive(thread) THEN "listening" ELSE "failed")
  /\ UNCHANGED <<arg, joined, down, bookVars, controlVars, loopVars>>

Publish(t) ==
  /\ Leave(t, "listening")
  /\ records' = records \cup {arg[t]}
  /\ UNCHANGED <<arg, joined, down, used, peers, listeners, controlVars, loopVars>>

(* Faulty variant: a failed registration leaves its listener.              *)
PublishFailsOpen(t) ==
  /\ Faults
  /\ Go(t, "listening", "closed")
  /\ peers' = peers \ {arg[t]}
  /\ UNCHANGED <<arg, joined, down, used, listeners, records, controlVars, loopVars>>

PublishFails(t) ==
  /\ Faults
  /\ Go(t, "listening", "failed")
  /\ UNCHANGED <<arg, joined, down, bookVars, controlVars, loopVars>>

(* unregister_peer: no message is handed to the peer from here on.         *)
Unregister(t, p) ==
  /\ p \in peers
  /\ \/ Take(t, "popped")
     \/ Go(t, "shutdown", "popped")
  /\ arg' = [arg EXCEPT ![t] = p]
  /\ peers' = peers \ {p}
  /\ UNCHANGED <<used, listeners, records, joined, down, controlVars, loopVars>>

(* Faulty variant: the connections are left as they are.                   *)
CloseListenerOnly(t) ==
  /\ Go(t, "popped", "closed") \/ Go(t, "failed", "closed")
  /\ peers' = peers \ {arg[t]}
  /\ listeners' = listeners \ {arg[t]}
  /\ \E K \in SUBSET Scanning : loop' = Disturbed(K)
  /\ UNCHANGED <<arg, joined, down, used, records, controlVars, work, conn>>

(* The listener and the connections it accepted are closed, unanswered; a  *)
(* registration that failed drops its peer here.                           *)
CloseListener(t) ==
  /\ Go(t, "popped", "closed") \/ Go(t, "failed", "closed")
  /\ peers' = peers \ {arg[t]}
  /\ listeners' = listeners \ {arg[t]}
  /\ conn' = [r \in Request |->
       IF To[r] = arg[t] /\ conn[r] \in {"waiting", "handling"} THEN "dropped" ELSE conn[r]]
  /\ \E K \in SUBSET Scanning : loop' = Disturbed(K)
  /\ UNCHANGED <<arg, joined, down, used, records, controlVars, work>>

(* The record is removed; the last peer stops the supervisor.              *)
Unpublish(t) ==
  /\ records' = records \ {arg[t]}
  /\ \/ peers # {} /\ Leave(t, "closed") /\ UNCHANGED <<controlVars, joined>>
     \/ /\ peers = {}
        /\ Go(t, "closed", "join")
        /\ stop' = TRUE
        /\ joined' = thread
        /\ thread' = None
  /\ UNCHANGED <<arg, down, used, peers, listeners, loopVars>>

(* Faulty variants: the join has no timeout; it does not wait at all.      *)
JoinUntimed == joined # None => ~ Alive(joined)
JoinAtOnce == TRUE

(* The supervisor has ended, or three seconds are over and it is still in  *)
(* a handler.                                                              *)
JoinOver ==
  joined # None => ~ Alive(joined) \/ (SlowHost /\ loop[joined] = "handle")

Join(t) ==
  /\ JoinOver
  /\ Leave(t, "join")
  /\ joined' = None
  /\ UNCHANGED <<arg, down, bookVars, controlVars, loopVars>>

(* shutdown: every peer is unregistered first, all under one lock; then    *)
(* the selector is closed, and later registrations raise.                  *)
Shutdown(t) ==
  /\ down = "up"
  /\ Take(t, "shutdown")
  /\ down' = "closing"
  /\ UNCHANGED <<arg, joined, bookVars, controlVars, loopVars>>

CloseDown(t) ==
  /\ peers = {}
  /\ Go(t, "shutdown", "last")
  /\ stop' = TRUE
  /\ joined' = thread
  /\ thread' = None
  /\ UNCHANGED <<arg, down, bookVars, loopVars>>

CloseSelector(t) ==
  /\ step[t] = "last" /\ JoinOver
  /\ step' = [step EXCEPT ![t] = "idle"]
  /\ lock' = None
  /\ down' = "down"
  /\ joined' = None
  /\ UNCHANGED <<arg, bookVars, controlVars, loopVars>>

----------------------------------------------------------------------------
(* The supervisor: _run_loop                                               *)

Move(g, from, to) == loop[g] = from /\ loop' = [loop EXCEPT ![g] = to]

Check(g) ==
  /\ Move(g, "check", IF stop THEN "exited" ELSE "select")
  /\ UNCHANGED <<callVars, bookVars, controlVars, work, conn>>

(* A wakeup, or half a second without a message.                           *)
Nothing(g) ==
  /\ \A r \in Request : conn[r] # "waiting"
  /\ Move(g, "select", "scan")
  /\ UNCHANGED <<callVars, bookVars, controlVars, work, conn>>

(* One message of those select reports: its connection is accepted, which  *)
(* disturbs a second supervisor, and its frame read.                       *)
Read(g, r, to, fate) ==
  /\ conn[r] = "waiting"
  /\ loop[g] = "select"
  /\ \E K \in SUBSET Scanning : loop' = [Disturbed(K) EXCEPT ![g] = to]
  /\ conn' = [conn EXCEPT ![r] = fate]
  /\ UNCHANGED <<callVars, bookVars, controlVars>>

Dispatch(g, r) ==
  /\ r \notin Foreign /\ To[r] \in peers
  /\ Read(g, r, "handle", "handling")
  /\ work' = [work EXCEPT ![g] = r]

(* The peer is being unregistered: answered as unreachable.                *)
NoHandler(g, r) ==
  /\ r \notin Foreign /\ To[r] \notin peers
  /\ Read(g, r, "scan", "answered")
  /\ UNCHANGED work

(* The decoder raises UnsupportedVersionError, which nothing catches.      *)
Unsupported(g, r) ==
  /\ r \in Foreign
  /\ Read(g, r, "killed", "ignored")
  /\ UNCHANGED work

(* The handler returned: a receipt, if the connection is still open.       *)
Finish(g) ==
  /\ Move(g, "handle", "scan")
  /\ conn' = [conn EXCEPT ![work[g]] = IF @ = "handling" THEN "answered" ELSE @]
  /\ UNCHANGED <<callVars, bookVars, controlVars, work>>

(* _service_writable: raises on a selector that has been closed.           *)
Scan(g) ==
  /\ Move(g, "scan", IF down = "down" THEN "killed" ELSE "peers")
  /\ UNCHANGED <<callVars, bookVars, controlVars, work, conn>>

(* Nothing registered: stop, unless stopped already.                       *)
LookAtPeers(g) ==
  /\ Move(g, "peers", IF peers = {} /\ ~ stop THEN "halt" ELSE "check")
  /\ UNCHANGED <<callVars, bookVars, controlVars, work, conn>>

Halt(g) ==
  /\ Move(g, "halt", "check")
  /\ stop' = TRUE
  /\ UNCHANGED <<callVars, bookVars, thread, work, conn>>

----------------------------------------------------------------------------
(* Other processes                                                         *)

(* A client finds the record and connects.                                 *)
Connect(r) ==
  /\ conn[r] = "unsent"
  /\ To[r] \in records \cap listeners
  /\ conn' = [conn EXCEPT ![r] = "waiting"]
  /\ UNCHANGED <<callVars, bookVars, controlVars, loop, work>>

----------------------------------------------------------------------------

HostStep(t) ==
  \/ Ensure(t) \/ Confirm(t) \/ Publish(t) \/ CloseListener(t) \/ Unpublish(t)
  \/ Join(t) \/ CloseDown(t) \/ CloseSelector(t)
  \/ \E p \in Peer : step[t] = "shutdown" /\ Unregister(t, p)

LoopNext(g) ==
  \/ Check(g) \/ Nothing(g) \/ Scan(g) \/ LookAtPeers(g) \/ Halt(g)
  \/ \E r \in Request : Dispatch(g, r) \/ NoHandler(g, r) \/ Unsupported(g, r)

Next ==
  \/ \E t \in Thread :
       \/ HostStep(t) \/ PublishFails(t) \/ Shutdown(t)
       \/ \E p \in Peer : Bind(t, p) \/ Unregister(t, p)
  \/ \E g \in Loop : LoopNext(g) \/ Finish(g)
  \/ \E r \in Request : Connect(r)

Spec == Init /\ [][Next]_vars

(* A call that holds the lock and a supervisor that is alive go on.        *)
Fairness ==
  /\ \A t \in Thread : WF_vars(HostStep(t))
  /\ \A g \in Loop : WF_vars(LoopNext(g))

FairSpec == Spec /\ Fairness

(* And the host returns from every message it is handed.                   *)
PromptSpec == FairSpec /\ \A g \in Loop : WF_vars(Finish(g))

----------------------------------------------------------------------------
(* Properties                                                              *)

(* One supervisor thread per process: a second one never runs.             *)
OneSupervisor == \A g, h \in Loop : Alive(g) /\ Alive(h) => g = h

(* Between calls the last teardown has stopped every supervisor.           *)
StopsWithLastPeer == lock = None /\ peers = {} => Running = {}

(* Between calls a record is published exactly for the peers that have a   *)
(* handler and a listener, whatever calls failed.                          *)
RecordsMatchListeners == lock = None => records = peers /\ listeners = peers

(* Nothing that other processes send ends a supervisor, and no exception   *)
(* of its own does.                                                        *)
NobodyKilled == \A g \in Loop : loop[g] # "killed"

(* Unless an exception ended one: between calls a published peer has a     *)
(* supervisor that will not stop, however calls overlapped or failed.      *)
Served ==
  lock = None /\ records # {} /\ NobodyKilled => ~ stop /\ Running # {}

(* Unless an exception ended a supervisor, every message that reached a    *)
(* listener is answered or its connection is closed.                       *)
EveryMessageAnswered ==
  \A r \in Request :
    conn[r] = "waiting" ~> conn[r] \in {"answered", "dropped"} \/ ~ NobodyKilled

(* A call never keeps the lock, even if the host never returns from a      *)
(* message.                                                                *)
LockReleased == lock # None ~> lock = None
=============================================================================
