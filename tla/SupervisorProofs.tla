-------------------------- MODULE SupervisorProofs --------------------------
(***************************************************************************)
(* Proofs about the supervisor's lifecycle, for any number of peers, host  *)
(* threads, supervisor threads and messages, whatever the supervisors die  *)
(* of.                                                                     *)
(***************************************************************************)
EXTENDS Supervisor, TLAPS

(* While a registration is under way its peer has a handler and a listener *)
(* but no record; while one is taken down, they go in this order.          *)
BookInv ==
  /\ lock = None => records = peers /\ listeners = peers
  /\ \A t \in Thread :
       /\ step[t] \in {"bound", "started", "listening", "failed"} =>
            arg[t] \in peers /\ listeners = peers /\ records = peers \ {arg[t]}
       /\ step[t] = "popped" =>
            arg[t] \notin peers /\ listeners = peers \cup {arg[t]} /\ records = listeners
       /\ step[t] = "closed" =>
            arg[t] \notin peers /\ listeners = peers /\ records \in {peers, peers \cup {arg[t]}}
       /\ step[t] \in {"join", "shutdown", "last"} => records = peers /\ listeners = peers

(* A thread that is alive is `_thread', or the one that a call waits for,  *)
(* and while a call waits there is no other.                               *)
ThreadInv ==
  /\ \A g \in Loop : Alive(g) => g = thread \/ g = joined
  /\ joined # None =>
       thread = None /\ \E t \in Thread : step[t] \in {"join", "last"}

(* Without peers there is no `_thread', unless a call is about to stop it. *)
LastInv ==
  thread # None /\ peers = {} =>
    \E t \in Thread : step[t] \in {"popped", "closed", "shutdown"}

HostInv == TypeOK /\ BookInv /\ LastInv
LEMMA InitHost == Init => HostInv
<1> SUFFICES ASSUME Init PROVE HostInv
  OBVIOUS
<1> USE SupervisorAssumption
<1>1. TypeOK
  BY DEF Init, TypeOK, Call, LoopStep, Fate
<1>2. BookInv
  BY DEF Init, BookInv
<1>3. LastInv
  BY DEF Init, LastInv
<1>4. QED
  BY <1>1, <1>2, <1>3 DEF HostInv

(* A call that ends gives the lock back, or keeps it for shutdown.         *)
LEMMA LeaveOwned ==
  ASSUME TypeOK, NEW t \in Thread, NEW from \in Call \ {"idle"}, Leave(t, from)
  PROVE  /\ lock' \in Thread \cup {None}
         /\ step' \in [Thread -> Call]
         /\ \A u \in Thread : step'[u] # "idle" <=> lock' = u
<1> USE SupervisorAssumption DEF TypeOK, Leave, Call
<1>1. CASE down = "closing"
  BY <1>1
<1>2. CASE down # "closing"
  BY <1>2
<1>3. QED
  BY <1>1, <1>2

LEMMA TypeStep ==
  ASSUME TypeOK, BookInv, [Next]_vars
  PROVE  TypeOK'
<1> USE SupervisorAssumption
        DEF TypeOK, Take, Go, Move, Read, Disturbed, Scanning, Call, LoopStep, Fate,
            callVars, bookVars, controlVars, loopVars
<1>1. ASSUME NEW t \in Thread, Ensure(t) PROVE TypeOK'
  BY <1>1 DEF Ensure
<1>2. ASSUME NEW t \in Thread, Confirm(t) PROVE TypeOK'
  BY <1>2 DEF Confirm
<1>3. ASSUME NEW t \in Thread, Publish(t) PROVE TypeOK'
  <2>1. /\ lock' \in Thread \cup {None}
        /\ step' \in [Thread -> Call]
        /\ \A u \in Thread : step'[u] # "idle" <=> lock' = u
    BY <1>3, LeaveOwned DEF Publish
  <2>2. arg[t] \in used
    BY <1>3 DEF Publish, Leave, BookInv
  <2>3. QED
    BY <1>3, <2>1, <2>2 DEF Publish
<1>4. ASSUME NEW t \in Thread, PublishFails(t) PROVE TypeOK'
  BY <1>4 DEF PublishFails
<1>5. ASSUME NEW t \in Thread, CloseListener(t) PROVE TypeOK'
  BY <1>5 DEF CloseListener
<1>6. ASSUME NEW t \in Thread, Unpublish(t) PROVE TypeOK'
  <2>1. CASE peers # {} /\ Leave(t, "closed") /\ UNCHANGED <<controlVars, joined>>
    <3>1. /\ lock' \in Thread \cup {None}
          /\ step' \in [Thread -> Call]
          /\ \A u \in Thread : step'[u] # "idle" <=> lock' = u
      BY <2>1, LeaveOwned
    <3>2. QED
      BY <1>6, <2>1, <3>1 DEF Unpublish
  <2>2. CASE /\ Go(t, "closed", "join")
             /\ stop' = TRUE /\ joined' = thread /\ thread' = None
    BY <1>6, <2>2 DEF Unpublish
  <2>3. QED
    BY <1>6, <2>1, <2>2 DEF Unpublish
<1>7. ASSUME NEW t \in Thread, Join(t) PROVE TypeOK'
  BY <1>7, LeaveOwned DEF Join
<1>8. ASSUME NEW t \in Thread, Shutdown(t) PROVE TypeOK'
  BY <1>8 DEF Shutdown
<1>9. ASSUME NEW t \in Thread, CloseDown(t) PROVE TypeOK'
  BY <1>9 DEF CloseDown
<1>10. ASSUME NEW t \in Thread, CloseSelector(t) PROVE TypeOK'
  BY <1>10 DEF CloseSelector
<1>11. ASSUME NEW t \in Thread, NEW p \in Peer, Bind(t, p) PROVE TypeOK'
  BY <1>11 DEF Bind
<1>12. ASSUME NEW t \in Thread, NEW p \in Peer, Unregister(t, p) PROVE TypeOK'
  BY <1>12 DEF Unregister
<1>13. ASSUME NEW g \in Loop, Check(g) PROVE TypeOK'
  BY <1>13 DEF Check
<1>14. ASSUME NEW g \in Loop, Nothing(g) PROVE TypeOK'
  BY <1>14 DEF Nothing
<1>15. ASSUME NEW g \in Loop, Scan(g) PROVE TypeOK'
  BY <1>15 DEF Scan
<1>16. ASSUME NEW g \in Loop, LookAtPeers(g) PROVE TypeOK'
  BY <1>16 DEF LookAtPeers
<1>17. ASSUME NEW g \in Loop, Halt(g) PROVE TypeOK'
  BY <1>17 DEF Halt
<1>18. ASSUME NEW g \in Loop, Finish(g) PROVE TypeOK'
  BY <1>18 DEF Finish
<1>19. ASSUME NEW g \in Loop, NEW r \in Request, Dispatch(g, r) PROVE TypeOK'
  BY <1>19 DEF Dispatch
<1>20. ASSUME NEW g \in Loop, NEW r \in Request, NoHandler(g, r) PROVE TypeOK'
  BY <1>20 DEF NoHandler
<1>21. ASSUME NEW g \in Loop, NEW r \in Request, Unsupported(g, r) PROVE TypeOK'
  BY <1>21 DEF Unsupported
<1>22. ASSUME NEW r \in Request, Connect(r) PROVE TypeOK'
  BY <1>22 DEF Connect
<1>23. ASSUME UNCHANGED vars PROVE TypeOK'
  BY <1>23 DEF vars
<1>24. QED
  BY <1>1, <1>2, <1>3, <1>4, <1>5, <1>6, <1>7, <1>8, <1>9, <1>10, <1>11, <1>12, 
     <1>13, <1>14, <1>15, <1>16, <1>17, <1>18, <1>19, <1>20, <1>21, <1>22, <1>23
     DEF Next, HostStep, LoopNext

LEMMA BookStep ==
  ASSUME TypeOK, BookInv, [Next]_vars
  PROVE  BookInv'
<1> USE SupervisorAssumption
        DEF TypeOK, Take, Go, Leave, Move, Read, Disturbed, Scanning, Call,
            callVars, bookVars, controlVars, loopVars, BookInv
<1>1. ASSUME NEW t \in Thread, Ensure(t) PROVE BookInv'
  BY <1>1 DEF Ensure
<1>2. ASSUME NEW t \in Thread, Confirm(t) PROVE BookInv'
  BY <1>2 DEF Confirm
<1>3. ASSUME NEW t \in Thread, Publish(t) PROVE BookInv'
  BY <1>3 DEF Publish
<1>4. ASSUME NEW t \in Thread, PublishFails(t) PROVE BookInv'
  BY <1>4 DEF PublishFails
<1>5. ASSUME NEW t \in Thread, CloseListener(t) PROVE BookInv'
  BY <1>5 DEF CloseListener
<1>6. ASSUME NEW t \in Thread, Unpublish(t) PROVE BookInv'
  BY <1>6 DEF Unpublish
<1>7. ASSUME NEW t \in Thread, Join(t) PROVE BookInv'
  BY <1>7 DEF Join
<1>8. ASSUME NEW t \in Thread, Shutdown(t) PROVE BookInv'
  BY <1>8 DEF Shutdown
<1>9. ASSUME NEW t \in Thread, CloseDown(t) PROVE BookInv'
  BY <1>9 DEF CloseDown
<1>10. ASSUME NEW t \in Thread, CloseSelector(t) PROVE BookInv'
  BY <1>10 DEF CloseSelector
<1>11. ASSUME NEW t \in Thread, NEW p \in Peer, Bind(t, p) PROVE BookInv'
  BY <1>11 DEF Bind
<1>12. ASSUME NEW t \in Thread, NEW p \in Peer, Unregister(t, p) PROVE BookInv'
  BY <1>12 DEF Unregister
<1>13. ASSUME NEW g \in Loop, Check(g) PROVE BookInv'
  BY <1>13 DEF Check
<1>14. ASSUME NEW g \in Loop, Nothing(g) PROVE BookInv'
  BY <1>14 DEF Nothing
<1>15. ASSUME NEW g \in Loop, Scan(g) PROVE BookInv'
  BY <1>15 DEF Scan
<1>16. ASSUME NEW g \in Loop, LookAtPeers(g) PROVE BookInv'
  BY <1>16 DEF LookAtPeers
<1>17. ASSUME NEW g \in Loop, Halt(g) PROVE BookInv'
  BY <1>17 DEF Halt
<1>18. ASSUME NEW g \in Loop, Finish(g) PROVE BookInv'
  BY <1>18 DEF Finish
<1>19. ASSUME NEW g \in Loop, NEW r \in Request, Dispatch(g, r) PROVE BookInv'
  BY <1>19 DEF Dispatch
<1>20. ASSUME NEW g \in Loop, NEW r \in Request, NoHandler(g, r) PROVE BookInv'
  BY <1>20 DEF NoHandler
<1>21. ASSUME NEW g \in Loop, NEW r \in Request, Unsupported(g, r) PROVE BookInv'
  BY <1>21 DEF Unsupported
<1>22. ASSUME NEW r \in Request, Connect(r) PROVE BookInv'
  BY <1>22 DEF Connect
<1>23. ASSUME UNCHANGED vars PROVE BookInv'
  BY <1>23 DEF vars
<1>24. QED
  BY <1>1, <1>2, <1>3, <1>4, <1>5, <1>6, <1>7, <1>8, <1>9, <1>10, <1>11, <1>12, 
     <1>13, <1>14, <1>15, <1>16, <1>17, <1>18, <1>19, <1>20, <1>21, <1>22, <1>23
     DEF Next, HostStep, LoopNext

LEMMA LastStep ==
  ASSUME TypeOK, BookInv, LastInv, [Next]_vars
  PROVE  LastInv'
<1> USE SupervisorAssumption
        DEF TypeOK, Take, Go, Leave, Move, Read, Disturbed, Scanning, Call,
            callVars, bookVars, controlVars, loopVars, BookInv, LastInv
<1>1. ASSUME NEW t \in Thread, Ensure(t) PROVE LastInv'
  BY <1>1 DEF Ensure
<1>2. ASSUME NEW t \in Thread, Confirm(t) PROVE LastInv'
  BY <1>2 DEF Confirm
<1>3. ASSUME NEW t \in Thread, Publish(t) PROVE LastInv'
  BY <1>3 DEF Publish
<1>4. ASSUME NEW t \in Thread, PublishFails(t) PROVE LastInv'
  BY <1>4 DEF PublishFails
<1>5. ASSUME NEW t \in Thread, CloseListener(t) PROVE LastInv'
  BY <1>5 DEF CloseListener
<1>6. ASSUME NEW t \in Thread, Unpublish(t) PROVE LastInv'
  BY <1>6 DEF Unpublish
<1>7. ASSUME NEW t \in Thread, Join(t) PROVE LastInv'
  BY <1>7 DEF Join
<1>8. ASSUME NEW t \in Thread, Shutdown(t) PROVE LastInv'
  BY <1>8 DEF Shutdown
<1>9. ASSUME NEW t \in Thread, CloseDown(t) PROVE LastInv'
  BY <1>9 DEF CloseDown
<1>10. ASSUME NEW t \in Thread, CloseSelector(t) PROVE LastInv'
  BY <1>10 DEF CloseSelector
<1>11. ASSUME NEW t \in Thread, NEW p \in Peer, Bind(t, p) PROVE LastInv'
  BY <1>11 DEF Bind
<1>12. ASSUME NEW t \in Thread, NEW p \in Peer, Unregister(t, p) PROVE LastInv'
  BY <1>12 DEF Unregister
<1>13. ASSUME NEW g \in Loop, Check(g) PROVE LastInv'
  BY <1>13 DEF Check
<1>14. ASSUME NEW g \in Loop, Nothing(g) PROVE LastInv'
  BY <1>14 DEF Nothing
<1>15. ASSUME NEW g \in Loop, Scan(g) PROVE LastInv'
  BY <1>15 DEF Scan
<1>16. ASSUME NEW g \in Loop, LookAtPeers(g) PROVE LastInv'
  BY <1>16 DEF LookAtPeers
<1>17. ASSUME NEW g \in Loop, Halt(g) PROVE LastInv'
  BY <1>17 DEF Halt
<1>18. ASSUME NEW g \in Loop, Finish(g) PROVE LastInv'
  BY <1>18 DEF Finish
<1>19. ASSUME NEW g \in Loop, NEW r \in Request, Dispatch(g, r) PROVE LastInv'
  BY <1>19 DEF Dispatch
<1>20. ASSUME NEW g \in Loop, NEW r \in Request, NoHandler(g, r) PROVE LastInv'
  BY <1>20 DEF NoHandler
<1>21. ASSUME NEW g \in Loop, NEW r \in Request, Unsupported(g, r) PROVE LastInv'
  BY <1>21 DEF Unsupported
<1>22. ASSUME NEW r \in Request, Connect(r) PROVE LastInv'
  BY <1>22 DEF Connect
<1>23. ASSUME UNCHANGED vars PROVE LastInv'
  BY <1>23 DEF vars
<1>24. QED
  BY <1>1, <1>2, <1>3, <1>4, <1>5, <1>6, <1>7, <1>8, <1>9, <1>10, <1>11, <1>12, 
     <1>13, <1>14, <1>15, <1>16, <1>17, <1>18, <1>19, <1>20, <1>21, <1>22, <1>23
     DEF Next, HostStep, LoopNext

(* This is where a handler that outlasts the join would break the argument. *)
LEMMA ThreadStep ==
  ASSUME ~ SlowHost, TypeOK, ThreadInv, [Next]_vars
  PROVE  ThreadInv'
<1> USE SupervisorAssumption
        DEF TypeOK, Take, Go, Leave, JoinOver, Alive, Move, Read, Disturbed, Scanning, Call,
            callVars, bookVars, controlVars, loopVars, ThreadInv
<1>1. ASSUME NEW t \in Thread, Ensure(t) PROVE ThreadInv'
  BY <1>1 DEF Ensure
<1>2. ASSUME NEW t \in Thread, Confirm(t) PROVE ThreadInv'
  BY <1>2 DEF Confirm
<1>3. ASSUME NEW t \in Thread, Publish(t) PROVE ThreadInv'
  BY <1>3 DEF Publish
<1>4. ASSUME NEW t \in Thread, PublishFails(t) PROVE ThreadInv'
  BY <1>4 DEF PublishFails
<1>5. ASSUME NEW t \in Thread, CloseListener(t) PROVE ThreadInv'
  BY <1>5 DEF CloseListener
<1>6. ASSUME NEW t \in Thread, Unpublish(t) PROVE ThreadInv'
  BY <1>6 DEF Unpublish
<1>7. ASSUME NEW t \in Thread, Join(t) PROVE ThreadInv'
  BY <1>7 DEF Join
<1>8. ASSUME NEW t \in Thread, Shutdown(t) PROVE ThreadInv'
  BY <1>8 DEF Shutdown
<1>9. ASSUME NEW t \in Thread, CloseDown(t) PROVE ThreadInv'
  BY <1>9 DEF CloseDown
<1>10. ASSUME NEW t \in Thread, CloseSelector(t) PROVE ThreadInv'
  BY <1>10 DEF CloseSelector
<1>11. ASSUME NEW t \in Thread, NEW p \in Peer, Bind(t, p) PROVE ThreadInv'
  BY <1>11 DEF Bind
<1>12. ASSUME NEW t \in Thread, NEW p \in Peer, Unregister(t, p) PROVE ThreadInv'
  BY <1>12 DEF Unregister
<1>13. ASSUME NEW g \in Loop, Check(g) PROVE ThreadInv'
  BY <1>13 DEF Check
<1>14. ASSUME NEW g \in Loop, Nothing(g) PROVE ThreadInv'
  BY <1>14 DEF Nothing
<1>15. ASSUME NEW g \in Loop, Scan(g) PROVE ThreadInv'
  BY <1>15 DEF Scan
<1>16. ASSUME NEW g \in Loop, LookAtPeers(g) PROVE ThreadInv'
  BY <1>16 DEF LookAtPeers
<1>17. ASSUME NEW g \in Loop, Halt(g) PROVE ThreadInv'
  BY <1>17 DEF Halt
<1>18. ASSUME NEW g \in Loop, Finish(g) PROVE ThreadInv'
  BY <1>18 DEF Finish
<1>19. ASSUME NEW g \in Loop, NEW r \in Request, Dispatch(g, r) PROVE ThreadInv'
  BY <1>19 DEF Dispatch
<1>20. ASSUME NEW g \in Loop, NEW r \in Request, NoHandler(g, r) PROVE ThreadInv'
  BY <1>20 DEF NoHandler
<1>21. ASSUME NEW g \in Loop, NEW r \in Request, Unsupported(g, r) PROVE ThreadInv'
  BY <1>21 DEF Unsupported
<1>22. ASSUME NEW r \in Request, Connect(r) PROVE ThreadInv'
  BY <1>22 DEF Connect
<1>23. ASSUME UNCHANGED vars PROVE ThreadInv'
  BY <1>23 DEF vars
<1>24. QED
  BY <1>1, <1>2, <1>3, <1>4, <1>5, <1>6, <1>7, <1>8, <1>9, <1>10, <1>11, <1>12, 
     <1>13, <1>14, <1>15, <1>16, <1>17, <1>18, <1>19, <1>20, <1>21, <1>22, <1>23
     DEF Next, HostStep, LoopNext

LEMMA HostInvariant == Spec => []HostInv
<1>1. HostInv /\ [Next]_vars => HostInv'
  BY TypeStep, BookStep, LastStep DEF HostInv
<1>2. QED
  BY InitHost, <1>1, PTL DEF Spec

(* The lock, the books and the threads keep their types, and the thread    *)
(* that holds the lock is the one inside a call.                           *)
THEOREM TypeCorrect == Spec => []TypeOK
<1>1. HostInv => TypeOK
  BY DEF HostInv
<1>2. QED
  BY HostInvariant, <1>1, PTL

(* Whatever registrations fail and whatever supervisors die or outlive     *)
(* their join: between calls exactly the peers with a handler have a       *)
(* listener and a published record.                                        *)
THEOREM RecordsAlwaysMatch == Spec => []RecordsMatchListeners
<1>1. HostInv => RecordsMatchListeners
  BY DEF HostInv, BookInv, RecordsMatchListeners
<1>2. QED
  BY HostInvariant, <1>1, PTL

LEMMA ThreadInvariant == ~ SlowHost => (Spec => [](HostInv /\ ThreadInv))
<1> SUFFICES ASSUME ~ SlowHost PROVE Spec => [](HostInv /\ ThreadInv)
  OBVIOUS
<1>1. Init => ThreadInv
  BY SupervisorAssumption DEF Init, ThreadInv, Alive
<1>2. HostInv /\ ThreadInv /\ [Next]_vars => ThreadInv'
  BY ThreadStep DEF HostInv
<1>3. QED
  BY HostInvariant, <1>1, <1>2, PTL DEF Spec

(* If no handler outlasts the join of a teardown, a process never runs two *)
(* supervisors, however its threads register and unregister peers.         *)
THEOREM NeverTwoSupervisors == ~ SlowHost => (Spec => []OneSupervisor)
<1> SUFFICES ASSUME ~ SlowHost PROVE Spec => []OneSupervisor
  OBVIOUS
<1>1. ThreadInv => OneSupervisor
  BY SupervisorAssumption DEF ThreadInv, OneSupervisor
<1>2. QED
  BY ThreadInvariant, <1>1, PTL

(* Under the same assumption the last teardown leaves no supervisor alive. *)
THEOREM LastTeardownStops == ~ SlowHost => (Spec => []StopsWithLastPeer)
<1> SUFFICES ASSUME ~ SlowHost PROVE Spec => []StopsWithLastPeer
  OBVIOUS
<1>1. HostInv /\ ThreadInv => StopsWithLastPeer
  <2> SUFFICES ASSUME HostInv, ThreadInv, lock = None, peers = {}
               PROVE  Running = {}
    BY DEF StopsWithLastPeer
  <2>1. \A t \in Thread : step[t] = "idle"
    BY SupervisorAssumption DEF HostInv, TypeOK
  <2>2. thread = None /\ joined = None
    BY <2>1 DEF HostInv, LastInv, ThreadInv
  <2>3. QED
    BY <2>2, SupervisorAssumption DEF ThreadInv, Running
<1>2. QED
  BY ThreadInvariant, <1>1, PTL

----------------------------------------------------------------------------
(* A published peer is served                                              *)

(* The last peer is gone and the call that took it away has not returned.  *)
Closing(t) == peers = {} /\ step[t] \in {"popped", "closed", "shutdown", "join", "last"}

(* A supervisor decides to stop, and `_thread' finds the stop event set,   *)
(* only under a call that will wait for it; `_thread' is given up with the *)
(* last peer; and once a registration has looked for it, it goes on.       *)
HaltInv == \A g \in Loop : loop[g] = "halt" => \E t \in Thread : Closing(t)

StopInv == stop /\ thread # None /\ Alive(thread) => \E t \in Thread : Closing(t)

JoinInv == \A t \in Thread : step[t] \in {"join", "last"} => thread = None /\ peers = {}

GoingInv ==
  peers # {} /\ NobodyKilled /\ (\A t \in Thread : step[t] # "bound") =>
    ~ stop /\ thread # None /\ Alive(thread)

ServeInv == HaltInv /\ StopInv /\ JoinInv /\ GoingInv

(* A supervisor that is alive without peers is being waited for, or will be. *)
LEMMA AliveWithoutPeers ==
  ASSUME HostInv, ThreadInv, peers = {}, NEW g \in Loop, Alive(g)
  PROVE  \E t \in Thread : Closing(t)
<1>1. g # None /\ (g = thread \/ g = joined)
  BY SupervisorAssumption DEF ThreadInv
<1>2. CASE g = thread
  BY <1>1, <1>2 DEF HostInv, LastInv, Closing
<1>3. CASE g = joined
  BY <1>1, <1>3 DEF ThreadInv, Closing
<1>4. QED
  BY <1>1, <1>2, <1>3

LEMMA ServeStep ==
  ASSUME ~ SlowHost, HostInv, ThreadInv, ServeInv, [Next]_vars
  PROVE  ServeInv'
<1> USE SupervisorAssumption
        DEF HostInv, TypeOK, Take, Go, Leave, JoinOver, Alive, Move, Read, Disturbed, Scanning, Call,
            callVars, bookVars, controlVars, loopVars, ThreadInv, BookInv, NobodyKilled,
            ServeInv, HaltInv, StopInv, JoinInv, GoingInv, Closing
<1>1. ASSUME NEW t \in Thread, Ensure(t) PROVE ServeInv'
  BY <1>1 DEF Ensure
<1>2. ASSUME NEW t \in Thread, Confirm(t) PROVE ServeInv'
  BY <1>2 DEF Confirm
<1>3. ASSUME NEW t \in Thread, Publish(t) PROVE ServeInv'
  BY <1>3 DEF Publish
<1>4. ASSUME NEW t \in Thread, PublishFails(t) PROVE ServeInv'
  BY <1>4 DEF PublishFails
<1>5. ASSUME NEW t \in Thread, CloseListener(t) PROVE ServeInv'
  BY <1>5 DEF CloseListener
<1>6. ASSUME NEW t \in Thread, Unpublish(t) PROVE ServeInv'
  BY <1>6 DEF Unpublish
<1>7. ASSUME NEW t \in Thread, Join(t) PROVE ServeInv'
  BY <1>7 DEF Join
<1>8. ASSUME NEW t \in Thread, Shutdown(t) PROVE ServeInv'
  BY <1>8 DEF Shutdown
<1>9. ASSUME NEW t \in Thread, CloseDown(t) PROVE ServeInv'
  BY <1>9 DEF CloseDown
<1>10. ASSUME NEW t \in Thread, CloseSelector(t) PROVE ServeInv'
  BY <1>10 DEF CloseSelector
<1>11. ASSUME NEW t \in Thread, NEW p \in Peer, Bind(t, p) PROVE ServeInv'
  BY <1>11 DEF Bind
<1>12. ASSUME NEW t \in Thread, NEW p \in Peer, Unregister(t, p) PROVE ServeInv'
  BY <1>12 DEF Unregister
<1>13. ASSUME NEW g \in Loop, Check(g) PROVE ServeInv'
  BY <1>13 DEF Check
<1>14. ASSUME NEW g \in Loop, Nothing(g) PROVE ServeInv'
  BY <1>14 DEF Nothing
<1>15. ASSUME NEW g \in Loop, Scan(g) PROVE ServeInv'
  BY <1>15 DEF Scan
<1>16. ASSUME NEW g \in Loop, LookAtPeers(g) PROVE ServeInv'
  <2>1. peers = {} => \E t \in Thread : Closing(t)
    BY <1>16, AliveWithoutPeers DEF LookAtPeers
  <2>2. QED
    BY <1>16, <2>1 DEF LookAtPeers
<1>17. ASSUME NEW g \in Loop, Halt(g) PROVE ServeInv'
  BY <1>17 DEF Halt
<1>18. ASSUME NEW g \in Loop, Finish(g) PROVE ServeInv'
  BY <1>18 DEF Finish
<1>19. ASSUME NEW g \in Loop, NEW r \in Request, Dispatch(g, r) PROVE ServeInv'
  BY <1>19 DEF Dispatch
<1>20. ASSUME NEW g \in Loop, NEW r \in Request, NoHandler(g, r) PROVE ServeInv'
  BY <1>20 DEF NoHandler
<1>21. ASSUME NEW g \in Loop, NEW r \in Request, Unsupported(g, r) PROVE ServeInv'
  BY <1>21 DEF Unsupported
<1>22. ASSUME NEW r \in Request, Connect(r) PROVE ServeInv'
  BY <1>22 DEF Connect
<1>23. ASSUME UNCHANGED vars PROVE ServeInv'
  BY <1>23 DEF vars
<1>24. QED
  BY <1>1, <1>2, <1>3, <1>4, <1>5, <1>6, <1>7, <1>8, <1>9, <1>10, <1>11, <1>12,
     <1>13, <1>14, <1>15, <1>16, <1>17, <1>18, <1>19, <1>20, <1>21, <1>22, <1>23
     DEF Next, HostStep, LoopNext

(* Unless an exception ended a supervisor, and if no handler outlasts the  *)
(* join of a teardown: between calls a published peer has a supervisor     *)
(* that will not stop, however registrations, failed registrations,        *)
(* teardowns and the supervisor's own decision to stop overlap.            *)
THEOREM PublishedPeersServed == ~ SlowHost => (Spec => []Served)
<1> SUFFICES ASSUME ~ SlowHost PROVE Spec => []Served
  OBVIOUS
<1>1. Init => ServeInv
  BY SupervisorAssumption
     DEF Init, ServeInv, HaltInv, StopInv, JoinInv, GoingInv
<1>2. HostInv /\ ThreadInv /\ ServeInv /\ [Next]_vars => ServeInv'
  BY ServeStep
<1>3. HostInv /\ ServeInv => Served
  <2> SUFFICES ASSUME HostInv, ServeInv, lock = None, records # {}, NobodyKilled
               PROVE  ~ stop /\ Running # {}
    BY DEF Served
  <2>1. peers # {} /\ \A t \in Thread : step[t] = "idle"
    BY SupervisorAssumption DEF HostInv, TypeOK, BookInv
  <2>2. ~ stop /\ thread \in Loop /\ Alive(thread)
    BY <2>1 DEF HostInv, TypeOK, ServeInv, GoingInv
  <2>3. QED
    BY <2>2 DEF Running
<1>4. QED
  BY ThreadInvariant, <1>1, <1>2, <1>3, PTL DEF Spec
=============================================================================
