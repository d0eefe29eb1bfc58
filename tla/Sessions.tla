------------------------------ MODULE Sessions ------------------------------
(***************************************************************************)
(* One process that loads the plugin: the lifecycle hooks the host calls   *)
(* on PeerSessionManager, the peers it registers with the runtime, and the *)
(* record each of them has in the registry directory.                      *)
(*                                                                         *)
(* A step is one call on the runtime or the registry, or the dictionary    *)
(* accesses between two such calls.  The runtime has one lock, held for    *)
(* all of register_peer and unregister_peer; the registry has another,     *)
(* held from the read of a record to its write.  The session manager has   *)
(* none.  The heartbeat thread takes the lock of the registry only.        *)
(***************************************************************************)
EXTENDS Naturals, FiniteSets

CONSTANTS
  Session,          \* host sessions
  Peer,             \* peer ids: each open or rotation makes a fresh one
  Thread,           \* host threads that run hooks
  Serial,           \* TRUE if the host runs the hooks of a session in turn
  OldIds,           \* TRUE if the host names the session a reset ends
  Crashes,          \* TRUE if the process may die
  Faults,           \* TRUE if publishing a record may raise
  Heartbeat,        \* the heartbeat thread
  None

ASSUME SessionsAssumption ==
  /\ Heartbeat \notin Thread
  /\ None \notin Session \cup Peer \cup Thread \cup {Heartbeat}
  /\ {Serial, OldIds, Crashes, Faults} \subseteq BOOLEAN

VARIABLES
  up,               \* the process is alive
  used,             \* peer ids made so far
  toPeer,           \* _session_to_peer
  recordOf,         \* _peers, as far as it names the peer
  beating,          \* _presence
  handles,          \* _peer_handles
  answers,          \* runtime._peers: the status a probe is answered with
  bound,            \* listeners that accept
  sockets,          \* socket files
  file,             \* status in the record file, "none" where there is none
  rtLock, regLock,  \* the threads that hold the two locks
  job,              \* per thread: where it is in which hook
  round, beat       \* heartbeat: peers left in this round, record being written

mapVars == <<toPeer, recordOf, beating, handles>>
peerVars == <<used, answers, bound, sockets>>
lockVars == <<rtLock, regLock>>
beatVars == <<round, beat>>
processVars == <<up, mapVars, peerVars, file, lockVars, job, beatVars>>

Status == {"idle", "working", "closing"}
Step == {"ready", "bind", "publish", "enter", "read", "write", "adopt",
         "unbind", "close", "unlink", "unpublish", "forget"}

(* Session worked for, session being closed, peer, status to be written.   *)
Job == [step : Step, session : Session \cup {None}, old : Session \cup {None},
        peer : Peer \cup {None}, goal : Status \cup {"none", "name"}]

ProcessTypeOK ==
  /\ up \in BOOLEAN
  /\ toPeer \in [Session -> Peer \cup {None}]
  /\ recordOf \in [Session -> Peer \cup {None}]
  /\ beating \in [Session -> Peer \cup {None}]
  /\ {used, handles, bound, sockets, round} \subseteq SUBSET Peer
  /\ answers \in [Peer -> Status \cup {"none"}]
  /\ file \in [Peer -> Status \cup {"none"}]
  /\ rtLock \in Thread \cup {None}
  /\ regLock \in Thread \cup {Heartbeat, None}
  /\ job \in [Thread -> Job]
  /\ beat \in [peer : Peer \cup {None}, status : Status \cup {"none"}]

Task(step, s, o, p, g) == [step |-> step, session |-> s, old |-> o, peer |-> p, goal |-> g]
Ready == Task("ready", None, None, None, "none")
NoBeat == [peer |-> None, status |-> "none"]

NoPeer == [s \in Session |-> None]
NoStatus == [p \in Peer |-> "none"]

Init ==
  /\ up = TRUE
  /\ toPeer = NoPeer /\ recordOf = NoPeer /\ beating = NoPeer /\ handles = {}
  /\ used = {} /\ answers = NoStatus /\ bound = {} /\ sockets = {}
  /\ file = NoStatus
  /\ rtLock = None /\ regLock = None
  /\ job = [t \in Thread |-> Ready]
  /\ round = {} /\ beat = NoBeat

----------------------------------------------------------------------------
(* Hooks: what a thread finds in the maps when the host calls it           *)

Quiet(s) == \A t \in Thread : s \notin {job[t].session, job[t].old}

Do(t, task) == job' = [job EXCEPT ![t] = task]
Go(t, step) == job' = [job EXCEPT ![t].step = step]
Begin(t, s) == job[t] = Ready /\ (Serial => Quiet(s))

(* _set_presence: nothing to do for a session that has no record.          *)
SetPresence(s, status) ==
  IF recordOf[s] = None THEN Ready ELSE Task("read", s, None, recordOf[s], status)

(* on_session_start: a session that was never opened registers first.      *)
StartTask(s) ==
  IF toPeer[s] = None THEN Task("bind", s, None, None, "working")
                      ELSE SetPresence(s, "working")

OnOpen(t, s) ==
  /\ Begin(t, s) /\ toPeer[s] = None
  /\ Do(t, Task("bind", s, None, None, "none"))
  /\ UNCHANGED <<up, mapVars, peerVars, file, lockVars, beatVars>>

OnStart(t, s) ==
  /\ Begin(t, s)
  /\ Do(t, StartTask(s))
  /\ UNCHANGED <<up, mapVars, peerVars, file, lockVars, beatVars>>

OnEnd(t, s) ==
  /\ Begin(t, s) /\ toPeer[s] # None
  /\ Do(t, SetPresence(s, "idle"))
  /\ UNCHANGED <<up, mapVars, peerVars, file, lockVars, beatVars>>

(* An alias leaves the status as it is in the record.                      *)
SetAlias(t, s) ==
  /\ Begin(t, s)
  /\ Do(t, SetPresence(s, "name"))
  /\ UNCHANGED <<up, mapVars, peerVars, file, lockVars, beatVars>>

(* Pop the session and the handle of its peer, then close the handle.      *)
CloseThen(t, o, s) ==
  /\ toPeer[o] # None
  /\ toPeer' = [toPeer EXCEPT ![o] = None]
  /\ handles' = handles \ {toPeer[o]}
  /\ Do(t, Task("unbind", s, o, toPeer[o], "none"))
  /\ UNCHANGED <<up, recordOf, beating, peerVars, file, lockVars, beatVars>>

OnFinalize(t, s) == Begin(t, s) /\ CloseThen(t, s, None)

(* Without the old id, the one session there is gets rotated.  A reset of  *)
(* a session that has no peer is the start of the new one: OnStart.        *)
OnReset(t, o, s) ==
  /\ Begin(t, s) /\ o # s
  /\ IF OldIds THEN Begin(t, o) ELSE {r \in Session : toPeer[r] # None} = {o}
  /\ CloseThen(t, o, s)

----------------------------------------------------------------------------
(* on_session_open: register with the runtime, then fill in the maps       *)

Bind(t) ==
  /\ job[t].step = "bind" /\ rtLock = None
  /\ \E p \in Peer \ used :
        /\ used' = used \cup {p}
        /\ bound' = bound \cup {p} /\ sockets' = sockets \cup {p}
        /\ answers' = [answers EXCEPT ![p] = "idle"]
        /\ job' = [job EXCEPT ![t].step = "publish", ![t].peer = p]
  /\ rtLock' = t
  /\ UNCHANGED <<up, mapVars, file, regLock, beatVars>>

Publish(t) ==
  /\ job[t].step = "publish" /\ regLock = None
  /\ file' = [file EXCEPT ![job[t].peer] = "idle"]
  /\ rtLock' = None
  /\ Go(t, "enter")
  /\ UNCHANGED <<up, mapVars, peerVars, regLock, beatVars>>

(* register_peer takes back what it did; the hook raises.                  *)
PublishFails(t) ==
  /\ Faults /\ job[t].step = "publish"
  /\ bound' = bound \ {job[t].peer} /\ sockets' = sockets \ {job[t].peer}
  /\ answers' = [answers EXCEPT ![job[t].peer] = "none"]
  /\ rtLock' = None
  /\ Do(t, Ready)
  /\ UNCHANGED <<up, mapVars, used, file, regLock, beatVars>>

Enter(t) ==
  /\ job[t].step = "enter"
  /\ LET s == job[t].session
         p == job[t].peer
     IN /\ recordOf' = [recordOf EXCEPT ![s] = p]
        /\ toPeer' = [toPeer EXCEPT ![s] = p]
        /\ handles' = handles \cup {p}
        /\ beating' = [beating EXCEPT ![s] = p]
  /\ IF job[t].goal = "none" THEN Do(t, Ready) ELSE Go(t, "read")
  /\ UNCHANGED <<up, peerVars, file, lockVars, beatVars>>

(* _set_presence or set_alias: update the record, then runtime and map.    *)
ReadRecord(t) ==
  /\ job[t].step = "read" /\ regLock = None
  /\ LET p == job[t].peer
     IN \/ /\ file[p] = "none"
           /\ IF job[t].goal = "closing" THEN Go(t, "close") ELSE Do(t, Ready)
           /\ UNCHANGED regLock
        \/ /\ file[p] # "none"
           /\ regLock' = t
           /\ job' = [job EXCEPT ![t].step = "write",
                                 ![t].goal = IF @ = "name" THEN file[p] ELSE @]
  /\ UNCHANGED <<up, mapVars, peerVars, file, rtLock, beatVars>>

WriteRecord(t) ==
  /\ job[t].step = "write"
  /\ file' = [file EXCEPT ![job[t].peer] = job[t].goal]
  /\ regLock' = None
  /\ Go(t, IF job[t].goal = "closing" THEN "close" ELSE "adopt")
  /\ UNCHANGED <<up, mapVars, peerVars, rtLock, beatVars>>

AdoptMapOnly(t) ==
  /\ job[t].step = "adopt"
  /\ recordOf' = [recordOf EXCEPT ![job[t].session] = job[t].peer]
  /\ Do(t, Ready)
  /\ UNCHANGED <<up, toPeer, beating, handles, peerVars, file, lockVars, beatVars>>

(* Two writes of the code in one step: the runtime's, and the one of the   *)
(* map.  The second names the peer the map names already, unless hooks of  *)
(* one session overlap; nothing but such a hook can tell them apart.       *)
Adopt(t) ==
  /\ job[t].step = "adopt" /\ rtLock = None
  /\ LET p == job[t].peer
     IN answers' = [answers EXCEPT ![p] = IF @ = "none" THEN @ ELSE job[t].goal]
  /\ recordOf' = [recordOf EXCEPT ![job[t].session] = job[t].peer]
  /\ Do(t, Ready)
  /\ UNCHANGED <<up, used, toPeer, beating, handles, bound, sockets, file, lockVars, beatVars>>

----------------------------------------------------------------------------
(* PeerHandle.close, all of it under the lock of the runtime: mark the     *)
(* record closing, close the listener, unlink socket and record.           *)

Unbind(t) ==
  /\ job[t].step = "unbind" /\ rtLock = None
  /\ rtLock' = t
  /\ answers' = [answers EXCEPT ![job[t].peer] = "none"]
  /\ job' = [job EXCEPT ![t].step = "read", ![t].goal = "closing"]
  /\ UNCHANGED <<up, mapVars, used, bound, sockets, file, regLock, beatVars>>

Close(t) ==
  /\ job[t].step = "close"
  /\ bound' = bound \ {job[t].peer}
  /\ Go(t, "unlink")
  /\ UNCHANGED <<up, mapVars, used, answers, sockets, file, lockVars, beatVars>>

Unlink(t) ==
  /\ job[t].step = "unlink"
  /\ sockets' = sockets \ {job[t].peer}
  /\ Go(t, "unpublish")
  /\ UNCHANGED <<up, mapVars, used, answers, bound, file, lockVars, beatVars>>

Unpublish(t) ==
  /\ job[t].step = "unpublish" /\ regLock = None
  /\ file' = [file EXCEPT ![job[t].peer] = "none"]
  /\ rtLock' = None
  /\ Go(t, "forget")
  /\ UNCHANGED <<up, mapVars, peerVars, regLock, beatVars>>

(* A rotation goes on with the new session, a finalize is over.  Only the  *)
(* finalize drops the presence manager of the session.                     *)
Forget(t) ==
  /\ job[t].step = "forget"
  /\ LET o == job[t].old
         s == job[t].session
     IN /\ recordOf' = [recordOf EXCEPT ![o] = None]
        /\ \/ /\ s = None
              /\ beating' = [beating EXCEPT ![o] = None]
              /\ Do(t, Ready)
           \/ /\ s # None
              /\ Do(t, StartTask(s))
              /\ UNCHANGED beating
  /\ UNCHANGED <<up, toPeer, handles, peerVars, file, lockVars, beatVars>>

----------------------------------------------------------------------------
(* The heartbeat thread: a round over the presence managers there are      *)

Round ==
  /\ round = {} /\ beat = NoBeat
  /\ round' = {beating[s] : s \in Session} \ {None}
  /\ UNCHANGED <<up, mapVars, peerVars, file, lockVars, job, beat>>

BeatUnlocked(p) ==
  /\ p \in round /\ beat = NoBeat /\ file[p] # "none"
  /\ round' = round \ {p}
  /\ beat' = [peer |-> p, status |-> file[p]]
  /\ UNCHANGED <<up, mapVars, peerVars, file, lockVars, job>>

BeatRead(p) ==
  /\ p \in round /\ beat = NoBeat /\ regLock = None
  /\ round' = round \ {p}
  /\ \/ file[p] = "none" /\ UNCHANGED <<beat, regLock>>
     \/ /\ file[p] # "none"
        /\ beat' = [peer |-> p, status |-> file[p]]
        /\ regLock' = Heartbeat
  /\ UNCHANGED <<up, mapVars, peerVars, file, rtLock, job>>

BeatWrite ==
  /\ beat # NoBeat
  /\ file' = [file EXCEPT ![beat.peer] = beat.status]
  /\ regLock' = None /\ beat' = NoBeat
  /\ UNCHANGED <<up, mapVars, peerVars, rtLock, job, round>>

(* A process that dies leaves what is on disk.                             *)
Crash ==
  /\ Crashes /\ up
  /\ up' = FALSE
  /\ toPeer' = NoPeer /\ recordOf' = NoPeer /\ beating' = NoPeer /\ handles' = {}
  /\ answers' = NoStatus /\ bound' = {}
  /\ rtLock' = None /\ regLock' = None
  /\ job' = [t \in Thread |-> Ready]
  /\ round' = {} /\ beat' = NoBeat
  /\ UNCHANGED <<used, sockets, file>>

Hook(t) ==
  \E s \in Session :
    \/ OnOpen(t, s)
    \/ OnStart(t, s)
    \/ OnEnd(t, s)
    \/ SetAlias(t, s)
    \/ OnFinalize(t, s)
    \/ \E o \in Session : OnReset(t, o, s)

GoOn(t) ==
  \/ Bind(t) \/ Publish(t) \/ PublishFails(t) \/ Enter(t)
  \/ ReadRecord(t) \/ WriteRecord(t) \/ Adopt(t)
  \/ Unbind(t) \/ Close(t) \/ Unlink(t) \/ Unpublish(t) \/ Forget(t)

Beat == Round \/ BeatWrite \/ \E p \in Peer : BeatRead(p)

ProcessNext == up /\ (Beat \/ Crash \/ \E t \in Thread : Hook(t) \/ GoOn(t))
=============================================================================
