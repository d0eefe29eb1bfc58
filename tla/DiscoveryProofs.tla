-------------------------- MODULE DiscoveryProofs --------------------------
(***************************************************************************)
(* Proofs about the life of a session's peer and stale repair, for any     *)
(* number of sessions, peers and threads, whatever fails and whenever the  *)
(* process dies.  Repair is proved whether or not the host runs the hooks  *)
(* of a session in turn, the agreement of the maps only when it does.      *)
(***************************************************************************)
EXTENDS Discovery, TLAPS

(* Nothing names a peer id before it was made.                             *)
Made == used \cup {None}

Issued ==
  /\ bound \subseteq used /\ round \subseteq used
  /\ \A p \in Peer : file[p] # "none" => p \in used
  /\ \A s \in Session : toPeer[s] \in Made /\ recordOf[s] \in Made /\ beating[s] \in Made
  /\ \A t \in Thread : job[t].peer \in Made
  /\ beat.peer \in Made /\ repair.peer \in Made

(* What a hook under way holds, and that its peer has closed by the time   *)
(* socket and record go.                                                   *)
JobsFit ==
  \A t \in Thread :
    /\ job[t].step \notin {"ready", "bind"} => job[t].peer # None
    /\ job[t].step = "read" => job[t].goal # "none"
    /\ job[t].step \in {"write", "adopt"} => job[t].goal \in Status
    /\ job[t].step \in {"unlink", "unpublish"} => job[t].peer \notin bound

BeatFits == beat # NoBeat => beat.peer # None /\ beat.status # "none"

(* A repair past its fence has a peer that does not listen any more, or    *)
(* one it has missed.                                                      *)
RepairFits ==
  /\ repair.step # "next" => repair.peer # None
  /\ repair.step \in {"record", "socket"} => repair.peer \notin bound \ misled

(* What a step of the process leaves to the repair.                        *)
RepairWaits == UNCHANGED repair /\ misled' = misled \cap bound'

IInv == TypeOK /\ Issued /\ JobsFit /\ BeatFits /\ RepairFits

LEMMA InitIInv == RepairInit => IInv
<1> SUFFICES ASSUME RepairInit PROVE IInv
  OBVIOUS
<1> USE SessionsAssumption DEF RepairInit, Init, NoPeer, NoStatus, NoBeat, NoRepair, Ready, Task
<1>1. TypeOK
  BY DEF TypeOK, ProcessTypeOK, Repair, Job, Step, Status
<1>2. Issued
  BY DEF Issued, Made
<1>3. JobsFit /\ BeatFits /\ RepairFits
  BY DEF JobsFit, BeatFits, RepairFits
<1>4. QED
  BY <1>1, <1>2, <1>3 DEF IInv

(* A hook that is called changes the job of its thread, or takes a peer    *)
(* out of the maps.                                                        *)
LEMMA HookKeeps == ASSUME IInv, NEW t \in Thread, Hook(t), RepairWaits PROVE IInv'
<1> USE SessionsAssumption DEF IInv, TypeOK, ProcessTypeOK, Issued, Made, JobsFit, BeatFits, RepairFits, RepairWaits, Job, Step, Status, Repair
<1> USE DEF Do, Go, Task, Ready, NoBeat, NoRepair, mapVars, peerVars, lockVars, beatVars, processVars
<1>1. ASSUME NEW s \in Session, OnOpen(t, s) PROVE IInv'
  BY <1>1, SMTT(60) DEF OnOpen, Begin
<1>2. ASSUME NEW s \in Session, OnStart(t, s) PROVE IInv'
  BY <1>2, SMTT(60) DEF OnStart, Begin, StartTask, SetPresence
<1>3. ASSUME NEW s \in Session, OnEnd(t, s) PROVE IInv'
  BY <1>3, SMTT(60) DEF OnEnd, Begin, SetPresence
<1>4. ASSUME NEW s \in Session, SetAlias(t, s) PROVE IInv'
  BY <1>4, SMTT(60) DEF SetAlias, Begin, SetPresence
<1>5. ASSUME NEW s \in Session, OnFinalize(t, s) PROVE IInv'
  BY <1>5, SMTT(60) DEF OnFinalize, CloseThen, Begin
<1>6. ASSUME NEW s \in Session, NEW o \in Session, OnReset(t, o, s) PROVE IInv'
  BY <1>6, SMTT(60) DEF OnReset, CloseThen, Begin
<1>7. QED
  BY <1>1, <1>2, <1>3, <1>4, <1>5, <1>6 DEF Hook

(* Steps that change several functions at once.                            *)
LEMMA TypeStep ==
  ASSUME IInv, NEW t \in Thread, RepairWaits,
         Enter(t) \/ Adopt(t) \/ Unbind(t) \/ Forget(t)
  PROVE  TypeOK'
<1> USE SessionsAssumption DEF TypeOK, ProcessTypeOK, RepairWaits
<1> USE DEF mapVars, peerVars, lockVars, beatVars, Do, Go
<1> DEFINE p == job[t].peer
<1>1. job[t] \in Job /\ p \in Peer \cup {None} /\ job[t].session \in Session \cup {None}
  BY DEF IInv, Job
<1>2. Ready \in Job
  BY DEF Ready, Task, Job, Step
<1>3. \A step \in Step : [job[t] EXCEPT !.step = step] \in Job
  BY <1>1 DEF Job
<1>4. ASSUME NEW j \in Job PROVE [job EXCEPT ![t] = j] \in [Thread -> Job]
  BY DEF IInv
<1>5. CASE Enter(t)
  <2>1. p \in Peer
    BY <1>1, <1>5 DEF Enter, IInv, JobsFit
  <2>2. [job[t] EXCEPT !.step = "read"] \in Job
    BY <1>3 DEF Step
  <2>3. job' \in [Thread -> Job]
    <3>1. CASE job[t].goal = "none"
      BY <1>2, <1>4, <1>5, <3>1 DEF Enter
    <3>2. CASE job[t].goal # "none"
      <4>1. job' = [job EXCEPT ![t] = [job[t] EXCEPT !.step = "read"]]
        BY <1>5, <3>2 DEF Enter, IInv
      <4>2. QED
        BY <1>4, <2>2, <4>1
    <3>3. QED
      BY <3>1, <3>2
  <2>4. /\ recordOf' \in [Session -> Peer \cup {None}] /\ toPeer' \in [Session -> Peer \cup {None}]
        /\ beating' \in [Session -> Peer \cup {None}] /\ handles' \subseteq Peer
    BY <1>5, <2>1 DEF Enter, IInv
  <2>5. UNCHANGED <<up, used, answers, bound, sockets, file, rtLock, regLock, round, beat, repair>>
    BY <1>5 DEF Enter
  <2>6. QED
    BY <2>3, <2>4, <2>5 DEF IInv
<1>6. CASE Adopt(t)
  <2>1. job[t].goal \in Status
    BY <1>6 DEF Adopt, IInv, JobsFit
  <2>2. answers' \in [Peer -> Status \cup {"none"}]
    BY <1>6, <2>1 DEF Adopt, IInv, Status
  <2>3. recordOf' \in [Session -> Peer \cup {None}]
    BY <1>1, <1>6 DEF Adopt, IInv
  <2>4. job' \in [Thread -> Job]
    BY <1>2, <1>4, <1>6 DEF Adopt
  <2>5. UNCHANGED <<up, used, toPeer, beating, handles, bound, sockets, file, rtLock, regLock, round, beat, repair>>
    BY <1>6 DEF Adopt
  <2>6. QED
    BY <2>2, <2>3, <2>4, <2>5 DEF IInv
<1>7. CASE Unbind(t)
  <2>1. [job[t] EXCEPT !.step = "read", !.goal = "closing"] \in Job
    BY <1>1 DEF Job, Step, Status
  <2>2. job' = [job EXCEPT ![t] = [job[t] EXCEPT !.step = "read", !.goal = "closing"]]
    BY <1>7 DEF Unbind, IInv
  <2>3. job' \in [Thread -> Job]
    BY <1>4, <2>1, <2>2
  <2>4. answers' \in [Peer -> Status \cup {"none"}] /\ rtLock' \in Thread \cup {None}
    BY <1>7 DEF Unbind, IInv
  <2>5. UNCHANGED <<up, used, toPeer, recordOf, beating, handles, bound, sockets, file, regLock, round, beat, repair>>
    BY <1>7 DEF Unbind
  <2>6. QED
    BY <2>3, <2>4, <2>5 DEF IInv
<1>8. CASE Forget(t)
  <2> DEFINE s == job[t].session
  <2>1. s # None => StartTask(s) \in Job
    BY <1>1, <1>2 DEF StartTask, SetPresence, Task, Job, Step, Status, IInv
  <2>2. job' \in [Thread -> Job]
    BY <1>2, <1>4, <1>8, <2>1 DEF Forget
  <2>3. /\ recordOf' \in [Session -> Peer \cup {None}] /\ beating' \in [Session -> Peer \cup {None}]
    BY <1>8 DEF Forget, IInv
  <2>4. UNCHANGED <<up, toPeer, handles, used, answers, bound, sockets, file, rtLock, regLock, round, beat, repair>>
    BY <1>8 DEF Forget
  <2>5. QED
    BY <2>2, <2>3, <2>4 DEF IInv
<1>9. QED
  BY <1>5, <1>6, <1>7, <1>8

LEMMA GoOnKeeps == ASSUME IInv, NEW t \in Thread, GoOn(t), RepairWaits PROVE IInv'
<1> USE SessionsAssumption DEF IInv, TypeOK, ProcessTypeOK, Issued, Made, JobsFit, BeatFits, RepairFits, RepairWaits, Job, Step, Status, Repair
<1> USE DEF Do, Go, Task, Ready, NoBeat, NoRepair, mapVars, peerVars, lockVars, beatVars, processVars
<1>1. CASE Bind(t)
  BY <1>1, SMTT(60) DEF Bind
<1>2. CASE Publish(t)
  BY <1>2, SMTT(60) DEF Publish
<1>3. CASE PublishFails(t)
  BY <1>3, SMTT(60) DEF PublishFails
<1>4. CASE Enter(t)
  <2>1. TypeOK'
    BY <1>4, TypeStep
  <2>2. Issued'
    BY <1>4, SMTT(60) DEF Enter
  <2>3. JobsFit'
    BY <1>4, SMTT(60) DEF Enter
  <2>4. BeatFits' /\ RepairFits'
    BY <1>4, SMTT(60) DEF Enter
  <2>5. QED
    BY <2>1, <2>2, <2>3, <2>4
<1>5. CASE ReadRecord(t)
  BY <1>5, SMTT(60) DEF ReadRecord
<1>6. CASE WriteRecord(t)
  BY <1>6, SMTT(60) DEF WriteRecord
<1>7. CASE Adopt(t)
  <2>1. TypeOK'
    BY <1>7, TypeStep
  <2>2. Issued'
    BY <1>7, SMTT(60) DEF Adopt
  <2>3. JobsFit'
    BY <1>7, SMTT(60) DEF Adopt
  <2>4. BeatFits' /\ RepairFits'
    BY <1>7, SMTT(60) DEF Adopt
  <2>5. QED
    BY <2>1, <2>2, <2>3, <2>4
<1>8. CASE Unbind(t)
  <2>1. TypeOK'
    BY <1>8, TypeStep
  <2>2. Issued'
    BY <1>8, SMTT(60) DEF Unbind
  <2>3. JobsFit'
    BY <1>8, SMTT(60) DEF Unbind
  <2>4. BeatFits' /\ RepairFits'
    BY <1>8, SMTT(60) DEF Unbind
  <2>5. QED
    BY <2>1, <2>2, <2>3, <2>4
<1>9. CASE Close(t)
  BY <1>9, SMTT(60) DEF Close
<1>10. CASE Unlink(t)
  BY <1>10, SMTT(60) DEF Unlink
<1>11. CASE Unpublish(t)
  BY <1>11, SMTT(60) DEF Unpublish
<1>12. CASE Forget(t)
  <2>1. TypeOK'
    BY <1>12, TypeStep
  <2>2. Issued'
    BY <1>12, SMTT(60) DEF Forget, StartTask, SetPresence
  <2>3. JobsFit'
    BY <1>12, SMTT(200) DEF Forget, StartTask, SetPresence
  <2>4. BeatFits' /\ RepairFits'
    BY <1>12, SMTT(60) DEF Forget, StartTask, SetPresence
  <2>5. QED
    BY <2>1, <2>2, <2>3, <2>4
<1>13. QED
  BY <1>1, <1>2, <1>3, <1>4, <1>5, <1>6, <1>7, <1>8, <1>9, <1>10, <1>11, <1>12, GoOn(t) DEF GoOn

(* The heartbeat rewrites records as it read them.                         *)
LEMMA BeatKeeps == ASSUME IInv, Beat, RepairWaits PROVE IInv'
<1> USE SessionsAssumption DEF IInv, TypeOK, ProcessTypeOK, Issued, Made, JobsFit, BeatFits, RepairFits, RepairWaits, Job, Step, Status, Repair
<1> USE DEF Do, Go, Task, Ready, NoBeat, NoRepair, mapVars, peerVars, lockVars, beatVars, processVars
<1>1. CASE Round
  BY <1>1, SMTT(60) DEF Round
<1>2. ASSUME NEW p \in Peer, BeatRead(p) PROVE IInv'
  BY <1>2, SMTT(60) DEF BeatRead
<1>3. CASE BeatWrite
  BY <1>3, SMTT(60) DEF BeatWrite
<1>4. QED
  BY <1>1, <1>2, <1>3 DEF Beat

LEMMA CrashKeeps == ASSUME IInv, Crash, RepairWaits PROVE IInv'
<1> USE SessionsAssumption DEF NoPeer, NoStatus, NoBeat, Ready, Task, lockVars, RepairWaits
<1>1. Ready \in Job
  BY DEF Job, Step
<1>2. TypeOK'
  <2> USE DEF Crash
  <2>1. job' \in [Thread -> Job] /\ beat' \in [peer : Peer \cup {None}, status : Status \cup {"none"}]
    BY <1>1
  <2>2. /\ toPeer' \in [Session -> Peer \cup {None}] /\ recordOf' \in [Session -> Peer \cup {None}]
        /\ beating' \in [Session -> Peer \cup {None}] /\ answers' \in [Peer -> Status \cup {"none"}]
    OBVIOUS
  <2>3. UNCHANGED <<used, sockets, file, repair>> /\ up' = FALSE /\ rtLock' = None /\ regLock' = None
        /\ handles' = {} /\ bound' = {} /\ round' = {}
    OBVIOUS
  <2> HIDE DEF Crash, NoPeer, NoStatus, NoBeat, Ready
  <2>4. (\A S \in {used, handles, bound, sockets, round} : S \subseteq Peer)'
    BY <2>3 DEF IInv, TypeOK, ProcessTypeOK
  <2>5. up' \in BOOLEAN /\ rtLock' \in Thread \cup {None} /\ regLock' \in Thread \cup {Heartbeat, None}
    BY <2>3
  <2>6. file' \in [Peer -> Status \cup {"none"}] /\ repair' \in Repair /\ misled' \subseteq bound'
    BY <2>3 DEF IInv, TypeOK, ProcessTypeOK
  <2>7. QED
    BY <2>1, <2>2, <2>4, <2>5, <2>6 DEF TypeOK, ProcessTypeOK
<1>3. Issued'
  BY DEF IInv, Issued, Made, Crash
<1>4. JobsFit' /\ BeatFits' /\ RepairFits'
  BY DEF IInv, JobsFit, BeatFits, RepairFits, Crash
<1>5. QED
  BY <1>2, <1>3, <1>4 DEF IInv

(* Repair decides on what it reads, and removes what nobody listens on.    *)
LEMMA RepairMoves ==
  ASSUME IInv, UNCHANGED <<up, mapVars, used, answers, bound, lockVars, job, beatVars>>,
         file' \in [Peer -> Status \cup {"none"}], \A p \in Peer : file'[p] # "none" => file[p] # "none",
         sockets' \subseteq Peer, misled' \subseteq bound,
         repair' \in Repair, RepairFits', repair'.peer \in Made
  PROVE  IInv'
<1> USE DEF mapVars, lockVars, beatVars
<1>1. TypeOK'
  BY DEF IInv, TypeOK, ProcessTypeOK
<1>2. Issued'
  BY DEF IInv, Issued, Made
<1>3. JobsFit' /\ BeatFits'
  BY DEF IInv, JobsFit, BeatFits
<1>4. QED
  BY <1>1, <1>2, <1>3 DEF IInv

(* A repair that goes one step further.                                    *)
LEMMA RepairGoesOn ==
  ASSUME repair \in Repair, NEW step \in {"check", "challenge", "bound", "record", "socket"}, Proceed(step)
  PROVE  repair' \in Repair /\ repair'.peer = repair.peer /\ repair'.step = step
  BY DEF Repair, Proceed

LEMMA RepairKeeps == ASSUME IInv, Fence \/ \E p \in Peer : Consider(p) PROVE IInv'
<1> USE SessionsAssumption DEF Made, processVars, peerVars
<1>1. /\ repair \in Repair /\ RepairFits /\ repair.peer \in Made /\ None \notin Peer
      /\ file \in [Peer -> Status \cup {"none"}] /\ sockets \subseteq Peer /\ misled \subseteq bound
  BY DEF IInv, Issued, TypeOK, ProcessTypeOK
<1>2. NoRepair \in Repair /\ NoRepair.peer = None /\ NoRepair.step = "next"
  BY DEF NoRepair, Repair
<1>3. ASSUME UNCHANGED <<processVars, misled>>, Drop PROVE IInv'
  BY <1>1, <1>2, <1>3, RepairMoves DEF RepairFits, Drop
<1>4. ASSUME UNCHANGED processVars, repair.peer # None, misled' \subseteq bound,
             NEW step \in {"check", "challenge", "bound", "record"}, Proceed(step),
             step = "record" => repair.peer \notin bound \ misled'
      PROVE  IInv'
  <2>1. repair' \in Repair /\ repair'.peer = repair.peer /\ repair'.step = step
    BY <1>1, <1>4, RepairGoesOn
  <2>2. RepairFits'
    BY <1>4, <2>1 DEF RepairFits
  <2>3. QED
    BY <1>1, <1>4, <2>1, <2>2, RepairMoves
<1>5. ASSUME NEW p \in Peer, Consider(p) PROVE IInv'
  <2>1. p \in used
    BY <1>5 DEF Consider, IInv, Issued
  <2>2. QED
    BY <1>1, <1>5, <2>1, RepairMoves DEF Consider, Repair, RepairFits
<1>6. CASE Probe
  BY <1>1, <1>3, <1>4, <1>6 DEF Probe, RepairFits
<1>7. CASE Check
  BY <1>1, <1>3, <1>4, <1>7 DEF Check, RepairFits
<1>8. CASE Challenge
  BY <1>1, <1>3, <1>4, <1>8 DEF Challenge, RepairFits
<1>9. CASE BoundCheck
  BY <1>1, <1>3, <1>4, <1>9 DEF BoundCheck, RepairFits
<1>10. CASE RemoveRecord
  <2>1. repair.peer \in Peer /\ repair.peer \notin bound \ misled /\ UNCHANGED <<bound, misled>>
    BY <1>1, <1>10 DEF RemoveRecord, Repair, RepairFits
  <2>2. CASE Drop
    <3>1. repair' \in Repair /\ RepairFits' /\ repair'.peer \in Made
      BY <1>1, <1>2, <2>2 DEF Drop, RepairFits
    <3>2. QED
      BY <1>1, <1>10, <2>1, <3>1, RepairMoves DEF RemoveRecord
  <2>3. CASE Proceed("socket")
    <3>1. repair' \in Repair /\ repair'.peer = repair.peer
      BY <1>1, <2>3, RepairGoesOn
    <3>2. RepairFits'
      BY <2>1, <3>1 DEF RepairFits
    <3>3. QED
      BY <1>1, <1>10, <2>1, <3>1, <3>2, RepairMoves DEF RemoveRecord
  <2>4. QED
    BY <1>10, <2>2, <2>3 DEF RemoveRecord
<1>11. CASE RemoveSocket
  BY <1>1, <1>2, <1>11, RepairMoves DEF RemoveSocket, RepairFits, Drop
<1>12. QED
  BY <1>5, <1>6, <1>7, <1>8, <1>9, <1>10, <1>11 DEF Fence

LEMMA NextIInv == IInv /\ [Next]_vars => IInv'
<1> SUFFICES ASSUME IInv, [Next]_vars PROVE IInv'
  OBVIOUS
<1>1. CASE UNCHANGED vars
  BY <1>1 DEF vars, processVars, mapVars, peerVars, lockVars, beatVars, IInv, TypeOK, ProcessTypeOK, Issued, Made, JobsFit, BeatFits, RepairFits, Job, Step, Status, Repair
<1>2. CASE ProcessNext /\ RepairWaits
  BY <1>2, HookKeeps, GoOnKeeps, BeatKeeps, CrashKeeps DEF ProcessNext
<1>3. CASE Fence \/ \E p \in Peer : Consider(p)
  BY <1>3, RepairKeeps
<1>4. QED
  BY <1>1, <1>2, <1>3 DEF Next, RepairWaits

LEMMA IInvAlways == Spec => []IInv
  BY InitIInv, NextIInv, PTL DEF Spec

(* Every variable keeps its type.                                          *)
THEOREM TypeCorrect == Spec => []TypeOK
<1>1. IInv => TypeOK
  BY DEF IInv
<1>2. QED
  BY IInvAlways, <1>1, PTL

(* Whatever overlaps, a step of the process or of the repair takes the     *)
(* record or the socket of a peer only when the peer does not listen, or a *)
(* connect of the repair has failed although it does: the owner closes     *)
(* first, and the repair has tried to connect to an id that no later peer  *)
(* can have.                                                               *)
THEOREM RepairSparesTheLiving == Spec => ListeningKeepsRecord
<1> DEFINE Kept(p) == /\ file[p] # "none" => file'[p] # "none"
                      /\ p \in sockets => p \in sockets'
<1>1. IInv /\ [Next]_vars => [\A p \in (bound \cap bound') \ misled : Kept(p)]_vars
  <2> SUFFICES ASSUME IInv, Next, NEW p \in (bound \cap bound') \ misled PROVE Kept(p)
    OBVIOUS
  <2> USE SessionsAssumption DEF Do, Go, mapVars, peerVars, lockVars, beatVars, processVars
  <2>1. p \in Peer /\ TypeOK
    BY DEF IInv, TypeOK, ProcessTypeOK
  <2>2. ASSUME NEW t \in Thread, Hook(t) PROVE Kept(p)
    BY <2>2 DEF Hook, OnOpen, OnStart, OnEnd, SetAlias, OnFinalize, OnReset, CloseThen
  <2>3. ASSUME NEW t \in Thread, GoOn(t) PROVE Kept(p)
    <3>1. CASE Bind(t) \/ Enter(t) \/ ReadRecord(t) \/ Adopt(t) \/ Unbind(t) \/ Close(t) \/ Forget(t)
      BY <3>1 DEF Bind, Enter, ReadRecord, Adopt, Unbind, Close, Forget
    <3>2. CASE Publish(t) \/ PublishFails(t) \/ WriteRecord(t)
      BY <2>1, <3>2 DEF Publish, PublishFails, WriteRecord, IInv, JobsFit, Status, TypeOK, ProcessTypeOK
    <3>3. CASE Unlink(t) \/ Unpublish(t)
      BY <2>1, <3>3 DEF Unlink, Unpublish, IInv, JobsFit, TypeOK, ProcessTypeOK
    <3>4. QED
      BY <2>3, <3>1, <3>2, <3>3 DEF GoOn
  <2>4. CASE Beat
    BY <2>1, <2>4 DEF Beat, Round, BeatRead, BeatWrite, IInv, BeatFits, TypeOK, ProcessTypeOK
  <2>5. CASE Crash
    BY <2>5 DEF Crash
  <2>6. CASE Fence \/ \E q \in Peer : Consider(q)
    <3>1. CASE RemoveRecord \/ RemoveSocket
      <4>1. repair.step \in {"record", "socket"} => repair.peer # p
        BY DEF IInv, RepairFits
      <4>2. CASE RemoveRecord
        BY <2>1, <4>1, <4>2 DEF RemoveRecord, TypeOK, ProcessTypeOK
      <4>3. CASE RemoveSocket
        BY <2>1, <4>1, <4>3 DEF RemoveSocket
      <4>4. QED
        BY <3>1, <4>2, <4>3
    <3>2. CASE Probe \/ Check \/ Challenge \/ BoundCheck \/ \E q \in Peer : Consider(q)
      BY <3>2 DEF Probe, Check, Challenge, BoundCheck, Consider
    <3>3. QED
      BY <2>6, <3>1, <3>2 DEF Fence
  <2>7. QED
    BY <2>2, <2>3, <2>4, <2>5, <2>6 DEF Next, ProcessNext, RepairWaits
<1>2. QED
  BY IInvAlways, <1>1, PTL DEF Spec, ListeningKeepsRecord

----------------------------------------------------------------------------
(***************************************************************************)
(* The hooks of a session in turn: what each hook finds at each of its     *)
(* steps, from which the agreement of maps, runtime and registry follows.  *)
(***************************************************************************)
(* The sessions a hook works on.                                           *)
Holds(t) == {job[t].session, job[t].old}

(* A hook makes a peer, changes the status or the name of one, or closes   *)
(* one.                                                                    *)
Opening(t) == job[t].step \in {"bind", "publish", "enter"}
Marking(t) == job[t].step \in {"read", "write", "adopt"} /\ job[t].goal # "closing"
Closing(t) ==
  \/ job[t].step \in {"unbind", "close", "unlink", "unpublish", "forget"}
  \/ job[t].step \in {"read", "write"} /\ job[t].goal = "closing"

(* What a probe reads of p, now and once the heartbeat has written back    *)
(* what it holds: one of the statuses of S, or nothing.                    *)
Tells(p, S) ==
  file[p] \in S \cup {"none"} /\ (beat.peer = p => beat.status \in S)

(* No record or socket is lost but to a repair that has missed the peer.   *)
There(p) == p \notin misled => file[p] # "none" /\ p \in sockets

Gone(p) ==
  p \notin bound \cup sockets \cup handles /\ file[p] = "none" /\ beat.peer # p

(* Hooks that are under way work on different sessions and peers, and the  *)
(* peer of a session is in the hands of a hook of that session only.       *)
Apart ==
  /\ \A t, u \in Thread, s \in Session : s \in Holds(t) /\ s \in Holds(u) => t = u
  /\ \A t, u \in Thread : job[t].peer = job[u].peer /\ job[t].peer # None => t = u
  /\ \A r, s \in Session : toPeer[r] = toPeer[s] /\ toPeer[r] # None => r = s
  /\ \A t \in Thread, s \in Session :
       toPeer[s] = job[t].peer /\ toPeer[s] # None => Marking(t)

(* What each kind of hook finds of its session at each of its steps.       *)
HookInv(t) ==
  /\ job[t].step = "ready" => job[t] = Ready
  /\ Opening(t) =>
       /\ job[t].session \in Session /\ job[t].old = None
       /\ job[t].goal \in {"none", "working"}
       /\ toPeer[job[t].session] = None /\ recordOf[job[t].session] = None
  /\ job[t].step = "bind" => job[t].peer = None
  /\ job[t].step \in {"publish", "enter"} =>
       /\ job[t].peer \in bound /\ job[t].peer \notin handles
       /\ answers[job[t].peer] = "idle"
       /\ job[t].step = "publish" =>
            /\ job[t].peer \in sockets /\ file[job[t].peer] = "none"
            /\ beat.peer # job[t].peer /\ repair.peer # job[t].peer
       /\ job[t].step = "enter" => Tells(job[t].peer, {"idle"}) /\ There(job[t].peer)
  /\ Marking(t) =>
       /\ job[t].session \in Session /\ job[t].old = None
       /\ toPeer[job[t].session] = job[t].peer
       /\ job[t].goal \in {"idle", "working"} \/ (job[t].step = "read" /\ job[t].goal = "name")
       /\ job[t].step = "adopt" => Tells(job[t].peer, {job[t].goal})
  /\ job[t].step = "write" => regLock = t
  /\ job[t].step = "adopt" => job[t].goal # "closing"
  /\ Closing(t) =>
       /\ job[t].old \in Session /\ job[t].session # job[t].old
       /\ toPeer[job[t].old] = None /\ recordOf[job[t].old] = job[t].peer
       /\ job[t].peer \notin handles
       /\ job[t].step = "unpublish" => job[t].peer \notin sockets
       /\ job[t].step = "forget" => Gone(job[t].peer)

(* A session that has a peer is told of it everywhere; one that has none   *)
(* is named by the hook that closes it at most.                            *)
StoryInv(s) ==
  /\ toPeer[s] # None =>
       /\ recordOf[s] = toPeer[s] /\ beating[s] = toPeer[s]
       /\ toPeer[s] \in handles \cap bound /\ There(toPeer[s])
       /\ answers[toPeer[s]] \in {"idle", "working"} /\ Tells(toPeer[s], {"idle", "working"})
       /\ Tells(toPeer[s], {answers[toPeer[s]]}) \/
            \E t \in Thread : job[t].session = s /\ job[t].step = "adopt"
  /\ toPeer[s] = None =>
       recordOf[s] = None \/ \E t \in Thread : Closing(t) /\ job[t].old = s

(* The heartbeat holds the registry lock while it has a record in hand.    *)
BeatInv == beat # NoBeat => regLock = Heartbeat

NothingLeft ==
  \A p \in used : Busy(p) \/ (\E s \in Session : toPeer[s] = p) \/ Gone(p)

LifeInv ==
  /\ up => /\ Apart /\ BeatInv /\ NothingLeft
           /\ \A t \in Thread : HookInv(t)
           /\ \A s \in Session : StoryInv(s)
  /\ ~ up => \A s \in Session : toPeer[s] = None /\ recordOf[s] = None

(* A hook that is called finds its session in no other hook.               *)
LEMMA LifeHook ==
  ASSUME Serial, OldIds, up, IInv, LifeInv, NEW t \in Thread, Hook(t), RepairWaits
  PROVE  LifeInv'
<1> USE SessionsAssumption
    DEF IInv, TypeOK, ProcessTypeOK, Job, Step, Status, Do, Go, Task, Ready, NoBeat,
        mapVars, peerVars, lockVars, beatVars, processVars,
        LifeInv, Apart, Holds, HookInv, Opening, Marking, Closing, Tells, There, StoryInv, Gone, Busy, RepairWaits
<1>1. ASSUME NEW s \in Session, OnOpen(t, s) PROVE LifeInv'
  <2>1. Apart'
    BY <1>1, SMTT(60) DEF OnOpen, Begin, Quiet, Issued, Made
  <2>2. BeatInv'
    BY <1>1, SMTT(60) DEF OnOpen, Begin, Quiet, BeatInv
  <2>3. NothingLeft'
    BY <1>1, SMTT(60) DEF OnOpen, Begin, Quiet, NothingLeft, BeatInv
  <2>4. (\A i \in Thread : HookInv(i))'
    BY <1>1, SMTT(60) DEF OnOpen, Begin, Quiet, BeatInv, Issued, Made, JobsFit
  <2>5. (\A i \in Session : StoryInv(i))'
    BY <1>1, SMTT(60) DEF OnOpen, Begin, Quiet, BeatInv, Issued, Made
  <2>6. up'
    BY <1>1 DEF OnOpen, Begin, Quiet
  <2>7. QED
    BY <2>1, <2>2, <2>3, <2>4, <2>5, <2>6
<1>2. ASSUME NEW s \in Session, OnStart(t, s) PROVE LifeInv'
  <2>1. Apart'
    BY <1>2, SMTT(60) DEF OnStart, Begin, StartTask, SetPresence, Quiet, Issued, Made
  <2>2. BeatInv'
    BY <1>2, SMTT(60) DEF OnStart, Begin, StartTask, SetPresence, Quiet, BeatInv
  <2>3. NothingLeft'
    BY <1>2, SMTT(60) DEF OnStart, Begin, StartTask, SetPresence, Quiet, NothingLeft, BeatInv
  <2>4. (\A i \in Thread : HookInv(i))'
    BY <1>2, SMTT(60) DEF OnStart, Begin, StartTask, SetPresence, Quiet, BeatInv, Issued, Made, JobsFit
  <2>5. (\A i \in Session : StoryInv(i))'
    BY <1>2, SMTT(60) DEF OnStart, Begin, StartTask, SetPresence, Quiet, BeatInv, Issued, Made
  <2>6. up'
    BY <1>2 DEF OnStart, Begin, StartTask, SetPresence, Quiet
  <2>7. QED
    BY <2>1, <2>2, <2>3, <2>4, <2>5, <2>6
<1>3. ASSUME NEW s \in Session, OnEnd(t, s) PROVE LifeInv'
  <2>1. Apart'
    BY <1>3, SMTT(60) DEF OnEnd, Begin, SetPresence, Quiet, Issued, Made
  <2>2. BeatInv'
    BY <1>3, SMTT(60) DEF OnEnd, Begin, SetPresence, Quiet, BeatInv
  <2>3. NothingLeft'
    BY <1>3, SMTT(60) DEF OnEnd, Begin, SetPresence, Quiet, NothingLeft, BeatInv
  <2>4. (\A i \in Thread : HookInv(i))'
    BY <1>3, SMTT(60) DEF OnEnd, Begin, SetPresence, Quiet, BeatInv, Issued, Made, JobsFit
  <2>5. (\A i \in Session : StoryInv(i))'
    BY <1>3, SMTT(60) DEF OnEnd, Begin, SetPresence, Quiet, BeatInv, Issued, Made
  <2>6. up'
    BY <1>3 DEF OnEnd, Begin, SetPresence, Quiet
  <2>7. QED
    BY <2>1, <2>2, <2>3, <2>4, <2>5, <2>6
<1>4. ASSUME NEW s \in Session, SetAlias(t, s) PROVE LifeInv'
  <2>1. Apart'
    BY <1>4, SMTT(60) DEF SetAlias, Begin, SetPresence, Quiet, Issued, Made
  <2>2. BeatInv'
    BY <1>4, SMTT(60) DEF SetAlias, Begin, SetPresence, Quiet, BeatInv
  <2>3. NothingLeft'
    BY <1>4, SMTT(60) DEF SetAlias, Begin, SetPresence, Quiet, NothingLeft, BeatInv
  <2>4. (\A i \in Thread : HookInv(i))'
    BY <1>4, SMTT(60) DEF SetAlias, Begin, SetPresence, Quiet, BeatInv, Issued, Made, JobsFit
  <2>5. (\A i \in Session : StoryInv(i))'
    BY <1>4, SMTT(60) DEF SetAlias, Begin, SetPresence, Quiet, BeatInv, Issued, Made
  <2>6. up'
    BY <1>4 DEF SetAlias, Begin, SetPresence, Quiet
  <2>7. QED
    BY <2>1, <2>2, <2>3, <2>4, <2>5, <2>6
<1>5. ASSUME NEW s \in Session, OnFinalize(t, s) PROVE LifeInv'
  <2>1. Apart'
    BY <1>5, SMTT(60) DEF OnFinalize, CloseThen, Begin, Quiet, Issued, Made
  <2>2. BeatInv'
    BY <1>5, SMTT(60) DEF OnFinalize, CloseThen, Begin, Quiet, BeatInv
  <2>3. NothingLeft'
    BY <1>5, SMTT(60) DEF OnFinalize, CloseThen, Begin, Quiet, NothingLeft, BeatInv
  <2>4. (\A i \in Thread : HookInv(i))'
    BY <1>5, SMTT(60) DEF OnFinalize, CloseThen, Begin, Quiet, BeatInv, Issued, Made, JobsFit
  <2>5. (\A i \in Session : StoryInv(i))'
    BY <1>5, SMTT(60) DEF OnFinalize, CloseThen, Begin, Quiet, BeatInv, Issued, Made
  <2>6. up'
    BY <1>5 DEF OnFinalize, CloseThen, Begin, Quiet
  <2>7. QED
    BY <2>1, <2>2, <2>3, <2>4, <2>5, <2>6
<1>6. ASSUME NEW s \in Session, NEW o \in Session, OnReset(t, o, s) PROVE LifeInv'
  <2>1. Apart'
    BY <1>6, SMTT(60) DEF OnReset, CloseThen, Begin, Quiet, Issued, Made
  <2>2. BeatInv'
    BY <1>6, SMTT(60) DEF OnReset, CloseThen, Begin, Quiet, BeatInv
  <2>3. NothingLeft'
    BY <1>6, SMTT(60) DEF OnReset, CloseThen, Begin, Quiet, NothingLeft, BeatInv
  <2>4. (\A i \in Thread : HookInv(i))'
    BY <1>6, SMTT(60) DEF OnReset, CloseThen, Begin, Quiet, BeatInv, Issued, Made, JobsFit
  <2>5. (\A i \in Session : StoryInv(i))'
    BY <1>6, SMTT(60) DEF OnReset, CloseThen, Begin, Quiet, BeatInv, Issued, Made
  <2>6. up'
    BY <1>6 DEF OnReset, CloseThen, Begin, Quiet
  <2>7. QED
    BY <2>1, <2>2, <2>3, <2>4, <2>5, <2>6
<1> HIDE DEF IInv, TypeOK, ProcessTypeOK, Job, Step, Status, Do, Go, Task, Ready, NoBeat,
             mapVars, peerVars, lockVars, beatVars, processVars,
             LifeInv, Apart, Holds, HookInv, Opening, Marking, Closing, Tells, There, StoryInv, Gone, Busy, RepairWaits
<1>7. QED
  BY <1>1, <1>2, <1>3, <1>4, <1>5, <1>6, Hook(t) DEF Hook

(* A step that changes one hook, and takes it no session and no peer more  *)
(* than it has, leaves the hooks apart.                                    *)
LEMMA ApartKept ==
  ASSUME Apart, SessionsAssumption, NEW t \in Thread, UNCHANGED toPeer,
         \A u \in Thread \ {t} : job'[u] = job[u],
         job'[t].session \in {job[t].session, None},
         job'[t].old \in {job[t].old, None},
         job'[t].peer \in {job[t].peer, None},
         Marking(t) /\ job'[t].peer # None => Marking(t)'
  PROVE  Apart'
<1>1. (\A u, v \in Thread, s \in Session : s \in Holds(u) /\ s \in Holds(v) => u = v)'
  <2>1. None \notin Session
    BY DEF SessionsAssumption
  <2>2. \A u \in Thread, s \in Session : s \in Holds(u)' => s \in Holds(u)
    BY <2>1 DEF Holds
  <2>3. QED
    BY <2>2 DEF Apart
<1>2. \A u \in Thread : job'[u].peer \in {job[u].peer, None}
  OBVIOUS
<1>3. (\A u, v \in Thread : job[u].peer = job[v].peer /\ job[u].peer # None => u = v)'
  BY <1>2 DEF Apart
<1>4. (\A r, s \in Session : toPeer[r] = toPeer[s] /\ toPeer[r] # None => r = s)'
  BY DEF Apart
<1>5. (\A u \in Thread, s \in Session :
         toPeer[s] = job[u].peer /\ toPeer[s] # None => Marking(u))'
  <2>1. \A u \in Thread \ {t} : Marking(u)' <=> Marking(u)
    BY DEF Marking
  <2>2. QED
    BY <1>2, <2>1 DEF Apart
<1>6. QED
  BY <1>1, <1>3, <1>4, <1>5 DEF Apart

(* Each step of a hook.                                                    *)
LEMMA LifeGoOn ==
  ASSUME Serial, OldIds, up, IInv, LifeInv, NEW t \in Thread, GoOn(t), RepairWaits
  PROVE  LifeInv'
<1> USE SessionsAssumption
    DEF IInv, TypeOK, ProcessTypeOK, Job, Step, Status, Do, Go, Task, Ready, NoBeat,
        mapVars, peerVars, lockVars, beatVars, processVars,
        LifeInv, Apart, Holds, HookInv, Opening, Marking, Closing, Tells, There, StoryInv, Gone, Busy, RepairWaits
<1>1. ASSUME Bind(t) PROVE LifeInv'
  <2>1. Apart'
    BY <1>1, SMTT(60) DEF Bind, Issued, Made
  <2>2. BeatInv'
    BY <1>1, SMTT(60) DEF Bind, BeatInv
  <2>3. NothingLeft'
    BY <1>1, SMTT(60) DEF Bind, NothingLeft, BeatInv
  <2>4. (\A i \in Thread : HookInv(i))'
    BY <1>1, SMTT(60) DEF Bind, BeatInv, Issued, Made, JobsFit
  <2>5. (\A i \in Session : StoryInv(i))'
    BY <1>1, SMTT(60) DEF Bind, BeatInv, Issued, Made
  <2>6. up'
    BY <1>1 DEF Bind
  <2>7. QED
    BY <2>1, <2>2, <2>3, <2>4, <2>5, <2>6
<1>2. ASSUME Publish(t) PROVE LifeInv'
  <2>1. Apart'
    BY <1>2, SMTT(60) DEF Publish, Issued, Made
  <2>2. BeatInv'
    BY <1>2, SMTT(60) DEF Publish, BeatInv
  <2>3. NothingLeft'
    BY <1>2, SMTT(60) DEF Publish, NothingLeft, BeatInv
  <2>4. (\A i \in Thread : HookInv(i))'
    BY <1>2, SMTT(60) DEF Publish, BeatInv, Issued, Made, JobsFit
  <2>5. (\A i \in Session : StoryInv(i))'
    BY <1>2, SMTT(60) DEF Publish, BeatInv, Issued, Made
  <2>6. up'
    BY <1>2 DEF Publish
  <2>7. QED
    BY <2>1, <2>2, <2>3, <2>4, <2>5, <2>6
<1>3. ASSUME PublishFails(t) PROVE LifeInv'
  <2>1. Apart'
    BY <1>3, SMTT(60) DEF PublishFails, Issued, Made
  <2>2. BeatInv'
    BY <1>3, SMTT(60) DEF PublishFails, BeatInv
  <2>3. NothingLeft'
    BY <1>3, SMTT(60) DEF PublishFails, NothingLeft, BeatInv
  <2>4. (\A i \in Thread : HookInv(i))'
    BY <1>3, SMTT(60) DEF PublishFails, BeatInv, Issued, Made, JobsFit
  <2>5. (\A i \in Session : StoryInv(i))'
    BY <1>3, SMTT(60) DEF PublishFails, BeatInv, Issued, Made
  <2>6. up'
    BY <1>3 DEF PublishFails
  <2>7. QED
    BY <2>1, <2>2, <2>3, <2>4, <2>5, <2>6
<1>4. ASSUME Enter(t) PROVE LifeInv'
  <2>a. /\ job[t].step = "enter" /\ job[t].session \in Session /\ job[t].old = None
        /\ job[t].goal \in {"none", "working"} /\ job[t].peer # None
        /\ \A r \in Session : toPeer[r] # job[t].peer
        /\ \A u \in Thread \ {t} : job[u].peer # job[t].peer
    BY <1>4 DEF Enter, JobsFit
  <2>b. /\ toPeer'[job[t].session] = job[t].peer
        /\ \A r \in Session \ {job[t].session} : toPeer'[r] = toPeer[r]
        /\ \A u \in Thread \ {t} : job'[u] = job[u]
        /\ job'[t] \in {Ready, [job[t] EXCEPT !.step = "read"]}
        /\ job[t].goal = "none" <=> job'[t] = Ready
    BY <1>4, <2>a DEF Enter
  <2>c. /\ job'[t].step \in {"ready", "read"}
        /\ job'[t].step = "ready" => job'[t] = Ready
        /\ job'[t].step = "read" =>
             /\ job'[t].session = job[t].session /\ job'[t].old = None
             /\ job'[t].peer = job[t].peer /\ job'[t].goal = "working"
    BY <2>a, <2>b
  <2>1. Apart'
    <3>1. (\A u, v \in Thread, r \in Session : r \in Holds(u) /\ r \in Holds(v) => u = v)'
      BY <2>a, <2>b, <2>c
    <3>2. (\A u, v \in Thread : job[u].peer = job[v].peer /\ job[u].peer # None => u = v)'
      BY <2>a, <2>b, <2>c, SMTT(30)
    <3>3. (\A q, r \in Session : toPeer[q] = toPeer[r] /\ toPeer[q] # None => q = r)'
      BY <2>a, <2>b
    <3>4. (\A u \in Thread, r \in Session :
             toPeer[r] = job[u].peer /\ toPeer[r] # None => Marking(u))'
      <4>1. \A u \in Thread \ {t}, r \in Session :
              toPeer'[r] = job[u].peer /\ toPeer'[r] # None => Marking(u)
        BY <2>a, <2>b
      <4>2. \A u \in Thread \ {t} : Marking(u)' <=> Marking(u)
        BY <2>b
      <4>3. \A r \in Session : toPeer'[r] = job'[t].peer /\ toPeer'[r] # None => Marking(t)'
        BY <2>c
      <4>4. QED
        BY <2>b, <4>1, <4>2, <4>3
    <3>5. QED
      BY <3>1, <3>2, <3>3, <3>4
  <2>2. BeatInv'
    BY <1>4, SMTT(60) DEF Enter, BeatInv
  <2>3. NothingLeft'
    <3> SUFFICES ASSUME NEW p \in used, p # job[t].peer
                 PROVE  Busy(p)' \/ (\E r \in Session : toPeer'[r] = p) \/ Gone(p)'
      BY <1>4, <2>a, <2>b DEF Enter, NothingLeft
    <3>1. CASE \E u \in Thread \ {t} : job[u].peer = p
      BY <2>b, <3>1
    <3>2. CASE \E r \in Session : toPeer[r] = p
      <4>1. p # None => toPeer[job[t].session] # p
        BY <1>4 DEF Enter
      <4>2. p # None
        BY SessionsAssumption
      <4>3. QED
        BY <2>b, <3>2, <4>1, <4>2
    <3>3. CASE Gone(p)
      <4>1. Gone(p)'
        BY <1>4, <3>3 DEF Enter
      <4>2. QED
        BY <4>1
    <3>4. QED
      BY <3>1, <3>2, <3>3 DEF NothingLeft
  <2>4. (\A i \in Thread : HookInv(i))'
    <3>1. HookInv(t)'
      BY <1>4, <2>a, <2>b, <2>c DEF Enter
    <3>2. ASSUME NEW u \in Thread \ {t} PROVE HookInv(u)'
      <4>1. job'[u] = job[u] /\ job[u].session # job[t].session /\ job[u].old # job[t].session
        BY <2>a, <2>b
      <4>2. /\ UNCHANGED <<bound, sockets, answers, file, regLock, beat>>
            /\ handles' = handles \cup {job[t].peer}
            /\ \A r \in Session \ {job[t].session} : recordOf'[r] = recordOf[r]
        BY <1>4 DEF Enter
      <4>3. HookInv(u)
        OBVIOUS
      <4>4. QED
        BY <2>a, <2>b, <4>1, <4>2, <4>3, SMTT(60)
    <3>3. QED
      BY <3>1, <3>2
  <2>5. (\A i \in Session : StoryInv(i))'
    BY <1>4, SMTT(60) DEF Enter, BeatInv, Issued, Made
  <2>6. up'
    BY <1>4 DEF Enter
  <2>7. QED
    BY <2>1, <2>2, <2>3, <2>4, <2>5, <2>6
<1>5. ASSUME ReadRecord(t) PROVE LifeInv'
  <2>a. /\ UNCHANGED <<up, toPeer, recordOf, beating, handles, used, answers, bound, sockets,
                       file, beat, repair, misled>>
        /\ regLock = None /\ regLock' \in {None, t}
        /\ \A u \in Thread \ {t} : job'[u] = job[u]
        /\ job[t] \in Job /\ job[t].step = "read"
        /\ \/ job'[t] = Ready /\ job[t].goal # "closing" /\ regLock' = None
           \/ /\ job'[t] = [job[t] EXCEPT !.step = "close"]
              /\ job[t].goal = "closing" /\ regLock' = None
           \/ /\ job'[t].session = job[t].session /\ job'[t].old = job[t].old
              /\ job'[t].peer = job[t].peer
              /\ job'[t].step = "write" /\ regLock' = t
              /\ \/ job'[t].goal = job[t].goal /\ job[t].goal # "name"
                 \/ job[t].goal = "name" /\ job'[t].goal = file[job[t].peer] /\ file[job[t].peer] # "none"
    BY <1>5 DEF ReadRecord
  <2>b. job[t].peer # None
    BY <2>a DEF JobsFit
  <2>c. Marking(t) => file[job[t].peer] \in {"idle", "working", "none"}
    <3>1. HookInv(t)
      OBVIOUS
    <3>2. HAVE Marking(t)
    <3>3. job[t].session \in Session /\ toPeer[job[t].session] = job[t].peer
      BY <3>1, <3>2
    <3>4. StoryInv(job[t].session)
      BY <3>3
    <3>5. QED
      BY <2>b, <3>3, <3>4
  <2>1. Apart'
    <3>1. Marking(t) /\ job'[t].peer # None => Marking(t)'
      BY <2>a, <2>c
    <3>2. QED
      BY <2>a, <3>1, ApartKept
  <2>2. BeatInv'
    BY <1>5, SMTT(60) DEF ReadRecord, BeatInv
  <2>3. NothingLeft'
    <3> SUFFICES ASSUME NEW p \in used
                 PROVE  Busy(p)' \/ (\E r \in Session : toPeer[r] = p) \/ Gone(p)
      BY <2>a DEF NothingLeft
    <3>1. CASE \E u \in Thread \ {t} : job[u].peer = p
      BY <2>a, <3>1
    <3>2. CASE job[t].peer = p
      <4>1. job'[t].peer = p \/ Marking(t)
        BY <2>a, <3>2
      <4>2. Marking(t) => job[t].session \in Session /\ toPeer[job[t].session] = p
        BY <3>2
      <4>3. QED
        BY <4>1, <4>2
    <3>3. CASE ~ Busy(p)
      BY <3>3 DEF NothingLeft
    <3>4. QED
      BY <3>1, <3>2, <3>3
  <2>4. (\A i \in Thread : HookInv(i))'
    <3>1. HookInv(t)'
      <4>1. HookInv(t)
        OBVIOUS
      <4>2. CASE job'[t] = Ready
        BY <2>a, <4>2
      <4>3. CASE job'[t] = [job[t] EXCEPT !.step = "close"]
        BY <2>a, <4>1, <4>3
      <4>4. CASE job'[t].step = "write"
        BY <2>a, <2>c, <4>1, <4>4
      <4>5. QED
        BY <2>a, <4>2, <4>3, <4>4
    <3>2. ASSUME NEW u \in Thread \ {t} PROVE HookInv(u)'
      <4>1. HookInv(u) /\ job'[u] = job[u] /\ job[u].step # "write"
        BY <2>a
      <4>2. QED
        BY <2>a, <4>1
    <3>3. QED
      BY <3>1, <3>2
  <2>5. (\A i \in Session : StoryInv(i))'
    BY <1>5, SMTT(60) DEF ReadRecord, BeatInv, Issued, Made
  <2>6. up'
    BY <1>5 DEF ReadRecord
  <2>7. QED
    BY <2>1, <2>2, <2>3, <2>4, <2>5, <2>6
<1>6. ASSUME WriteRecord(t) PROVE LifeInv'
  <2>1. Apart'
    BY <1>6, SMTT(60) DEF WriteRecord, Issued, Made
  <2>2. BeatInv'
    BY <1>6, SMTT(60) DEF WriteRecord, BeatInv
  <2>3. NothingLeft'
    BY <1>6, SMTT(60) DEF WriteRecord, NothingLeft, BeatInv
  <2>4. (\A i \in Thread : HookInv(i))'
    BY <1>6, SMTT(60) DEF WriteRecord, BeatInv, Issued, Made, JobsFit
  <2>5. (\A i \in Session : StoryInv(i))'
    BY <1>6, SMTT(60) DEF WriteRecord, BeatInv, Issued, Made
  <2>6. up'
    BY <1>6 DEF WriteRecord
  <2>7. QED
    BY <2>1, <2>2, <2>3, <2>4, <2>5, <2>6
<1>7. ASSUME Adopt(t) PROVE LifeInv'
  <2>1. Apart'
    BY <1>7, SMTT(60) DEF Adopt, Issued, Made
  <2>2. BeatInv'
    BY <1>7, SMTT(60) DEF Adopt, BeatInv
  <2>3. NothingLeft'
    BY <1>7, SMTT(60) DEF Adopt, NothingLeft, BeatInv
  <2>4. (\A i \in Thread : HookInv(i))'
    BY <1>7, SMTT(60) DEF Adopt, BeatInv, Issued, Made, JobsFit
  <2>5. (\A i \in Session : StoryInv(i))'
    BY <1>7, SMTT(60) DEF Adopt, BeatInv, Issued, Made
  <2>6. up'
    BY <1>7 DEF Adopt
  <2>7. QED
    BY <2>1, <2>2, <2>3, <2>4, <2>5, <2>6
<1>8. ASSUME Unbind(t) PROVE LifeInv'
  <2>1. Apart'
    BY <1>8, SMTT(60) DEF Unbind, Issued, Made
  <2>2. BeatInv'
    BY <1>8, SMTT(60) DEF Unbind, BeatInv
  <2>3. NothingLeft'
    BY <1>8, SMTT(60) DEF Unbind, NothingLeft, BeatInv
  <2>4. (\A i \in Thread : HookInv(i))'
    BY <1>8, SMTT(60) DEF Unbind, BeatInv, Issued, Made, JobsFit
  <2>5. (\A i \in Session : StoryInv(i))'
    BY <1>8, SMTT(60) DEF Unbind, BeatInv, Issued, Made
  <2>6. up'
    BY <1>8 DEF Unbind
  <2>7. QED
    BY <2>1, <2>2, <2>3, <2>4, <2>5, <2>6
<1>9. ASSUME Close(t) PROVE LifeInv'
  <2>1. Apart'
    BY <1>9, SMTT(60) DEF Close, Issued, Made
  <2>2. BeatInv'
    BY <1>9, SMTT(60) DEF Close, BeatInv
  <2>3. NothingLeft'
    BY <1>9, SMTT(60) DEF Close, NothingLeft, BeatInv
  <2>4. (\A i \in Thread : HookInv(i))'
    BY <1>9, SMTT(60) DEF Close, BeatInv, Issued, Made, JobsFit
  <2>5. (\A i \in Session : StoryInv(i))'
    BY <1>9, SMTT(60) DEF Close, BeatInv, Issued, Made
  <2>6. up'
    BY <1>9 DEF Close
  <2>7. QED
    BY <2>1, <2>2, <2>3, <2>4, <2>5, <2>6
<1>10. ASSUME Unlink(t) PROVE LifeInv'
  <2>1. Apart'
    BY <1>10, SMTT(60) DEF Unlink, Issued, Made
  <2>2. BeatInv'
    BY <1>10, SMTT(60) DEF Unlink, BeatInv
  <2>3. NothingLeft'
    BY <1>10, SMTT(60) DEF Unlink, NothingLeft, BeatInv
  <2>4. (\A i \in Thread : HookInv(i))'
    BY <1>10, SMTT(60) DEF Unlink, BeatInv, Issued, Made, JobsFit
  <2>5. (\A i \in Session : StoryInv(i))'
    BY <1>10, SMTT(60) DEF Unlink, BeatInv, Issued, Made
  <2>6. up'
    BY <1>10 DEF Unlink
  <2>7. QED
    BY <2>1, <2>2, <2>3, <2>4, <2>5, <2>6
<1>11. ASSUME Unpublish(t) PROVE LifeInv'
  <2>1. Apart'
    BY <1>11, SMTT(60) DEF Unpublish, Issued, Made
  <2>2. BeatInv'
    BY <1>11, SMTT(60) DEF Unpublish, BeatInv
  <2>3. NothingLeft'
    BY <1>11, SMTT(60) DEF Unpublish, NothingLeft, BeatInv
  <2>4. (\A i \in Thread : HookInv(i))'
    BY <1>11, SMTT(60) DEF Unpublish, BeatInv, Issued, Made, JobsFit
  <2>5. (\A i \in Session : StoryInv(i))'
    BY <1>11, SMTT(60) DEF Unpublish, BeatInv, Issued, Made
  <2>6. up'
    BY <1>11 DEF Unpublish
  <2>7. QED
    BY <2>1, <2>2, <2>3, <2>4, <2>5, <2>6
<1>12. ASSUME Forget(t) PROVE LifeInv'
  <2>a. /\ \A u \in Thread \ {t} : job'[u] = job[u]
        /\ job'[t].session \in {None, job[t].session} /\ job'[t].old = None
        /\ job'[t].peer # None => job'[t].peer = toPeer[job[t].session] /\ Marking(t)'
        /\ UNCHANGED toPeer
    <3>1. /\ UNCHANGED toPeer /\ job[t] \in Job
          /\ \/ Do(t, Ready)
             \/ job[t].session \in Session /\ Do(t, StartTask(job[t].session))
      BY <1>12 DEF Forget
    <3>2. CASE Do(t, Ready)
      BY <3>1, <3>2
    <3>3. CASE job[t].session \in Session /\ Do(t, StartTask(job[t].session))
      <4>1. job'[t] = StartTask(job[t].session) /\ \A u \in Thread \ {t} : job'[u] = job[u]
        BY <3>3
      <4>2. toPeer[job[t].session] # None => recordOf[job[t].session] = toPeer[job[t].session]
        BY <3>3
      <4>3. QED
        BY <3>1, <3>3, <4>1, <4>2 DEF StartTask, SetPresence
    <3>4. QED
      BY <3>1, <3>2, <3>3
  <2>1. Apart'
    <3>1. (\A u, v \in Thread, r \in Session : r \in Holds(u) /\ r \in Holds(v) => u = v)'
      BY <2>a
    <3>2. \A u \in Thread \ {t} : job[u].peer = job'[t].peer => job'[t].peer = None
      BY <2>a, <1>12 DEF Forget
    <3>3. (\A u, v \in Thread : job[u].peer = job[v].peer /\ job[u].peer # None => u = v)'
      <4>1. \A u, v \in Thread \ {t} : job[u].peer = job[v].peer /\ job[u].peer # None => u = v
        OBVIOUS
      <4>2. QED
        BY <2>a, <3>2, <4>1
    <3>4. (\A q, r \in Session : toPeer[q] = toPeer[r] /\ toPeer[q] # None => q = r)'
      BY <2>a
    <3>5. (\A u \in Thread, r \in Session :
             toPeer[r] = job[u].peer /\ toPeer[r] # None => Marking(u))'
      BY <2>a
    <3>6. QED
      BY <3>1, <3>3, <3>4, <3>5
  <2>2. BeatInv'
    BY <1>12, SMTT(60) DEF Forget, StartTask, SetPresence, BeatInv
  <2>3. NothingLeft'
    BY <1>12, SMTT(60) DEF Forget, StartTask, SetPresence, NothingLeft, BeatInv
  <2>4. (\A i \in Thread : HookInv(i))'
    BY <1>12, SMTT(60) DEF Forget, StartTask, SetPresence, BeatInv, Issued, Made, JobsFit
  <2>5. (\A i \in Session : StoryInv(i))'
    BY <1>12, SMTT(200) DEF Forget, StartTask, SetPresence, BeatInv, Issued, Made
  <2>6. up'
    BY <1>12 DEF Forget, StartTask, SetPresence
  <2>7. QED
    BY <2>1, <2>2, <2>3, <2>4, <2>5, <2>6
<1> HIDE DEF IInv, TypeOK, ProcessTypeOK, Job, Step, Status, Do, Go, Task, Ready, NoBeat,
             mapVars, peerVars, lockVars, beatVars, processVars,
             LifeInv, Apart, Holds, HookInv, Opening, Marking, Closing, Tells, There, StoryInv, Gone, Busy, RepairWaits
<1>13. QED
  BY <1>1, <1>2, <1>3, <1>4, <1>5, <1>6, <1>7, <1>8, <1>9, <1>10, <1>11, <1>12, GoOn(t) DEF GoOn

(* What neither the heartbeat nor a repair does to a hook: a record is     *)
(* lost, or comes to say what the heartbeat has read in it.                *)
LEMMA HookFrame ==
  ASSUME NEW i \in Thread, HookInv(i),
         UNCHANGED <<toPeer, recordOf, handles, bound, answers, job>>,
         \A p \in bound : There(p) => There(p)',
         \A p \in Peer : file'[p] \in {file[p], "none"} \/ (beat.peer = p /\ file'[p] = beat.status),
         sockets' \subseteq sockets, beat' = beat \/ beat'.peer = None,
         job[i].step = "write" => regLock' = regLock,
         job[i].step = "publish" => job[i].peer \in sockets' /\ repair'.peer # job[i].peer,
         job[i].step \notin {"ready", "bind"} => job[i].peer \in Peer /\ job[i].peer # None
  PROVE  HookInv(i)'
<1>1. job[i].step = "ready" => job'[i] = Ready'
  BY DEF HookInv, Ready, Task
<1>2. ASSUME NEW p \in Peer, NEW S, Tells(p, S), p # None PROVE Tells(p, S)'
  BY <1>2 DEF Tells
<1>3. job[i].step = "publish" =>
        /\ job[i].peer \in sockets' /\ file'[job[i].peer] = "none"
        /\ beat'.peer # job[i].peer /\ repair'.peer # job[i].peer
  BY DEF HookInv
<1>4. job[i].step = "enter" => Tells(job[i].peer, {"idle"})' /\ There(job[i].peer)'
  BY <1>2 DEF HookInv
<1>5. job[i].step = "adopt" /\ Marking(i) => Tells(job[i].peer, {job[i].goal})'
  <2>1. ASSUME job[i].step = "adopt", Marking(i) PROVE Tells(job[i].peer, {job[i].goal})'
    <3>1. Tells(job[i].peer, {job[i].goal}) /\ job[i].peer \in Peer /\ job[i].peer # None
      BY <2>1 DEF HookInv
    <3>2. job' = job
      OBVIOUS
    <3>3. QED
      BY <3>1, <3>2 DEF Tells
  <2>2. QED
    BY <2>1
<1>6. job[i].step = "forget" => Gone(job[i].peer)'
  BY DEF HookInv, Closing, Gone
<1>7. QED
  BY <1>1, <1>3, <1>4, <1>5, <1>6 DEF HookInv, Opening, Marking, Closing, Gone

(* What each hook knows of itself.                                         *)
LEMMA HookKnows ==
  ASSUME up, IInv, LifeInv, NEW i \in Thread
  PROVE  /\ HookInv(i)
         /\ job[i].step \notin {"ready", "bind"} => job[i].peer \in Peer /\ job[i].peer # None
  BY SessionsAssumption DEF LifeInv, IInv, TypeOK, ProcessTypeOK, Job, Step, JobsFit

(* The heartbeat writes a record of a peer that listens as it read it.     *)
LEMMA LifeBeat ==
  ASSUME up, IInv, LifeInv, Beat, RepairWaits
  PROVE  LifeInv'
<1> USE SessionsAssumption
    DEF IInv, TypeOK, ProcessTypeOK, Job, Step, Status, Do, Go, Task, Ready, NoBeat,
        mapVars, peerVars, lockVars, beatVars, processVars,
        LifeInv, Apart, Holds, HookInv, Opening, Marking, Closing, Tells, There, StoryInv, Gone, Busy, RepairWaits
<1>1. CASE Round
  BY <1>1, SMTT(60) DEF Round, NothingLeft, BeatInv
<1>2. ASSUME NEW p \in Peer, BeatRead(p) PROVE LifeInv'
  <2>1. Apart' /\ up'
    BY <1>2 DEF BeatRead
  <2>2. BeatInv'
    BY <1>2, SMTT(60) DEF BeatRead, BeatInv
  <2>3. NothingLeft'
    BY <1>2, SMTT(60) DEF BeatRead, NothingLeft, Issued, Made
  <2>4. (\A i \in Thread : HookInv(i))'
    BY <1>2, SMTT(60) DEF BeatRead
  <2>5. (\A i \in Session : StoryInv(i))'
    BY <1>2, SMTT(60) DEF BeatRead
  <2>6. QED
    BY <2>1, <2>2, <2>3, <2>4, <2>5
<1>3. CASE BeatWrite
  <2>a. /\ \A p \in Peer : file'[p] = IF p = beat.peer THEN beat.status ELSE file[p]
        /\ beat.peer # None /\ beat.status # "none" /\ beat'.peer = None /\ regLock = Heartbeat
        /\ UNCHANGED <<up, used, toPeer, recordOf, beating, handles, bound, sockets, answers, job, repair>>
        /\ misled' = misled \cap bound
    BY <1>3 DEF BeatWrite, BeatInv, BeatFits
  <2>1. Apart' /\ up' /\ BeatInv'
    BY <1>3 DEF BeatWrite, BeatInv
  <2>2. NothingLeft'
    BY <1>3, SMTT(60) DEF BeatWrite, NothingLeft, BeatFits
  <2>b. \A p \in Peer : p \in bound /\ There(p) => There(p)'
    BY <2>a
  <2>3. (\A i \in Thread : HookInv(i))'
    <3> HIDE DEF IInv, TypeOK, ProcessTypeOK, LifeInv, HookInv, Marking, Opening, Closing, Gone, There, Tells
    <3>1. ASSUME NEW i \in Thread PROVE HookInv(i)'
      <4>1. HookInv(i) /\ job[i].step # "write"
        BY <2>a, HookKnows, SessionsAssumption DEF HookInv
      <4>2. job[i].step = "publish" => job[i].peer \in sockets' /\ repair'.peer # job[i].peer
        BY <2>a, <4>1 DEF HookInv
      <4>3. bound \subseteq Peer
        BY DEF IInv, TypeOK, ProcessTypeOK
      <4>4. QED
        BY <2>a, <2>b, <4>1, <4>2, <4>3, HookKnows, HookFrame
    <3>2. QED
      BY <3>1
  <2>4. (\A i \in Session : StoryInv(i))'
    BY <2>a, <2>b, SMTT(60) DEF Issued, Made
  <2>5. QED
    BY <2>1, <2>2, <2>3, <2>4
<1>4. QED
  BY <1>1, <1>2, <1>3 DEF Beat

(* Repair takes records and sockets of peers that do not listen, which no  *)
(* session and no opening hook has, or of one that it has missed.          *)
LEMMA RepairTakes ==
  ASSUME IInv, Fence \/ \E p \in Peer : Consider(p)
  PROVE  /\ UNCHANGED <<up, mapVars, used, answers, bound, lockVars, job, beatVars>>
         /\ \A p \in bound : There(p) => There(p)'
         /\ \A p \in Peer : file'[p] \in {file[p], "none"}
         /\ sockets \ {repair.peer} \subseteq sockets' /\ sockets' \subseteq sockets
         /\ repair'.peer \in {repair.peer, None} \/ file[repair'.peer] # "none"
<1> USE DEF processVars, peerVars, There, Drop, Proceed, NoRepair
<1>1. /\ RepairFits /\ repair.peer \in Peer \cup {None} /\ bound \subseteq Peer
      /\ file \in [Peer -> Status \cup {"none"}] /\ repair \in Repair
  BY DEF IInv, TypeOK, ProcessTypeOK, Repair
<1>2. CASE Probe \/ Check \/ Challenge
  BY <1>1, <1>2 DEF Probe, Check, Challenge, Repair
<1>3. CASE BoundCheck
  BY <1>1, <1>3 DEF BoundCheck, Repair
<1>4. CASE RemoveRecord
  BY <1>1, <1>4 DEF RemoveRecord, RepairFits, Repair
<1>5. CASE RemoveSocket
  BY <1>1, <1>5 DEF RemoveSocket, RepairFits
<1>6. ASSUME NEW p \in Peer, Consider(p)
      PROVE  UNCHANGED <<processVars, misled>> /\ file[repair'.peer] # "none"
  BY <1>6 DEF Consider
<1>7. QED
  BY <1>2, <1>3, <1>4, <1>5, <1>6 DEF Fence

LEMMA LifeRepair ==
  ASSUME IInv, LifeInv, Fence \/ \E p \in Peer : Consider(p)
  PROVE  LifeInv'
<1> USE SessionsAssumption
    DEF IInv, TypeOK, ProcessTypeOK, Job, Step, Status, Do, Go, Task, Ready, NoBeat,
        mapVars, peerVars, lockVars, beatVars, processVars,
        LifeInv, Apart, Holds, HookInv, Opening, Marking, Closing, StoryInv, Gone, Busy
<1>1. /\ UNCHANGED <<up, mapVars, used, answers, bound, lockVars, job, beatVars>>
      /\ \A p \in bound : There(p) => There(p)'
      /\ \A p \in Peer : file'[p] \in {file[p], "none"}
      /\ sockets \ {repair.peer} \subseteq sockets' /\ sockets' \subseteq sockets
      /\ repair'.peer \in {repair.peer, None} \/ file[repair'.peer] # "none"
  BY RepairTakes
<1>2. Apart' <=> Apart
  BY <1>1
<1>3. up => BeatInv'
  BY <1>1, SMTT(60) DEF BeatInv
<1>4. up => NothingLeft'
  BY <1>1, SMTT(60) DEF NothingLeft
<1>5. ASSUME up, NEW i \in Thread PROVE HookInv(i)'
  <2> HIDE DEF IInv, TypeOK, ProcessTypeOK, LifeInv, HookInv, Marking, Opening, Closing, Gone
  <2>1. HookInv(i) /\ (job[i].step \notin {"ready", "bind"} => job[i].peer \in Peer /\ job[i].peer # None)
    BY <1>5, HookKnows
  <2>2. job[i].step = "publish" => job[i].peer \in sockets' /\ repair'.peer # job[i].peer
    BY <1>1, <2>1 DEF HookInv
  <2>3. beat' = beat /\ regLock' = regLock
    BY <1>1
  <2>4. QED
    BY <1>1, <2>1, <2>2, <2>3, HookFrame
<1>6. up => (\A i \in Session : StoryInv(i))'
  BY <1>1, SMTT(60) DEF Tells
<1>7. QED
  BY <1>1, <1>2, <1>3, <1>4, <1>5, <1>6

LEMMA LifeStep ==
  ASSUME Serial, OldIds, IInv, LifeInv, [Next]_vars
  PROVE  LifeInv'
<1>1. CASE ProcessNext /\ RepairWaits
  <2>1. CASE Crash
    BY <2>1, SessionsAssumption DEF LifeInv, Crash, NoPeer
  <2>2. CASE ~ Crash
    BY <1>1, <2>2, LifeHook, LifeGoOn, LifeBeat DEF ProcessNext
  <2>3. QED
    BY <2>1, <2>2
<1>2. CASE Fence \/ \E p \in Peer : Consider(p)
  BY <1>2, LifeRepair
<1>3. CASE UNCHANGED vars
  BY <1>3
     DEF vars, processVars, mapVars, peerVars, lockVars, beatVars, LifeInv, Apart, Holds,
         BeatInv, NothingLeft, HookInv, StoryInv, Opening, Marking, Closing, Tells, There, Gone, Busy
<1>4. QED
  BY <1>1, <1>2, <1>3 DEF Next, RepairWaits

LEMMA LifeAlways ==
  ASSUME Serial, OldIds
  PROVE  Spec => [](IInv /\ LifeInv)
<1>1. RepairInit => LifeInv
  BY SessionsAssumption
     DEF RepairInit, Init, NoPeer, NoStatus, NoBeat, Ready, Task, LifeInv, Apart, Holds,
         BeatInv, NothingLeft, HookInv, StoryInv, Opening, Marking, Closing, Tells, There
<1>2. IInv /\ LifeInv /\ [Next]_vars => LifeInv'
  BY LifeStep
<1>3. QED
  BY IInvAlways, <1>1, <1>2, PTL DEF Spec

(* When the host runs the hooks of a session in turn and names the session *)
(* a reset ends: between hooks the maps, the runtime and the registry      *)
(* agree on the peer of every session and on its status, whichever         *)
(* publication failed, whatever the heartbeat rewrites, whatever another   *)
(* process repairs and whenever this one dies.  A repair that missed the   *)
(* listener may cost the session its record, not the agreement of the rest.*)
THEOREM SessionMapsAgree ==
  ASSUME Serial, OldIds
  PROVE  Spec => []MapsAgree
<1>1. IInv /\ LifeInv => MapsAgree
  <2> SUFFICES ASSUME IInv, LifeInv, NEW s \in Session, Quiet(s)
               PROVE  /\ recordOf[s] = toPeer[s]
                      /\ toPeer[s] # None =>
                           /\ beating[s] = toPeer[s]
                           /\ toPeer[s] \in handles \cap bound
                           /\ answers[toPeer[s]] \in {"idle", "working"}
                           /\ file[toPeer[s]] \in {answers[toPeer[s]], "none"}
                           /\ toPeer[s] \notin misled => file[toPeer[s]] # "none" /\ toPeer[s] \in sockets
    BY DEF MapsAgree
  <2>1. CASE up
    BY <2>1 DEF LifeInv, StoryInv, Tells, There, Quiet
  <2>2. CASE ~ up
    BY <2>2 DEF LifeInv
  <2>3. QED
    BY <2>1, <2>2
<1>2. QED
  BY LifeAlways, <1>1, PTL

(* Under the same assumptions a peer that no session and no hook has any   *)
(* more has no listener, no socket, no handle and no record, and the       *)
(* heartbeat does not hold the record it would write back.                 *)
THEOREM ClosedPeersLeaveNothing ==
  ASSUME Serial, OldIds
  PROVE  Spec => []ClosedLeavesNothing
<1>1. LifeInv => ClosedLeavesNothing
  BY DEF LifeInv, NothingLeft, Gone, ClosedLeavesNothing
<1>2. QED
  BY LifeAlways, <1>1, PTL
=============================================================================
