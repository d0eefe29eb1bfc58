--------------------------- MODULE BroadcastProofs ---------------------------
(***************************************************************************)
(* Proofs about a broadcast, for every group, number of callers, retries   *)
(* and pool, whatever answers are late and wherever a fault strikes.       *)
(***************************************************************************)
EXTENDS Broadcast, TLAPS

(* Nothing was inserted or sent yet.                                       *)
Fresh ==
  /\ children = Nobody
  /\ \A m \in Member : task[m] = "none" /\ attempts[m] = 0
  /\ wire = {} /\ replied = {}
  /\ \A a \in Member \X Attempt : verdict[a] = "none"

(* One caller fans out, and only while the broadcast is in flight.         *)
GateInv ==
  /\ OneFanOut
  /\ \A c \in Caller : FansOut(c) => status = "in_flight"
  /\ \A c \in Caller : caller[c] = "insert" => Fresh
  /\ status = "created" => Fresh
  /\ status = "completed" => \A m \in Member : task[m] = "recorded"

(* What a task stands for, from the pool to the row it recorded.           *)
TaskOK(m) ==
  /\ task[m] \in {"waiting", "ready", "sent", "back"} => children[m] = "queued"
  /\ task[m] \in {"waiting", "ready"} => attempts[m] <= MaxRetries
  /\ task[m] \in {"none", "waiting", "ready", "sent"} =>
       \A n \in Attempt : <<m, n>> \notin replied
  /\ task[m] \in {"sent", "back"} => attempts[m] \in Attempt
  /\ task[m] = "back" /\ receipt[m] \in HostAnswer =>
       verdict[<<m, attempts[m]>>] = receipt[m]
  /\ task[m] = "back" => \A n \in Attempt :
       <<m, n>> \in replied => receipt[m] = verdict[<<m, n>>] /\ receipt[m] \in Answer
  /\ task[m] = "recorded" /\ children[m] \in HostAnswer =>
       /\ attempts[m] \in Attempt
       /\ verdict[<<m, attempts[m]>>] = children[m]
  /\ task[m] = "recorded" => \A n \in Attempt :
       <<m, n>> \in replied => children[m] = verdict[<<m, n>>] /\ children[m] \in Answer
  /\ task[m] = "recorded" /\ children[m] = "unreachable" =>
       attempts[m] \in {0, MaxRetries + 1}

TaskInv == \A m \in Member : TaskOK(m)

(* A message that was sent has a row, and is handled once.                 *)
MessageInv ==
  \A m \in Member, n \in Attempt :
    /\ <<m, n>> \in wire => verdict[<<m, n>>] = "none"
    /\ <<m, n>> \in wire \/ verdict[<<m, n>>] # "none" => n <= attempts[m]

IInv ==
  /\ TypeOK /\ GateInv /\ TaskInv /\ MessageInv
  /\ RecordedBeforeSent /\ AnsweredMeansLast /\ OutcomesConverge

LEMMA InitIInv == Init => IInv
<1> SUFFICES ASSUME Init PROVE IInv
  OBVIOUS
<1> USE BroadcastAssumption DEF Init, Nobody
<1>1. TypeOK
  BY DEF TypeOK, CallerStep, TaskStep, Row, Outcome, Answer, HostAnswer
<1>2. GateInv
  BY DEF GateInv, Fresh, OneFanOut, FansOut
<1>3. TaskInv /\ MessageInv
  BY DEF TaskInv, TaskOK, MessageInv
<1>4. RecordedBeforeSent /\ AnsweredMeansLast /\ OutcomesConverge
  BY DEF RecordedBeforeSent, AnsweredMeansLast, OutcomesConverge
<1>5. QED
  BY <1>1, <1>2, <1>3, <1>4 DEF IInv

(* An attempt has an id nobody has seen, of a member nobody heard from.    *)
LEMMA SendFacts ==
  ASSUME IInv, NEW m \in Member, Send(m)
  PROVE  /\ attempts[m] \in Nat /\ attempts[m] + 1 \in Attempt
         /\ attempts' = [attempts EXCEPT ![m] = @ + 1]
         /\ wire' \subseteq wire \cup {<<m, attempts[m] + 1>>}
         /\ UNCHANGED <<rowVars, verdict, replied>>
         /\ verdict[<<m, attempts[m] + 1>>] = "none"
         /\ \A n \in Attempt : <<m, n>> \notin replied
         /\ children[m] = "queued"
         /\ task[m] = "ready" /\ task' \in {[task EXCEPT ![m] = "back"], [task EXCEPT ![m] = "sent"]}
<1> USE BroadcastAssumption DEF Attempt
<1>1. task[m] = "ready"
  BY DEF Send, Move
<1>2. attempts[m] \in Nat /\ attempts[m] <= MaxRetries
  <2>1. attempts[m] \in 0 .. MaxRetries + 1
    BY DEF IInv, TypeOK
  <2>2. attempts[m] <= MaxRetries
    BY <1>1 DEF IInv, TaskInv, TaskOK
  <2>3. QED
    BY <2>1, <2>2
<1>3. attempts[m] + 1 \in Attempt
  BY <1>2
<1>4. verdict[<<m, attempts[m] + 1>>] = "none"
  BY <1>2, <1>3 DEF IInv, MessageInv
<1>5. /\ \A n \in Attempt : <<m, n>> \notin replied
      /\ children[m] = "queued"
  BY <1>1 DEF IInv, TaskInv, TaskOK
<1>6. QED
  BY <1>1, <1>2, <1>3, <1>4, <1>5 DEF Send, Move

LEMMA TypeStep == IInv /\ [Next]_vars => TypeOK'
<1> SUFFICES ASSUME IInv, [Next]_vars PROVE TypeOK'
  OBVIOUS
<1>0. /\ TypeOK /\ GateInv /\ TaskInv /\ MessageInv
      /\ RecordedBeforeSent /\ AnsweredMeansLast /\ OutcomesConverge
  BY DEF IInv
<1> USE BroadcastAssumption DEF rowVars, taskVars, messageVars, Go, Move,
                                TypeOK, CallerStep, TaskStep, Row, Outcome,
                                Answer, HostAnswer, Attempt, Nobody, MayRetry, Returned
<1>1. ASSUME NEW c \in Caller, ReadParent(c) PROVE TypeOK'
  BY <1>0, <1>1 DEF ReadParent
<1>2. ASSUME NEW c \in Caller, Gate(c) PROVE TypeOK'
  BY <1>0, <1>2 DEF Gate
<1>3. ASSUME NEW c \in Caller, Reread(c) PROVE TypeOK'
  BY <1>0, <1>3 DEF Reread
<1>4. ASSUME NEW c \in Caller, InsertChildren(c) PROVE TypeOK'
  BY <1>0, <1>4 DEF InsertChildren
<1>5. ASSUME NEW c \in Caller, Complete(c) PROVE TypeOK'
  BY <1>0, <1>5 DEF Complete
<1>6. ASSUME NEW c \in Caller, Abandon(c) PROVE TypeOK'
  BY <1>0, <1>6 DEF Abandon
<1>7. ASSUME NEW c \in Caller, Crash(c) PROVE TypeOK'
  BY <1>0, <1>7 DEF Crash
<1>8. ASSUME NEW m \in Member, Start(m) PROVE TypeOK'
  BY <1>0, <1>8 DEF Start
<1>9. ASSUME NEW m \in Member, Send(m) PROVE TypeOK'
  <2>0. /\ attempts' = [attempts EXCEPT ![m] = @ + 1]
        /\ attempts[m] \in Nat /\ attempts[m] + 1 \in Attempt
        /\ wire' \subseteq wire \cup {<<m, attempts[m] + 1>>}
    BY ONLY IInv, <1>9, SendFacts
  <2>1. attempts' \in [Member -> 0 .. MaxRetries + 1]
    BY <1>0, <2>0
  <2>2. wire' \subseteq Member \X Attempt
    BY <1>0, <2>0
  <2>3. receipt' \in [Member -> Outcome]
    <3>1. CASE \E state \in {"unreachable", "invalid"} : receipt' = [receipt EXCEPT ![m] = state]
      BY ONLY <1>0, <3>1
    <3>2. CASE UNCHANGED receipt
      BY ONLY <1>0, <3>2
    <3>3. QED
      BY <1>9, <3>1, <3>2 DEF Send
  <2>6. task' \in [Member -> TaskStep]
    BY <1>0, <1>9 DEF Send
  <2>4. UNCHANGED <<rowVars, caller, report, verdict, replied>>
    BY <1>9 DEF Send
  <2>5. QED
    BY <1>0, <2>1, <2>2, <2>3, <2>4, <2>6
<1>10. ASSUME NEW m \in Member, Reply(m) PROVE TypeOK'
  <2>1. attempts[m] \in Attempt
    BY <1>0, <1>10 DEF Reply, TaskInv, TaskOK
  <2>2. verdict[<<m, attempts[m]>>] \in Answer
    BY <1>0, <1>10, <2>1 DEF Reply
  <2>3. QED
    BY <1>0, <1>10, <2>1, <2>2 DEF Reply
<1>10a. ASSUME NEW m \in Member, BadReply(m) PROVE TypeOK'
  BY <1>0, <1>10a DEF BadReply
<1>11. ASSUME NEW m \in Member, Timeout(m) PROVE TypeOK'
  BY <1>0, <1>11 DEF Timeout
<1>12. ASSUME NEW m \in Member, Retry(m) PROVE TypeOK'
  BY <1>0, <1>12 DEF Retry
<1>13. ASSUME NEW m \in Member, Record(m) PROVE TypeOK'
  BY <1>0, <1>13 DEF Record
<1>14. ASSUME NEW m \in Member, RecordFails(m) PROVE TypeOK'
  BY <1>0, <1>14 DEF RecordFails
<1>15. ASSUME NEW m \in Member, NEW n \in Attempt, Receive(m, n) PROVE TypeOK'
  BY <1>0, <1>15 DEF Receive
<1>16. CASE UNCHANGED vars
  BY <1>0, <1>16 DEF vars
<1> HIDE DEF rowVars, taskVars, messageVars, Go, Move,
                                TypeOK, CallerStep, TaskStep, Row, Outcome,
                                Answer, HostAnswer, Attempt, Nobody, MayRetry, Returned
<1>17. QED
  BY <1>1, <1>2, <1>3, <1>4, <1>5, <1>6, <1>7, <1>8, <1>9, <1>10, <1>10a,
     <1>11, <1>12, <1>13, <1>14, <1>15, <1>16
     DEF Next, CallerNext, TaskNext

LEMMA GateStep == IInv /\ [Next]_vars => GateInv'
<1> SUFFICES ASSUME IInv, [Next]_vars PROVE GateInv'
  OBVIOUS
<1>0. /\ TypeOK /\ GateInv /\ TaskInv /\ MessageInv
      /\ RecordedBeforeSent /\ AnsweredMeansLast /\ OutcomesConverge
  BY DEF IInv
<1> USE BroadcastAssumption DEF rowVars, taskVars, messageVars, Go, Move,
                                TypeOK, GateInv, Fresh, OneFanOut, FansOut,
                                Nobody, Returned
<1>1. ASSUME NEW c \in Caller, ReadParent(c) PROVE GateInv'
  BY <1>0, <1>1 DEF ReadParent
<1>2. ASSUME NEW c \in Caller, Gate(c) PROVE GateInv'
  BY <1>0, <1>2 DEF Gate
<1>3. ASSUME NEW c \in Caller, Reread(c) PROVE GateInv'
  BY <1>0, <1>3 DEF Reread
<1>4. ASSUME NEW c \in Caller, InsertChildren(c) PROVE GateInv'
  BY <1>0, <1>4 DEF InsertChildren
<1>5. ASSUME NEW c \in Caller, Complete(c) PROVE GateInv'
  BY <1>0, <1>5 DEF Complete
<1>6. ASSUME NEW c \in Caller, Abandon(c) PROVE GateInv'
  BY <1>0, <1>6 DEF Abandon
<1>7. ASSUME NEW c \in Caller, Crash(c) PROVE GateInv'
  BY <1>0, <1>7 DEF Crash
<1>8. ASSUME NEW m \in Member, Start(m) PROVE GateInv'
  BY <1>0, <1>8 DEF Start
<1>9. ASSUME NEW m \in Member, Send(m) PROVE GateInv'
  BY <1>0, <1>9 DEF Send
<1>10. ASSUME NEW m \in Member, Reply(m) PROVE GateInv'
  BY <1>0, <1>10 DEF Reply
<1>10a. ASSUME NEW m \in Member, BadReply(m) PROVE GateInv'
  BY <1>0, <1>10a DEF BadReply
<1>11. ASSUME NEW m \in Member, Timeout(m) PROVE GateInv'
  BY <1>0, <1>11 DEF Timeout
<1>12. ASSUME NEW m \in Member, Retry(m) PROVE GateInv'
  BY <1>0, <1>12 DEF Retry
<1>13. ASSUME NEW m \in Member, Record(m) PROVE GateInv'
  BY <1>0, <1>13 DEF Record
<1>14. ASSUME NEW m \in Member, RecordFails(m) PROVE GateInv'
  BY <1>0, <1>14 DEF RecordFails
<1>15. ASSUME NEW m \in Member, NEW n \in Attempt, Receive(m, n) PROVE GateInv'
  BY <1>0, <1>15 DEF Receive
<1>16. CASE UNCHANGED vars
  BY <1>0, <1>16 DEF vars
<1> HIDE DEF rowVars, taskVars, messageVars, Go, Move,
                                TypeOK, GateInv, Fresh, OneFanOut, FansOut,
                                Nobody, Returned
<1>17. QED
  BY <1>1, <1>2, <1>3, <1>4, <1>5, <1>6, <1>7, <1>8, <1>9, <1>10, <1>10a,
     <1>11, <1>12, <1>13, <1>14, <1>15, <1>16
     DEF Next, CallerNext, TaskNext

LEMMA TaskInvStep == IInv /\ [Next]_vars => TaskInv'
<1> SUFFICES ASSUME IInv, [Next]_vars PROVE TaskInv'
  OBVIOUS
<1>0. /\ TypeOK /\ GateInv /\ TaskInv /\ MessageInv
      /\ RecordedBeforeSent /\ AnsweredMeansLast /\ OutcomesConverge
  BY DEF IInv
<1> USE BroadcastAssumption DEF rowVars, taskVars, messageVars, Go, Move,
                                TypeOK, GateInv, TaskInv, TaskOK, MessageInv, Fresh,
                                FansOut, Nobody, Attempt, Returned,
                                MayRetry, Outcome, Answer, HostAnswer, AnsweredMeansLast
<1>1. ASSUME NEW c \in Caller, ReadParent(c) PROVE TaskInv'
  BY <1>0, <1>1 DEF ReadParent
<1>2. ASSUME NEW c \in Caller, Gate(c) PROVE TaskInv'
  BY <1>0, <1>2 DEF Gate
<1>3. ASSUME NEW c \in Caller, Reread(c) PROVE TaskInv'
  BY <1>0, <1>3 DEF Reread
<1>4. ASSUME NEW c \in Caller, InsertChildren(c) PROVE TaskInv'
  BY <1>0, <1>4 DEF InsertChildren
<1>5. ASSUME NEW c \in Caller, Complete(c) PROVE TaskInv'
  BY <1>0, <1>5 DEF Complete
<1>6. ASSUME NEW c \in Caller, Abandon(c) PROVE TaskInv'
  BY <1>0, <1>6 DEF Abandon
<1>7. ASSUME NEW c \in Caller, Crash(c) PROVE TaskInv'
  BY <1>0, <1>7 DEF Crash
<1>8. ASSUME NEW m \in Member, Start(m) PROVE TaskInv'
  BY <1>0, <1>8 DEF Start
<1>9. ASSUME NEW m \in Member, Send(m) PROVE TaskInv'
  <2>1. \A p \in Member \ {m} :
          UNCHANGED <<task[p], children[p], attempts[p], receipt[p]>>
    BY <1>0, <1>9 DEF Send
  <2>2. /\ task'[m] \in {"sent", "back"} /\ children'[m] = "queued"
        /\ attempts'[m] \in Attempt
        /\ task'[m] = "back" => receipt'[m] \notin HostAnswer
    <3>1. /\ attempts' = [attempts EXCEPT ![m] = @ + 1]
          /\ attempts[m] + 1 \in Attempt
          /\ children[m] = "queued"
      BY ONLY IInv, <1>9, SendFacts, m \in Member
    <3>2. attempts'[m] = attempts[m] + 1
      BY <1>0, <3>1
    <3>3. QED
      BY <1>0, <1>9, <3>1, <3>2 DEF Send
  <2>3. UNCHANGED <<verdict, replied>> /\ \A n \in Attempt : <<m, n>> \notin replied
    BY <1>9, SendFacts
  <2>4. QED
    BY <1>0, <2>1, <2>2, <2>3
<1>10. ASSUME NEW m \in Member, Reply(m) PROVE TaskInv'
  <2>1. UNCHANGED <<children, attempts, verdict>>
    BY <1>10 DEF Reply
  <2>2. \A p \in Member \ {m} :
          /\ UNCHANGED <<task[p], receipt[p]>>
          /\ \A n \in Attempt : <<p, n>> \in replied' => <<p, n>> \in replied
    BY <1>0, <1>10 DEF Reply
  <2>3. /\ task[m] = "sent" /\ task'[m] = "back"
        /\ attempts[m] \in Attempt
        /\ receipt'[m] = verdict[<<m, attempts[m]>>] /\ receipt'[m] \in Answer
    BY <1>0, <1>10 DEF Reply
  <2>4. \A n \in Attempt : <<m, n>> \in replied' => n = attempts[m]
    BY <1>0, <1>10 DEF Reply
  <2>5. TaskOK(m)'
    BY <2>1, <2>3, <2>4, <1>0
  <2>6. ASSUME NEW p \in Member \ {m} PROVE TaskOK(p)'
    BY <2>1, <2>2, <1>0
  <2>7. QED
    BY ONLY <2>5, <2>6 DEF TaskInv
<1>10a. ASSUME NEW m \in Member, BadReply(m) PROVE TaskInv'
  BY <1>0, <1>10a DEF BadReply
<1>11. ASSUME NEW m \in Member, Timeout(m) PROVE TaskInv'
  BY <1>0, <1>11 DEF Timeout
<1>12. ASSUME NEW m \in Member, Retry(m) PROVE TaskInv'
  BY <1>0, <1>12 DEF Retry
<1>13. ASSUME NEW m \in Member, Record(m) PROVE TaskInv'
  BY <1>0, <1>13 DEF Record
<1>14. ASSUME NEW m \in Member, RecordFails(m) PROVE TaskInv'
  BY <1>0, <1>14 DEF RecordFails
<1>15. ASSUME NEW m \in Member, NEW n \in Attempt, Receive(m, n) PROVE TaskInv'
  <2>1. verdict[<<m, n>>] = "none"
    BY <1>0, <1>15 DEF Receive
  <2>2. \A a \in Member \X Attempt : a # <<m, n>> => verdict'[a] = verdict[a]
    BY <1>0, <1>15 DEF Receive
  <2>3. \A p \in Member, k \in Attempt :
          verdict[<<p, k>>] # "none" => verdict'[<<p, k>>] = verdict[<<p, k>>]
    BY <2>1, <2>2
  <2>4. \A p \in Member :
          task[p] = "back" /\ receipt[p] \in HostAnswer =>
            attempts[p] \in Attempt /\ verdict[<<p, attempts[p]>>] # "none"
    BY <1>0
  <2>5. \A p \in Member :
          task[p] = "recorded" /\ children[p] \in HostAnswer =>
            attempts[p] \in Attempt /\ verdict[<<p, attempts[p]>>] # "none"
    BY <1>0
  <2>6. UNCHANGED <<task, children, attempts, receipt, replied>>
    BY <1>15 DEF Receive
  <2>7. QED
    BY <1>0, <2>3, <2>4, <2>5, <2>6
<1>16. CASE UNCHANGED vars
  BY <1>0, <1>16 DEF vars
<1> HIDE DEF rowVars, taskVars, messageVars, Go, Move,
                                TypeOK, GateInv, TaskInv, TaskOK, MessageInv, Fresh,
                                FansOut, Nobody, Attempt, Returned,
                                MayRetry, Outcome, Answer, HostAnswer, AnsweredMeansLast
<1>17. QED
  BY <1>1, <1>2, <1>3, <1>4, <1>5, <1>6, <1>7, <1>8, <1>9, <1>10, <1>10a,
     <1>11, <1>12, <1>13, <1>14, <1>15, <1>16
     DEF Next, CallerNext, TaskNext

LEMMA MessageStep == IInv /\ [Next]_vars => MessageInv'
<1> SUFFICES ASSUME IInv, [Next]_vars PROVE MessageInv'
  OBVIOUS
<1>0. /\ TypeOK /\ GateInv /\ TaskInv /\ MessageInv
      /\ RecordedBeforeSent /\ AnsweredMeansLast /\ OutcomesConverge
  BY DEF IInv
<1> USE BroadcastAssumption DEF rowVars, taskVars, messageVars, Go, Move,
                                TypeOK, MessageInv, Attempt
<1>1. ASSUME NEW c \in Caller, ReadParent(c) PROVE MessageInv'
  BY <1>0, <1>1 DEF ReadParent
<1>2. ASSUME NEW c \in Caller, Gate(c) PROVE MessageInv'
  BY <1>0, <1>2 DEF Gate
<1>3. ASSUME NEW c \in Caller, Reread(c) PROVE MessageInv'
  BY <1>0, <1>3 DEF Reread
<1>4. ASSUME NEW c \in Caller, InsertChildren(c) PROVE MessageInv'
  BY <1>0, <1>4 DEF InsertChildren
<1>5. ASSUME NEW c \in Caller, Complete(c) PROVE MessageInv'
  BY <1>0, <1>5 DEF Complete
<1>6. ASSUME NEW c \in Caller, Abandon(c) PROVE MessageInv'
  BY <1>0, <1>6 DEF Abandon
<1>7. ASSUME NEW c \in Caller, Crash(c) PROVE MessageInv'
  BY <1>0, <1>7 DEF Crash
<1>8. ASSUME NEW m \in Member, Start(m) PROVE MessageInv'
  BY <1>0, <1>8 DEF Start
<1>9. ASSUME NEW m \in Member, Send(m) PROVE MessageInv'
  <2> SUFFICES ASSUME NEW p \in Member, NEW n \in Attempt
               PROVE  /\ <<p, n>> \in wire' => verdict'[<<p, n>>] = "none"
                      /\ <<p, n>> \in wire' \/ verdict'[<<p, n>>] # "none" => n <= attempts'[p]
    OBVIOUS
  <2>0. attempts' = [attempts EXCEPT ![m] = @ + 1]
    BY <1>9, SendFacts
  <2>1. attempts[p] \in Nat /\ attempts'[p] \in {attempts[p], attempts[p] + 1}
    BY <1>0, <2>0
  <2>2. UNCHANGED verdict
    BY <1>9, SendFacts
  <2>3. CASE <<p, n>> \in wire \/ <<p, n>> \notin wire'
    BY <1>0, <2>1, <2>2, <2>3, <1>9, SendFacts
  <2>4. CASE p = m /\ n = attempts[m] + 1
    BY <1>0, <1>9, <2>2, <2>4, SendFacts
  <2>5. QED
    BY <1>9, <2>3, <2>4, SendFacts
<1>10. ASSUME NEW m \in Member, Reply(m) PROVE MessageInv'
  BY <1>0, <1>10 DEF Reply
<1>10a. ASSUME NEW m \in Member, BadReply(m) PROVE MessageInv'
  BY <1>0, <1>10a DEF BadReply
<1>11. ASSUME NEW m \in Member, Timeout(m) PROVE MessageInv'
  BY <1>0, <1>11 DEF Timeout
<1>12. ASSUME NEW m \in Member, Retry(m) PROVE MessageInv'
  BY <1>0, <1>12 DEF Retry
<1>13. ASSUME NEW m \in Member, Record(m) PROVE MessageInv'
  BY <1>0, <1>13 DEF Record
<1>14. ASSUME NEW m \in Member, RecordFails(m) PROVE MessageInv'
  BY <1>0, <1>14 DEF RecordFails
<1>15. ASSUME NEW m \in Member, NEW n \in Attempt, Receive(m, n) PROVE MessageInv'
  <2>1. \A a \in Member \X Attempt : a # <<m, n>> => verdict'[a] = verdict[a]
    BY <1>0, <1>15 DEF Receive
  <2>2. wire' = wire \ {<<m, n>>} /\ UNCHANGED attempts /\ <<m, n>> \in wire
    BY <1>15 DEF Receive
  <2>3. QED
    BY <1>0, <2>1, <2>2
<1>16. CASE UNCHANGED vars
  BY <1>0, <1>16 DEF vars
<1> HIDE DEF rowVars, taskVars, messageVars, Go, Move,
                                TypeOK, MessageInv, Attempt
<1>17. QED
  BY <1>1, <1>2, <1>3, <1>4, <1>5, <1>6, <1>7, <1>8, <1>9, <1>10, <1>10a,
     <1>11, <1>12, <1>13, <1>14, <1>15, <1>16
     DEF Next, CallerNext, TaskNext

LEMMA RecordedStep == IInv /\ [Next]_vars => RecordedBeforeSent'
<1> SUFFICES ASSUME IInv, [Next]_vars PROVE RecordedBeforeSent'
  OBVIOUS
<1>0. /\ TypeOK /\ GateInv /\ TaskInv /\ MessageInv
      /\ RecordedBeforeSent /\ AnsweredMeansLast /\ OutcomesConverge
  BY DEF IInv
<1> USE BroadcastAssumption DEF rowVars, taskVars, messageVars, Go, Move,
                                TypeOK, GateInv, TaskInv, TaskOK, MessageInv, Fresh,
                                Nobody, Attempt, RecordedBeforeSent,
                                Outcome, Answer, HostAnswer
<1>1. ASSUME NEW c \in Caller, ReadParent(c) PROVE RecordedBeforeSent'
  BY <1>0, <1>1 DEF ReadParent
<1>2. ASSUME NEW c \in Caller, Gate(c) PROVE RecordedBeforeSent'
  BY <1>0, <1>2 DEF Gate
<1>3. ASSUME NEW c \in Caller, Reread(c) PROVE RecordedBeforeSent'
  BY <1>0, <1>3 DEF Reread
<1>4. ASSUME NEW c \in Caller, InsertChildren(c) PROVE RecordedBeforeSent'
  BY <1>0, <1>4 DEF InsertChildren
<1>5. ASSUME NEW c \in Caller, Complete(c) PROVE RecordedBeforeSent'
  BY <1>0, <1>5 DEF Complete
<1>6. ASSUME NEW c \in Caller, Abandon(c) PROVE RecordedBeforeSent'
  BY <1>0, <1>6 DEF Abandon
<1>7. ASSUME NEW c \in Caller, Crash(c) PROVE RecordedBeforeSent'
  BY <1>0, <1>7 DEF Crash
<1>8. ASSUME NEW m \in Member, Start(m) PROVE RecordedBeforeSent'
  BY <1>0, <1>8 DEF Start
<1>9. ASSUME NEW m \in Member, Send(m) PROVE RecordedBeforeSent'
  <2>1. /\ wire' \subseteq wire \cup {<<m, attempts[m] + 1>>}
        /\ UNCHANGED <<verdict, children>> /\ children[m] = "queued"
    BY <1>9, SendFacts
  <2>2. QED
    BY <1>0, <2>1
<1>10. ASSUME NEW m \in Member, Reply(m) PROVE RecordedBeforeSent'
  BY <1>0, <1>10 DEF Reply
<1>10a. ASSUME NEW m \in Member, BadReply(m) PROVE RecordedBeforeSent'
  BY <1>0, <1>10a DEF BadReply
<1>11. ASSUME NEW m \in Member, Timeout(m) PROVE RecordedBeforeSent'
  BY <1>0, <1>11 DEF Timeout
<1>12. ASSUME NEW m \in Member, Retry(m) PROVE RecordedBeforeSent'
  BY <1>0, <1>12 DEF Retry
<1>13. ASSUME NEW m \in Member, Record(m) PROVE RecordedBeforeSent'
  BY <1>0, <1>13 DEF Record
<1>14. ASSUME NEW m \in Member, RecordFails(m) PROVE RecordedBeforeSent'
  BY <1>0, <1>14 DEF RecordFails
<1>15. ASSUME NEW m \in Member, NEW n \in Attempt, Receive(m, n) PROVE RecordedBeforeSent'
  BY <1>0, <1>15 DEF Receive
<1>16. CASE UNCHANGED vars
  BY <1>0, <1>16 DEF vars
<1> HIDE DEF rowVars, taskVars, messageVars, Go, Move,
                                TypeOK, GateInv, TaskInv, TaskOK, MessageInv, Fresh,
                                Nobody, Attempt, RecordedBeforeSent,
                                Outcome, Answer, HostAnswer
<1>17. QED
  BY <1>1, <1>2, <1>3, <1>4, <1>5, <1>6, <1>7, <1>8, <1>9, <1>10, <1>10a,
     <1>11, <1>12, <1>13, <1>14, <1>15, <1>16
     DEF Next, CallerNext, TaskNext

LEMMA AnsweredStep == IInv /\ [Next]_vars => AnsweredMeansLast'
<1> SUFFICES ASSUME IInv, [Next]_vars PROVE AnsweredMeansLast'
  OBVIOUS
<1>0. /\ TypeOK /\ GateInv /\ TaskInv /\ MessageInv
      /\ RecordedBeforeSent /\ AnsweredMeansLast /\ OutcomesConverge
  BY DEF IInv
<1> USE BroadcastAssumption DEF rowVars, taskVars, messageVars, Go, Move,
                                TypeOK, TaskInv, TaskOK, Attempt, AnsweredMeansLast
<1>1. ASSUME NEW c \in Caller, ReadParent(c) PROVE AnsweredMeansLast'
  BY <1>0, <1>1 DEF ReadParent
<1>2. ASSUME NEW c \in Caller, Gate(c) PROVE AnsweredMeansLast'
  BY <1>0, <1>2 DEF Gate
<1>3. ASSUME NEW c \in Caller, Reread(c) PROVE AnsweredMeansLast'
  BY <1>0, <1>3 DEF Reread
<1>4. ASSUME NEW c \in Caller, InsertChildren(c) PROVE AnsweredMeansLast'
  BY <1>0, <1>4 DEF InsertChildren
<1>5. ASSUME NEW c \in Caller, Complete(c) PROVE AnsweredMeansLast'
  BY <1>0, <1>5 DEF Complete
<1>6. ASSUME NEW c \in Caller, Abandon(c) PROVE AnsweredMeansLast'
  BY <1>0, <1>6 DEF Abandon
<1>7. ASSUME NEW c \in Caller, Crash(c) PROVE AnsweredMeansLast'
  BY <1>0, <1>7 DEF Crash
<1>8. ASSUME NEW m \in Member, Start(m) PROVE AnsweredMeansLast'
  BY <1>0, <1>8 DEF Start
<1>9. ASSUME NEW m \in Member, Send(m) PROVE AnsweredMeansLast'
  BY <1>0, <1>9 DEF Send
<1>10. ASSUME NEW m \in Member, Reply(m) PROVE AnsweredMeansLast'
  BY <1>0, <1>10 DEF Reply
<1>10a. ASSUME NEW m \in Member, BadReply(m) PROVE AnsweredMeansLast'
  BY <1>0, <1>10a DEF BadReply
<1>11. ASSUME NEW m \in Member, Timeout(m) PROVE AnsweredMeansLast'
  BY <1>0, <1>11 DEF Timeout
<1>12. ASSUME NEW m \in Member, Retry(m) PROVE AnsweredMeansLast'
  BY <1>0, <1>12 DEF Retry
<1>13. ASSUME NEW m \in Member, Record(m) PROVE AnsweredMeansLast'
  BY <1>0, <1>13 DEF Record
<1>14. ASSUME NEW m \in Member, RecordFails(m) PROVE AnsweredMeansLast'
  BY <1>0, <1>14 DEF RecordFails
<1>15. ASSUME NEW m \in Member, NEW n \in Attempt, Receive(m, n) PROVE AnsweredMeansLast'
  BY <1>0, <1>15 DEF Receive
<1>16. CASE UNCHANGED vars
  BY <1>0, <1>16 DEF vars
<1> HIDE DEF rowVars, taskVars, messageVars, Go, Move,
                                TypeOK, TaskInv, TaskOK, Attempt, AnsweredMeansLast
<1>17. QED
  BY <1>1, <1>2, <1>3, <1>4, <1>5, <1>6, <1>7, <1>8, <1>9, <1>10, <1>10a,
     <1>11, <1>12, <1>13, <1>14, <1>15, <1>16
     DEF Next, CallerNext, TaskNext

LEMMA ConvergeStep == IInv /\ [Next]_vars => OutcomesConverge'
<1> SUFFICES ASSUME IInv, [Next]_vars PROVE OutcomesConverge'
  OBVIOUS
<1>0. /\ TypeOK /\ GateInv /\ TaskInv /\ MessageInv
      /\ RecordedBeforeSent /\ AnsweredMeansLast /\ OutcomesConverge
  BY DEF IInv
<1> USE BroadcastAssumption DEF rowVars, taskVars, messageVars, Go, Move,
                                TypeOK, GateInv, TaskInv, TaskOK, Fresh, Nobody,
                                OutcomesConverge
<1>1. ASSUME NEW c \in Caller, ReadParent(c) PROVE OutcomesConverge'
  BY <1>0, <1>1 DEF ReadParent
<1>2. ASSUME NEW c \in Caller, Gate(c) PROVE OutcomesConverge'
  BY <1>0, <1>2 DEF Gate
<1>3. ASSUME NEW c \in Caller, Reread(c) PROVE OutcomesConverge'
  BY <1>0, <1>3 DEF Reread
<1>4. ASSUME NEW c \in Caller, InsertChildren(c) PROVE OutcomesConverge'
  BY <1>0, <1>4 DEF InsertChildren
<1>5. ASSUME NEW c \in Caller, Complete(c) PROVE OutcomesConverge'
  BY <1>0, <1>5 DEF Complete
<1>6. ASSUME NEW c \in Caller, Abandon(c) PROVE OutcomesConverge'
  BY <1>0, <1>6 DEF Abandon
<1>7. ASSUME NEW c \in Caller, Crash(c) PROVE OutcomesConverge'
  BY <1>0, <1>7 DEF Crash
<1>8. ASSUME NEW m \in Member, Start(m) PROVE OutcomesConverge'
  BY <1>0, <1>8 DEF Start
<1>9. ASSUME NEW m \in Member, Send(m) PROVE OutcomesConverge'
  BY <1>0, <1>9 DEF Send
<1>10. ASSUME NEW m \in Member, Reply(m) PROVE OutcomesConverge'
  BY <1>0, <1>10 DEF Reply
<1>10a. ASSUME NEW m \in Member, BadReply(m) PROVE OutcomesConverge'
  BY <1>0, <1>10a DEF BadReply
<1>11. ASSUME NEW m \in Member, Timeout(m) PROVE OutcomesConverge'
  BY <1>0, <1>11 DEF Timeout
<1>12. ASSUME NEW m \in Member, Retry(m) PROVE OutcomesConverge'
  BY <1>0, <1>12 DEF Retry
<1>13. ASSUME NEW m \in Member, Record(m) PROVE OutcomesConverge'
  BY <1>0, <1>13 DEF Record
<1>14. ASSUME NEW m \in Member, RecordFails(m) PROVE OutcomesConverge'
  BY <1>0, <1>14 DEF RecordFails
<1>15. ASSUME NEW m \in Member, NEW n \in Attempt, Receive(m, n) PROVE OutcomesConverge'
  BY <1>0, <1>15 DEF Receive
<1>16. CASE UNCHANGED vars
  BY <1>0, <1>16 DEF vars
<1> HIDE DEF rowVars, taskVars, messageVars, Go, Move,
                                TypeOK, GateInv, TaskInv, TaskOK, Fresh, Nobody,
                                OutcomesConverge
<1>17. QED
  BY <1>1, <1>2, <1>3, <1>4, <1>5, <1>6, <1>7, <1>8, <1>9, <1>10, <1>10a,
     <1>11, <1>12, <1>13, <1>14, <1>15, <1>16
     DEF Next, CallerNext, TaskNext

LEMMA IInvAlways == Spec => []IInv
<1>1. IInv /\ [Next]_vars => IInv'
  BY TypeStep, GateStep, TaskInvStep, MessageStep, RecordedStep, AnsweredStep, ConvergeStep
     DEF IInv
<1>2. QED
  BY InitIInv, <1>1, PTL DEF Spec

----------------------------------------------------------------------------

(* Every variable of the broadcast keeps its type: no task is sent more    *)
(* often than its retries allow.                                           *)
THEOREM TypeCorrect == Spec => []TypeOK
<1>1. IInv => TypeOK
  BY DEF IInv
<1>2. QED
  BY IInvAlways, <1>1, PTL

(* However many threads broadcast one parent, one at most fans out.        *)
THEOREM GateAdmitsOne == Spec => []OneFanOut
<1>1. IInv => OneFanOut
  BY DEF IInv, GateInv
<1>2. QED
  BY IInvAlways, <1>1, PTL

(* Nothing is sent before its row is on disk, nor to the sender itself.    *)
THEOREM RowsComeFirst == Spec => []RecordedBeforeSent
<1>1. IInv => RecordedBeforeSent
  BY DEF IInv
<1>2. QED
  BY IInvAlways, <1>1, PTL

(* A member whose answer arrived is not sent the content again.            *)
THEOREM AnswerEndsRetries == Spec => []AnsweredMeansLast
<1>1. IInv => AnsweredMeansLast
  BY DEF IInv
<1>2. QED
  BY IInvAlways, <1>1, PTL

(* What a completed fan-out recorded as a host's answer is that answer, no *)
(* receipt that arrived is recorded as anything else, and unreachable is   *)
(* said after the last retry only.                                         *)
THEOREM CompletedIsTrue == Spec => []CompletedMeansAnswered
<1>1. IInv => CompletedMeansAnswered
  <2> SUFFICES ASSUME IInv, status = "completed", NEW m \in Member
               PROVE  /\ children[m] = "queued" => Injected(m) # {}
                      /\ children[m] \in HostAnswer => verdict[<<m, attempts[m]>>] = children[m]
                      /\ \A n \in Attempt : <<m, n>> \in replied => children[m] = verdict[<<m, n>>]
                      /\ children[m] = "unreachable" => attempts[m] \in {0, MaxRetries + 1}
    BY DEF CompletedMeansAnswered
  <2>1. task[m] = "recorded"
    BY DEF IInv, GateInv
  <2>2. /\ children[m] \in HostAnswer =>
             attempts[m] \in Attempt /\ verdict[<<m, attempts[m]>>] = children[m]
        /\ \A n \in Attempt : <<m, n>> \in replied => children[m] = verdict[<<m, n>>]
        /\ children[m] = "unreachable" => attempts[m] \in {0, MaxRetries + 1}
    BY <2>1 DEF IInv, TaskInv, TaskOK
  <2>3. children[m] = "queued" => Injected(m) # {}
    BY <2>2 DEF Injected, HostAnswer
  <2>4. QED
    BY <2>2, <2>3
<1>2. QED
  BY IInvAlways, <1>1, PTL

(* What any caller was told stays true, but for rows not decided yet.      *)
THEOREM CallersConverge == Spec => []OutcomesConverge
<1>1. IInv => OutcomesConverge
  BY DEF IInv
<1>2. QED
  BY IInvAlways, <1>1, PTL

(* A completed broadcast never changes.                                    *)
THEOREM CompletedIsFinal == Spec => OutcomesFinal
<1>1. IInv /\ [Next]_vars => [status = "completed" => UNCHANGED <<status, children>>]_vars
  <2> SUFFICES ASSUME IInv, Next, status = "completed" PROVE UNCHANGED <<status, children>>
    OBVIOUS
  <2>1. \A c \in Caller : caller[c] \notin {"insert", "pool"}
    BY DEF IInv, GateInv, FansOut
  <2>2. \A m \in Member : task[m] = "recorded"
    BY DEF IInv, GateInv
  <2> USE DEF rowVars, Go, Move
  <2>3. ASSUME NEW c \in Caller, CallerNext(c) \/ Crash(c) PROVE UNCHANGED <<status, children>>
    BY <2>1, <2>3 DEF CallerNext, ReadParent, Gate, Reread, InsertChildren, Complete, Abandon, Crash
  <2>4. ASSUME NEW m \in Member, TaskNext(m) PROVE UNCHANGED <<status, children>>
    BY <2>2, <2>4 DEF TaskNext, Start, Send, Reply, BadReply, Timeout, Retry, Record, RecordFails
  <2>5. ASSUME NEW m \in Member, NEW n \in Attempt, Receive(m, n) PROVE UNCHANGED <<status, children>>
    BY <2>5 DEF Receive
  <2>6. QED
    BY <2>3, <2>4, <2>5 DEF Next
<1>2. QED
  BY IInvAlways, <1>1, PTL DEF Spec, OutcomesFinal
=============================================================================
