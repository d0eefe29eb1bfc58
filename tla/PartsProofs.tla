----------------------------- MODULE PartsProofs -----------------------------
(***************************************************************************)
(* Proofs about parts that share no variable: heartbeats and the summary,  *)
(* for any number of peers and any thresholds in their order; the event    *)
(* broker, for any number of clients, events and places; the views on the  *)
(* presence of peers, for any number of views and questions; the way from  *)
(* a target to a message, for any number of sessions, peers and names; the *)
(* rate limiter, for any windows and numbers; and the identity files, for  *)
(* any number of processes, names and deaths.                              *)
(***************************************************************************)
EXTENDS MCParts, StreamProofs, FiniteSetTheorems, SequenceTheorems, WellFoundedInduction, TLAPS

(* Heartbeats.  A healthy peer is as old as the time since its loop slept, *)
(* or younger.                                                             *)
BeatsFit == \A p \in Listed : Healthy(p) => age[p] + wake[p] <= Interval

StatusInv == StatusTypeOK /\ BeatsFit /\ \A p \in fit : Healthy(p)

LEMMA StatusInitInv == StatusInit => StatusInv
<1> USE StatusAssumption DEF StatusInit, NoSummary
<1>1. StatusInit => StatusTypeOK
  BY DEF StatusTypeOK, Fate, Oldest
<1>2. StatusInit => BeatsFit /\ \A p \in fit : Healthy(p)
  BY DEF BeatsFit, Healthy
<1>3. QED
  BY <1>1, <1>2 DEF StatusInv

(* A record that is written anew is as young as it can be.                 *)
LEMMA RewrittenKeeps ==
  ASSUME StatusInv, NEW p \in Listed, NEW s \in {"none", "idle", "working"}, Rewritten(p, s),
         UNCHANGED process, wake' \in [Listed -> 0 .. Interval],
         \A q \in Listed \ {p} : wake'[q] = wake[q],
         fit' \subseteq fit, s = "none" => p \notin fit'
  PROVE  StatusInv'
<1> USE StatusAssumption DEF StatusInv, Rewritten
<1>1. summary' \in [busy : BOOLEAN, left : SUBSET Listed, live : SUBSET Listed]
  BY DEF StatusTypeOK
<1>2. StatusTypeOK'
  <2>1. age' \in [Listed -> 0 .. Oldest]
    BY DEF StatusTypeOK, Oldest
  <2>2. status' \in [Listed -> {"none", "idle", "working"}]
    BY DEF StatusTypeOK
  <2>3. cached' \in [Listed -> {"none", "alive", "silent"}] /\ fit' \subseteq Listed
    BY DEF StatusTypeOK
  <2>4. QED
    BY <1>1, <2>1, <2>2, <2>3 DEF StatusTypeOK
<1>3. ASSUME NEW q \in Listed, Healthy(q)' PROVE age'[q] + wake'[q] <= Interval
  <2>1. CASE q = p
    <3>1. age'[q] = 0 /\ wake'[q] \in 0 .. Interval
      BY <2>1 DEF StatusTypeOK
    <3>2. QED
      BY <3>1
  <2>2. CASE q # p
    <3>1. age'[q] = age[q] /\ wake'[q] = wake[q] /\ Healthy(q)
      BY <1>3, <2>2 DEF StatusTypeOK, Healthy
    <3>2. QED
      BY <3>1 DEF BeatsFit
  <2>3. QED
    BY <2>1, <2>2
<1>4. BeatsFit'
  BY <1>3 DEF BeatsFit
<1>5. \A q \in fit' : Healthy(q)'
  BY DEF StatusTypeOK, Healthy
<1>6. QED
  BY <1>2, <1>4, <1>5

LEMMA StatusStep == StatusInv /\ [StatusNext]_statusVars => StatusInv'
<1> SUFFICES ASSUME StatusInv, [StatusNext]_statusVars PROVE StatusInv'
  OBVIOUS
<1> USE StatusAssumption
<1>1. ASSUME NEW p \in Listed, Appear(p) PROVE StatusInv'
  <2>1. p \notin fit
    BY <1>1 DEF Appear, StatusInv, Healthy
  <2>2. wake' \in [Listed -> 0 .. Interval] /\ \A q \in Listed \ {p} : wake'[q] = wake[q]
    BY <1>1 DEF Appear, StatusInv, StatusTypeOK
  <2>3. QED
    BY <1>1, <2>1, <2>2, RewrittenKeeps DEF Appear
<1>2. ASSUME NEW p \in Listed, Turn(p) PROVE StatusInv'
  <2>1. wake' \in [Listed -> 0 .. Interval] /\ \A q \in Listed \ {p} : wake'[q] = wake[q]
    BY <1>2 DEF Turn, StatusInv, StatusTypeOK
  <2>2. QED
    BY <1>2, <2>1, RewrittenKeeps DEF Turn
<1>3. ASSUME NEW p \in Listed, Withdraw(p) PROVE StatusInv'
  <2>1. wake' \in [Listed -> 0 .. Interval] /\ \A q \in Listed \ {p} : wake'[q] = wake[q]
    BY <1>3 DEF Withdraw, StatusInv, StatusTypeOK
  <2>2. QED
    BY <1>3, <2>1, RewrittenKeeps DEF Withdraw
<1>4. ASSUME NEW p \in Listed, Beat(p) PROVE StatusInv'
  <2>1. wake' \in [Listed -> 0 .. Interval] /\ \A q \in Listed \ {p} : wake'[q] = wake[q]
    BY <1>4 DEF Beat, StatusInv, StatusTypeOK
  <2>2. status[p] \in {"idle", "working"}
    BY <1>4 DEF Beat, Healthy, StatusInv, StatusTypeOK
  <2>3. QED
    BY <1>4, <2>1, <2>2, RewrittenKeeps DEF Beat
<1>5. CASE StatusTick
  <2> USE <1>5 DEF StatusTick, StatusInv, StatusTypeOK
  <2>1. ASSUME NEW p \in Listed PROVE age'[p] \in 0 .. Oldest /\ wake'[p] \in 0 .. Interval
    <3>1. age[p] \in 0 .. Oldest /\ wake[p] \in 0 .. Interval /\ Oldest \in Nat
      BY DEF Oldest
    <3>2. QED
      BY <3>1
  <2>2. StatusTypeOK'
    BY <2>1
  <2>3. ASSUME NEW p \in Listed, Healthy(p)' PROVE age'[p] + wake'[p] <= Interval
    <3>1. Healthy(p) /\ wake[p] > 0 /\ age[p] + wake[p] <= Interval
      BY <2>3 DEF Healthy, BeatsFit
    <3>2. wake'[p] = wake[p] - 1 /\ age'[p] \in {age[p], age[p] + 1}
      BY <3>1
    <3>3. age[p] \in Nat /\ wake[p] \in Nat
      BY DEF Oldest
    <3>4. QED
      BY <3>1, <3>2, <3>3
  <2>4. QED
    BY <2>2, <2>3 DEF BeatsFit, Healthy
<1>6. ASSUME NEW p \in Listed, Ail(p) PROVE StatusInv'
  <2> USE <1>6 DEF Ail, StatusInv, StatusTypeOK
  <2>1. \E f \in Fate \ {"running"} : process' = [process EXCEPT ![p] = f]
    BY DEF Fate
  <2>2. StatusTypeOK'
    BY <2>1 DEF Fate
  <2>3. QED
    BY <2>1, <2>2 DEF BeatsFit, Healthy
<1>7. CASE BeginSummary
  BY <1>7 DEF BeginSummary, StatusInv, StatusTypeOK, BeatsFit, Healthy
<1>8. ASSUME NEW p \in Listed, Probed(p) PROVE StatusInv'
  <2> USE <1>8 DEF StatusInv, StatusTypeOK
  <2>1. PICK found \in Found(p) :
           /\ cached' = [cached EXCEPT ![p] = found]
           /\ summary' = [summary EXCEPT !.left = @ \ {p},
                            !.live = IF found = "alive" THEN @ \cup {p} ELSE @]
    BY DEF Probed
  <2>2. found \in {"none", "alive", "silent"}
    BY DEF Found
  <2>3. summary' \in [busy : BOOLEAN, left : SUBSET Listed, live : SUBSET Listed]
    BY <2>1
  <2>4. QED
    BY <2>1, <2>2, <2>3 DEF Probed, BeatsFit, Healthy
<1>9. ASSUME NEW p \in Listed, ForgetProbe(p) PROVE StatusInv'
  BY <1>9 DEF ForgetProbe, StatusInv, StatusTypeOK, BeatsFit, Healthy
<1>10. CASE Classify
  BY <1>10 DEF Classify, NoSummary, StatusInv, StatusTypeOK, BeatsFit, Healthy
<1>11. CASE UNCHANGED statusVars
  BY <1>11 DEF statusVars, StatusInv, StatusTypeOK, BeatsFit, Healthy
<1>12. QED
  BY <1>1, <1>2, <1>3, <1>4, <1>5, <1>6, <1>7, <1>8, <1>9, <1>10, <1>11 DEF StatusNext

(* A session whose process runs and beats is not stale, and a summary that *)
(* it lives through has it, as what it is (summary, health_snapshot).      *)
THEOREM HealthyAreSeen == StatusSpec => []HealthySeen
<1>1. ASSUME StatusInv PROVE HealthySeen
  <2> USE <1>1, StatusAssumption DEF StatusInv, StatusTypeOK
  <2>1. ASSUME NEW p \in Listed, Healthy(p) PROVE age[p] < Grace /\ age[p] <= Stale
    <3>1. age[p] \in Nat /\ wake[p] \in Nat /\ age[p] + wake[p] <= Interval
      BY <2>1 DEF BeatsFit, Oldest
    <3>2. QED
      BY <3>1
  <2>2. \A p \in Listed : Healthy(p) => p \notin StaleCandidates
    BY <2>1 DEF StaleCandidates, Oldest
  <2>3. ASSUME NEW p \in fit
        PROVE  /\ p \in Counted("total") \cup Pidless
               /\ StatusLabel(p) # "offline" /\ p \notin Counted("offline")
               /\ StatusLabel(p) \notin {"none", "starting"} =>
                    p \in Counted("gateway") \cup Counted("active") \cup Counted("idle")
               /\ (StatusLabel(p) = "working" /\ p \notin Automation) => p \in Counted("active")
    <3>1. p \in Listed /\ Healthy(p) /\ age[p] < Grace /\ age[p] <= Stale
      BY <2>1
    <3>2. ~ IsOffline(p) /\ PidAlive(p) /\ status[p] \in {"idle", "working"}
      BY <3>1 DEF IsOffline, IsStarting, PidAlive, Healthy
    <3>3. p \notin Pidless => p \in Roster
      BY <3>1, <3>2 DEF Roster
    <3>4. p \in Counted("total") \cup Pidless /\ p \notin Counted("offline")
      BY <3>2, <3>3 DEF Counted
    <3>5. StatusLabel(p) # "offline"
      BY <3>2 DEF StatusLabel
    <3>6. StatusLabel(p) \notin {"none", "starting"} =>
            p \in Roster \cap summary.live /\ StatusLabel(p) = status[p]
      BY <3>2 DEF StatusLabel
    <3>7. p \in Roster \cap summary.live =>
            p \in Counted("gateway") \cup Counted("active") \cup Counted("idle")
      BY <3>1 DEF Counted
    <3>8. (p \in Roster \cap summary.live /\ status[p] = "working" /\ p \notin Automation)
            => p \in Counted("active")
      BY <3>1 DEF Counted
    <3>9. QED
      BY <3>4, <3>5, <3>6, <3>7, <3>8
  <2>4. QED
    BY <2>2, <2>3 DEF HealthySeen
<1>2. QED
  BY <1>1, StatusInitInv, StatusStep, PTL DEF StatusSpec

----------------------------------------------------------------------------
(* The event broker.                                                       *)
EventsInv ==
  /\ EventsTypeOK /\ PlacesHeld
  /\ \A v \in leaked : handler[v] = "ended"

LEMMA AppendedKeeps ==
  ASSUME NEW q \in Seq(1 .. Published), Len(q) <= Capacity, NEW e \in 1 .. Published
  PROVE  Appended(q, e) \in Seq(1 .. Published) /\ Len(Appended(q, e)) <= Capacity
<1>1. /\ Append(q, e) \in Seq(1 .. Published) /\ Len(Append(q, e)) = Len(q) + 1
      /\ Len(q) \in Nat /\ Append(q, e) # <<>>
  OBVIOUS
<1>2. Tail(Append(q, e)) \in Seq(1 .. Published) /\ Len(Tail(Append(q, e))) = Len(q)
  BY <1>1
<1>3. CASE Len(Append(q, e)) > Capacity
  <2>1. Appended(q, e) = Tail(Append(q, e))
    BY <1>3 DEF Appended
  <2>2. QED
    BY <1>2, <2>1
<1>4. CASE Len(Append(q, e)) <= Capacity
  <2>1. Appended(q, e) = Append(q, e)
    BY <1>1, <1>4, EventsAssumption DEF Appended
  <2>2. QED
    BY <1>1, <1>4, <2>1
<1>5. QED
  BY <1>1, <1>3, <1>4, EventsAssumption

LEMMA EventsInitInv == EventsInit => EventsInv
<1> SUFFICES ASSUME EventsInit PROVE EventsInv
  OBVIOUS
<1>1. DOMAIN subscribers = {}
  BY DEF EventsInit
<1>2. QED
  BY <1>1, EventsAssumption DEF EventsInit, EventsInv, EventsTypeOK, PlacesHeld

LEMMA EventsStep == EventsInv /\ [EventsNext]_eventsVars => EventsInv'
<1> SUFFICES ASSUME EventsInv, [EventsNext]_eventsVars PROVE EventsInv'
  OBVIOUS
<1> USE EventsAssumption DEF EventsInv, EventsTypeOK, PlacesHeld
<1>1. CASE Publish
  <2>1. event' \in 1 .. Published /\ UNCHANGED <<handler, leaked, there>>
    BY <1>1 DEF Publish
  <2>2. DOMAIN subscribers' = DOMAIN subscribers
    BY <1>1 DEF Publish
  <2>3. \A v \in DOMAIN subscribers' :
          subscribers'[v] \in Seq(1 .. Published) /\ Len(subscribers'[v]) <= Capacity
    BY <1>1, <2>1, AppendedKeeps DEF Publish
  <2>4. QED
    BY <2>1, <2>2, <2>3
<1>2. ASSUME NEW v \in Viewer, UpgradeRefused(v) PROVE EventsInv'
  BY <1>2 DEF UpgradeRefused
<1>3. ASSUME NEW v \in Viewer, Subscribe(v) PROVE EventsInv'
  <2>1. DOMAIN subscribers' = DOMAIN subscribers \cup {v} /\ v \notin DOMAIN subscribers
    BY <1>3 DEF Subscribe
  <2>2. <<>> \in Seq(1 .. Published) /\ Len(<<>>) = 0 /\ 0 <= Capacity
    OBVIOUS
  <2>3. \A w \in DOMAIN subscribers' :
          subscribers'[w] \in Seq(1 .. Published) /\ Len(subscribers'[w]) <= Capacity
    BY <1>3, <2>1, <2>2 DEF Subscribe
  <2>4. handler' = [handler EXCEPT ![v] = "accepting"] /\ UNCHANGED <<event, leaked, there>>
    BY <1>3 DEF Subscribe
  <2>5. v \notin leaked
    BY <1>3 DEF Subscribe
  <2>6. QED
    BY <2>1, <2>3, <2>4, <2>5
<1>4. ASSUME NEW v \in Viewer, Accepted(v) PROVE EventsInv'
  BY <1>4 DEF Accepted
<1>5. ASSUME NEW v \in Viewer, AcceptFails(v) PROVE EventsInv'
  BY <1>5 DEF AcceptFails
<1>6. ASSUME NEW v \in Viewer, SendEvents(v) PROVE EventsInv'
  <2>1. DOMAIN subscribers' = DOMAIN subscribers
    BY <1>6 DEF SendEvents
  <2>2. <<>> \in Seq(1 .. Published) /\ Len(<<>>) = 0 /\ 0 <= Capacity
    OBVIOUS
  <2>3. \A w \in DOMAIN subscribers' :
          subscribers'[w] \in Seq(1 .. Published) /\ Len(subscribers'[w]) <= Capacity
    BY <1>6, <2>1, <2>2 DEF SendEvents
  <2>4. handler' = [handler EXCEPT ![v] = "receiving"] /\ UNCHANGED <<event, leaked, there>>
    BY <1>6 DEF SendEvents
  <2>5. handler[v] = "sending"
    BY <1>6 DEF SendEvents
  <2>6. QED
    BY <2>1, <2>3, <2>4, <2>5
<1>7. ASSUME NEW v \in Viewer, KeepAlive(v) PROVE EventsInv'
  BY <1>7 DEF KeepAlive
<1>8. ASSUME NEW v \in Viewer, Disconnect(v) PROVE EventsInv'
  BY <1>8 DEF Disconnect, PlacesAfter, Unsubscribed
<1>9. ASSUME NEW v \in Viewer, Depart(v) PROVE EventsInv'
  BY <1>9 DEF Depart
<1>10. CASE UNCHANGED eventsVars
  BY <1>10 DEF eventsVars
<1>11. QED
  BY <1>1, <1>2, <1>3, <1>4, <1>5, <1>6, <1>7, <1>8, <1>9, <1>10 DEF EventsNext

(* No view's queue outgrows its capacity (EventBroker.publish).            *)
THEOREM QueuesBounded == EventsSpec => []EventsTypeOK
<1>1. EventsInv => EventsTypeOK
  BY DEF EventsInv
<1>2. QED
  BY <1>1, EventsInitInv, EventsStep, PTL DEF EventsSpec

(* A place is held by a handler that runs, or was lost before accept       *)
(* (events_ws).                                                            *)
THEOREM PlacesAreHeld == EventsSpec => []PlacesHeld
<1>1. EventsInv => PlacesHeld
  BY DEF EventsInv
<1>2. QED
  BY <1>1, EventsInitInv, EventsStep, PTL DEF EventsSpec

----------------------------------------------------------------------------
(* The views.  A view has one newest question at most.                     *)
OneNewest ==
  \A v \in View, i, j \in Query : query[v][i].newest /\ query[v][j].newest => i = j

FeedInv == FeedTypeOK /\ OneNewest /\ LatestWins

LEMMA QueriesAre ==
  /\ NoQuery \in QueryState /\ NoQuery.newest = FALSE
  /\ AskedNow \in QueryState /\ AskedNow.newest = TRUE
  /\ NoSummaryYet \in Summary /\ 0 \in Summary
BY FeedAssumption DEF NoQuery, AskedNow, QueryState, Summary, NoSummaryYet

LEMMA FeedInitInv == FeedInit => FeedInv
<1> SUFFICES ASSUME FeedInit PROVE FeedInv
  OBVIOUS
<1> USE FeedAssumption, QueriesAre DEF FeedInit
<1>1. query \in [View -> [Query -> QueryState]]
  OBVIOUS
<1>2. FeedTypeOK
  <2>1. revision \in 0 .. Revisions /\ failures \in 0 .. Failures /\ mounted \subseteq View
    OBVIOUS
  <2>2. /\ cache \in Summary /\ fresh \in BOOLEAN /\ display \in [View -> Summary]
        /\ socket \in [View -> {"connecting", "connected", "reconnecting"}]
        /\ latest \in [Desktop -> Summary]
    OBVIOUS
  <2>3. QED
    BY <1>1, <2>1, <2>2, Zenon DEF FeedTypeOK
<1>3. OneNewest /\ LatestWins
  BY DEF OneNewest, LatestWins, View
<1>4. QED
  BY <1>2, <1>3 DEF FeedInv

LEMMA RefreshKeeps ==
  ASSUME FeedInv, NEW v \in View, NEW i \in Query, Refresh(v, i), UNCHANGED viewVars PROVE FeedInv'
<1> USE FeedAssumption, QueriesAre DEF FeedInv, FeedTypeOK, Refresh, viewVars, serverVars
<1>1. \A q \in QueryState : [q EXCEPT !.newest = FALSE] \in QueryState /\ [q EXCEPT !.newest = FALSE].newest = FALSE
  BY DEF QueryState
<1>2. /\ query' \in [View -> [Query -> QueryState]]
      /\ \A w \in View \ {v} : query'[w] = query[w]
      /\ \A j \in Query : query'[v][j].newest = (j = i)
  BY <1>1, ZenonT(30)
<1>3. display' \in [View -> Summary] /\ latest' \in [Desktop -> Summary]
  OBVIOUS
<1>4. FeedTypeOK'
  BY <1>2, <1>3
<1>5. OneNewest'
  BY <1>2 DEF OneNewest
<1>6. LatestWins'
  BY <1>2 DEF LatestWins, View
<1>7. QED
  BY <1>4, <1>5, <1>6

(* A question that goes on stays newest or not, and shows nothing yet.     *)
LEMMA GoOnKeeps ==
  ASSUME FeedInv, NEW v \in View, NEW i \in Query, NEW q \in QueryState, SetQuery(v, i, q),
         q.newest => query[v][i].newest, UNCHANGED <<revision, display, latest, viewVars>>,
         cache' \in Summary, fresh' \in BOOLEAN, failures' \in 0 .. Failures
  PROVE  FeedInv'
<1> USE DEF FeedInv, FeedTypeOK, SetQuery, viewVars
<1>1. /\ query' \in [View -> [Query -> QueryState]]
      /\ \A w \in View, j \in Query : query'[w][j].newest => query[w][j].newest
  OBVIOUS
<1>2. QED
  BY <1>1 DEF OneNewest, LatestWins, View

LEMMA SettleKeeps == ASSUME FeedInv, NEW v \in View, NEW i \in Query, Settle(v, i) PROVE FeedInv'
<1> USE FeedAssumption, QueriesAre DEF FeedInv, FeedTypeOK, Settle, SetQuery, serverVars
<1>1. /\ query' \in [View -> [Query -> QueryState]]
      /\ \A w \in View, j \in Query : query'[w][j].newest => query[w][j].newest /\ <<w, j>> # <<v, i>>
  OBVIOUS
<1>2. query[v][i].answer \in Summary
  BY DEF QueryState
<1>3. display' \in [View -> Summary] /\ \A w \in View \ {v} : display'[w] = display[w]
  BY <1>2 DEF ShownAfter
<1>a. latest' \in [Desktop -> Summary] /\ \A w \in Desktop \ {v} : latest'[w] = latest[w]
  BY <1>2
<1>4. FeedTypeOK'
  BY <1>1, <1>3, <1>a
<1>5. OneNewest'
  BY <1>1 DEF OneNewest
<1>b. ASSUME NEW w \in Desktop \cap mounted' PROVE display'[w] = latest'[w]
  <2>1. w \in View /\ w \in mounted /\ display[w] = latest[w]
    BY <1>b DEF LatestWins, View
  <2>2. CASE w # v
    BY <1>3, <1>a, <2>1, <2>2
  <2>3. CASE w = v
    BY <1>b, <2>1, <2>3 DEF ShownAfter
  <2>4. QED
    BY <2>2, <2>3
<1>6. ASSUME NEW w \in Desktop \cap mounted', NEW j \in Query, query'[w][j].newest
      PROVE  display'[w] = NoSummaryYet
  <2>1. w \in View /\ query[w][j].newest /\ display[w] = NoSummaryYet /\ <<w, j>> # <<v, i>>
    BY <1>1, <1>6 DEF LatestWins, View
  <2>2. CASE w # v
    BY <1>3, <2>1, <2>2
  <2>3. CASE w = v
    <3>1. ~ query[v][i].newest
      BY <2>1, <2>3 DEF OneNewest
    <3>2. QED
      BY <1>6, <2>1, <2>3, <3>1 DEF ShownAfter
  <2>4. QED
    BY <2>2, <2>3
<1>7. LatestWins'
  BY <1>6, <1>b DEF LatestWins
<1>8. QED
  BY <1>4, <1>5, <1>7

LEMMA FeedStep == FeedInv /\ [FeedNext]_feedVars => FeedInv'
<1> SUFFICES ASSUME FeedInv, [FeedNext]_feedVars PROVE FeedInv'
  OBVIOUS
<1> USE FeedAssumption DEF FeedInv, FeedTypeOK, viewVars, serverVars
<1>1. CASE Change
  <2>1. revision' \in 0 .. Revisions
    BY <1>1 DEF Change
  <2>2. QED
    BY <1>1, <2>1 DEF Change, OneNewest, LatestWins, View
<1>2. CASE Expire
  BY <1>2 DEF Expire, OneNewest, LatestWins, View
<1>3. ASSUME NEW v \in View, SocketOpens(v) \/ SocketFails(v) \/ Dispose(v) PROVE FeedInv'
  BY <1>3 DEF SocketOpens, SocketFails, Dispose, OneNewest, LatestWins, View
<1>4. ASSUME NEW v \in View, NEW i \in Query, Prompted(v, i) \/ Poll(v, i) PROVE FeedInv'
  BY <1>4, RefreshKeeps DEF Prompted, Poll
<1>5. ASSUME NEW v \in View, NEW i \in Query, MakeSummary(v, i) PROVE FeedInv'
  <2> DEFINE q == query[v][i]
             r == IF fresh THEN [q EXCEPT !.step = "answered", !.answer = cache]
                  ELSE [q EXCEPT !.step = "made", !.answer = revision]
  <2>1. q \in QueryState /\ revision \in Summary
    BY DEF Summary, NoSummaryYet
  <2>2. r \in QueryState /\ r.newest = q.newest
    BY <2>1 DEF QueryState
  <2>3. SetQuery(v, i, r) /\ UNCHANGED <<revision, display, latest, viewVars, cache, fresh, failures>>
    BY <1>5 DEF MakeSummary
  <2> HIDE DEF r
  <2>4. QED
    BY <2>2, <2>3, GoOnKeeps
<1>6. ASSUME NEW v \in View, NEW i \in Query, Fill(v, i) PROVE FeedInv'
  <2> DEFINE q == query[v][i]
             r == [q EXCEPT !.step = "answered"]
  <2>1. q \in QueryState /\ q.answer \in Summary
    BY DEF QueryState
  <2>2. r \in QueryState /\ r.newest = q.newest
    BY <2>1 DEF QueryState
  <2>3. /\ SetQuery(v, i, r) /\ UNCHANGED <<revision, display, latest, viewVars, failures>>
        /\ cache' = q.answer /\ fresh' = TRUE
    BY <1>6 DEF Fill
  <2> HIDE DEF r
  <2>4. QED
    BY <2>1, <2>2, <2>3, GoOnKeeps
<1>7. ASSUME NEW v \in View, NEW i \in Query, Fail(v, i) PROVE FeedInv'
  <2> DEFINE q == query[v][i]
             r == [q EXCEPT !.step = "failed"]
  <2>1. q \in QueryState
    OBVIOUS
  <2>2. r \in QueryState /\ r.newest = q.newest
    BY <2>1 DEF QueryState
  <2>3. /\ SetQuery(v, i, r) /\ UNCHANGED <<revision, display, latest, viewVars, cache, fresh>>
        /\ failures' \in 0 .. Failures
    BY <1>7 DEF Fail
  <2> HIDE DEF r
  <2>4. QED
    BY <2>2, <2>3, GoOnKeeps
<1>8. ASSUME NEW v \in View, NEW i \in Query, Settle(v, i) PROVE FeedInv'
  BY <1>8, SettleKeeps
<1>9. CASE UNCHANGED feedVars
  BY <1>9 DEF feedVars, OneNewest, LatestWins, View
<1>10. QED
  BY <1>1, <1>2, <1>3, <1>4, <1>5, <1>6, <1>7, <1>8, <1>9 DEF FeedNext, Progress

(* What the Desktop shows is the answer to its newest question, or nothing *)
(* before there is one: a slower answer to an earlier question never       *)
(* replaces it, whenever it comes (createRefresher).                       *)
THEOREM NewestIsShown == FeedSpec => []LatestWins
<1>1. FeedInv => LatestWins
  BY DEF FeedInv
<1>2. QED
  BY <1>1, FeedInitInv, FeedStep, PTL DEF FeedSpec

----------------------------------------------------------------------------
(* Resolving and sending.  Only peers that are up are bound, each to one   *)
(* session.                                                                *)
BoundFits ==
  /\ \A s \in Session : bound[s] # NoOne => presence[bound[s]] = "up"
  /\ \A s, r \in Session : bound[s] = bound[r] /\ bound[s] # NoOne => s = r

(* A call that knows its sender and its session knows the session of the   *)
(* sender, if that still has one; its recipient is all that was found.     *)
SenderFits ==
  turn.sender # NoOne /\ turn.step # "acted" =>
    /\ presence[turn.sender] # "unborn"
    /\ turn.sid # Unnamed => \A s \in Session : bound[s] = turn.sender => s = turn.sid

(* Steady peers have a record, go by the target, and are still to be asked *)
(* or found already.                                                       *)
SteadyFits ==
  \A p \in turn.steady :
    /\ presence[p] = "up" /\ GoesBy(p, turn.target)
    /\ turn.step = "listing" /\ turn.target[1] \in {"name", "handle", "agent"}
         => p \in turn.left \cup turn.found

RecipientFits == turn.step = "listing" => turn.recipient = NoOne

(* Who has an envelope has a sender.                                       *)
EnvelopeFits == turn.step = "enveloped" => turn.sender # NoOne

AddressingInv ==
  /\ AddressingTypeOK /\ BoundFits /\ SenderFits /\ EnvelopeFits
  /\ SteadyFits /\ RecipientFits /\ SentAsMeant

LEMMA NoTurnIs ==
  /\ NoTurn \in Turns /\ NoTurn.step = "idle" /\ NoTurn.sid = Unnamed /\ NoTurn.steady = {}
  /\ NoTurn.recipient = NoOne /\ NoTurn.sender = NoOne /\ NoTurn.holders = {} /\ NoTitle \in Title
  /\ NoTurn.target[1] = "name"
<1>1. NoTitle \in Title
  BY AddressingAssumption DEF NoTitle
<1>2. <<"name", NoTitle>> \in Target
  BY <1>1 DEF Target
<1>3. QED
  BY <1>1, <1>2 DEF NoTurn, Turns

(* Without a call under way the rest is about the world alone.             *)
LEMMA NoTurnKeeps ==
  ASSUME AddressingInv, turn' = NoTurn, UNCHANGED worldVars
  PROVE  AddressingInv'
<1> USE NoTurnIs DEF AddressingInv, worldVars
<1>1. AddressingTypeOK' /\ BoundFits'
  BY DEF AddressingTypeOK, BoundFits
<1>2. SenderFits' /\ SteadyFits' /\ RecipientFits' /\ EnvelopeFits' /\ SentAsMeant'
  BY DEF SenderFits, SteadyFits, RecipientFits, EnvelopeFits, SentAsMeant
<1>3. QED
  BY <1>1, <1>2

LEMMA AddressingInitInv == AddressingInit => AddressingInv
<1> SUFFICES ASSUME AddressingInit PROVE AddressingInv
  OBVIOUS
<1> USE NoTurnIs, AddressingAssumption DEF AddressingInit
<1>1. AddressingTypeOK /\ BoundFits
  BY DEF AddressingTypeOK, BoundFits
<1>2. SenderFits /\ SteadyFits /\ RecipientFits /\ EnvelopeFits /\ SentAsMeant
  BY DEF SenderFits, SteadyFits, RecipientFits, EnvelopeFits, SentAsMeant
<1>3. QED
  BY <1>1, <1>2 DEF AddressingInv

(* A call under way leaves the peer alone that changed.                    *)
LEMMA TouchedIs ==
  ASSUME AddressingInv, NEW p \in Peer, Touched(p)
  PROVE  /\ turn' \in Turns /\ turn'.steady = turn.steady \ {p}
         /\ turn'.step = turn.step /\ turn'.sid = turn.sid /\ turn'.target = turn.target
         /\ turn'.found = turn.found /\ turn'.recipient = turn.recipient
         /\ turn'.sender = turn.sender /\ turn'.holders = turn.holders
         /\ turn.left \ {p} \subseteq turn'.left
BY DEF AddressingInv, AddressingTypeOK, Touched, Turns

(* So what is known of the others stays, if they do.                       *)
LEMMA MeanwhileKeeps ==
  ASSUME AddressingInv, NEW p \in Peer, Touched(p), AddressingTypeOK', BoundFits', SenderFits',
         \A q \in turn.steady \ {p} : presence'[q] = presence[q] /\ title'[q] = title[q]
  PROVE  AddressingInv'
<1>1. SteadyFits' /\ RecipientFits' /\ EnvelopeFits'
  BY TouchedIs DEF AddressingInv, SteadyFits, RecipientFits, EnvelopeFits, GoesBy
<1>2. SentAsMeant'
  BY TouchedIs DEF AddressingInv, SentAsMeant
<1>3. QED
  BY <1>1, <1>2 DEF AddressingInv

LEMMA RebindKeeps ==
  ASSUME AddressingInv, NEW s \in Session, NEW p \in Peer \cup {NoOne}, Rebind(s, p)
  PROVE  AddressingInv'
<1> USE AddressingAssumption DEF AddressingInv
<1>1. PICK n \in Title : title' = [q \in Peer |-> IF q = p THEN n
                                   ELSE IF q = bound[s] THEN NoTitle ELSE title[q]]
  BY DEF Rebind
<1>2. /\ bound' = [bound EXCEPT ![s] = p]
      /\ p # NoOne => p \notin Elsewhere /\ presence[p] = "unborn"
      /\ presence' = [q \in Peer |-> IF q = p THEN "up"
                                    ELSE IF q = bound[s] THEN "gone" ELSE presence[q]]
      /\ bound[s] # p
  BY DEF Rebind
<1>3. /\ turn' \in Turns /\ turn'.sender = turn.sender /\ turn'.sid = turn.sid
      /\ turn'.step = turn.step
  BY TouchedIs DEF Rebind, AddressingTypeOK
<1>4. AddressingTypeOK'
  BY <1>1, <1>2, <1>3, NoTurnIs DEF AddressingTypeOK
<1>5. BoundFits'
  BY <1>2 DEF AddressingTypeOK, BoundFits
<1>6. SenderFits'
  BY <1>2, <1>3 DEF AddressingTypeOK, SenderFits, Turns
<1>7. \A q \in turn.steady : q \in Peer /\ presence[q] = "up"
  BY DEF AddressingTypeOK, SteadyFits, Turns
<1>8. CASE bound[s] = NoOne
  <2>1. turn' = turn
    BY <1>8 DEF Rebind
  <2>2. \A q \in turn.steady : presence'[q] = presence[q] /\ title'[q] = title[q]
    BY <1>1, <1>2, <1>7, <1>8
  <2>3. SteadyFits' /\ RecipientFits' /\ EnvelopeFits' /\ SentAsMeant'
    BY <2>1, <2>2 DEF SteadyFits, RecipientFits, EnvelopeFits, GoesBy, SentAsMeant
  <2>4. QED
    BY <1>4, <1>5, <1>6, <2>3
<1>9. CASE bound[s] # NoOne
  <2>1. bound[s] \in Peer /\ Touched(bound[s])
    BY <1>9 DEF Rebind, AddressingTypeOK
  <2>2. \A q \in turn.steady \ {bound[s]} : presence'[q] = presence[q] /\ title'[q] = title[q]
    BY <1>1, <1>2, <1>7
  <2>3. QED
    BY <1>4, <1>5, <1>6, <2>1, <2>2, MeanwhileKeeps
<1>10. QED
  BY <1>8, <1>9

LEMMA ComeAndGoKeeps == ASSUME AddressingInv, NEW p \in Peer, ComeAndGo(p) PROVE AddressingInv'
<1> USE AddressingAssumption DEF AddressingInv
<1>1. /\ p \in Elsewhere /\ Touched(p) /\ bound' = bound
      /\ \E x \in {"up", "left", "gone"} : presence' = [presence EXCEPT ![p] = x]
      /\ title' \in {title, [title EXCEPT ![p] = NoTitle]}
  BY DEF ComeAndGo
<1>2. AddressingTypeOK'
  BY <1>1, TouchedIs, NoTurnIs DEF AddressingTypeOK
<1>3. BoundFits'
  BY <1>1 DEF BoundFits, AddressingTypeOK
<1>4. SenderFits'
  BY <1>1, TouchedIs DEF SenderFits, AddressingTypeOK, Turns
<1>5. \A q \in turn.steady \ {p} : presence'[q] = presence[q] /\ title'[q] = title[q]
  BY <1>1 DEF AddressingTypeOK, Turns
<1>6. QED
  BY <1>1, <1>2, <1>3, <1>4, <1>5, MeanwhileKeeps

LEMMA RetitleKeeps ==
  ASSUME AddressingInv, NEW p \in Peer, NEW n \in Title, Retitle(p, n) PROVE AddressingInv'
<1> USE AddressingAssumption DEF AddressingInv, Retitle
<1>1. AddressingTypeOK'
  BY TouchedIs DEF AddressingTypeOK
<1>2. BoundFits' /\ SenderFits'
  BY TouchedIs DEF BoundFits, SenderFits
<1>3. \A q \in turn.steady \ {p} : presence'[q] = presence[q] /\ title'[q] = title[q]
  BY DEF AddressingTypeOK, Turns
<1>4. QED
  BY <1>1, <1>2, <1>3, MeanwhileKeeps

----------------------------------------------------------------------------
(* Whoever a caller acts for is up, and the session it named is its own.   *)
LEMMA ActsAsIs ==
  ASSUME AddressingInv, NEW sid \in Session \cup {Unnamed}, NEW p \in ActsAs(sid)
  PROVE  /\ p \in Peer /\ p # NoOne /\ presence[p] = "up"
         /\ sid # Unnamed => \A s \in Session : bound[s] = p => s = sid
<1> USE AddressingAssumption DEF AddressingInv, ActsAs, BoundFits
<1>1. \E s \in Session : bound[s] = p /\ p # NoOne /\ (sid # Unnamed => s = sid)
  BY DEF Active
<1>2. QED
  BY <1>1 DEF AddressingTypeOK

(* The session of a call that names no sender is not looked at.            *)
LEMMA ListingIs ==
  ASSUME NEW t \in Target, AddressingInv
  PROVE  /\ Listing(t) \in Turns /\ Listing(t).step = "listing" /\ Listing(t).target = t
         /\ Listing(t).left = Asked(t) /\ Listing(t).found = {}
         /\ Listing(t).steady = {p \in Peer : presence[p] = "up" /\ GoesBy(p, t)}
         /\ Listing(t).recipient = NoOne /\ Listing(t).sender = NoOne /\ Listing(t).sid = Unnamed
<1>1. Asked(t) \subseteq Peer
  BY DEF Asked, Recorded
<1>2. {p \in Peer : presence[p] = "up" /\ GoesBy(p, t)} \subseteq Peer
  OBVIOUS
<1> DEFINE S == {p \in Peer : presence[p] = "up" /\ GoesBy(p, t)}
           c == [NoTurn EXCEPT !.step = "listing", !.target = t, !.left = Asked(t), !.steady = S]
<1>3. Listing(t) = c
  BY DEF Listing
<1> HIDE DEF S
<1>4. /\ c \in Turns /\ c.step = "listing" /\ c.target = t /\ c.left = Asked(t) /\ c.steady = S
      /\ c.found = NoTurn.found /\ c.recipient = NoTurn.recipient /\ c.sender = NoTurn.sender
      /\ c.sid = NoTurn.sid
  BY <1>1, <1>2, NoTurnIs DEF Turns, S
<1> HIDE DEF c
<1>5. NoTurn.found = {}
  BY DEF NoTurn
<1>6. QED
  BY <1>3, <1>4, <1>5, NoTurnIs DEF S

LEMMA BeginKeeps ==
  ASSUME AddressingInv, NEW t \in Target, UNCHANGED worldVars,
         turn' \in Turns, turn'.step = "listing", turn'.target = t, turn'.left = Asked(t),
         turn'.steady = {p \in Peer : presence[p] = "up" /\ GoesBy(p, t)}, turn'.recipient = NoOne,
         SenderFits'
  PROVE  AddressingInv'
<1> USE DEF AddressingInv, worldVars
<1>1. AddressingTypeOK' /\ BoundFits' /\ RecipientFits' /\ EnvelopeFits' /\ SentAsMeant'
  BY DEF AddressingTypeOK, BoundFits, RecipientFits, EnvelopeFits, SentAsMeant
<1>2. ASSUME NEW p \in turn'.steady PROVE t[1] \in {"name", "handle", "agent"} => p \in turn'.left
  <2>1. p \in Recorded /\ GoesBy(p, t)
    BY DEF Recorded
  <2>2. CASE t[1] \in {"name", "handle"}
    BY <2>1, <2>2 DEF Asked
  <2>3. CASE t[1] = "agent"
    BY <2>1, <2>3 DEF Asked, GoesBy
  <2>4. QED
    BY <2>2, <2>3
<1>3. SteadyFits'
  BY <1>2 DEF SteadyFits, GoesBy
<1>4. QED
  BY <1>1, <1>3

LEMMA BeginCallKeeps == ASSUME AddressingInv, NEW t \in Target, BeginCall(t) PROVE AddressingInv'
<1>1. SenderFits'
  BY ListingIs DEF BeginCall, SenderFits
<1>2. QED
  BY <1>1, ListingIs, BeginKeeps DEF BeginCall

LEMMA BeginBroadcastKeeps ==
  ASSUME AddressingInv, NEW t \in Target, NEW sid \in Session \cup {Unnamed}, BeginBroadcast(sid, t)
  PROVE  AddressingInv'
<1>1. PICK p \in ActsAs(sid) : turn' = [Listing(t) EXCEPT !.sid = sid, !.sender = p]
  BY DEF BeginBroadcast
<1>2. p \in Peer /\ presence[p] = "up" /\ (sid # Unnamed => \A s \in Session : bound[s] = p => s = sid)
  BY ActsAsIs
<1>3. /\ turn' \in Turns /\ turn'.step = "listing" /\ turn'.target = t /\ turn'.left = Asked(t)
      /\ turn'.steady = {q \in Peer : presence[q] = "up" /\ GoesBy(q, t)} /\ turn'.recipient = NoOne
      /\ turn'.sid = sid /\ turn'.sender = p
  <2> DEFINE l == Listing(t)
  <2>1. l \in Turns
    BY ListingIs
  <2> HIDE DEF l
  <2>2. /\ [l EXCEPT !.sid = sid, !.sender = p] \in Turns
        /\ [l EXCEPT !.sid = sid, !.sender = p].step = l.step
        /\ [l EXCEPT !.sid = sid, !.sender = p].target = l.target
        /\ [l EXCEPT !.sid = sid, !.sender = p].left = l.left
        /\ [l EXCEPT !.sid = sid, !.sender = p].steady = l.steady
        /\ [l EXCEPT !.sid = sid, !.sender = p].recipient = l.recipient
        /\ [l EXCEPT !.sid = sid, !.sender = p].sid = sid
        /\ [l EXCEPT !.sid = sid, !.sender = p].sender = p
    BY <1>2, <2>1 DEF Turns
  <2>3. turn' = [l EXCEPT !.sid = sid, !.sender = p]
    BY <1>1 DEF l
  <2>4. /\ l.step = "listing" /\ l.target = t /\ l.left = Asked(t) /\ l.recipient = NoOne
        /\ l.steady = {q \in Peer : presence[q] = "up" /\ GoesBy(q, t)}
    BY ListingIs DEF l
  <2>5. QED
    BY <2>2, <2>3, <2>4
<1>4. UNCHANGED worldVars
  BY DEF BeginBroadcast
<1>5. SenderFits'
  BY <1>2, <1>3, <1>4 DEF SenderFits, worldVars
<1>6. QED
  BY <1>3, <1>4, <1>5, BeginKeeps

LEMMA BeginPickedKeeps == ASSUME AddressingInv, NEW p \in Peer, BeginPicked(p) PROVE AddressingInv'
<1> USE DEF AddressingInv, worldVars, BeginPicked
<1>1. <<"id", p>> \in Target
  BY DEF Target
<1>2. /\ turn' \in Turns /\ turn'.step = "resolved" /\ turn'.target = <<"id", p>>
      /\ turn'.steady = {} /\ turn'.sender = NoOne
  BY <1>1, NoTurnIs DEF Turns
<1>3. AddressingTypeOK' /\ BoundFits'
  BY <1>2 DEF AddressingTypeOK, BoundFits
<1>4. SenderFits' /\ SteadyFits' /\ RecipientFits' /\ EnvelopeFits' /\ SentAsMeant'
  BY <1>2 DEF SenderFits, SteadyFits, RecipientFits, EnvelopeFits, SentAsMeant
<1>5. QED
  BY <1>3, <1>4

LEMMA ActKeeps ==
  ASSUME AddressingInv, NEW sid \in Session \cup {Unnamed}, ActFor(sid) \/ ReadInbox(sid)
  PROVE  AddressingInv'
<1>1. PICK p \in Peer : turn' = [NoTurn EXCEPT !.step = "acted", !.sid = sid, !.sender = p]
  <2>1. \A s \in Session \cup {Unnamed} : ActsAs(s) \subseteq Peer
    BY ActsAsIs
  <2>2. ReadsAs(sid) \subseteq Peer
    BY <2>1 DEF ReadsAs
  <2>3. QED
    BY <2>1, <2>2 DEF ActFor, ReadInbox
<1>2. UNCHANGED worldVars
  BY DEF ActFor, ReadInbox
<1>3. turn' \in Turns /\ turn'.step = "acted" /\ turn'.steady = {} /\ turn'.recipient = NoOne
  BY <1>1, NoTurnIs DEF Turns
<1> USE DEF AddressingInv, worldVars
<1>4. AddressingTypeOK' /\ BoundFits'
  BY <1>2, <1>3 DEF AddressingTypeOK, BoundFits
<1>5. SenderFits' /\ SteadyFits' /\ RecipientFits' /\ EnvelopeFits' /\ SentAsMeant'
  BY <1>3 DEF SenderFits, SteadyFits, RecipientFits, EnvelopeFits, SentAsMeant
<1>6. QED
  BY <1>4, <1>5

(* A peer that does not answer, or does not go by the target, is steady no *)
(* more.                                                                   *)
LEMMA ProbeKeeps == ASSUME AddressingInv, NEW p \in Peer, ProbePeer(p) PROVE AddressingInv'
<1> USE DEF AddressingInv
<1>1. PICK alive \in BOOLEAN :
         turn' = [turn EXCEPT !.left = @ \ {p},
                    !.found = IF alive /\ GoesBy(p, turn.target) THEN @ \cup {p} ELSE @,
                    !.steady = IF alive THEN @ ELSE @ \ {p}]
  BY DEF ProbePeer
<1>2. UNCHANGED worldVars /\ turn.step = "listing"
  BY DEF ProbePeer
<1>3. /\ turn' \in Turns /\ turn'.step = "listing" /\ turn'.target = turn.target
      /\ turn'.sid = turn.sid /\ turn'.sender = turn.sender /\ turn'.recipient = turn.recipient
      /\ turn'.left = turn.left \ {p}
      /\ turn'.found = IF alive /\ GoesBy(p, turn.target) THEN turn.found \cup {p} ELSE turn.found
      /\ turn'.steady = IF alive THEN turn.steady ELSE turn.steady \ {p}
  BY <1>1, <1>2 DEF AddressingTypeOK, Turns
<1>4. AddressingTypeOK' /\ BoundFits' /\ SenderFits' /\ RecipientFits' /\ EnvelopeFits'
  BY <1>2, <1>3 DEF AddressingTypeOK, BoundFits, SenderFits, RecipientFits, EnvelopeFits, worldVars
<1>5. SteadyFits'
  BY <1>2, <1>3 DEF SteadyFits, GoesBy, worldVars
<1>6. SentAsMeant'
  BY <1>2, <1>3, <1>4 DEF SentAsMeant, RecipientFits
<1>7. QED
  BY <1>4, <1>5, <1>6

(* Exactly one of finitely many.                                           *)
LEMMA OnlyOne ==
  ASSUME NEW S, S \subseteq Peer, Cardinality(S) = 1
  PROVE  \E p \in Peer : S = {p}
<1>1. IsFiniteSet(S)
  BY AddressingAssumption, FS_Subset
<1>2. QED
  BY <1>1, FS_Singleton

(* Whoever is chosen, the others that were steady are ruled out.           *)
LEMMA ChooseKeeps == ASSUME AddressingInv, Choose PROVE AddressingInv'
<1> USE DEF AddressingInv
<1> DEFINE t == turn.target
           candidates == Preferred(turn.found, t)
<1>1. turn.step = "listing" /\ turn.left = {} /\ UNCHANGED worldVars
  BY DEF Choose
<1>2. turn.found \subseteq Peer /\ turn.steady \subseteq Peer /\ t \in Target
  BY DEF AddressingTypeOK, Turns
<1>3. CASE ~ Unique(candidates)
  <2>1. turn' = NoTurn
    BY <1>3 DEF Choose
  <2>2. QED
    BY <1>1, <2>1, NoTurnKeeps
<1>4. CASE Unique(candidates)
  <2>1. PICK p \in candidates : turn' = [turn EXCEPT !.step = "resolved", !.recipient = p, !.found = {}]
    BY <1>4 DEF Choose
  <2>2. candidates \subseteq turn.found
    BY DEF Preferred
  <2>3. candidates = {p}
    BY <1>2, <1>4, <2>1, <2>2, OnlyOne DEF Unique
  <2>4. p \in Peer
    BY <1>2, <2>1, <2>2
  <2>5. /\ turn' \in Turns /\ turn'.step = "resolved" /\ turn'.target = t /\ turn'.steady = turn.steady
        /\ turn'.recipient = p /\ turn'.sender = turn.sender /\ turn'.sid = turn.sid
    BY <2>1, <2>4 DEF AddressingTypeOK, Turns
  <2>6. AddressingTypeOK' /\ BoundFits' /\ SenderFits' /\ SteadyFits' /\ RecipientFits' /\ EnvelopeFits'
    BY <1>1, <2>5 DEF AddressingTypeOK, BoundFits, SenderFits, SteadyFits, RecipientFits, EnvelopeFits, GoesBy, worldVars
  <2>7. t[1] \in {"name", "handle", "agent"} => turn.steady \subseteq turn.found
    BY <1>1 DEF SteadyFits
  <2>8. t[1] \in {"name", "handle"} => turn.steady \subseteq {p}
    BY <2>3, <2>7 DEF Preferred
  <2>9. ASSUME t[1] = "agent", t[3] = NoOne, NEW q \in turn.steady \ {p}
        PROVE  p \in Primary /\ q \notin Primary
    <3>1. q \in turn.found
      BY <2>7, <2>9
    <3>2. candidates = IF Cardinality(turn.found \cap Primary) = 1 THEN turn.found \cap Primary ELSE turn.found
      BY <2>9 DEF Preferred
    <3>3. candidates = turn.found \cap Primary
      BY <2>3, <2>9, <3>1, <3>2
    <3>4. QED
      BY <2>3, <2>9, <3>1, <3>3
  <2> HIDE DEF candidates
  <2>10. SentAsMeant'
    BY <2>5, <2>8, <2>9 DEF SentAsMeant
  <2>11. QED
    BY <2>6, <2>10
<1>5. QED
  BY <1>3, <1>4

LEMMA EnvelopeKeeps ==
  ASSUME AddressingInv, NEW sid \in Session \cup {Unnamed}, MakeEnvelope(sid)
  PROVE  AddressingInv'
<1> USE DEF AddressingInv
<1> DEFINE from == IF turn.sender = NoOne THEN ActsAs(sid) ELSE {turn.sender}
<1>1. turn.step = "resolved" /\ UNCHANGED worldVars /\ (turn.sender # NoOne => sid = turn.sid)
  BY DEF MakeEnvelope
<1>2. CASE from = {}
  BY <1>1, <1>2, NoTurnKeeps DEF MakeEnvelope
<1>3. CASE from # {}
  <2>1. PICK p \in from : turn' = [NoTurn EXCEPT !.step = "enveloped", !.sid = sid,
                                        !.recipient = turn.recipient, !.sender = p]
    BY <1>3 DEF MakeEnvelope
  <2>2. /\ p \in Peer /\ presence[p] # "unborn"
        /\ sid # Unnamed => \A s \in Session : bound[s] = p => s = sid
    <3>1. CASE turn.sender = NoOne
      BY <2>1, <3>1, ActsAsIs
    <3>2. CASE turn.sender # NoOne
      BY <1>1, <2>1, <3>2 DEF SenderFits, AddressingTypeOK, Turns
    <3>3. QED
      BY <3>1, <3>2
  <2>3. turn.recipient \in Peer \cup {NoOne}
    BY DEF AddressingTypeOK, Turns
  <2>4. /\ turn' \in Turns /\ turn'.step = "enveloped" /\ turn'.sid = sid /\ turn'.sender = p
        /\ turn'.target = NoTurn.target /\ turn'.steady = NoTurn.steady
    BY <2>1, <2>2, <2>3, NoTurnIs DEF Turns
  <2>5. AddressingTypeOK' /\ BoundFits'
    BY <1>1, <2>4 DEF AddressingTypeOK, BoundFits, worldVars
  <2>6. SenderFits' /\ SteadyFits' /\ RecipientFits' /\ EnvelopeFits'
    BY <1>1, <2>2, <2>4, NoTurnIs, AddressingAssumption DEF SenderFits, SteadyFits, RecipientFits, EnvelopeFits, worldVars
  <2>7. SentAsMeant'
    BY <2>4, NoTurnIs DEF SentAsMeant
  <2>8. QED
    BY <2>5, <2>6, <2>7
<1>4. QED
  BY <1>2, <1>3

(* After the envelope the call knows its sender.                           *)
LEMMA SendKeeps ==
  ASSUME AddressingInv, turn.step \in {"enveloped", "stamped"}, UNCHANGED worldVars, turn' \in Turns,
         turn'.step \in {"stamped", "sent"}, turn'.target = turn.target, turn'.steady = turn.steady,
         turn'.recipient = turn.recipient, turn'.sender = turn.sender, turn'.sid = turn.sid,
         IF turn.sid = Unnamed THEN turn'.holders # {} ELSE turn'.holders = {turn.sid}
  PROVE  AddressingInv'
<1> USE DEF AddressingInv, worldVars
<1>1. AddressingTypeOK' /\ BoundFits'
  BY DEF AddressingTypeOK, BoundFits
<1>2. SenderFits' /\ SteadyFits' /\ RecipientFits' /\ EnvelopeFits'
  BY DEF SenderFits, SteadyFits, RecipientFits, EnvelopeFits, GoesBy
<1>3. SentAsMeant'
  BY DEF SentAsMeant
<1>4. QED
  BY <1>1, <1>2, <1>3

LEMMA AuthenticateKeeps == ASSUME AddressingInv, Authenticate PROVE AddressingInv'
<1>1. turn.step = "enveloped" /\ UNCHANGED worldVars
  BY DEF Authenticate
<1>2. CASE HoldersOf(turn.sender) = {}
  BY <1>1, <1>2, NoTurnKeeps DEF Authenticate
<1>3. CASE HoldersOf(turn.sender) # {}
  <2>1. turn' = [turn EXCEPT !.step = "stamped", !.holders = HoldersOf(turn.sender)]
    BY <1>3 DEF Authenticate
  <2>2. HoldersOf(turn.sender) \subseteq Session
    BY DEF HoldersOf
  <2>3. /\ turn' \in Turns /\ turn'.step = "stamped" /\ turn'.target = turn.target
        /\ turn'.steady = turn.steady /\ turn'.recipient = turn.recipient /\ turn'.sender = turn.sender
        /\ turn'.sid = turn.sid /\ turn'.holders = HoldersOf(turn.sender)
    BY <2>1, <2>2 DEF AddressingInv, AddressingTypeOK, Turns
  <2>4. turn.sender # NoOne
    BY <1>1 DEF AddressingInv, EnvelopeFits
  <2>5. turn.sid # Unnamed => HoldersOf(turn.sender) = {turn.sid}
    BY <1>1, <1>3, <2>4 DEF AddressingInv, SenderFits, HoldersOf
  <2>6. QED
    BY <1>1, <1>3, <2>3, <2>5, SendKeeps
<1>4. QED
  BY <1>2, <1>3

LEMMA TransmitKeeps == ASSUME AddressingInv, Transmit PROVE AddressingInv'
<1>1. turn.step = "stamped" /\ UNCHANGED worldVars
  BY DEF Transmit
<1>2. CASE turn' = NoTurn
  BY <1>1, <1>2, NoTurnKeeps
<1>3. CASE turn' = [turn EXCEPT !.step = "sent"]
  <2>1. /\ turn' \in Turns /\ turn'.step = "sent" /\ turn'.target = turn.target
        /\ turn'.steady = turn.steady /\ turn'.recipient = turn.recipient /\ turn'.sender = turn.sender
        /\ turn'.sid = turn.sid /\ turn'.holders = turn.holders
    BY <1>3 DEF AddressingInv, AddressingTypeOK, Turns
  <2>2. IF turn.sid = Unnamed THEN turn.holders # {} ELSE turn.holders = {turn.sid}
    BY <1>1 DEF AddressingInv, SentAsMeant
  <2>3. QED
    BY <1>1, <2>1, <2>2, SendKeeps
<1>4. QED
  BY <1>2, <1>3 DEF Transmit

LEMMA AddressingStep == AddressingInv /\ [AddressingNext]_addressingVars => AddressingInv'
<1> SUFFICES ASSUME AddressingInv, [AddressingNext]_addressingVars PROVE AddressingInv'
  OBVIOUS
<1>1. ASSUME NEW s \in Session, NEW p \in Peer \cup {NoOne}, Rebind(s, p) PROVE AddressingInv'
  BY <1>1, RebindKeeps
<1>2. ASSUME NEW p \in Peer, ComeAndGo(p) \/ ProbePeer(p) \/ \E n \in Title : Retitle(p, n)
      PROVE  AddressingInv'
  BY <1>2, ComeAndGoKeeps, ProbeKeeps, RetitleKeeps
<1>3. ASSUME NEW sid \in Session \cup {Unnamed}, AgentTool(sid) PROVE AddressingInv'
  BY <1>3, ActKeeps, BeginCallKeeps, BeginBroadcastKeeps DEF AgentTool
<1>4. ASSUME NEW sid \in Session \cup {Unnamed}, SlashCommand(sid) PROVE AddressingInv'
  BY <1>4, ActKeeps, BeginCallKeeps, BeginBroadcastKeeps, BeginPickedKeeps DEF SlashCommand
<1>5. ASSUME NEW sid \in Session \cup {Unnamed}, DashboardRoute(sid) PROVE AddressingInv'
  BY <1>5, ActKeeps, BeginPickedKeeps DEF DashboardRoute, Recorded
<1>6. ASSUME NEW sid \in Session \cup {Unnamed}, MakeEnvelope(sid) PROVE AddressingInv'
  BY <1>6, EnvelopeKeeps
<1>7. CASE EndCall
  BY <1>7, NoTurnKeeps DEF EndCall
<1>8. CASE UNCHANGED addressingVars
  BY <1>8 DEF addressingVars, AddressingInv, AddressingTypeOK, BoundFits, SenderFits, EnvelopeFits,
              SteadyFits, RecipientFits, SentAsMeant, GoesBy
<1>9. QED
  BY <1>1, <1>2, <1>3, <1>4, <1>5, <1>6, <1>7, <1>8, ChooseKeeps, AuthenticateKeeps, TransmitKeeps
  DEF AddressingNext, CommandLine

(* Nobody that stays put goes by the target of a call but the peer it was  *)
(* resolved to, and nothing goes out in the name of a peer that is not the *)
(* session's (resolve_peer, resolve_agent, send).                          *)
THEOREM NoGuess == AddressingSpec => []SentAsMeant
<1>1. AddressingInv => SentAsMeant
  BY DEF AddressingInv
<1>2. QED
  BY <1>1, AddressingInitInv, AddressingStep, PTL DEF AddressingSpec

----------------------------------------------------------------------------
(* The rate limiter.                                                       *)
(* The deque is the end of what was let in, and what came before has left  *)
(* the window for good.                                                    *)
Suffix(q, p) ==
  /\ Len(q) <= Len(p)
  /\ \A i \in 1 .. Len(q) : q[i] = p[Len(p) - Len(q) + i]
  /\ \A i \in 1 .. Len(p) - Len(q) : p[i] + Window <= now

Ordered(p) ==
  /\ \A i \in 1 .. Len(p) : p[i] <= now
  /\ \A i, j \in 1 .. Len(p) : i <= j => p[i] <= p[j]

(* Sustained messages apart is a window apart; Burst messages apart is a   *)
(* second apart unless an earlier message of the window opened the gate.   *)
Sparse(p) ==
  \A i \in 1 .. Len(p) : i + Sustained <= Len(p) => p[i] + Window <= p[i + Sustained]
Gated(p) ==
  \A i \in 1 .. Len(p) : i + Burst <= Len(p) =>
    \/ p[i] + Second <= p[i + Burst]
    \/ \E h \in 1 .. i - 1 :
         p[h] + Second <= p[i + Burst] /\ p[i + Burst] < p[h] + Window

LimiterInv ==
  /\ LimiterTypeOK
  /\ \A k \in Pair :
       /\ Suffix(events[k], passed[k]) /\ Ordered(passed[k])
       /\ Sparse(passed[k]) /\ Gated(passed[k])

LEMMA Smallest ==
  ASSUME NEW S \in SUBSET Nat, S # {}
  PROVE  \E m \in S : \A n \in S : m <= n
<1> DEFINE R == {ss \in Nat \X Nat : ss[1] < ss[2]}
<1>1. IsWellFoundedOn(R, Nat)
  BY NatLessThanWellFounded, Zenon DEF OpToRel
<1> HIDE DEF R
<1>2. PICK m \in S : \A n \in S : ~ (<<n, m>> \in R)
  BY <1>1, WFMin
<1>3. ASSUME NEW n \in S PROVE m <= n
  <2>1. m \in Nat /\ n \in Nat /\ ~ (<<n, m>> \in R)
    BY <1>2
  <2>2. n < m => <<n, m>> \in R
    BY <2>1 DEF R
  <2>3. QED
    BY <2>1, <2>2
<1>4. QED
  BY <1>3

(* A sequence of times as a function, which is all that is needed of it.   *)
Times(q) == Len(q) \in Nat /\ \A i \in 1 .. Len(q) : q[i] \in Nat

LEMMA SeqTimes == ASSUME NEW q \in Seq(Nat) PROVE Times(q)
  BY ElementOfSeq, LenProperties DEF Times

LEMMA WindowFits ==
  ASSUME LimiterAssumption
  PROVE  /\ Burst \in Nat /\ Burst > 0 /\ Sustained \in Nat /\ Sustained > 0
         /\ Second \in Nat /\ Window \in Nat /\ 0 < Second /\ Second <= Window /\ Horizon \in Nat
  BY DEF LimiterAssumption

(* Where trimming stops, what it leaves, and a history that is longer by   *)
(* one event.                                                              *)
StopsAt(q, n) ==
  /\ n \in 0 .. Len(q) /\ \A i \in 1 .. n : q[i] + Window <= now
  /\ n < Len(q) => q[n + 1] + Window > now
Rest(q, n, r) == Len(r) = Len(q) - n /\ \A i \in 1 .. Len(q) - n : r[i] = q[n + i]
InWindow(r, p) ==
  Len(r) > 0 => r[1] + Window > now /\ r[1] = p[Len(p) - Len(r) + 1]
LongerBy(pp, p, e) ==
  Len(pp) = Len(p) + 1 /\ pp[Len(p) + 1] = e /\ \A i \in 1 .. Len(p) : pp[i] = p[i]

LEMMA ExpiredFits ==
  ASSUME Window \in Nat, now \in Nat, NEW q, Times(q)
  PROVE  StopsAt(q, Expired(q))
<1> DEFINE S == {n \in 0 .. Len(q) : n < Len(q) => q[n + 1] + Window > now}
<1>1. S \in SUBSET Nat /\ Len(q) \in S
  BY DEF Times
<1>2. PICK m \in S : \A n \in S : m <= n
  BY <1>1, Smallest
<1>3. ASSUME NEW i \in 1 .. m PROVE q[i] + Window <= now
  <2>0. Len(q) \in Nat /\ m \in 0 .. Len(q)
    BY <1>2 DEF Times
  <2>1. i - 1 \in 0 .. Len(q) /\ i \in 1 .. Len(q) /\ i - 1 < Len(q) /\ ~ (m <= i - 1)
    BY <2>0
  <2>2. ~ (q[(i - 1) + 1] + Window > now)
    <3>1. i - 1 \notin S
      BY <1>2, <2>1
    <3>2. QED
      BY <2>1, <3>1
  <2>3. (i - 1) + 1 = i /\ q[i] \in Nat
    BY <2>1 DEF Times
  <2>4. QED
    BY <2>2, <2>3
<1>4. m \in 0 .. Len(q) /\ (m < Len(q) => q[m + 1] + Window > now)
  BY <1>2
<1>5. QED
  BY <1>3, <1>4 DEF Expired, StopsAt

(* What trimming leaves of the deque is still the end of the history, and  *)
(* its first event is in the window.                                       *)
LEMMA TrimFits ==
  ASSUME Window \in Nat, now \in Nat, NEW q, Times(q), NEW p, Times(p), Suffix(q, p),
         NEW n, StopsAt(q, n), NEW r, Rest(q, n, r)
  PROVE  Suffix(r, p) /\ InWindow(r, p)
<1> USE DEF StopsAt, Rest, InWindow
<1>1. ASSUME NEW i \in 1 .. Len(r) PROVE r[i] = p[Len(p) - Len(r) + i]
  <2>1. n + i \in 1 .. Len(q) /\ r[i] = q[n + i]
    BY DEF Times
  <2>2. q[n + i] = p[Len(p) - Len(q) + (n + i)]
    BY <2>1 DEF Suffix
  <2>3. Len(p) - Len(q) + (n + i) = Len(p) - Len(r) + i
    BY DEF Times
  <2>4. QED
    BY <2>1, <2>2, <2>3
<1>2. ASSUME NEW i \in 1 .. Len(p) - Len(r) PROVE p[i] + Window <= now
  <2>1. CASE i <= Len(p) - Len(q)
    BY <2>1 DEF Suffix, Times
  <2>2. CASE i > Len(p) - Len(q)
    <3> DEFINE j == i - (Len(p) - Len(q))
    <3>1. j \in 1 .. n /\ j \in 1 .. Len(q)
      BY <2>2 DEF Suffix, Times
    <3>2. Len(p) - Len(q) + j = i
      BY DEF Times
    <3>3. q[j] = p[Len(p) - Len(q) + j] /\ q[j] + Window <= now
      BY <3>1 DEF Suffix
    <3>4. QED
      BY <3>2, <3>3
  <2>3. QED
    BY <2>1, <2>2 DEF Times
<1>3. Suffix(r, p)
  BY <1>1, <1>2 DEF Suffix, Times
<1>4. ASSUME Len(r) > 0 PROVE r[1] + Window > now /\ r[1] = p[Len(p) - Len(r) + 1]
  <2>1. 1 \in 1 .. Len(r) /\ n < Len(q) /\ r[1] = q[n + 1]
    BY <1>4 DEF Times
  <2>2. QED
    BY <1>1, <2>1
<1>5. QED
  BY <1>3, <1>4

LEMMA KeptFits ==
  ASSUME Window \in Nat, now \in Nat, NEW S \in SUBSET Nat, NEW q \in Seq(S),
         NEW p, Times(p), Suffix(q, p)
  PROVE  Kept(q) \in Seq(S) /\ Suffix(Kept(q), p) /\ InWindow(Kept(q), p)
<1> DEFINE n == Expired(q)
           r == SubSeq(q, n + 1, Len(q))
<1>1. q \in Seq(Nat) /\ Times(q) /\ Len(q) \in Nat /\ \A i \in 1 .. Len(q) : q[i] \in S
  BY SeqMonotonic, SeqTimes, ElementOfSeq, LenProperties
<1>2. StopsAt(q, n) /\ n \in 0 .. Len(q)
  BY <1>1, ExpiredFits DEF StopsAt
<1> HIDE DEF n
<1>3. /\ r \in Seq(S) /\ Len(r) = IF n + 1 <= Len(q) THEN Len(q) - (n + 1) + 1 ELSE 0
      /\ \A i \in 1 .. Len(q) - (n + 1) + 1 : r[i] = q[n + 1 + i - 1]
  <2>1. n + 1 \in Int /\ Len(q) \in Int /\ \A i \in n + 1 .. Len(q) : q[i] \in S
    BY <1>1, <1>2
  <2>2. QED
    BY <2>1, SubSeqProperties
<1> HIDE DEF r
<1>4. Rest(q, n, r)
  <2>1. Len(q) \in Nat /\ n \in 0 .. Len(q)
    BY <1>1, <1>2
  <2>2. Len(q) - (n + 1) + 1 = Len(q) - n
    BY <2>1
  <2>3. Len(r) = Len(q) - n
    BY <1>3, <2>1
  <2>4. ASSUME NEW i \in 1 .. Len(q) - n PROVE r[i] = q[n + i]
    <3>1. r[i] = q[n + 1 + i - 1]
      BY <1>3, <2>2
    <3>2. n + 1 + i - 1 = n + i
      BY <2>1
    <3>3. QED
      BY <3>1, <3>2
  <2>5. QED
    BY <2>3, <2>4 DEF Rest
<1>5. Suffix(r, p) /\ InWindow(r, p)
  BY <1>1, <1>2, <1>4, TrimFits
<1>6. QED
  BY <1>3, <1>5 DEF Kept, r, n

LEMMA LimiterInitInv == LimiterInit => LimiterInv
  BY LimiterAssumption DEF LimiterInit, LimiterInv, LimiterTypeOK, Suffix, Ordered, Sparse, Gated

(* What arithmetic the bounds need.                                        *)
LEMMA BetweenTimes ==
  ASSUME NEW t \in Nat, NEW w \in Nat, NEW a \in Nat, NEW b \in Nat, NEW c \in Nat
  PROVE  /\ t <= a /\ b <= c /\ c < t + w => ~ (a + w <= b) /\ b < t + w
         /\ a + w <= b /\ b < t + w => a < t
         /\ ~ (a + w <= t /\ t <= b /\ b < a + w)
  OBVIOUS

LEMMA OneMore ==
  ASSUME NEW L \in Nat, NEW i \in Nat, NEW n \in Nat, i + n <= L + 1
  PROVE  i + n \in Nat /\ (i + n <= L \/ i + n = L + 1)
  OBVIOUS

(* A message that is let in ends the history.                              *)
LEMMA LetIn ==
  ASSUME Burst \in Nat, Burst > 0, Sustained \in Nat, Sustained > 0,
         Second \in Nat, Window \in Nat, 0 < Second, Second <= Window, now \in Nat, NEW r, Times(r), NEW p, Times(p),
         Suffix(r, p), Ordered(p), Sparse(p), Gated(p),
         Len(r) < Sustained, ~ (Len(r) >= Burst /\ now < r[1] + Second),
         InWindow(r, p), NEW pp, LongerBy(pp, p, now), NEW rr, LongerBy(rr, r, now)
  PROVE  Suffix(rr, pp) /\ Ordered(pp) /\ Sparse(pp) /\ Gated(pp)
<1> DEFINE L == Len(p)
<1>1. /\ L = Len(p) /\ L \in Nat /\ Len(r) \in 0 .. L
      /\ Len(pp) = L + 1 /\ pp[L + 1] = now /\ \A i \in 1 .. L : pp[i] = p[i] /\ p[i] \in Nat
      /\ Len(rr) = Len(r) + 1 /\ rr[Len(r) + 1] = now /\ \A i \in 1 .. Len(r) : rr[i] = r[i]
      /\ Len(r) > 0 => r[1] + Window > now /\ r[1] = p[Len(p) - Len(r) + 1]
  BY DEF Suffix, Times, LongerBy, InWindow
<1> HIDE DEF L
<1>2. \A i \in 1 .. L : p[i] <= now
  BY <1>1 DEF Ordered
<1>3. Suffix(rr, pp)
  <2>1. ASSUME NEW i \in 1 .. Len(rr) PROVE rr[i] = pp[Len(pp) - Len(rr) + i]
    <3>1. CASE i = Len(r) + 1
      BY <1>1, <3>1
    <3>2. CASE i # Len(r) + 1
      <4>0. Len(r) \in Nat /\ i \in 1 .. Len(r)
        BY <1>1, <3>2
      <4>1. i \in 1 .. Len(r) /\ L - Len(r) + i \in 1 .. L
        BY <1>1, <4>0
      <4>2. r[i] = p[L - Len(r) + i]
        BY <1>1, <4>1 DEF Suffix
      <4>3. Len(pp) - Len(rr) + i = L - Len(r) + i
        BY <1>1
      <4>4. QED
        BY <1>1, <4>1, <4>2, <4>3
    <3>3. QED
      BY <1>1, <3>1, <3>2
  <2>2. ASSUME NEW i \in 1 .. Len(pp) - Len(rr) PROVE pp[i] + Window <= now
    <3>1. i \in 1 .. L - Len(r) /\ i \in 1 .. L
      BY <1>1
    <3>2. QED
      BY <1>1, <3>1 DEF Suffix
  <2>3. QED
    BY <1>1, <2>1, <2>2 DEF Suffix
<1>4. Ordered(pp)
  <2>1. ASSUME NEW i \in 1 .. L + 1 PROVE pp[i] <= now
    BY <1>1, <1>2
  <2>2. ASSUME NEW i \in 1 .. L + 1, NEW j \in 1 .. L + 1, i <= j PROVE pp[i] <= pp[j]
    <3>1. CASE j = L + 1
      BY <1>1, <2>1, <3>1
    <3>2. CASE j # L + 1
      BY <1>1, <2>2, <3>2 DEF Ordered
    <3>3. QED
      BY <1>1, <3>1, <3>2
  <2>3. QED
    BY <1>1, <2>1, <2>2 DEF Ordered
<1>5. Sparse(pp)
  <2> SUFFICES ASSUME NEW i \in 1 .. L + 1, i + Sustained <= L + 1
               PROVE  pp[i] + Window <= pp[i + Sustained]
    BY <1>1 DEF Sparse
  <2>1. CASE i + Sustained <= L
    BY <1>1, <2>1 DEF Sparse
  <2>2. CASE i + Sustained = L + 1
    <3>2. i \in 1 .. L - Len(r) /\ i \in 1 .. L
      BY <1>1, <2>2
    <3>3. p[i] + Window <= now
      BY <1>1, <3>2 DEF Suffix
    <3>4. QED
      BY <1>1, <2>2, <3>2, <3>3
  <2>3. i \in Nat /\ L \in Nat
    BY <1>1
  <2>4. QED
    BY <2>1, <2>2, <2>3, OneMore
<1>6. Gated(pp)
  <2> SUFFICES ASSUME NEW i \in 1 .. L + 1, i + Burst <= L + 1
               PROVE  \/ pp[i] + Second <= pp[i + Burst]
                      \/ \E h \in 1 .. i - 1 :
                           pp[h] + Second <= pp[i + Burst] /\ pp[i + Burst] < pp[h] + Window
    BY <1>1 DEF Gated
  <2>1. CASE i + Burst <= L
    <3>1. i \in 1 .. L /\ i + Burst \in 1 .. L /\ \A h \in 1 .. i - 1 : pp[h] = p[h]
      BY <1>1, <2>1
    <3>2. \/ p[i] + Second <= p[i + Burst]
          \/ \E h \in 1 .. i - 1 : p[h] + Second <= p[i + Burst] /\ p[i + Burst] < p[h] + Window
      BY <1>1, <2>1, <3>1 DEF Gated
    <3>3. QED
      BY <1>1, <3>1, <3>2
  <2>2. CASE i + Burst = L + 1 /\ now < p[i] + Second
    <3>1. i \in 1 .. L /\ pp[i + Burst] = now
      BY <1>1, <2>2
    <3>2. ~ (p[i] + Window <= now)
      BY <1>1, <2>2, <3>1
    <3>3. i \notin 1 .. L - Len(r)
      BY <1>1, <3>2 DEF Suffix
    <3>4. Len(r) >= Burst /\ Len(r) > 0
      BY <1>1, <2>2, <3>1, <3>3
    <3> DEFINE h == L - Len(r) + 1
    <3>5. h \in 1 .. L /\ h <= i /\ p[h] = r[1] /\ p[h] \in Nat
      <4>1. Len(r) \in 1 .. L /\ i >= h /\ h \in 1 .. L
        BY <1>1, <3>1, <3>3, <3>4
      <4>2. p[h] = r[1]
        BY <1>1, <3>4
      <4>3. QED
        BY <1>1, <4>1, <4>2
    <3>6. p[h] + Second <= now /\ now < p[h] + Window
      BY <1>1, <3>4, <3>5, SMTT(30)
    <3>7. h # i
      BY <1>1, <2>2, <3>6
    <3> HIDE DEF h
    <3>8. h \in 1 .. i - 1 /\ pp[h] = p[h]
      BY <1>1, <3>1, <3>5, <3>7
    <3>9. QED
      BY <1>1, <3>1, <3>6, <3>8
  <2>3. CASE i + Burst = L + 1 /\ ~ (now < p[i] + Second)
    <3>1. i \in 1 .. L /\ pp[i] = p[i] /\ p[i] \in Nat /\ pp[i + Burst] = now
      BY <1>1, <2>3
    <3>2. p[i] + Second <= now
      BY <2>3, <3>1
    <3>3. QED
      BY <3>1, <3>2
  <2>4. i \in Nat /\ L \in Nat
    BY <1>1
  <2>5. QED
    BY <2>1, <2>2, <2>3, <2>4, OneMore, Zenon
<1>7. QED
  BY <1>1, <1>3, <1>4, <1>5, <1>6

LEMMA LimiterStep == LimiterInv /\ [LimiterNext]_limiterVars => LimiterInv'
<1> SUFFICES ASSUME LimiterInv, [LimiterNext]_limiterVars PROVE LimiterInv'
  OBVIOUS
<1> USE LimiterAssumption
<1>0. /\ now \in 0 .. Horizon /\ now \in Nat /\ Horizon \in Nat
      /\ events \in [Pair -> Seq(0 .. Horizon)] /\ passed \in [Pair -> Seq(0 .. Horizon)]
      /\ own \subseteq Pair
      /\ \A k \in Pair : events[k] \in Seq(Nat) /\ passed[k] \in Seq(Nat)
  BY DEF LimiterInv, LimiterTypeOK, LimiterAssumption
<1>1. CASE Tick
  <2>1. LimiterTypeOK'
    BY <1>0, <1>1 DEF Tick, LimiterTypeOK
  <2>2. ASSUME NEW k \in Pair
        PROVE  (Suffix(events[k], passed[k]) /\ Ordered(passed[k])
                  /\ Sparse(passed[k]) /\ Gated(passed[k]))'
    <3> DEFINE p == passed[k]
               q == events[k]
    <3>1. p' = p /\ q' = q /\ now' = now + 1
      BY <1>1 DEF Tick
    <3>2. Suffix(q, p) /\ Ordered(p) /\ Sparse(p) /\ Gated(p)
      BY DEF LimiterInv
    <3>3. Times(p) /\ Times(q) /\ Window \in Nat
      BY <1>0, SeqTimes, WindowFits
    <3> HIDE DEF p, q
    <3>5. Suffix(q, p)' /\ Ordered(p)'
      <4>1. Len(p) - Len(q) <= Len(p) /\ \A i \in 1 .. Len(p) - Len(q) : i \in 1 .. Len(p)
        BY <3>2, <3>3 DEF Suffix, Times
      <4>2. \A x \in Nat : x <= now => x <= now'
        BY <1>0, <3>1
      <4>3. \A i \in 1 .. Len(p) : p[i] + Window \in Nat /\ p[i] \in Nat
        BY <3>3 DEF Times
      <4>4. /\ \A i \in 1 .. Len(p) - Len(q) : p[i] + Window <= now'
            /\ \A i \in 1 .. Len(p) : p[i] <= now'
        BY <3>2, <4>1, <4>2, <4>3 DEF Suffix, Ordered
      <4>5. QED
        BY <3>1, <3>2, <4>4 DEF Suffix, Ordered
    <3>6. Sparse(p)' /\ Gated(p)'
      BY <3>1, <3>2 DEF Sparse, Gated
    <3>7. QED
      BY <3>5, <3>6 DEF p, q
  <2>3. QED
    BY <2>1, <2>2 DEF LimiterInv
<1>2. ASSUME NEW k \in Pair, Arrive(k) PROVE LimiterInv'
  <2> DEFINE p == passed[k]
             r == Kept(events[k])
  <2>1. r \in Seq(0 .. Horizon) /\ Suffix(r, p) /\ InWindow(r, p)
    <3>1. 0 .. Horizon \in SUBSET Nat /\ Times(p) /\ Suffix(events[k], p) /\ Window \in Nat
      BY <1>0, SeqTimes, WindowFits DEF LimiterInv
    <3>2. QED
      BY <1>0, <3>1, KeptFits
  <2>2. r \in Seq(Nat) /\ Times(r) /\ Times(p)
    BY <1>0, <2>1, SeqMonotonic, SeqTimes
  <2>3. Ordered(p) /\ Sparse(p) /\ Gated(p) /\ p \in Seq(Nat) /\ p \in Seq(0 .. Horizon)
    BY <1>0 DEF LimiterInv
  <2>4. now' = now /\ own' = own
    BY <1>2 DEF Arrive
  <2> HIDE DEF r
  <2>5. CASE Allows(r)
    <3>1. /\ events' = [events EXCEPT ![k] = Append(r, now)]
          /\ passed' = [passed EXCEPT ![k] = Append(p, now)]
      BY <1>2, <2>5 DEF Arrive, Trimmed, r
    <3>2. LimiterTypeOK'
      BY <1>0, <2>1, <2>3, <2>4, <3>1, AppendProperties DEF LimiterTypeOK
    <3>3. /\ Suffix(Append(r, now), Append(p, now)) /\ Ordered(Append(p, now))
          /\ Sparse(Append(p, now)) /\ Gated(Append(p, now))
      <4>1. Len(r) < Sustained /\ ~ (Len(r) >= Burst /\ now < r[1] + Second)
        BY <1>0, <2>2, <2>5, WindowFits DEF Allows
      <4> DEFINE pp == Append(p, now)
                 rr == Append(r, now)
      <4>2. LongerBy(pp, p, now)
        BY <1>0, <2>3, AppendProperties DEF LongerBy
      <4>3. LongerBy(rr, r, now)
        BY <1>0, <2>2, AppendProperties DEF LongerBy
      <4> HIDE DEF pp, rr
      <4>4. Suffix(rr, pp) /\ Ordered(pp) /\ Sparse(pp) /\ Gated(pp)
        BY <1>0, <2>1, <2>2, <2>3, <4>1, <4>2, <4>3, WindowFits, LetIn
      <4>5. QED
        BY <4>4 DEF pp, rr
    <3>4. \A j \in Pair : Suffix(events'[j], passed'[j]) /\ Ordered(passed'[j])
                            /\ Sparse(passed'[j]) /\ Gated(passed'[j])
      BY <1>0, <3>1, <3>3 DEF LimiterInv
    <3>5. QED
      BY <2>4, <3>2, <3>4 DEF LimiterInv, Suffix, Ordered, Sparse, Gated
  <2>6. CASE ~ Allows(r)
    <3>1. events' = [events EXCEPT ![k] = r] /\ passed' = passed
      BY <1>2, <2>6 DEF Arrive, Trimmed, r
    <3>2. LimiterTypeOK'
      BY <1>0, <2>1, <2>4, <3>1 DEF LimiterTypeOK
    <3>3. \A j \in Pair : Suffix(events'[j], passed'[j]) /\ Ordered(passed'[j])
                            /\ Sparse(passed'[j]) /\ Gated(passed'[j])
      BY <1>0, <2>1, <3>1 DEF LimiterInv
    <3>4. QED
      BY <2>4, <3>2, <3>3 DEF LimiterInv, Suffix, Ordered, Sparse, Gated
  <2>7. QED
    BY <2>5, <2>6
<1>3. ASSUME UNCHANGED <<now, events, passed>>, own' \subseteq Pair PROVE LimiterInv'
  BY <1>0, <1>3 DEF LimiterInv, LimiterTypeOK, Suffix, Ordered, Sparse, Gated
<1>4. QED
  BY <1>0, <1>1, <1>2, <1>3 DEF LimiterNext, ArriveOwn, SetSessionPolicy, limiterVars

(* Indices of a set of which no two are n apart are at most n.             *)
LEMMA CloseTogether ==
  ASSUME NEW S \in SUBSET Nat, NEW n \in Nat \ {0}, \A i, j \in S : j < i + n
  PROVE  Cardinality(S) <= n
<1>1. CASE S = {}
  BY <1>1, FS_EmptySet
<1>2. CASE S # {}
  <2>1. PICK m \in S : \A j \in S : m <= j
    BY <1>2, Smallest
  <2>2. m \in Nat /\ S \in SUBSET (m .. m + n - 1) /\ m + n - 1 \in Int
    BY <2>1
  <2>3. IsFiniteSet(m .. m + n - 1) /\ Cardinality(m .. m + n - 1) = n
    BY <2>2, FS_Interval
  <2>4. Cardinality(S) <= Cardinality(m .. m + n - 1)
    BY <2>2, <2>3, FS_Subset
  <2>5. QED
    BY <2>3, <2>4
<1>3. QED
  BY <1>1, <1>2

(* However messages, ticks and policies of sessions interleave, the engine *)
(* of the process lets at most Sustained messages of a pair into any       *)
(* window, and at most Burst into a second after a window without any.     *)
THEOREM RatesHold == LimiterSpec => []RateBounded
<1>1. LimiterInv => RateBounded
  <2> SUFFICES ASSUME LimiterInv, NEW k \in Pair, NEW t \in 0 .. Horizon
               PROVE  /\ Cardinality(PassedIn(k, t, Window)) <= Sustained
                      /\ (\A i \in DOMAIN passed[k] : passed[k][i] < t => passed[k][i] + Window <= t)
                           => Cardinality(PassedIn(k, t, Second)) <= Burst
    BY DEF RateBounded
  <2> DEFINE p == passed[k]
  <2>0. /\ Burst \in Nat /\ Burst > 0 /\ Sustained \in Nat /\ Sustained > 0
        /\ Second \in Nat /\ Window \in Nat /\ Horizon \in Nat
        /\ t \in Nat
    BY LimiterAssumption, WindowFits
  <2> USE <2>0
  <2>1. /\ DOMAIN p = 1 .. Len(p) /\ Len(p) \in Nat
        /\ \A i \in 1 .. Len(p) : p[i] \in Nat
    BY ElementOfSeq, LenProperties DEF LimiterInv, LimiterTypeOK
  <2>2. Ordered(p) /\ Sparse(p) /\ Gated(p)
    BY DEF LimiterInv
  <2> HIDE DEF p
  <2>3. \A w \in Nat : PassedIn(k, t, w) = {i \in 1 .. Len(p) : t <= p[i] /\ p[i] < t + w}
    BY <2>1 DEF PassedIn, p
  <2>4. Cardinality(PassedIn(k, t, Window)) <= Sustained
    <3> DEFINE S == {i \in 1 .. Len(p) : t <= p[i] /\ p[i] < t + Window}
    <3>1. ASSUME NEW i \in S, NEW j \in S PROVE j < i + Sustained
      <4>0. /\ i \in 1 .. Len(p) /\ j \in 1 .. Len(p) /\ t <= p[i] /\ p[j] < t + Window
            /\ p[i] \in Nat /\ p[j] \in Nat
        BY <2>1
      <4> HIDE DEF S
      <4> SUFFICES ASSUME j >= i + Sustained PROVE FALSE
        BY <2>1, <4>0
      <4>1. i + Sustained \in 1 .. Len(p) /\ i + Sustained <= j /\ i + Sustained <= Len(p)
        BY <2>1, <4>0
      <4>2. p[i] + Window <= p[i + Sustained] /\ p[i + Sustained] <= p[j] /\ p[i + Sustained] \in Nat
        BY <2>1, <2>2, <4>0, <4>1 DEF Sparse, Ordered
      <4>3. QED
        BY <4>0, <4>2, BetweenTimes
    <3>2. S \in SUBSET Nat
      BY <2>1
    <3>3. Cardinality(S) <= Sustained
      BY <3>1, <3>2, CloseTogether
    <3>4. QED
      BY <2>3, <3>3
  <2>5. ASSUME \A i \in 1 .. Len(p) : p[i] < t => p[i] + Window <= t
        PROVE  Cardinality(PassedIn(k, t, Second)) <= Burst
    <3> DEFINE S == {i \in 1 .. Len(p) : t <= p[i] /\ p[i] < t + Second}
    <3>1. ASSUME NEW i \in S, NEW j \in S PROVE j < i + Burst
      <4>0. /\ i \in 1 .. Len(p) /\ j \in 1 .. Len(p) /\ p[i] \in Nat /\ p[j] \in Nat
            /\ t <= p[i] /\ p[i] < t + Second /\ p[j] < t + Second
        BY <2>1
      <4> HIDE DEF S
      <4> SUFFICES ASSUME j >= i + Burst PROVE FALSE
        BY <2>1, <4>0
      <4> DEFINE c == i + Burst
      <4>1. c \in 1 .. Len(p) /\ c <= j /\ i <= c
        BY <2>1, <4>0
      <4>2. c <= Len(p) /\ p[c] \in Nat
        BY <2>1, <4>1
      <4> HIDE DEF c
      <4>3. p[c] <= p[j] /\ p[i] <= p[c]
        BY <2>2, <4>0, <4>1 DEF Ordered
      <4>4. ~ (p[i] + Second <= p[c]) /\ p[c] < t + Second
        BY <4>0, <4>2, <4>3, BetweenTimes
      <4>5. PICK h \in 1 .. i - 1 : p[h] + Second <= p[c] /\ p[c] < p[h] + Window
        BY <2>2, <4>0, <4>2, <4>4 DEF Gated, c
      <4>6. h \in 1 .. Len(p) /\ p[h] \in Nat
        BY <2>1, <4>0
      <4>7. p[h] < t
        BY <4>2, <4>4, <4>5, <4>6, BetweenTimes
      <4>8. p[h] + Window <= t
        BY <2>5, <4>6, <4>7
      <4>9. QED
        <5>1. t <= p[c]
          BY <4>0, <4>2, <4>3
        <5>2. QED
          BY <5>1, <4>2, <4>5, <4>6, <4>8, BetweenTimes
    <3>2. S \in SUBSET Nat
      BY <2>1
    <3>3. Cardinality(S) <= Burst
      BY <3>1, <3>2, CloseTogether
    <3>4. QED
      BY <2>3, <3>3
  <2>6. QED
    BY <2>1, <2>4, <2>5 DEF p
<1>2. QED
  BY <1>1, LimiterInitInv, LimiterStep, PTL DEF LimiterSpec

----------------------------------------------------------------------------
(* The identity files.                                                     *)
EntriesOf(f) == IF f = "agent_id" THEN {"agent"} \X User ELSE PeerId \X Alias
Opens(u) == step[u] \in {"opened", "written"}

(* Each name has an inode of its own, and a process has none open that     *)
(* bears a name of the other file.                                         *)
NamesApart ==
  \A f, g \in File :
    /\ path[f] # Nothing => path[f] # tmp[g] /\ (path[f] = path[g] => f = g)
    /\ tmp[f] # Nothing => (tmp[f] = tmp[g] => f = g)
InodesApart ==
  \A u \in User :
    /\ Opens(u) =>
         /\ job[u].inode \in Inode
         /\ \A f \in File : f # job[u].file => job[u].inode # path[f] /\ job[u].inode # tmp[f]
    /\ ~ Opens(u) => job[u].inode = Nothing

Contents ==
  /\ \A f \in File :
       /\ In(f) \subseteq EntriesOf(f)
       /\ tmp[f] # Nothing => data[tmp[f]] \subseteq EntriesOf(f)
  /\ \A u \in User : step[u] # "idle" => job[u].entries \subseteq EntriesOf(job[u].file)

(* A file that was never rewritten by two processes at once: its only      *)
(* writer replaces every entry somebody was told of by one of its key.     *)
Calm(f) ==
  /\ kept[f] \subseteq In(f)
  /\ \A u, v \in User : u \in Rewriting(f) /\ v \in Rewriting(f) => u = v
  /\ \A u \in User : u \in Rewriting(f) =>
       /\ Opens(u) => job[u].inode = tmp[f]
       /\ step[u] = "written" => data[tmp[f]] = job[u].entries
       /\ \A e \in kept[f] : \E n \in job[u].entries : n[1] = e[1]
       /\ f = "agent_id" => In(f) = {} /\ job[u].entries = {<<"agent", u>>}
  /\ f = "agent_id" =>
       /\ \A u \in User : mine[u] # Nothing => In(f) = {<<"agent", mine[u]>>}
       /\ In(f) = {} \/ \E u \in User : In(f) = {<<"agent", u>>}

IdentityInv ==
  /\ IdentityTypeOK /\ NamesApart /\ InodesApart /\ Contents
  /\ \A f \in File : f \notin raced => Calm(f)

(* There is always an inode that no name and no process has.               *)
LEMMA FreshExists ==
  ASSUME IdentityTypeOK, NEW f \in File, tmp[f] = Nothing
  PROVE  /\ Fresh \in Inode
         /\ \A g \in File : Fresh # path[g] /\ Fresh # tmp[g]
         /\ \A u \in User : Fresh # job[u].inode
<1> DEFINE J == {job[u].inode : u \in User}
           N == {path["agent_id"], path["aliases"], tmp["agent_id"], tmp["aliases"]}
<1>1. IsFiniteSet(J) /\ Cardinality(J) <= Cardinality(User)
  <2> DEFINE F == [u \in User |-> job[u].inode]
  <2>1. F \in Surjection(User, J)
    BY DEF Surjection
  <2>2. QED
    BY <2>1, FS_Surjection, IdentityAssumption DEF IdentityAssumption
<1>2. IsFiniteSet(N) /\ Cardinality(N) <= 4 /\ Nothing \in N
  <2> DEFINE A == {path["agent_id"]}
             B == A \cup {path["aliases"]}
             C == B \cup {tmp["agent_id"]}
  <2>1. IsFiniteSet(A) /\ Cardinality(A) = 1
    BY FS_Singleton
  <2>2. IsFiniteSet(B) /\ Cardinality(B) \in 0 .. 2
    BY <2>1, FS_AddElement
  <2> HIDE DEF B
  <2>3. IsFiniteSet(C) /\ Cardinality(C) \in 0 .. 3
    BY <2>2, FS_AddElement
  <2> HIDE DEF C
  <2>4. IsFiniteSet(C \cup {tmp["aliases"]}) /\ Cardinality(C \cup {tmp["aliases"]}) \in 0 .. 4
    BY <2>3, FS_AddElement
  <2>5. N = C \cup {tmp["aliases"]}
    BY DEF B, C
  <2>6. Nothing \in N
    BY DEF File
  <2>7. QED
    BY <2>4, <2>5, <2>6
<1>3. N = Named
  BY DEF Named, File
<1> HIDE DEF J, N
<1>4. /\ IsFiniteSet(N \cup J)
      /\ Cardinality(N \cup J) = Cardinality(N) + Cardinality(J) - Cardinality(N \cap J)
  BY <1>1, <1>2, FS_Union
<1>5. Cardinality(N \cup J) <= Cardinality(User) + 4
  <2>1. IsFiniteSet(N \cap J)
    BY <1>1, FS_Intersection
  <2>2. /\ Cardinality(N \cap J) \in Nat /\ Cardinality(N) \in Nat /\ Cardinality(J) \in Nat
        /\ Cardinality(User) \in Nat
    BY <1>1, <1>2, <2>1, FS_CardinalityType, IdentityAssumption DEF IdentityAssumption
  <2>3. QED
    BY <1>1, <1>2, <1>4, <2>2
<1>6. \E i \in Inode : i \notin N \cup J
  <2> SUFFICES ASSUME Inode \subseteq N \cup J PROVE FALSE
    OBVIOUS
  <2>1. Nothing \notin Inode /\ IsFiniteSet(Inode) /\ Cardinality(Inode) >= Cardinality(User) + 4
        /\ Cardinality(User) \in Nat /\ Cardinality(Inode) \in Nat
    BY FS_CardinalityType, IdentityAssumption DEF IdentityAssumption
  <2>2. IsFiniteSet(Inode \cup {Nothing}) /\ Cardinality(Inode \cup {Nothing}) = Cardinality(Inode) + 1
    BY <2>1, FS_AddElement
  <2>3. Inode \cup {Nothing} \in SUBSET (N \cup J)
    BY <1>2
  <2>4. Cardinality(Inode \cup {Nothing}) <= Cardinality(N \cup J)
    BY <1>4, <2>3, FS_Subset
  <2>5. Cardinality(N \cup J) \in Nat
    BY <1>4, FS_CardinalityType
  <2>6. QED
    BY <1>5, <2>1, <2>2, <2>4, <2>5
<1>7. Fresh \in Inode /\ Fresh \notin N \cup J
  BY <1>3, <1>6 DEF Fresh, J
<1>8. QED
  BY <1>3, <1>7 DEF Named, J

LEMMA IdentityInitInv == IdentityInit => IdentityInv
  BY IdentityAssumption
     DEF IdentityAssumption, IdentityInit, NoJob, IdentityInv, IdentityTypeOK, NamesApart,
         InodesApart, Contents, Calm, In, Rewriting, Opens, File, Entry

LEMMA LoadAgentIdKeeps ==
  ASSUME IdentityInv, NEW u \in User, LoadAgentId(u)
  PROVE  IdentityInv'
<1> USE IdentityAssumption DEF IdentityAssumption, IdentityInv, LoadAgentId, Begin, Tell, With
<1>1. IdentityTypeOK'
  <2>1. CASE Begin(u, "agent_id", {<<"agent", u>>}) /\ UNCHANGED <<mine, kept>>
    <3>1. {<<"agent", u>>} \in SUBSET Entry
      BY DEF Entry
    <3>2. /\ step' \in [User -> {"idle", "loaded", "opened", "written"}] /\ raced' \subseteq File
          /\ job' \in [User -> [file : File, entries : SUBSET Entry, inode : Inode \cup {Nothing}]]
      BY <2>1, <3>1 DEF IdentityTypeOK, File
    <3>3. QED
      BY <2>1, <3>2 DEF IdentityTypeOK
  <2>2. ASSUME NEW e \in In("agent_id"), mine' = [mine EXCEPT ![u] = e[2]],
               Tell("agent_id", {e}), UNCHANGED <<step, job, raced>>
        PROVE  IdentityTypeOK'
    <3>1. e \in {"agent"} \X User
      BY <2>2 DEF Contents, EntriesOf, File
    <3>2. e \in Entry /\ e[2] \in User
      BY <3>1 DEF Entry
    <3>3. mine' \in [User -> User \cup {Nothing}]
      BY <2>2, <3>2 DEF IdentityTypeOK
    <3>4. kept' \in [File -> SUBSET Entry]
      BY <2>2, <3>2 DEF IdentityTypeOK, File
    <3>5. QED
      BY <2>2, <3>3, <3>4 DEF IdentityTypeOK
  <2>3. QED
    BY <2>1, <2>2
<1>2. NamesApart'
  BY SMTT(60) DEF IdentityTypeOK, NamesApart, InodesApart, Opens, File
<1>3. InodesApart'
  BY SMTT(60) DEF IdentityTypeOK, NamesApart, InodesApart, Opens, File
<1>4. Contents'
  BY SMTT(60) DEF IdentityTypeOK, NamesApart, InodesApart, Contents, Opens, EntriesOf, In, File
<1>5. ASSUME NEW f \in File, f \notin raced' PROVE Calm(f)'
  BY <1>5, SMTT(60) DEF IdentityTypeOK, NamesApart, InodesApart, Contents, Opens, EntriesOf, In, Rewriting, Calm, File
<1> HIDE DEF IdentityInv
<1>6. QED
  BY <1>1, <1>2, <1>3, <1>4, <1>5 DEF IdentityInv

LEMMA SetAliasKeeps ==
  ASSUME IdentityInv, NEW u \in User, SetAlias(u)
  PROVE  IdentityInv'
<1> USE IdentityAssumption DEF IdentityAssumption, IdentityInv, SetAlias, Begin, With
<1>1. IdentityTypeOK'
  BY SMTT(60) DEF IdentityTypeOK, InodesApart, Opens, Contents, Entry, EntriesOf, File, In
<1>2. NamesApart'
  BY SMTT(60) DEF IdentityTypeOK, NamesApart, InodesApart, Opens, File
<1>3. InodesApart'
  BY SMTT(60) DEF IdentityTypeOK, NamesApart, InodesApart, Opens, File
<1>4. Contents'
  BY SMTT(60) DEF IdentityTypeOK, NamesApart, InodesApart, Contents, Opens, EntriesOf, In, File
<1>5. ASSUME NEW f \in File, f \notin raced' PROVE Calm(f)'
  <2>1. PICK q \in PeerId, n \in Alias : Begin(u, "aliases", With(In("aliases"), {<<q, n>>}))
    OBVIOUS
  <2>2. f \notin raced /\ Calm(f) /\ In(f)' = In(f) /\ kept' = kept /\ mine' = mine
    BY <1>5, <2>1 DEF In
  <2>3. CASE f = "agent_id"
    <3>1. \A v \in User : v \in Rewriting(f)' => v \in Rewriting(f) /\ v # u
      BY <2>1, <2>3 DEF Rewriting, IdentityTypeOK
    <3>2. QED
      BY <2>1, <2>2, <2>3, <3>1, SMTT(60) DEF IdentityTypeOK, Calm, Opens, Rewriting
  <2>4. CASE f = "aliases"
    <3>1. Rewriting(f) = {} /\ Rewriting(f)' = {u}
      BY <1>5, <2>1, <2>4 DEF Rewriting, IdentityTypeOK
    <3>2. job'[u].entries = With(In(f), {<<q, n>>}) /\ step'[u] = "loaded"
      BY <2>1, <2>4 DEF IdentityTypeOK
    <3>3. \A e \in kept[f] : \E m \in With(In(f), {<<q, n>>}) : m[1] = e[1]
      BY <2>2 DEF Calm
    <3>4. QED
      BY <2>2, <2>4, <3>1, <3>2, <3>3 DEF Calm, Opens
  <2>5. QED
    BY <2>3, <2>4 DEF File
<1> HIDE DEF IdentityInv
<1>6. QED
  BY <1>1, <1>2, <1>3, <1>4, <1>5 DEF IdentityInv

LEMMA OpenTemporaryKeeps ==
  ASSUME IdentityInv, NEW u \in User, OpenTemporary(u)
  PROVE  IdentityInv'
<1> USE IdentityAssumption, FreshExists DEF IdentityAssumption, IdentityInv, OpenTemporary
<1>1. IdentityTypeOK'
  BY SMTT(60) DEF IdentityTypeOK, InodesApart, Opens, Contents, Entry, EntriesOf, File, In
<1>2. NamesApart'
  BY SMTT(60) DEF IdentityTypeOK, NamesApart, InodesApart, Opens, File
<1>3. InodesApart'
  BY SMTT(60) DEF IdentityTypeOK, NamesApart, InodesApart, Opens, File
<1>4. Contents'
  BY SMTT(60) DEF IdentityTypeOK, NamesApart, InodesApart, Contents, Opens, EntriesOf, In, File
<1>5. ASSUME NEW f \in File, f \notin raced' PROVE Calm(f)'
  BY <1>5, SMTT(60) DEF IdentityTypeOK, NamesApart, InodesApart, Contents, Opens, EntriesOf, In, Rewriting, Calm, File
<1> HIDE DEF IdentityInv
<1>6. QED
  BY <1>1, <1>2, <1>3, <1>4, <1>5 DEF IdentityInv

LEMMA WriteTemporaryKeeps ==
  ASSUME IdentityInv, NEW u \in User, WriteTemporary(u)
  PROVE  IdentityInv'
<1> USE IdentityAssumption DEF IdentityAssumption, IdentityInv, WriteTemporary
<1>1. IdentityTypeOK'
  BY SMTT(60) DEF IdentityTypeOK, InodesApart, Opens, Contents, Entry, EntriesOf, File, In
<1>2. NamesApart'
  BY SMTT(60) DEF IdentityTypeOK, NamesApart, InodesApart, Opens, File
<1>3. InodesApart'
  BY SMTT(60) DEF IdentityTypeOK, NamesApart, InodesApart, Opens, File
<1>4. Contents'
  BY SMTT(60) DEF IdentityTypeOK, NamesApart, InodesApart, Contents, Opens, EntriesOf, In, File
<1>5. ASSUME NEW f \in File, f \notin raced' PROVE Calm(f)'
  BY <1>5, SMTT(60) DEF IdentityTypeOK, NamesApart, InodesApart, Contents, Opens, EntriesOf, In, Rewriting, Calm, File
<1> HIDE DEF IdentityInv
<1>6. QED
  BY <1>1, <1>2, <1>3, <1>4, <1>5 DEF IdentityInv

LEMMA ReplaceKeeps ==
  ASSUME IdentityInv, NEW u \in User, Replace(u)
  PROVE  IdentityInv'
<1> USE IdentityAssumption DEF IdentityAssumption, IdentityInv, Replace, EndJob, NoJob, Without, Opened, Tell, With
<1>1. IdentityTypeOK'
  BY SMTT(60) DEF IdentityTypeOK, InodesApart, Opens, Contents, Entry, EntriesOf, File, In
<1>2. NamesApart'
  BY SMTT(60) DEF IdentityTypeOK, NamesApart, InodesApart, Opens, File
<1>3. InodesApart'
  BY SMTT(60) DEF IdentityTypeOK, NamesApart, InodesApart, Opens, File
<1>4. Contents'
  BY SMTT(60) DEF IdentityTypeOK, NamesApart, InodesApart, Contents, Opens, EntriesOf, In, File
<1>5. ASSUME NEW f \in File, f \notin raced' PROVE Calm(f)'
  <2> DEFINE g == job[u].file
             es == job[u].entries
  <2>0. g \in File /\ f \notin raced /\ Calm(f) /\ step[u] = "written" /\ step' = [step EXCEPT ![u] = "idle"]
        /\ job' = [job EXCEPT ![u] = NoJob] /\ tmp[g] # Nothing
        /\ path' = [path EXCEPT ![g] = tmp[g]] /\ tmp' = [tmp EXCEPT ![g] = Nothing]
        /\ kept' = [kept EXCEPT ![g] = With(@, es)]
    BY <1>5 DEF IdentityTypeOK
  <2>1. \A i \in Inode : i # path[g] => data'[i] = data[i]
    BY DEF IdentityTypeOK
  <2>2. \A v \in User : v \in Rewriting(f)' => v \in Rewriting(f) /\ v # u /\ job'[v] = job[v] /\ step'[v] = step[v]
    BY <2>0 DEF Rewriting, IdentityTypeOK
  <2>3. CASE f # g
    <3>1. path'[f] = path[f] /\ tmp'[f] = tmp[f] /\ kept'[f] = kept[f]
      BY <2>0, <2>3 DEF IdentityTypeOK
    <3>2. In(f)' = In(f) /\ (tmp[f] # Nothing => data'[tmp[f]] = data[tmp[f]])
      BY <2>0, <2>1, <2>3, <3>1 DEF In, NamesApart, IdentityTypeOK
    <3>3. f = "agent_id" => mine' = mine
      BY <2>3
    <3>4. \A v \in User : v \in Rewriting(f)' /\ step'[v] = "written" => tmp[f] # Nothing
      BY <2>0, <2>2 DEF Calm, Opens, InodesApart, Rewriting
    <3>5. QED
      BY <2>0, <2>2, <3>1, <3>2, <3>3, <3>4, SMTT(60) DEF Calm, Opens
  <2>4. CASE f = g
    <3>1. u \in Rewriting(f)
      BY <2>0, <2>4 DEF Rewriting
    <3>2. \A v \in User : v \notin Rewriting(f)'
      BY <2>0, <2>2, <3>1 DEF Calm
    <3>3. tmp[f] \in Inode /\ tmp[f] # path[f]
      BY <2>0, <2>4 DEF IdentityTypeOK, NamesApart
    <3>4. path'[f] = tmp[f] /\ tmp[f] # Nothing
      BY <2>0, <2>4 DEF IdentityTypeOK
    <3>5. In(f)' = es
      BY <2>0, <2>1, <2>4, <3>1, <3>3, <3>4 DEF Calm, In, Opens
    <3>6. kept'[f] \subseteq es
      <4>1. kept'[f] = With(kept[f], es)
        BY <2>0, <2>4 DEF IdentityTypeOK
      <4>2. \A e \in kept[f] : \E n \in es : n[1] = e[1]
        BY <2>0, <3>1, <2>4 DEF Calm
      <4>3. QED
        BY <4>1, <4>2
    <3>7. f = "agent_id" =>
            /\ es = {<<"agent", u>>} /\ In(f) = {} /\ mine' = [mine EXCEPT ![u] = u]
            /\ \A v \in User : mine[v] = Nothing
      <4> SUFFICES ASSUME f = "agent_id" PROVE
                     /\ es = {<<"agent", u>>} /\ In(f) = {} /\ mine' = [mine EXCEPT ![u] = u]
                     /\ \A v \in User : mine[v] = Nothing
        OBVIOUS
      <4>1. es = {<<"agent", u>>} /\ In(f) = {}
        BY <2>0, <3>1 DEF Calm
      <4>2. \A v \in User : mine[v] # Nothing => In(f) = {<<"agent", mine[v]>>}
        BY <2>0 DEF Calm
      <4>3. QED
        BY <2>4, <4>1, <4>2
    <3>8. f = "agent_id" => \A v \in User : mine'[v] # Nothing => mine'[v] = u
      BY <3>7 DEF IdentityTypeOK
    <3> HIDE DEF IdentityInv, Replace, EndJob, NoJob, Without, Opened, Tell, With, g, es
    <3>9. f = "agent_id" =>
            /\ \A v \in User : mine'[v] # Nothing => In(f)' = {<<"agent", mine'[v]>>}
            /\ \E v \in User : In(f)' = {<<"agent", v>>}
      BY <3>5, <3>7, <3>8
    <3>10. QED
      BY <3>2, <3>5, <3>6, <3>9 DEF Calm
  <2>5. QED
    BY <2>3, <2>4
<1> HIDE DEF IdentityInv
<1>6. QED
  BY <1>1, <1>2, <1>3, <1>4, <1>5 DEF IdentityInv

LEMMA ReplaceFailsKeeps ==
  ASSUME IdentityInv, NEW u \in User, ReplaceFails(u)
  PROVE  IdentityInv'
<1> USE IdentityAssumption DEF IdentityAssumption, IdentityInv, ReplaceFails, EndJob, NoJob
<1>1. IdentityTypeOK'
  BY SMTT(60) DEF IdentityTypeOK, InodesApart, Opens, Contents, Entry, EntriesOf, File, In
<1>2. NamesApart'
  BY SMTT(60) DEF IdentityTypeOK, NamesApart, InodesApart, Opens, File
<1>3. InodesApart'
  BY SMTT(60) DEF IdentityTypeOK, NamesApart, InodesApart, Opens, File
<1>4. Contents'
  BY SMTT(60) DEF IdentityTypeOK, NamesApart, InodesApart, Contents, Opens, EntriesOf, In, File
<1>5. ASSUME NEW f \in File, f \notin raced' PROVE Calm(f)'
  BY <1>5, SMTT(60) DEF IdentityTypeOK, NamesApart, InodesApart, Contents, Opens, EntriesOf, In, Rewriting, Calm, File
<1> HIDE DEF IdentityInv
<1>6. QED
  BY <1>1, <1>2, <1>3, <1>4, <1>5 DEF IdentityInv

LEMMA PerishKeeps ==
  ASSUME IdentityInv, NEW u \in User, Perish(u)
  PROVE  IdentityInv'
<1> USE IdentityAssumption DEF IdentityAssumption, IdentityInv, Perish, EndJob, NoJob
<1>1. IdentityTypeOK'
  BY SMTT(60) DEF IdentityTypeOK, InodesApart, Opens, Contents, Entry, EntriesOf, File, In
<1>2. NamesApart'
  BY SMTT(60) DEF IdentityTypeOK, NamesApart, InodesApart, Opens, File
<1>3. InodesApart'
  BY SMTT(60) DEF IdentityTypeOK, NamesApart, InodesApart, Opens, File
<1>4. Contents'
  BY SMTT(60) DEF IdentityTypeOK, NamesApart, InodesApart, Contents, Opens, EntriesOf, In, File
<1>5. ASSUME NEW f \in File, f \notin raced' PROVE Calm(f)'
  BY <1>5, SMTT(60) DEF IdentityTypeOK, NamesApart, InodesApart, Contents, Opens, EntriesOf, In, Rewriting, Calm, File
<1> HIDE DEF IdentityInv
<1>6. QED
  BY <1>1, <1>2, <1>3, <1>4, <1>5 DEF IdentityInv

LEMMA IdentityStep == IdentityInv /\ [IdentityNext]_identityVars => IdentityInv'
<1> SUFFICES ASSUME IdentityInv, [IdentityNext]_identityVars PROVE IdentityInv'
  OBVIOUS
<1>1. CASE UNCHANGED identityVars
  BY <1>1
     DEF identityVars, IdentityInv, IdentityTypeOK, NamesApart, InodesApart, Contents, Calm,
         In, Rewriting, Opens
<1>2. QED
  BY <1>1, LoadAgentIdKeeps, SetAliasKeeps, OpenTemporaryKeeps, WriteTemporaryKeeps,
     ReplaceKeeps, ReplaceFailsKeeps, PerishKeeps DEF IdentityNext, Rewrite

(* For any number of processes, peers, aliases and deaths: what a process  *)
(* was told of its identity or of an alias is in the file, as long as no   *)
(* two processes have ever rewritten that file at once.                    *)
THEOREM ToldIsKept == IdentitySpec => []KeptUnlessRaced
<1>1. IdentityInv => KeptUnlessRaced
  BY DEF IdentityInv, Calm, KeptUnlessRaced, File
<1>2. QED
  BY <1>1, IdentityInitInv, IdentityStep, PTL DEF IdentitySpec

----------------------------------------------------------------------------
(* All the parts in one behaviour: each step is of one part.               *)
PartsInv ==
  /\ StreamInv /\ LimiterInv /\ IdentityInv /\ StatusInv /\ EventsInv /\ FeedInv
  /\ AddressingInv

LEMMA PartsInitInv == PartsInit => PartsInv
  BY StreamInitInv, LimiterInitInv, IdentityInitInv, StatusInitInv, EventsInitInv, FeedInitInv,
     AddressingInitInv DEF PartsInit, PartsInv

LEMMA PartsStep == PartsInv /\ [PartsNext]_partsVars => PartsInv'
<1> SUFFICES ASSUME PartsInv, [PartsNext]_partsVars PROVE PartsInv'
  OBVIOUS
<1>1. /\ [StreamNext]_streamVars /\ [LimiterNext]_limiterVars /\ [IdentityNext]_identityVars
      /\ [StatusNext]_statusVars /\ [EventsNext]_eventsVars /\ [FeedNext]_feedVars
      /\ [AddressingNext]_addressingVars
  BY DEF PartsNext, partsVars, InStream, InLimiter, InIdentity, InStatus, InEvents, InFeed,
         InAddressing
<1>2. QED
  BY <1>1, StreamNextInv, LimiterStep, IdentityStep, StatusStep, EventsStep, FeedStep,
     AddressingStep DEF PartsInv

(* No part leaves the states it is written for, whatever the others do     *)
(* (FrameDecoder, RateLimiter, AliasStore, Registry, EventBroker and the   *)
(* calls of the session manager).                                          *)
THEOREM PartsTyped == PartsSpec => []TypeOK
<1>1. PartsInv => TypeOK
  BY DEF PartsInv, StreamInv, LimiterInv, IdentityInv, StatusInv, EventsInv, FeedInv,
         AddressingInv, TypeOK
<1>2. QED
  BY <1>1, PartsInitInv, PartsStep, PTL DEF PartsSpec
=============================================================================
