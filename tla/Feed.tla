-------------------------------- MODULE Feed --------------------------------
(***************************************************************************)
(* How the views on the presence of peers keep up with it: the cached      *)
(* /peers/summary of the dashboard plugin, and the views that ask for it.  *)
(* A dashboard polls, and shows whatever answer comes; the panel of the    *)
(* Desktop asks on events and on demand only, and shows the answer to its  *)
(* newest question.  The events come from module Events.                   *)
(***************************************************************************)
EXTENDS Naturals, FiniteSets

CONSTANTS
  Dashboard, Desktop, \* views
  Query,            \* questions a view may have under way
  Revisions,        \* bound on the changes of presence
  Failures          \* bound on the questions that fail

View == Dashboard \cup Desktop

ASSUME FeedAssumption ==
  /\ Dashboard \cap Desktop = {}
  /\ Revisions \in Nat /\ Failures \in Nat

VARIABLES
  revision,         \* the presence of the peers, by the number of changes
  cache, fresh,     \* _summary_cache: what it holds, and within its TTL
  query,            \* questions of each view
  display,          \* what a view shows
  socket,           \* wsState
  mounted,          \* views that are there
  failures,         \* questions that failed
  latest            \* history: what the newest question of a Desktop got

feedVars == <<revision, cache, fresh, query, display, socket, mounted, failures, latest>>

NoSummaryYet == Revisions + 1
Summary == 0 .. NoSummaryYet

(* A question is asked, its summary is made or at hand, or it has failed;  *)
(* newest says whether its token is still the last one.                    *)
NoQuery == [step |-> "none", answer |-> NoSummaryYet, newest |-> FALSE]
AskedNow == [step |-> "asked", answer |-> NoSummaryYet, newest |-> TRUE]
QueryState == [step : {"none", "asked", "made", "answered", "failed"},
               answer : Summary, newest : BOOLEAN]

FeedTypeOK ==
  /\ revision \in 0 .. Revisions
  /\ cache \in Summary /\ fresh \in BOOLEAN
  /\ query \in [View -> [Query -> QueryState]]
  /\ display \in [View -> Summary]
  /\ socket \in [View -> {"connecting", "connected", "reconnecting"}]
  /\ mounted \subseteq View /\ failures \in 0 .. Failures
  /\ latest \in [Desktop -> Summary]

(* initApp and activate refresh at once.                                   *)
FeedInit ==
  /\ revision = 0 /\ cache = NoSummaryYet /\ fresh = FALSE /\ failures = 0
  /\ mounted \in SUBSET View
  /\ LET first == CHOOSE q \in Query : TRUE IN
       query = [v \in View |-> [i \in Query |->
                  IF v \in mounted /\ i = first THEN AskedNow ELSE NoQuery]]
  /\ display = [v \in View |-> NoSummaryYet]
  /\ socket = [v \in View |-> "connecting"]
  /\ latest = [v \in Desktop |-> NoSummaryYet]

viewVars == <<socket, mounted>>
serverVars == <<revision, cache, fresh>>

Change ==
  /\ revision < Revisions
  /\ revision' = revision + 1
  /\ UNCHANGED <<cache, fresh, query, display, viewVars, failures, latest>>

(* refresh: the Desktop takes a token, and shows nothing meanwhile.        *)
Refresh(v, i) ==
  /\ query[v][i].step = "none"
  /\ query' = [query EXCEPT ![v] = [j \in Query |->
                 IF j = i THEN AskedNow ELSE [query[v][j] EXCEPT !.newest = FALSE]]]
  /\ display' = IF v \in Desktop THEN [display EXCEPT ![v] = NoSummaryYet] ELSE display
  /\ latest' = IF v \in Desktop THEN [latest EXCEPT ![v] = NoSummaryYet] ELSE latest
  /\ UNCHANGED <<serverVars, failures>>

(* The socket opens, or closes for good: nothing opens it again.           *)
SocketOpens(v) ==
  /\ v \in mounted \cap Dashboard /\ socket[v] = "connecting"
  /\ socket' = [socket EXCEPT ![v] = "connected"]
  /\ UNCHANGED <<serverVars, query, display, mounted, failures, latest>>

SocketFails(v) ==
  /\ v \in mounted \cap Dashboard
  /\ socket' = [socket EXCEPT ![v] = "reconnecting"]
  /\ UNCHANGED <<serverVars, query, display, mounted, failures, latest>>

(* A frame of events, or the user of the Desktop asks, sends or switches.  *)
Prompted(v, i) ==
  /\ v \in mounted
  /\ Refresh(v, i)
  /\ UNCHANGED viewVars

(* Faulty variant: no poll while the socket is connected.                  *)
PollsUnlessConnected(v) == v \in mounted \cap Dashboard /\ socket[v] # "connected"

Polls(v) == v \in mounted \cap Dashboard

(* The timer of a dashboard: every twenty seconds at least.                *)
Poll(v, i) ==
  /\ Polls(v)
  /\ Refresh(v, i)
  /\ UNCHANGED viewVars

SetQuery(v, i, q) == query' = [query EXCEPT ![v][i] = q]

(* The summary is in the cache, or it is made without the lock.            *)
MakeSummary(v, i) ==
  LET q == query[v][i] IN
  /\ q.step = "asked"
  /\ SetQuery(v, i, IF fresh THEN [q EXCEPT !.step = "answered", !.answer = cache]
                    ELSE [q EXCEPT !.step = "made", !.answer = revision])
  /\ UNCHANGED <<serverVars, display, viewVars, failures, latest>>

(* The last to finish writes the cache.                                    *)
Fill(v, i) ==
  LET q == query[v][i] IN
  /\ q.step = "made"
  /\ SetQuery(v, i, [q EXCEPT !.step = "answered"])
  /\ cache' = q.answer /\ fresh' = TRUE
  /\ UNCHANGED <<revision, display, viewVars, failures, latest>>

(* The TTL is over.                                                        *)
Expire ==
  /\ fresh
  /\ fresh' = FALSE
  /\ UNCHANGED <<revision, cache, query, display, viewVars, failures, latest>>

Fail(v, i) ==
  /\ failures < Failures /\ query[v][i].step = "asked"
  /\ failures' = failures + 1
  /\ SetQuery(v, i, [query[v][i] EXCEPT !.step = "failed"])
  /\ UNCHANGED <<serverVars, display, viewVars, latest>>

(* Faulty variant: whatever comes is shown.                                *)
ShownAnyway(v, q) == IF q.step = "failed" THEN display[v] ELSE q.answer

(* A dashboard keeps what it shows if the question failed; the Desktop     *)
(* shows nothing then, and lets any but the newest question pass.          *)
ShownAfter(v, q) ==
  IF v \in Desktop
    THEN IF q.newest THEN q.answer ELSE display[v]
    ELSE IF q.step = "failed" THEN display[v] ELSE q.answer

(* An answer or a failure; either makes a dashboard look connected again.  *)
Settle(v, i) ==
  LET q == query[v][i] IN
  /\ q.step \in {"answered", "failed"}
  /\ SetQuery(v, i, NoQuery)
  /\ IF v \in mounted
       THEN /\ display' = [display EXCEPT ![v] = ShownAfter(v, q)]
            /\ socket' = IF v \in Dashboard /\ socket[v] = "reconnecting"
                           THEN [socket EXCEPT ![v] = "connected"] ELSE socket
       ELSE UNCHANGED <<display, socket>>
  /\ latest' = IF v \in Desktop /\ q.newest THEN [latest EXCEPT ![v] = q.answer] ELSE latest
  /\ UNCHANGED <<serverVars, mounted, failures>>

(* The disposer stops the timer and silences the socket.                   *)
Dispose(v) ==
  /\ v \in mounted
  /\ mounted' = mounted \ {v}
  /\ UNCHANGED <<serverVars, query, display, socket, failures, latest>>

(* Steps that come of themselves.                                          *)
Progress(v, i) == MakeSummary(v, i) \/ Fill(v, i) \/ Settle(v, i)

FeedNext ==
  \/ Change \/ Expire
  \/ \E v \in View : \/ SocketOpens(v) \/ SocketFails(v) \/ Dispose(v)
                     \/ \E i \in Query : \/ Prompted(v, i) \/ Poll(v, i)
                                         \/ Progress(v, i) \/ Fail(v, i)

FeedSpec == FeedInit /\ [][FeedNext]_feedVars

(* What the Desktop shows is the answer to the last question it asked:     *)
(* until that is answered it shows nothing, and a slower answer to an      *)
(* earlier question never replaces it, neither before the last one is      *)
(* answered nor afterwards (createRefresher).                              *)
LatestWins ==
  \A v \in Desktop \cap mounted :
    /\ display[v] = latest[v]
    /\ (\E i \in Query : query[v][i].newest) => display[v] = NoSummaryYet

(* A dashboard that stays shows the presence as it is in the end, whatever *)
(* was cached, overtaken or lost, and whatever the socket looks like (the  *)
(* poll of initApp).                                                       *)
Converges ==
  \A v \in Dashboard : <>[](v \in mounted => display[v] = revision)
=============================================================================
