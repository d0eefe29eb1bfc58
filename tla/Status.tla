------------------------------- MODULE Status -------------------------------
(***************************************************************************)
(* What the status surfaces show of the sessions on this machine: the      *)
(* heartbeats each process writes to its records, and the summary another  *)
(* process makes of them.  The summary probes the peers first and reads    *)
(* the registry afterwards, so its two pictures may differ.  Time passes   *)
(* in ticks of half a heartbeat interval.  Records that turn and end, and  *)
(* their repair, are modules Sessions and Discovery.                       *)
(***************************************************************************)
EXTENDS Naturals, FiniteSets

CONSTANTS
  Listed,           \* peers: one record, of one process, each
  Automation,       \* those whose surface is the gateway
  Pidless,          \* those whose record names no process
  Interval,         \* HEARTBEAT_INTERVAL
  Grace,            \* _STARTING_GRACE_SECONDS, one and a half of them
  Stale,            \* STALE_THRESHOLD, three of them
  MaxAiling         \* bound on the processes that do not just run

ASSUME StatusAssumption ==
  /\ Listed \subseteq Nat /\ Automation \subseteq Listed /\ Pidless \subseteq Listed
  /\ Interval \in Nat \ {0} /\ Grace \in Nat /\ Stale \in Nat
  /\ MaxAiling \in Nat /\ Interval < Grace /\ Grace <= Stale

VARIABLES
  process,          \* what became of the process of the peer
  status,           \* in its record, "none" without one
  age,              \* ticks since last_seen of the record
  wake,             \* ticks until the loop wakes up for a healthy peer
  cached,           \* _probe_cache for the record as it is
  summary,          \* the summary being made
  fit               \* history: healthy since the summary began

statusVars == <<process, status, age, wake, cached, summary, fit>>

(* A mute process answers probes and cannot write its records any more; a  *)
(* stopped one neither; a recycled pid belongs to another program.         *)
Fate == {"running", "mute", "stopped", "dead", "recycled"}
Oldest == Stale + 1

StatusTypeOK ==
  /\ process \in [Listed -> Fate]
  /\ status \in [Listed -> {"none", "idle", "working"}]
  /\ age \in [Listed -> 0 .. Oldest] /\ wake \in [Listed -> 0 .. Interval]
  /\ cached \in [Listed -> {"none", "alive", "silent"}]
  /\ summary \in [busy : BOOLEAN, left : SUBSET Listed, live : SUBSET Listed]
  /\ fit \subseteq Listed

NoSummary == [busy |-> FALSE, left |-> {}, live |-> {}]

StatusInit ==
  /\ process = [p \in Listed |-> "running"]
  /\ status = [p \in Listed |-> "none"]
  /\ age = [p \in Listed |-> 0] /\ wake = [p \in Listed |-> 0]
  /\ cached = [p \in Listed |-> "none"]
  /\ summary = NoSummary /\ fit = {}

Healthy(p) == process[p] = "running" /\ status[p] # "none"

(* A record that is written anew no longer equals the one the summary is   *)
(* about to probe, and the cache of probes has no entry for it.            *)
Rewritten(p, s) ==
  /\ status' = [status EXCEPT ![p] = s]
  /\ age' = [age EXCEPT ![p] = 0]
  /\ cached' = [cached EXCEPT ![p] = "none"]
  /\ summary' = [summary EXCEPT !.left = @ \ {p}]

(* The loop may wake up at any time after a session is opened.             *)
Appear(p) ==
  /\ process[p] = "running" /\ status[p] = "none"
  /\ Rewritten(p, "idle")
  /\ \E w \in 0 .. Interval : wake' = [wake EXCEPT ![p] = w]
  /\ UNCHANGED <<process, fit>>

(* _set_presence writes last_seen and leaves the heartbeat alone.          *)
Turn(p) ==
  /\ Healthy(p)
  /\ Rewritten(p, IF status[p] = "idle" THEN "working" ELSE "idle")
  /\ UNCHANGED <<process, wake, fit>>

Withdraw(p) ==
  /\ Healthy(p)
  /\ Rewritten(p, "none")
  /\ wake' = [wake EXCEPT ![p] = 0]
  /\ fit' = fit \ {p}
  /\ UNCHANGED process

(* PresenceManager.heartbeat: the last one is an interval ago whenever the *)
(* loop wakes up, since the loop waits for an interval after each round.   *)
Beat(p) ==
  /\ Healthy(p) /\ wake[p] = 0
  /\ Rewritten(p, status[p])
  /\ wake' = [wake EXCEPT ![p] = Interval]
  /\ UNCHANGED <<process, fit>>

(* A round of heartbeats takes less than a tick.                           *)
StatusTick ==
  /\ \A p \in Listed : Healthy(p) => wake[p] > 0
  /\ age' = [p \in Listed |-> IF status[p] = "none" \/ age[p] = Oldest THEN age[p]
                              ELSE age[p] + 1]
  /\ wake' = [p \in Listed |-> IF wake[p] > 0 THEN wake[p] - 1 ELSE 0]
  /\ cached' = [p \in Listed |-> "none"]
  /\ UNCHANGED <<process, status, summary, fit>>

Ail(p) ==
  /\ Cardinality({q \in Listed : process[q] # "running"} \cup {p}) <= MaxAiling
  /\ \/ process[p] = "running" /\ process' = [process EXCEPT ![p] = "mute"]
     \/ process[p] = "running" /\ process' = [process EXCEPT ![p] = "stopped"]
     \/ process[p] \in {"running", "mute", "stopped"}
        /\ process' = [process EXCEPT ![p] = "dead"]
     \/ process[p] = "dead" /\ process' = [process EXCEPT ![p] = "recycled"]
  /\ wake' = [wake EXCEPT ![p] = 0]
  /\ fit' = fit \ {p}
  /\ UNCHANGED <<status, age, cached, summary>>

(* The snapshot of list_live_peers.                                        *)
BeginSummary ==
  /\ ~ summary.busy
  /\ summary' = [busy |-> TRUE, left |-> {p \in Listed : status[p] # "none"}, live |-> {}]
  /\ fit' = {p \in Listed : Healthy(p)}
  /\ UNCHANGED <<process, status, age, wake, cached>>

(* An answer may always come too late, or have the wrong status.           *)
Found(p) ==
  IF cached[p] # "none" THEN {cached[p]}
  ELSE {"silent"} \cup {a \in {"alive"} : process[p] \in {"running", "mute"}}

(* _cached_probe, and the record read again; by the order of the ids.      *)
Probed(p) ==
  /\ p \in summary.left /\ \A q \in summary.left : p <= q
  /\ \E found \in Found(p) :
       /\ cached' = [cached EXCEPT ![p] = found]
       /\ summary' = [summary EXCEPT !.left = @ \ {p},
                        !.live = IF found = "alive" THEN @ \cup {p} ELSE @]
  /\ UNCHANGED <<process, status, age, wake, fit>>

(* Entries live two seconds, and never outlive a tick.                     *)
ForgetProbe(p) ==
  /\ cached[p] # "none"
  /\ cached' = [cached EXCEPT ![p] = "none"]
  /\ UNCHANGED <<process, status, age, wake, summary, fit>>

PidAlive(p) == process[p] # "dead"

Roster ==
  {p \in Listed : status[p] # "none" /\ IF p \in Pidless THEN p \in summary.live ELSE PidAlive(p)}

(* Faulty variant: a session is starting for less than an interval.        *)
IsStartingFlat(p) == age[p] < Interval

IsStarting(p) == age[p] < Grace

IsOffline(p) == p \notin summary.live /\ ~ IsStarting(p)

StatusLabel(p) ==
  IF p \notin Roster THEN "none"
  ELSE IF IsOffline(p) THEN "offline"
  ELSE IF p \notin summary.live THEN "starting" ELSE status[p]

(* A session whose heartbeat is stale is counted idle, whatever its row.   *)
Counted(c) ==
  LET live == (Roster \cap summary.live) \ Automation
      active == {p \in live : status[p] = "working" /\ age[p] <= Stale} IN
  CASE c = "total"   -> Roster
    [] c = "gateway" -> Roster \cap summary.live \cap Automation
    [] c = "live"    -> live
    [] c = "active"  -> active
    [] c = "idle"    -> live \ active
    [] c = "offline" -> {p \in Roster : IsOffline(p)}

(* The rest of PeerSessionManager.summary, once the probes are done: it    *)
(* returns the rows StatusLabel and the counters of Counted.               *)
Ready == summary.busy /\ summary.left = {}

Classify ==
  /\ Ready
  /\ summary' = NoSummary /\ fit' = {}
  /\ UNCHANGED <<process, status, age, wake, cached>>

StatusNext ==
  \/ StatusTick \/ BeginSummary \/ Classify
  \/ \E p \in Listed : \/ Appear(p) \/ Turn(p) \/ Withdraw(p) \/ Beat(p)
                       \/ Ail(p) \/ Probed(p) \/ ForgetProbe(p)

StatusSpec == StatusInit /\ [][StatusNext]_statusVars

StaleCandidates == {p \in Listed : status[p] # "none" /\ age[p] > Stale}

(* A session whose process runs and beats is never called stale by the     *)
(* doctor.  One that does for all of a summary is in it, if its record has *)
(* a pid, and never offline, however the probes go; what is not starting   *)
(* is counted, and a turn that is shown is counted as one (summary,        *)
(* health_snapshot).                                                       *)
HealthySeen ==
  /\ \A p \in Listed : Healthy(p) => p \notin StaleCandidates
  /\ Ready => \A p \in fit :
       /\ p \in Counted("total") \cup Pidless
       /\ StatusLabel(p) # "offline" /\ p \notin Counted("offline")
       /\ StatusLabel(p) \notin {"none", "starting"} =>
            p \in Counted("gateway") \cup Counted("active") \cup Counted("idle")
       /\ (StatusLabel(p) = "working" /\ p \notin Automation) => p \in Counted("active")
=============================================================================
