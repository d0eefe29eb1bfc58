------------------------------- MODULE Limiter -------------------------------
(***************************************************************************)
(* The rate limiter of a policy engine: accepted messages of the last      *)
(* minute per sender and recipient, and a gate on bursts.  The process has *)
(* one engine; a session with a policy of its own is given a new engine,   *)
(* so an empty limiter, for every message.  Time passes in ticks.          *)
(***************************************************************************)
EXTENDS Naturals, Sequences, FiniteSets

CONSTANTS
  Pair,             \* sender and recipient of the messages
  Burst, Sustained, \* RATE_BURST, RATE_SUSTAINED
  Second, Window,   \* ticks of a second, and of the window
  Horizon           \* bound on the time

ASSUME LimiterAssumption ==
  /\ Burst \in Nat \ {0} /\ Sustained \in Nat \ {0} /\ Horizon \in Nat
  /\ Second \in 1 .. Window /\ Window \in Nat

VARIABLES
  now,              \* time.monotonic
  events,           \* _events of the engine of the process, oldest first
  own,              \* pairs whose recipient session has a policy of its own
  passed            \* history: when the engine of the process let messages in

limiterVars == <<now, events, own, passed>>

LimiterTypeOK ==
  /\ now \in 0 .. Horizon
  /\ events \in [Pair -> Seq(0 .. Horizon)]
  /\ own \subseteq Pair
  /\ passed \in [Pair -> Seq(0 .. Horizon)]

LimiterInit ==
  /\ now = 0
  /\ events = [k \in Pair |-> <<>>]
  /\ own = {}
  /\ passed = [k \in Pair |-> <<>>]

(* How many events leave the deque from its old end: as long as the oldest *)
(* one has left the window.                                                *)
Expired(q) ==
  CHOOSE n \in 0 .. Len(q) :
    /\ \A i \in 1 .. n : q[i] + Window <= now
    /\ n < Len(q) => q[n + 1] + Window > now

Kept(q) == SubSeq(q, Expired(q) + 1, Len(q))

(* Faulty variant: the window starts anew when its first event leaves it.  *)
FixedWindow(q) == IF q # <<>> /\ Head(q) + Window <= now THEN <<>> ELSE q

Trimmed(q) == Kept(q)

(* RateLimiter.allow: the gate looks at the oldest event of the window.    *)
Allows(q) ==
  /\ Len(q) < Sustained
  /\ ~ (Len(q) >= Burst /\ now < Head(q) + Second)

(* A message comes in; the queue is trimmed whatever the answer.           *)
Arrive(k) ==
  /\ k \notin own
  /\ LET q == Trimmed(events[k]) IN
       IF Allows(q)
         THEN /\ events' = [events EXCEPT ![k] = Append(q, now)]
              /\ passed' = [passed EXCEPT ![k] = Append(@, now)]
         ELSE /\ events' = [events EXCEPT ![k] = q]
              /\ UNCHANGED passed
  /\ UNCHANGED <<now, own>>

(* A new engine lets it in, and is forgotten.                              *)
ArriveOwn(k) == k \in own /\ UNCHANGED limiterVars

(* set_policy of a session, for good: nothing takes it back.               *)
SetSessionPolicy(k) ==
  /\ own' = own \cup {k}
  /\ UNCHANGED <<now, events, passed>>

Tick ==
  /\ now < Horizon
  /\ now' = now + 1
  /\ UNCHANGED <<events, own, passed>>

LimiterNext ==
  Tick \/ \E k \in Pair : Arrive(k) \/ ArriveOwn(k) \/ SetSessionPolicy(k)

LimiterSpec == LimiterInit /\ [][LimiterNext]_limiterVars

----------------------------------------------------------------------------

PassedIn(k, from, length) ==
  {i \in DOMAIN passed[k] : from <= passed[k][i] /\ passed[k][i] < from + length}

(* The engine of the process lets at most Sustained messages of a pair     *)
(* into any minute, wherever it starts, and at most Burst into a second    *)
(* that follows a minute without any: this is all the gate on bursts does  *)
(* (RateLimiter.allow).                                                    *)
RateBounded ==
  \A k \in Pair, t \in 0 .. Horizon :
    /\ Cardinality(PassedIn(k, t, Window)) <= Sustained
    /\ (\A i \in DOMAIN passed[k] : passed[k][i] < t => passed[k][i] + Window <= t)
         => Cardinality(PassedIn(k, t, Second)) <= Burst
=============================================================================
