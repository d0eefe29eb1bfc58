------------------------------- MODULE Events -------------------------------
(***************************************************************************)
(* The event broker of a process and the /events handler of the dashboard  *)
(* plugin, which serves one view each.  What a view does with a frame is   *)
(* module Feed.                                                            *)
(***************************************************************************)
EXTENDS Naturals, Sequences, FiniteSets

CONSTANTS
  Viewer,           \* views that open a socket, once each
  Pinging,          \* those whose socket may send something
  Places,           \* max_clients of the broker
  Capacity,         \* client_capacity of the broker
  Published         \* bound on the events

ASSUME EventsAssumption ==
  /\ Pinging \subseteq Viewer
  /\ Places \in Nat \ {0} /\ Capacity \in Nat \ {0} /\ Published \in Nat

VARIABLES
  event,            \* number of the last event
  subscribers,      \* _subscribers: the queue of each subscribed view
  handler,          \* events_ws of each view
  leaked,           \* history: views whose handler ended before its try
  there             \* views that have not left

eventsVars == <<event, subscribers, handler, leaked, there>>

EventsTypeOK ==
  /\ event \in 0 .. Published
  /\ DOMAIN subscribers \subseteq Viewer
  /\ \A v \in DOMAIN subscribers :
       subscribers[v] \in Seq(1 .. Published) /\ Len(subscribers[v]) <= Capacity
  /\ handler \in [Viewer -> {"none", "accepting", "sending", "receiving", "ended"}]
  /\ leaked \subseteq Viewer /\ there \subseteq Viewer

EventsInit ==
  /\ event = 0 /\ subscribers = <<>>
  /\ handler = [v \in Viewer |-> "none"] /\ leaked = {} /\ there = Viewer

(* Faulty variant: the deque has no bound.                                 *)
AppendedAlways(q, e) == Append(q, e)

(* A bounded deque drops its oldest event.                                 *)
Appended(q, e) ==
  LET all == Append(q, e) IN
  IF Len(all) > Capacity THEN Tail(all) ELSE all

Publish ==
  /\ event < Published
  /\ event' = event + 1
  /\ subscribers' = [v \in DOMAIN subscribers |-> Appended(subscribers[v], event')]
  /\ UNCHANGED <<handler, leaked, there>>

Unsubscribed(v) == [w \in DOMAIN subscribers \ {v} |-> subscribers[w]]

(* Not authorized, no manager, or no place at the broker.                  *)
UpgradeRefused(v) ==
  /\ handler[v] = "none"
  /\ handler' = [handler EXCEPT ![v] = "ended"]
  /\ UNCHANGED <<event, subscribers, leaked, there>>

Subscribe(v) ==
  /\ handler[v] = "none" /\ v \in there
  /\ Cardinality(DOMAIN subscribers) < Places
  /\ handler' = [handler EXCEPT ![v] = "accepting"]
  /\ subscribers' = [w \in DOMAIN subscribers \cup {v} |->
                       IF w = v THEN <<>> ELSE subscribers[w]]
  /\ UNCHANGED <<event, leaked, there>>

Accepted(v) ==
  /\ handler[v] = "accepting"
  /\ handler' = [handler EXCEPT ![v] = "sending"]
  /\ UNCHANGED <<event, subscribers, leaked, there>>

(* For a client that is gone accept may raise: the try is not yet entered. *)
AcceptFails(v) ==
  /\ handler[v] = "accepting" /\ v \notin there
  /\ handler' = [handler EXCEPT ![v] = "ended"]
  /\ leaked' = leaked \cup {v}
  /\ UNCHANGED <<event, subscribers, there>>

(* One frame, with all the queue holds.                                    *)
SendEvents(v) ==
  /\ handler[v] = "sending" /\ v \in there
  /\ subscribers' = [subscribers EXCEPT ![v] = <<>>]
  /\ handler' = [handler EXCEPT ![v] = "receiving"]
  /\ UNCHANGED <<event, leaked, there>>

(* The dashboard never sends: its handler waits here for good.             *)
KeepAlive(v) ==
  /\ handler[v] = "receiving" /\ v \in there \cap Pinging
  /\ handler' = [handler EXCEPT ![v] = "sending"]
  /\ UNCHANGED <<event, subscribers, leaked, there>>

(* Faulty variant: a place is given back after a client's farewell only.   *)
PlacesAfterFarewell(v) ==
  IF handler[v] = "receiving" THEN Unsubscribed(v) ELSE subscribers

PlacesAfter(v) == Unsubscribed(v)

(* send or receive raises, and finally unsubscribes.                       *)
Disconnect(v) ==
  /\ handler[v] \in {"sending", "receiving"} /\ v \notin there
  /\ handler' = [handler EXCEPT ![v] = "ended"]
  /\ subscribers' = PlacesAfter(v)
  /\ UNCHANGED <<event, leaked, there>>

(* The view is closed, or its connection breaks.                           *)
Depart(v) ==
  /\ v \in there
  /\ there' = there \ {v}
  /\ UNCHANGED <<event, subscribers, handler, leaked>>

EventsNext ==
  \/ Publish
  \/ \E v \in Viewer : \/ UpgradeRefused(v) \/ Subscribe(v) \/ Accepted(v) \/ AcceptFails(v)
                       \/ SendEvents(v) \/ KeepAlive(v) \/ Disconnect(v) \/ Depart(v)

EventsSpec == EventsInit /\ [][EventsNext]_eventsVars

(* A place of the broker is held by a handler that runs, but for those     *)
(* whose client left before accept: these are lost until the process ends  *)
(* (events_ws subscribes outside its try).                                 *)
PlacesHeld ==
  DOMAIN subscribers =
    {v \in Viewer : handler[v] \in {"accepting", "sending", "receiving"}} \cup leaked
=============================================================================
