------------------------------ MODULE MCParts ------------------------------
(***************************************************************************)
(* The parts of the system that touch no variable of one another, checked  *)
(* in one run: each behaviour is one of one part, the others stand still.  *)
(***************************************************************************)
EXTENDS Stream, Limiter, Identity, Status, Events, Feed, Addressing, TLC

CONSTANTS c1, c2

VARIABLE part

partsVars == <<part, streamVars, limiterVars, identityVars, statusVars, eventsVars, feedVars,
               addressingVars>>

Part == {"stream", "limiter", "identity", "status", "events", "feed", "addressing"}

FramesSent ==
  {c1 :> <<"ping", "message">> @@ c2 :> <<"malformed">>,
   c1 :> <<"oversized", "ping">> @@ c2 :> <<"discover">>}

PartsInit ==
  /\ part \in Part
  /\ StreamInit /\ LimiterInit /\ IdentityInit /\ StatusInit /\ EventsInit /\ FeedInit
  /\ AddressingInit
  /\ part # "stream" => plan[c2] = <<"discover">>
  /\ Cardinality(mounted) = IF part = "feed" THEN 1 ELSE 0

InStream ==
  /\ part = "stream"
  /\ UNCHANGED <<part, limiterVars, identityVars, statusVars, eventsVars, feedVars, addressingVars>>
InLimiter ==
  /\ part = "limiter"
  /\ UNCHANGED <<part, streamVars, identityVars, statusVars, eventsVars, feedVars, addressingVars>>
InIdentity ==
  /\ part = "identity"
  /\ UNCHANGED <<part, streamVars, limiterVars, statusVars, eventsVars, feedVars, addressingVars>>
InStatus ==
  /\ part = "status"
  /\ UNCHANGED <<part, streamVars, limiterVars, identityVars, eventsVars, feedVars, addressingVars>>
InEvents ==
  /\ part = "events"
  /\ UNCHANGED <<part, streamVars, limiterVars, identityVars, statusVars, feedVars, addressingVars>>
InFeed ==
  /\ part = "feed"
  /\ UNCHANGED <<part, streamVars, limiterVars, identityVars, statusVars, eventsVars, addressingVars>>
InAddressing ==
  /\ part = "addressing"
  /\ UNCHANGED <<part, streamVars, limiterVars, identityVars, statusVars, eventsVars, feedVars>>

PartsNext ==
  \/ InStream /\ StreamNext
  \/ InLimiter /\ LimiterNext
  \/ InIdentity /\ IdentityNext
  \/ InStatus /\ StatusNext
  \/ InEvents /\ EventsNext
  \/ InFeed /\ FeedNext
  \/ InAddressing /\ AddressingNext

(* All sessions of a machine may be of one agent.                          *)
OneAgent == [p \in Peer |-> "agent"]

(* The supervisor and the clients go on; the poll, the cache and the       *)
(* questions of a view never stop.                                         *)
PartsFairness ==
  /\ \A c \in Client : /\ WF_partsVars(InStream /\ Supervise(c))
                       /\ WF_partsVars(InStream /\ Talk(c))
  /\ WF_partsVars(InFeed /\ Expire)
  /\ \A v \in View, i \in Query : /\ WF_partsVars(InFeed /\ Poll(v, i))
                                  /\ WF_partsVars(InFeed /\ Progress(v, i))

PartsSpec == PartsInit /\ [][PartsNext]_partsVars /\ PartsFairness

TypeOK ==
  /\ StreamTypeOK /\ LimiterTypeOK /\ IdentityTypeOK
  /\ StatusTypeOK /\ EventsTypeOK /\ FeedTypeOK
  /\ AddressingTypeOK
=============================================================================
