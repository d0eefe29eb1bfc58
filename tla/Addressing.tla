----------------------------- MODULE Addressing -----------------------------
(***************************************************************************)
(* From a command to a message: the session an agent tool, a slash command,*)
(* the command line or the dashboard acts for, the peer its target names   *)
(* (DiscoveryService.resolve_peer and resolve_agent), the envelope, and    *)
(* the sender the runtime puts on it.  One call is followed step by step;  *)
(* hooks, renames and other processes go on meanwhile.  Peer ids are never *)
(* used twice.  A hook is one step here: its parts are module Sessions.    *)
(***************************************************************************)
EXTENDS Naturals, FiniteSets

CONSTANTS
  Session,          \* sessions of this process
  Unnamed,          \* what a caller that names no session passes
  Peer, Elsewhere,  \* peers, those of other processes
  Title,            \* names
  Prefix,           \* the peers whose ids begin alike, for each beginning
  AgentOfPeer,      \* agent of each peer
  Primary,          \* peers whose record says `primary': today nothing writes it
  NoOne             \* no peer

ASSUME AddressingAssumption ==
  /\ Peer \subseteq Nat /\ IsFiniteSet(Peer)
  /\ Elsewhere \subseteq Peer /\ Primary \subseteq Peer
  /\ NoOne \notin Peer /\ Unnamed \notin Session
  /\ Title # {} /\ Prefix \subseteq SUBSET Peer

VARIABLES
  bound,            \* _peers: the peer of each session
  presence,         \* per peer: "unborn", "up", "left" (a record only), "gone"
  title,            \* name in the record of each peer
  turn              \* the call that is followed

addressingVars == <<bound, presence, title, turn>>

AgentId == {AgentOfPeer[p] : p \in Peer}

(* A session id is a name that one record has; a handle is a name and the  *)
(* beginning of an id, and there may be several of both.                   *)
Target ==
  {<<"id", p>> : p \in Peer} \cup {<<"name", n>> : n \in Title}
    \cup {<<"handle", n, ids>> : n \in Title, ids \in Prefix}
    \cup {<<"agent", a, pin>> : a \in AgentId, pin \in Peer \cup {NoOne}}

Turns == [step : {"idle", "listing", "resolved", "enveloped", "stamped", "sent", "acted"},
          sid : Session \cup {Unnamed}, target : Target,
          left : SUBSET Peer, found : SUBSET Peer, steady : SUBSET Peer,
          recipient : Peer \cup {NoOne}, sender : Peer \cup {NoOne}, holders : SUBSET Session]

NoTitle == CHOOSE n \in Title : TRUE

NoTurn == [step |-> "idle", sid |-> Unnamed, target |-> <<"name", NoTitle>>,
           left |-> {}, found |-> {}, steady |-> {},
           recipient |-> NoOne, sender |-> NoOne, holders |-> {}]

AddressingTypeOK ==
  /\ bound \in [Session -> (Peer \ Elsewhere) \cup {NoOne}]
  /\ presence \in [Peer -> {"unborn", "up", "left", "gone"}]
  /\ title \in [Peer -> Title]
  /\ turn \in Turns

AddressingInit ==
  /\ bound = [s \in Session |-> NoOne]
  /\ presence = [p \in Peer |-> "unborn"]
  /\ title = [p \in Peer |-> NoTitle]
  /\ turn = NoTurn

----------------------------------------------------------------------------
(* What goes on meanwhile.  A listing drops a record that is not the one   *)
(* it has read before the probe; the look-up of an id or an agent does not *)
(* read it again.  Steady are the peers that go by the target all the      *)
(* while, answer and keep their record.                                    *)
Touched(p) ==
  turn' = [turn EXCEPT !.steady = @ \ {p},
                       !.left = IF turn.target[1] \in {"name", "handle"} THEN @ \ {p} ELSE @]

(* on_session_open, on_session_reset, on_session_finalize.                 *)
Rebind(s, p) ==
  /\ bound[s] # p
  /\ p # NoOne => p \notin Elsewhere /\ presence[p] = "unborn"
  /\ bound' = [bound EXCEPT ![s] = p]
  /\ presence' = [q \in Peer |-> IF q = p THEN "up"
                                 ELSE IF q = bound[s] THEN "gone" ELSE presence[q]]
  /\ \E n \in Title : title' = [q \in Peer |-> IF q = p THEN n
                                                ELSE IF q = bound[s] THEN NoTitle ELSE title[q]]
  /\ IF bound[s] = NoOne THEN UNCHANGED turn ELSE Touched(bound[s])

(* A process elsewhere opens a session, ends it, or dies; a repair removes *)
(* what is left of it.                                                     *)
ComeAndGo(p) ==
  /\ p \in Elsewhere
  /\ \/ presence[p] = "unborn" /\ presence' = [presence EXCEPT ![p] = "up"]
     \/ presence[p] = "up" /\ presence' = [presence EXCEPT ![p] = "left"]
     \/ presence[p] \in {"up", "left"} /\ presence' = [presence EXCEPT ![p] = "gone"]
  /\ title' = IF presence'[p] = "gone" THEN [title EXCEPT ![p] = NoTitle] ELSE title
  /\ Touched(p)
  /\ UNCHANGED bound

(* set_alias, set_alias_for: the record gets a new name.                   *)
Retitle(p, n) ==
  /\ presence[p] = "up" /\ title[p] # n
  /\ title' = [title EXCEPT ![p] = n]
  /\ Touched(p)
  /\ UNCHANGED <<bound, presence>>

----------------------------------------------------------------------------
(* The session a caller acts for: the one it names, or the only one.       *)
Active == {s \in Session : bound[s] # NoOne}

ActsAs(sid) ==
  IF sid \in Session THEN {bound[sid]} \ {NoOne}
  ELSE IF Cardinality(Active) = 1 THEN {bound[s] : s \in Active} ELSE {}

(* The inbox of the only session is shown for an id that is not there.     *)
ReadsAs(sid) == IF sid \in Session \ Active THEN ActsAs(Unnamed) ELSE ActsAs(sid)

worldVars == <<bound, presence, title>>

(* Policies, names, releases and refusals, and reading: what they do is    *)
(* modules Inbound and Sessions.                                           *)
ActFor(sid) ==
  /\ turn.step = "idle"
  /\ \E p \in ActsAs(sid) : turn' = [NoTurn EXCEPT !.step = "acted", !.sid = sid, !.sender = p]
  /\ UNCHANGED worldVars

ReadInbox(sid) ==
  /\ turn.step = "idle"
  /\ \E p \in ReadsAs(sid) : turn' = [NoTurn EXCEPT !.step = "acted", !.sid = sid, !.sender = p]
  /\ UNCHANGED worldVars

----------------------------------------------------------------------------
(* Resolving a target.                                                     *)
Recorded == {p \in Peer : presence[p] \in {"up", "left"}}

Asked(t) ==
  CASE t[1] = "id"    -> Recorded \cap {t[2]}
    [] t[1] = "agent" -> {p \in Recorded : AgentOfPeer[p] = t[2]}
    [] OTHER          -> Recorded

GoesBy(p, t) ==
  CASE t[1] = "id"     -> p = t[2]
    [] t[1] = "name"   -> title[p] = t[2]
    [] t[1] = "handle" -> title[p] = t[2] /\ p \in t[3]
    [] t[1] = "agent"  -> AgentOfPeer[p] = t[2]

(* An id that nobody has had yet finds nothing, and is left out.           *)
Askable(t) ==
  \A p \in Peer : (t[1] = "id" /\ t[2] = p) \/ (t[1] = "agent" /\ t[3] = p)
                  => presence[p] # "unborn"

Listing(t) == [NoTurn EXCEPT !.step = "listing", !.target = t, !.left = Asked(t),
                 !.steady = {p \in Peer : presence[p] = "up" /\ GoesBy(p, t)}]

(* What session it is for does not matter before the envelope is made, and *)
(* is chosen there.                                                        *)
BeginCall(t) ==
  /\ turn.step = "idle" /\ Askable(t)
  /\ turn' = Listing(t)
  /\ UNCHANGED worldVars

(* A broadcast knows its sender before it looks for its members.           *)
BeginBroadcast(sid, t) ==
  /\ turn.step = "idle" /\ Askable(t) /\ t[1] = "agent"
  /\ \E p \in ActsAs(sid) : turn' = [Listing(t) EXCEPT !.sid = sid, !.sender = p]
  /\ UNCHANGED worldVars

(* A menu, or the dashboard, passes on an id it once got.                  *)
BeginPicked(p) ==
  /\ turn.step = "idle" /\ presence[p] # "unborn"
  /\ turn' = [NoTurn EXCEPT !.step = "resolved", !.target = <<"id", p>>, !.recipient = p]
  /\ UNCHANGED worldVars

(* Records are probed in the order of their ids.  An answer may be two     *)
(* seconds old, and may always fail to come.                               *)
ProbePeer(p) ==
  /\ turn.step = "listing" /\ p \in turn.left /\ \A q \in turn.left : p <= q
  /\ \E alive \in BOOLEAN :
       turn' = [turn EXCEPT !.left = @ \ {p},
                  !.found = IF alive /\ GoesBy(p, turn.target) THEN @ \cup {p} ELSE @,
                  !.steady = IF alive THEN @ ELSE @ \ {p}]
  /\ UNCHANGED worldVars

(* An agent's pinned session, else its only primary one, else its only one.*)
Preferred(candidates, t) ==
  IF t[1] # "agent" THEN candidates
  ELSE IF t[3] # NoOne THEN candidates \cap {t[3]}
  ELSE IF Cardinality(candidates \cap Primary) = 1 THEN candidates \cap Primary
  ELSE candidates

(* Faulty variant: the first of several is as good as any.                 *)
TakeFirst(candidates) == candidates # {}

(* Nobody and several fail alike: the caller gets an error.                *)
Unique(candidates) == Cardinality(candidates) = 1

Choose ==
  /\ turn.step = "listing" /\ turn.left = {}
  /\ LET candidates == Preferred(turn.found, turn.target) IN
       IF Unique(candidates)
         THEN \E p \in candidates :
                turn' = [turn EXCEPT !.step = "resolved", !.recipient = p, !.found = {}]
         ELSE turn' = NoTurn
  /\ UNCHANGED worldVars

----------------------------------------------------------------------------
(* Sending.                                                                *)

(* _make_envelope: the session is looked up now, unless it has been.       *)
MakeEnvelope(sid) ==
  /\ turn.step = "resolved"
  /\ turn.sender # NoOne => sid = turn.sid
  /\ LET from == IF turn.sender = NoOne THEN ActsAs(sid) ELSE {turn.sender} IN
       IF from = {} THEN turn' = NoTurn
       ELSE \E p \in from : turn' = [NoTurn EXCEPT !.step = "enveloped", !.sid = sid,
                                              !.recipient = turn.recipient, !.sender = p]
  /\ UNCHANGED worldVars

HoldersOf(p) == {s \in Session : bound[s] = p}

(* Faulty variant: the sender is taken at its word.                        *)
AuthenticateAnyone ==
  /\ turn.step = "enveloped"
  /\ turn' = [turn EXCEPT !.step = "stamped", !.holders = HoldersOf(turn.sender)]
  /\ UNCHANGED worldVars

(* The sender must be a peer of this process, by now.                      *)
Authenticate ==
  /\ turn.step = "enveloped"
  /\ turn' = IF HoldersOf(turn.sender) = {} THEN NoTurn
             ELSE [turn EXCEPT !.step = "stamped", !.holders = HoldersOf(turn.sender)]
  /\ UNCHANGED worldVars

(* Without a record, or an answer, the receipt says `unreachable'.         *)
Transmit ==
  /\ turn.step = "stamped"
  /\ turn' = IF presence[turn.recipient] = "up" THEN [turn EXCEPT !.step = "sent"] ELSE NoTurn
  /\ UNCHANGED worldVars

EndCall ==
  /\ turn.step \in {"sent", "acted"}
  /\ turn' = NoTurn
  /\ UNCHANGED worldVars

----------------------------------------------------------------------------
(* The ways in.  Targets of a request and of a broadcast are agents.       *)
AgentTool(sid) ==
  \/ ActFor(sid) \/ ReadInbox(sid)
  \/ \E t \in Target : BeginCall(t) \/ BeginBroadcast(sid, t)

(* Menus send to the peer of a row.                                        *)
SlashCommand(sid) ==
  \/ ActFor(sid) \/ ReadInbox(sid)
  \/ \E p \in Peer : BeginPicked(p)
  \/ \E t \in Target : t[1] = "agent" /\ (BeginCall(t) \/ BeginBroadcast(sid, t))

(* The command line has no session to name.                                *)
CommandLine == AgentTool(Unnamed)

(* A route may name one, and sends to a peer that has a record.            *)
DashboardRoute(sid) == ActFor(sid) \/ \E p \in Recorded : BeginPicked(p)

AddressingNext ==
  \/ \E s \in Session, p \in Peer \cup {NoOne} : Rebind(s, p)
  \/ \E p \in Peer : ComeAndGo(p) \/ ProbePeer(p) \/ \E n \in Title : Retitle(p, n)
  \/ \E sid \in Session \cup {Unnamed} :
       AgentTool(sid) \/ SlashCommand(sid) \/ DashboardRoute(sid) \/ MakeEnvelope(sid)
  \/ CommandLine \/ Choose \/ Authenticate \/ Transmit \/ EndCall

AddressingSpec == AddressingInit /\ [][AddressingNext]_addressingVars

(* A call never guesses.  When a name, a handle or an agent was resolved,  *)
(* no other peer that answered and kept its record all the while goes by   *)
(* it, but for those a pin or a primary session rules out; and what is     *)
(* sent for a session comes from the peer it had when the sender was       *)
(* stamped, however the session was reset in between (resolve_peer,        *)
(* resolve_agent, send).                                                   *)
SentAsMeant ==
  /\ turn.recipient # NoOne =>
       CASE turn.target[1] \in {"name", "handle"} -> turn.steady \subseteq {turn.recipient}
         [] turn.target[1] = "agent" /\ turn.target[3] = NoOne ->
              \A q \in turn.steady \ {turn.recipient} : turn.recipient \in Primary /\ q \notin Primary
         [] OTHER -> TRUE
  /\ turn.step \in {"stamped", "sent"} =>
       IF turn.sid = Unnamed THEN turn.holders # {} ELSE turn.holders = {turn.sid}
=============================================================================
