------------------------------- MODULE Stream -------------------------------
(***************************************************************************)
(* The bytes between a client and the supervisor of a process, on POSIX:   *)
(* what PosixTransportBackend.request writes and reads, the incremental    *)
(* FrameDecoder of each connection, and the replies the runtime queues and *)
(* sends as far as the socket takes them.  A frame or a reply is two units *)
(* here, what the length says and the rest, so that a chunk may end        *)
(* anywhere that matters.  What a handler does with a message is module    *)
(* Inbound, who stops the supervisor module Supervisor.                    *)
(***************************************************************************)
EXTENDS Naturals, Sequences

CONSTANTS
  Client,           \* connections to one process
  Plans,            \* what the clients may send: a sequence of frames each
  Room,             \* units of reply a socket takes before it blocks
  Nobody            \* no connection

Frame == {"ping", "discover", "message", "malformed", "oversized"}

ASSUME StreamAssumption ==
  /\ Plans \subseteq [Client -> Seq(Frame)]
  /\ Room \in Nat \ {0}
  /\ Nobody \notin Client

VARIABLES
  client,           \* "away", "connected" or "closed"
  plan,             \* the frames each client sends
  written, read,    \* units the client wrote, units the supervisor received
  conn,             \* state of the _Connection: "none", "open" or "dropped"
  buffer,           \* decoder: units received and not consumed
  expected,         \* decoder: the length of the next frame is known
  writable,         \* the selector also watches for EVENT_WRITE
  pending,          \* out_buffer
  wire, seen,       \* reply units in the socket, and read by the client
  decoded,          \* history: frames the decoder has yielded or refused
  replies,          \* history: replies to them
  serving           \* the connection whose chunk the supervisor works on

streamVars == <<client, plan, written, read, conn, buffer, expected, writable,
                pending, wire, seen, decoded, replies, serving>>

Bad == {"malformed", "oversized"}

(* Units of a sequence of frames or replies, told apart by their place.    *)
UnitsOf(s) == [k \in 1 .. 2 * Len(s) |-> <<s[(k + 1) \div 2], k>>]

Reply == {"pong", "alive", "receipt", "invalid"}

(* A probe of a peer that is not here is answered like a message to it.    *)
AnswersTo(f) ==
  CASE f = "ping"     -> {"pong"}
    [] f = "discover" -> {"alive", "receipt"}
    [] f = "message"  -> {"receipt"}
    [] OTHER          -> {"invalid"}

StreamTypeOK ==
  /\ client \in [Client -> {"away", "connected", "closed"}]
  /\ plan \in Plans
  /\ written \in [Client -> Nat] /\ read \in [Client -> Nat]
  /\ conn \in [Client -> {"none", "open", "dropped"}]
  /\ buffer \in [Client -> Seq(Frame \X Nat)]
  /\ expected \in [Client -> BOOLEAN]
  /\ writable \in [Client -> BOOLEAN]
  /\ pending \in [Client -> Seq(Reply \X Nat)]
  /\ wire \in [Client -> Seq(Reply \X Nat)]
  /\ seen \in [Client -> Seq(Reply \X Nat)]
  /\ decoded \in [Client -> Seq(Frame)]
  /\ replies \in [Client -> Seq(Reply)]
  /\ serving \in Client \cup {Nobody}

StreamInit ==
  /\ client = [c \in Client |-> "away"]
  /\ plan \in Plans
  /\ written = [c \in Client |-> 0] /\ read = [c \in Client |-> 0]
  /\ conn = [c \in Client |-> "none"]
  /\ buffer = [c \in Client |-> <<>>]
  /\ expected = [c \in Client |-> FALSE]
  /\ writable = [c \in Client |-> FALSE]
  /\ pending = [c \in Client |-> <<>>]
  /\ wire = [c \in Client |-> <<>>]
  /\ seen = [c \in Client |-> <<>>]
  /\ decoded = [c \in Client |-> <<>>]
  /\ replies = [c \in Client |-> <<>>]
  /\ serving = Nobody

----------------------------------------------------------------------------
(* The client: request connects, writes, reads until it has its reply, and *)
(* closes; whatever goes wrong or takes too long, it closes.               *)
decoderVars == <<read, buffer, expected, decoded, replies, serving>>

Connect(c) ==
  /\ client[c] = "away"
  /\ client' = [client EXCEPT ![c] = "connected"]
  /\ UNCHANGED <<plan, written, conn, writable, pending, wire, seen, decoderVars>>

SendAll(c) ==
  /\ client[c] = "connected"
  /\ \E n \in written[c] + 1 .. 2 * Len(plan[c]) : written' = [written EXCEPT ![c] = n]
  /\ UNCHANGED <<client, plan, conn, writable, pending, wire, seen, decoderVars>>

ReadReply(c) ==
  /\ client[c] = "connected" /\ wire[c] # <<>>
  /\ seen' = [seen EXCEPT ![c] = Append(@, Head(wire[c]))]
  /\ wire' = [wire EXCEPT ![c] = Tail(@)]
  /\ UNCHANGED <<client, plan, written, conn, writable, pending, decoderVars>>

Close(c) ==
  /\ client[c] = "connected"
  /\ client' = [client EXCEPT ![c] = "closed"]
  /\ UNCHANGED <<plan, written, conn, writable, pending, wire, seen, decoderVars>>

----------------------------------------------------------------------------
(* Sending.  Least(m, n) units go out; a socket that blocks is watched.    *)
Least(m, n) == IF m < n THEN m ELSE n

(* _drop_connection: it is out of the selector, and its replies with it.   *)
Drop(c) ==
  /\ conn' = [conn EXCEPT ![c] = "dropped"]
  /\ pending' = [pending EXCEPT ![c] = <<>>]
  /\ writable' = [writable EXCEPT ![c] = FALSE]

(* What n more units of out on the wire leave of it.                       *)
Sent(c, out, n) ==
  /\ wire' = [wire EXCEPT ![c] = @ \o SubSeq(out, 1, n)]
  /\ pending' = [pending EXCEPT ![c] = SubSeq(out, n + 1, Len(out))]
  /\ UNCHANGED conn

Fits(c, out) == Least(Len(out), Room - Len(wire[c]))

(* A socket closed on either side raises.                                  *)
Broken(c) == client[c] = "closed" \/ conn[c] # "open"

(* Faulty variant: what the socket did not take is not waited for.         *)
FlushOnce(c, out) ==
  IF Broken(c) THEN Drop(c) /\ UNCHANGED wire
               ELSE Sent(c, out, Fits(c, out)) /\ UNCHANGED writable

(* Faulty variant: a partial send empties the buffer.                      *)
FlushLosing(c, out) ==
  IF Broken(c) THEN Drop(c) /\ UNCHANGED wire
               ELSE /\ Sent(c, SubSeq(out, 1, Fits(c, out)), Fits(c, out))
                    /\ UNCHANGED writable

(* The out_buffer is sent as far as the socket takes it; as long as        *)
(* something is left, the selector watches for room.                       *)
Flush(c, out) ==
  IF Broken(c) THEN Drop(c) /\ UNCHANGED wire
               ELSE /\ Sent(c, out, Fits(c, out))
                    /\ writable' = [writable EXCEPT ![c] = Fits(c, out) < Len(out)]

UnitsOfReply(r, k) == << <<r, 2 * k - 1>>, <<r, 2 * k>> >>

(* _reply and _reply_alive.  Of a dropped connection only the handlers run *)
(* on.                                                                     *)
Answer(c, r) ==
  LET k == Len(replies[c]) + 1 IN
  IF conn[c] = "open"
    THEN /\ replies' = [replies EXCEPT ![c] = Append(@, r)]
         /\ Flush(c, pending[c] \o UnitsOfReply(r, k))
    ELSE UNCHANGED <<replies, conn, pending, writable, wire>>

----------------------------------------------------------------------------
(* The supervisor.                                                         *)

(* A connection of another user, or to a listener that is being removed,   *)
(* is closed at once.                                                      *)
Accept(c) ==
  /\ serving = Nobody /\ conn[c] = "none" /\ client[c] # "away"
  /\ \E s \in {"open", "dropped"} : conn' = [conn EXCEPT ![c] = s]
  /\ UNCHANGED <<client, plan, written, writable, pending, wire, seen, decoderVars>>

(* recv, and the chunk goes into the decoder of this connection.           *)
Receive(c) ==
  /\ serving = Nobody /\ conn[c] = "open"
  /\ \E n \in read[c] + 1 .. written[c] :
       /\ buffer' = [buffer EXCEPT ![c] = @ \o SubSeq(UnitsOf(plan[c]), read[c] + 1, n)]
       /\ read' = [read EXCEPT ![c] = n]
  /\ serving' = c
  /\ UNCHANGED <<client, plan, written, conn, writable, pending, wire, seen,
                 expected, decoded, replies>>

(* recv returns nothing, or raises, after the client closed.               *)
Hangup(c) ==
  /\ serving = Nobody /\ conn[c] = "open" /\ client[c] = "closed"
  /\ Drop(c)
  /\ UNCHANGED <<client, plan, written, wire, seen, decoderVars>>

NextFrame(c) == Head(buffer[c])[1]

Consume(c) ==
  /\ buffer' = [buffer EXCEPT ![c] = Tail(@)]
  /\ expected' = [expected EXCEPT ![c] = ~ @]

(* FrameError: the reply is queued, sent as far as it goes, and the        *)
(* connection dropped.  What else the chunk holds is forgotten.            *)
Refuse(c) ==
  /\ serving = c /\ buffer[c] # <<>>
  /\ NextFrame(c) = IF expected[c] THEN "malformed" ELSE "oversized"
  /\ decoded' = [decoded EXCEPT ![c] = Append(@, NextFrame(c))]
  /\ LET out == pending[c] \o UnitsOfReply("invalid", Len(replies[c]) + 1) IN
       IF Broken(c)
         THEN UNCHANGED <<wire, replies>>
         ELSE /\ wire' = [wire EXCEPT ![c] = @ \o SubSeq(out, 1, Fits(c, out))]
              /\ replies' = [replies EXCEPT ![c] = Append(@, "invalid")]
  /\ Drop(c)
  /\ serving' = Nobody
  /\ UNCHANGED <<client, plan, written, read, seen, buffer, expected>>

TakeLength(c) ==
  /\ serving = c /\ buffer[c] # <<>> /\ ~ expected[c] /\ NextFrame(c) # "oversized"
  /\ Consume(c)
  /\ UNCHANGED <<client, plan, written, conn, writable, pending, wire, seen,
                 read, decoded, replies, serving>>

(* _dispatch of a whole frame; with a good payload the loop goes on.       *)
Dispatch(c) ==
  /\ serving = c /\ buffer[c] # <<>> /\ expected[c] /\ NextFrame(c) # "malformed"
  /\ Consume(c)
  /\ decoded' = [decoded EXCEPT ![c] = Append(@, NextFrame(c))]
  /\ \E r \in AnswersTo(NextFrame(c)) : Answer(c, r)
  /\ UNCHANGED <<client, plan, written, seen, read, serving>>

(* The decoder keeps what is incomplete for the next chunk.                *)
EndOfChunk(c) ==
  /\ serving = c /\ buffer[c] = <<>>
  /\ serving' = Nobody
  /\ UNCHANGED <<client, plan, written, conn, writable, pending, wire, seen,
                 read, buffer, expected, decoded, replies>>

ServiceWritable(c) ==
  /\ serving = Nobody /\ conn[c] = "open" /\ writable[c] /\ pending[c] # <<>>
  /\ Len(wire[c]) < Room \/ Broken(c)
  /\ Flush(c, pending[c])
  /\ UNCHANGED <<client, plan, written, seen, decoderVars>>

(* unregister_peer, in a host thread, at any point of the above.           *)
Teardown(c) ==
  /\ conn[c] = "open"
  /\ Drop(c)
  /\ UNCHANGED <<client, plan, written, wire, seen, decoderVars>>

Supervise(c) ==
  \/ Accept(c) \/ Receive(c) \/ Hangup(c)
  \/ Refuse(c) \/ TakeLength(c) \/ Dispatch(c) \/ EndOfChunk(c)
  \/ ServiceWritable(c)

Talk(c) == Connect(c) \/ SendAll(c) \/ ReadReply(c)

StreamNext == \E c \in Client : Supervise(c) \/ Talk(c) \/ Close(c) \/ Teardown(c)

StreamSpec == StreamInit /\ [][StreamNext]_streamVars

----------------------------------------------------------------------------
IsPrefixOf(s, t) == Len(s) <= Len(t) /\ s = SubSeq(t, 1, Len(s))

(* However the bytes are cut into chunks, and however often a socket is    *)
(* full, the replies answer the frames the client sent, each at its place, *)
(* none after a frame that was refused; the client reads them in order,    *)
(* whole and once, and what it has not read is on the way as long as the   *)
(* connection is (FrameDecoder.feed, _reply, _flush, _service_writable).   *)
RepliesInOrder ==
  \A c \in Client :
    LET all == UnitsOf(replies[c]) IN
    /\ IsPrefixOf(decoded[c], plan[c]) /\ Len(replies[c]) <= Len(decoded[c])
    /\ \A i \in DOMAIN replies[c] : replies[c][i] \in AnswersTo(plan[c][i])
    /\ \A i \in DOMAIN decoded[c] : decoded[c][i] \in Bad => i = Len(decoded[c])
    /\ IF conn[c] = "open" THEN seen[c] \o wire[c] \o pending[c] = all
                           ELSE IsPrefixOf(seen[c] \o wire[c], all)

(* A client that goes on reads a reply to each frame it sent, unless one   *)
(* side closed the connection: no reply stays behind in a buffer.          *)
EveryFrameAnswered ==
  \A c \in Client :
    client[c] = "connected" ~>
      \/ client[c] = "closed" \/ conn[c] = "dropped"
      \/ Len(replies[c]) = Len(plan[c]) /\ seen[c] = UnitsOf(replies[c])
=============================================================================
