---------------------------- MODULE StreamProofs ----------------------------
(***************************************************************************)
(* Proofs about the bytes between clients and supervisor, for any number   *)
(* of connections, any sequences of frames, chunks cut anywhere and        *)
(* sockets of any room: every reply is read in order, whole and once.      *)
(***************************************************************************)
EXTENDS Stream, SequenceTheorems, TLAPS

(* Of the plan pl, n units were received: b is what the decoder holds, d   *)
(* the frames before it, and of the next frame e units, its length or      *)
(* nothing, were taken.                                                    *)
Consumed(e, d) == 2 * Len(d) + e
Decoding(pl, n, b, e, d) ==
  /\ IsPrefixOf(d, pl)
  /\ \A i \in DOMAIN d : d[i] \notin Bad
  /\ e = 1 => pl[Len(d) + 1] # "oversized"
  /\ Consumed(e, d) + Len(b) = n
  /\ \A i \in 1 .. Len(b) : b[i] = UnitsOf(pl)[Consumed(e, d) + i]

(* The same, with the types of what the decoder works on.                  *)
DecoderOK(S, pl, n, b, e, d) ==
  /\ pl \in Seq(S) /\ n \in Nat /\ b \in Seq(S \X Nat) /\ e \in {0, 1} /\ d \in Seq(S)
  /\ n <= 2 * Len(pl)
  /\ Decoding(pl, n, b, e, d)

(* What was read, what is in the socket and what is queued are the replies *)
(* so far; of a connection that is gone, the first of them.                *)
Carries(s, w, p, all) == s \o w \o p = all
Carried(k, s, w, p, r) ==
  IF k = "open" THEN Carries(s, w, p, UnitsOf(r)) ELSE IsPrefixOf(s \o w, UnitsOf(r))

(* Replies answer the frames in turn, each frame one as long as the        *)
(* connection is open; k is its state.                                     *)
Answered(k, pl, d, r) ==
  /\ IsPrefixOf(d, pl)
  /\ IF k = "open" THEN Len(r) = Len(d) ELSE Len(r) <= Len(d)
  /\ \A i \in DOMAIN r : r[i] \in AnswersTo(pl[i])
  /\ \A i \in DOMAIN d : d[i] \in Bad => i = Len(d)

Bounds(c) == read[c] <= written[c] /\ written[c] <= 2 * Len(plan[c]) /\ Len(wire[c]) <= Room

(* Before accept nothing was received, decoded or answered.                *)
Unused(c) ==
  conn[c] = "none" =>
    /\ serving # c /\ read[c] = 0 /\ ~ expected[c]
    /\ buffer[c] = <<>> /\ decoded[c] = <<>> /\ replies[c] = <<>>
    /\ seen[c] = <<>> /\ wire[c] = <<>> /\ pending[c] = <<>>

(* As long as more can be decoded, the decoder is at its place in the      *)
(* plan.                                                                   *)
Taken(e) == IF e THEN 1 ELSE 0
Decodes(c) ==
  conn[c] = "open" \/ serving = c =>
    DecoderOK(Frame, plan[c], read[c], buffer[c], Taken(expected[c]), decoded[c])

Line(c) ==
  /\ Bounds(c) /\ Unused(c) /\ Decodes(c)
  /\ Carried(conn[c], seen[c], wire[c], pending[c], replies[c])
  /\ Answered(conn[c], plan[c], decoded[c], replies[c])

StreamInv == StreamTypeOK /\ \A c \in Client : Line(c)
----------------------------------------------------------------------------
(* Sequences: cutting, prefixes, and the units of a reply more.            *)
LEMMA CutSeq ==
  ASSUME NEW S, NEW s \in Seq(S), NEW n \in 0 .. Len(s)
  PROVE  /\ SubSeq(s, 1, n) \in Seq(S) /\ Len(SubSeq(s, 1, n)) = n
         /\ SubSeq(s, n + 1, Len(s)) \in Seq(S)
         /\ SubSeq(s, 1, n) \o SubSeq(s, n + 1, Len(s)) = s
<1>1. Len(s) \in Nat /\ \A i \in 1 .. Len(s) : s[i] \in S
  BY ElementOfSeq, LenProperties
<1>2. SubSeq(s, 1, n) \in Seq(S) /\ Len(SubSeq(s, 1, n)) = IF 1 <= n THEN n - 1 + 1 ELSE 0
  <2>1. 1 \in Int /\ n \in Int /\ \A i \in 1 .. n : s[i] \in S
    BY <1>1
  <2>2. QED
    BY <2>1, SubSeqProperties
<1>3. SubSeq(s, n + 1, Len(s)) \in Seq(S)
  <2>1. n + 1 \in Int /\ Len(s) \in Int /\ \A i \in n + 1 .. Len(s) : s[i] \in S
    BY <1>1
  <2>2. QED
    BY <2>1, SubSeqProperties
<1>4. SubSeq(s, 1, n) \o SubSeq(s, n + 1, Len(s)) = SubSeq(s, 1, Len(s))
  <2>1. 1 \in 1 .. Len(s) + 1 /\ n \in 1 - 1 .. Len(s) /\ Len(s) \in n .. Len(s)
    BY <1>1
  <2>2. QED
    BY <2>1, ConcatAdjacentSubSeq
<1>5. Len(SubSeq(s, 1, n)) = n
  BY <1>1, <1>2
<1>6. QED
  BY <1>2, <1>3, <1>4, <1>5, SubSeqFull

(* Prefixes by their elements.                                             *)
LEMMA PrefixByElements ==
  ASSUME NEW S, NEW s \in Seq(S), NEW t \in Seq(S)
  PROVE  IsPrefixOf(s, t) <=> Len(s) <= Len(t) /\ \A i \in 1 .. Len(s) : s[i] = t[i]
<1>1. Len(s) \in Nat /\ Len(t) \in Nat /\ \A i \in 1 .. Len(t) : t[i] \in S
  BY ElementOfSeq, LenProperties
<1>2. CASE Len(s) <= Len(t)
  <2> DEFINE u == SubSeq(t, 1, Len(s))
  <2>1. 1 \in Int /\ Len(s) \in Int /\ \A i \in 1 .. Len(s) : t[i] \in S
    BY <1>1, <1>2
  <2>2. /\ u \in Seq(S) /\ Len(u) = (IF 1 <= Len(s) THEN Len(s) - 1 + 1 ELSE 0)
        /\ \A i \in 1 .. Len(s) - 1 + 1 : u[i] = t[1 + i - 1]
    BY <2>1, SubSeqProperties
  <2> HIDE DEF u
  <2>3. Len(u) = Len(s) /\ Len(s) - 1 + 1 = Len(s)
    BY <1>1, <2>2
  <2>4. ASSUME NEW i \in 1 .. Len(s) PROVE u[i] = t[i]
    <3>1. u[i] = t[1 + i - 1] /\ 1 + i - 1 = i
      BY <1>1, <2>2, <2>3
    <3>2. QED
      BY <3>1
  <2>5. s = u <=> \A i \in 1 .. Len(s) : s[i] = t[i]
    <3>1. ASSUME \A i \in 1 .. Len(s) : s[i] = t[i] PROVE s = u
      <4>1. \A i \in 1 .. Len(s) : s[i] = u[i]
        BY <2>4, <3>1
      <4>2. QED
        BY <2>2, <2>3, <4>1, SeqEqual
    <3>2. ASSUME s = u PROVE \A i \in 1 .. Len(s) : s[i] = t[i]
      BY <2>4, <3>2
    <3>3. QED
      BY <3>1, <3>2
  <2>6. QED
    BY <1>2, <2>5 DEF IsPrefixOf, u
<1>3. CASE ~ (Len(s) <= Len(t))
  BY <1>3 DEF IsPrefixOf
<1>4. QED
  BY <1>2, <1>3

LEMMA PrefixOfConcat ==
  ASSUME NEW S, NEW s \in Seq(S), NEW t \in Seq(S), NEW u \in Seq(S)
  PROVE  /\ IsPrefixOf(s, s \o t)
         /\ IsPrefixOf(s, t) => IsPrefixOf(s, t \o u)
<1>1. /\ Len(s) \in Nat /\ Len(t) \in Nat /\ Len(u) \in Nat
  BY LenProperties
<1>2. /\ s \o t \in Seq(S) /\ Len(s \o t) = Len(s) + Len(t)
      /\ \A i \in 1 .. Len(s) : (s \o t)[i] = s[i]
  BY <1>1, ConcatProperties
<1>3. /\ t \o u \in Seq(S) /\ Len(t \o u) = Len(t) + Len(u)
      /\ \A i \in 1 .. Len(t) : (t \o u)[i] = t[i]
  BY <1>1, ConcatProperties
<1>4. IsPrefixOf(s, s \o t)
  <2>1. Len(s) <= Len(s \o t) /\ \A i \in 1 .. Len(s) : s[i] = (s \o t)[i]
    BY <1>1, <1>2
  <2>2. QED
    BY <1>2, <2>1, PrefixByElements
<1>5. ASSUME IsPrefixOf(s, t) PROVE IsPrefixOf(s, t \o u)
  <2>1. Len(s) <= Len(t) /\ \A i \in 1 .. Len(s) : s[i] = t[i]
    BY <1>5, PrefixByElements
  <2>2. Len(s) <= Len(t \o u) /\ \A i \in 1 .. Len(s) : s[i] = (t \o u)[i]
    BY <1>1, <1>3, <2>1
  <2>3. QED
    BY <1>3, <2>2, PrefixByElements
<1>6. QED
  BY <1>4, <1>5

LEMMA PrefixAppend ==
  ASSUME NEW S, NEW s \in Seq(S), NEW t \in Seq(S), IsPrefixOf(s, t), Len(s) < Len(t)
  PROVE  IsPrefixOf(Append(s, t[Len(s) + 1]), t)
<1>1. Len(s) \in Nat /\ Len(t) \in Nat /\ \A i \in 1 .. Len(t) : t[i] \in S
  BY ElementOfSeq, LenProperties
<1>2. Len(s) <= Len(t) /\ \A i \in 1 .. Len(s) : s[i] = t[i]
  BY PrefixByElements
<1> DEFINE e == t[Len(s) + 1]
           u == Append(s, e)
<1>3. e \in S
  BY <1>1
<1>4. /\ u \in Seq(S) /\ Len(u) = Len(s) + 1 /\ u[Len(s) + 1] = e
      /\ \A i \in 1 .. Len(s) : u[i] = s[i]
  BY <1>3, AppendProperties
<1> HIDE DEF u
<1>5. Len(u) <= Len(t) /\ \A i \in 1 .. Len(u) : u[i] = t[i]
  <2>1. ASSUME NEW i \in 1 .. Len(s) + 1 PROVE u[i] = t[i]
    <3>1. CASE i = Len(s) + 1
      BY <1>4, <3>1
    <3>2. CASE i # Len(s) + 1
      <4>1. i \in 1 .. Len(s)
        BY <1>1, <3>2
      <4>2. QED
        BY <1>2, <1>4, <4>1
    <3>3. QED
      BY <3>1, <3>2
  <2>2. QED
    BY <1>1, <1>4, <2>1
<1>6. QED
  BY <1>4, <1>5, PrefixByElements DEF u

LEMMA UnitsType ==
  ASSUME NEW S, NEW s \in Seq(S)
  PROVE  /\ UnitsOf(s) \in Seq(S \X Nat) /\ Len(UnitsOf(s)) = 2 * Len(s) /\ Len(s) \in Nat
         /\ \A k \in 1 .. 2 * Len(s) : UnitsOf(s)[k] = <<s[(k + 1) \div 2], k>>
<1>1. Len(s) \in Nat /\ 2 * Len(s) \in Nat /\ \A i \in 1 .. Len(s) : s[i] \in S
  BY ElementOfSeq, LenProperties
<1> DEFINE n == 2 * Len(s)
<1>2. \A k \in 1 .. n : (k + 1) \div 2 \in 1 .. Len(s)
  BY <1>1
<1>3. UnitsOf(s) \in [1 .. n -> S \X Nat]
  BY <1>1, <1>2 DEF UnitsOf
<1>4. UnitsOf(s) \in Seq(S \X Nat) /\ Len(UnitsOf(s)) = n
  <2> HIDE DEF n
  <2>1. n \in Nat
    BY <1>1 DEF n
  <2>2. UnitsOf(s) \in Seq(S \X Nat)
    BY <1>3, <2>1, SeqDef
  <2>3. DOMAIN UnitsOf(s) = 1 .. n /\ DOMAIN UnitsOf(s) = 1 .. Len(UnitsOf(s)) /\ Len(UnitsOf(s)) \in Nat
    BY <1>3, <2>2, LenProperties
  <2>4. QED
    BY <2>1, <2>2, <2>3
<1>5. QED
  BY <1>1, <1>4 DEF UnitsOf

LEMMA UnitsAppend ==
  ASSUME NEW S, NEW s \in Seq(S), NEW r \in S
  PROVE  /\ UnitsOfReply(r, Len(s) + 1) \in Seq(S \X Nat)
         /\ UnitsOf(Append(s, r)) = UnitsOf(s) \o UnitsOfReply(r, Len(s) + 1)
<1> DEFINE n == Len(s)
           two == UnitsOfReply(r, n + 1)
           a == UnitsOf(Append(s, r))
           b == UnitsOf(s) \o two
<1>1. n \in Nat
  BY LenProperties
<1>2. /\ two \in Seq(S \X Nat) /\ Len(two) = 2
      /\ two[1] = <<r, 2 * (n + 1) - 1>> /\ two[2] = <<r, 2 * (n + 1)>>
  BY <1>1 DEF UnitsOfReply
<1>3. /\ Append(s, r) \in Seq(S) /\ Len(Append(s, r)) = n + 1 /\ Append(s, r)[n + 1] = r
      /\ \A i \in 1 .. n : Append(s, r)[i] = s[i]
  BY AppendProperties
<1>4. /\ a \in Seq(S \X Nat) /\ Len(a) = 2 * (n + 1)
      /\ \A k \in 1 .. 2 * (n + 1) : a[k] = <<Append(s, r)[(k + 1) \div 2], k>>
  BY <1>3, UnitsType
<1>5. /\ UnitsOf(s) \in Seq(S \X Nat) /\ Len(UnitsOf(s)) = 2 * n
      /\ \A k \in 1 .. 2 * n : UnitsOf(s)[k] = <<s[(k + 1) \div 2], k>>
  BY UnitsType
<1> HIDE DEF two
<1>6. /\ b \in Seq(S \X Nat) /\ Len(b) = 2 * n + 2
      /\ \A i \in 1 .. 2 * n + 2 : b[i] = IF i <= 2 * n THEN UnitsOf(s)[i] ELSE two[i - 2 * n]
  <2>1. /\ b \in Seq(S \X Nat) /\ Len(b) = Len(UnitsOf(s)) + Len(two)
        /\ \A i \in 1 .. Len(UnitsOf(s)) + Len(two) :
             b[i] = IF i <= Len(UnitsOf(s)) THEN UnitsOf(s)[i] ELSE two[i - Len(UnitsOf(s))]
    BY <1>2, <1>5, ConcatProperties
  <2>2. Len(UnitsOf(s)) = 2 * n /\ Len(two) = 2
    BY <1>2, <1>5
  <2> HIDE DEF b, n
  <2>3. QED
    BY <2>1, <2>2
<1> HIDE DEF a, b, n
<1>7. ASSUME NEW k \in 1 .. 2 * n + 2 PROVE a[k] = b[k]
  <2>1. CASE k <= 2 * n
    <3>1. k \in 1 .. 2 * n /\ k \in 1 .. 2 * (n + 1) /\ (k + 1) \div 2 \in 1 .. n
      BY <1>1, <2>1
    <3>2. b[k] = <<s[(k + 1) \div 2], k>>
      BY <1>5, <1>6, <2>1, <3>1
    <3>3. a[k] = <<s[(k + 1) \div 2], k>>
      BY <1>3, <1>4, <3>1 DEF n
    <3>4. QED
      BY <3>2, <3>3
  <2>2. CASE k = 2 * n + 1
    <3>1. /\ ~ (k <= 2 * n) /\ k - 2 * n = 1 /\ (k + 1) \div 2 = n + 1 /\ 2 * (n + 1) - 1 = k
          /\ k \in 1 .. 2 * (n + 1)
      BY <1>1, <2>2
    <3>2. QED
      BY <1>2, <1>3, <1>4, <1>6, <3>1 DEF n
  <2>3. CASE k = 2 * n + 2
    <3>1. /\ ~ (k <= 2 * n) /\ k - 2 * n = 2 /\ (k + 1) \div 2 = n + 1 /\ 2 * (n + 1) = k
          /\ k \in 1 .. 2 * (n + 1)
      BY <1>1, <2>3
    <3>2. QED
      BY <1>2, <1>3, <1>4, <1>6, <3>1 DEF n
  <2>4. QED
    BY <1>1, <2>1, <2>2, <2>3
<1>8. 2 * (n + 1) = 2 * n + 2
  BY <1>1
<1>9. a = b
  BY <1>4, <1>6, <1>7, <1>8, SeqEqual
<1>10. QED
  BY <1>2, <1>9 DEF a, b, n, two

----------------------------------------------------------------------------
(* Sending.                                                                *)
LEMMA ReplyTypes ==
  /\ \A f \in Frame : AnswersTo(f) \subseteq Reply
  /\ AnswersTo("malformed") = {"invalid"} /\ AnswersTo("oversized") = {"invalid"}
  BY DEF Frame, AnswersTo, Reply

(* A reply goes behind what is queued.                                     *)
LEMMA QueueBehind ==
  ASSUME NEW U, NEW s \in Seq(U), NEW w \in Seq(U), NEW p \in Seq(U), NEW u \in Seq(U)
  PROVE  p \o u \in Seq(U) /\ \A all : Carries(s, w, p, all) => Carries(s, w, p \o u, all \o u)
<1>1. s \o w \in Seq(U) /\ p \o u \in Seq(U)
  BY ConcatProperties
<1>2. ((s \o w) \o p) \o u = (s \o w) \o (p \o u)
  BY <1>1, ConcatAssociative
<1>3. QED
  BY <1>1, <1>2 DEF Carries

LEMMA ReplyQueued ==
  ASSUME NEW S, NEW r \in Seq(S), NEW e \in S,
         NEW s \in Seq(S \X Nat), NEW w \in Seq(S \X Nat), NEW p \in Seq(S \X Nat),
         Carries(s, w, p, UnitsOf(r))
  PROVE  /\ p \o UnitsOfReply(e, Len(r) + 1) \in Seq(S \X Nat)
         /\ Carries(s, w, p \o UnitsOfReply(e, Len(r) + 1), UnitsOf(Append(r, e)))
         /\ Append(r, e) \in Seq(S) /\ Len(Append(r, e)) = Len(r) + 1
<1> DEFINE u == UnitsOfReply(e, Len(r) + 1)
<1>1. u \in Seq(S \X Nat) /\ UnitsOf(Append(r, e)) = UnitsOf(r) \o u
  BY UnitsAppend
<1> HIDE DEF u
<1>2. p \o u \in Seq(S \X Nat) /\ Carries(s, w, p \o u, UnitsOf(r) \o u)
  BY <1>1, QueueBehind, Zenon
<1>3. Append(r, e) \in Seq(S) /\ Len(Append(r, e)) = Len(r) + 1
  BY AppendProperties
<1>4. QED
  BY <1>1, <1>2, <1>3, Zenon DEF u

(* What goes out is the first of what is queued: nothing is lost between   *)
(* socket and queue, and what is on the way is a prefix of the replies.    *)
LEMMA SentParts ==
  ASSUME NEW U, NEW s \in Seq(U), NEW w \in Seq(U), NEW a \in Seq(U), NEW b \in Seq(U)
  PROVE  /\ w \o a \in Seq(U) /\ Len(w \o a) = Len(w) + Len(a)
         /\ s \o (w \o a) \o b = s \o w \o (a \o b)
         /\ IsPrefixOf(s \o (w \o a), s \o w \o (a \o b)) /\ IsPrefixOf(s \o w, s \o w \o (a \o b))
<1>1. s \o w \in Seq(U) /\ w \o a \in Seq(U) /\ Len(w \o a) = Len(w) + Len(a) /\ a \o b \in Seq(U)
  BY ConcatProperties
<1>2. (s \o w) \o a = s \o (w \o a)
  BY ConcatAssociative
<1>3. ((s \o w) \o a) \o b = (s \o w) \o (a \o b)
  BY <1>1, ConcatAssociative
<1>4. s \o (w \o a) \in Seq(U)
  BY <1>1, ConcatProperties
<1>5. IsPrefixOf(s \o (w \o a), (s \o (w \o a)) \o b)
  BY <1>4, PrefixOfConcat
<1>6. IsPrefixOf(s \o w, (s \o w) \o (a \o b))
  BY <1>1, PrefixOfConcat
<1>7. s \o (w \o a) \o b = s \o w \o (a \o b)
  BY <1>2, <1>3
<1>8. QED
  BY <1>1, <1>5, <1>6, <1>7

(* n units of out are sent, with s read and w on the way before them.      *)
Goes(s, w, out, n) ==
  LET a == SubSeq(out, 1, n)
      b == SubSeq(out, n + 1, Len(out))
  IN  /\ Len(w \o a) = Len(w) + n
      /\ \A all : Carries(s, w, out, all) =>
           Carries(s, w \o a, b, all) /\ IsPrefixOf(s \o (w \o a), all) /\ IsPrefixOf(s \o w, all)

LEMMA SentCarries ==
  ASSUME NEW U, NEW s \in Seq(U), NEW w \in Seq(U), NEW out \in Seq(U), NEW n \in 0 .. Len(out)
  PROVE  /\ w \o SubSeq(out, 1, n) \in Seq(U) /\ SubSeq(out, n + 1, Len(out)) \in Seq(U)
         /\ Goes(s, w, out, n)
<1> DEFINE a == SubSeq(out, 1, n)
           b == SubSeq(out, n + 1, Len(out))
<1>1. a \in Seq(U) /\ Len(a) = n /\ b \in Seq(U) /\ a \o b = out
  BY CutSeq
<1> HIDE DEF a, b
<1>2. /\ w \o a \in Seq(U) /\ Len(w \o a) = Len(w) + Len(a)
      /\ s \o (w \o a) \o b = s \o w \o (a \o b)
      /\ IsPrefixOf(s \o (w \o a), s \o w \o (a \o b)) /\ IsPrefixOf(s \o w, s \o w \o (a \o b))
  BY <1>1, SentParts
<1>3. QED
  BY <1>1, <1>2 DEF a, b, Goes, Carries

LEMMA LeastFits ==
  ASSUME NEW m \in Nat, NEW k \in Nat, NEW room \in Nat, k <= room
  PROVE  Least(m, room - k) \in 0 .. m /\ k + Least(m, room - k) <= room
<1>1. CASE m < room - k
  BY <1>1 DEF Least
<1>2. CASE ~ (m < room - k)
  <2>1. Least(m, room - k) = room - k
    BY <1>2 DEF Least
  <2>2. QED
    BY <1>2, <2>1
<1>3. QED
  BY <1>1, <1>2

LEMMA FitsOut ==
  ASSUME NEW U, NEW c \in Client, wire[c] \in Seq(U), Len(wire[c]) <= Room, NEW out \in Seq(U)
  PROVE  Fits(c, out) \in 0 .. Len(out) /\ Len(wire[c]) + Fits(c, out) <= Room
<1>1. Len(out) \in Nat /\ Len(wire[c]) \in Nat /\ Room \in Nat
  BY LenProperties, StreamAssumption
<1>2. QED
  BY <1>1, LeastFits DEF Fits

(* _flush, of all that is to go out.                                       *)
Flushed(U, c, out) ==
  /\ conn' \in [Client -> {"none", "open", "dropped"}]
  /\ writable' \in [Client -> BOOLEAN]
  /\ pending' \in [Client -> Seq(U)] /\ wire' \in [Client -> Seq(U)]
  /\ \A d \in Client \ {c} : conn'[d] = conn[d] /\ pending'[d] = pending[d] /\ wire'[d] = wire[d]
  /\ conn'[c] \in {"open", "dropped"} /\ Len(wire'[c]) <= Room
  /\ \A all : Carries(seen[c], wire[c], out, all) =>
       IF conn'[c] = "open" THEN Carries(seen[c], wire'[c], pending'[c], all)
                            ELSE IsPrefixOf(seen[c] \o wire'[c], all)

LEMMA FlushCarries ==
  ASSUME NEW U, NEW c \in Client, Len(wire[c]) <= Room, conn[c] = "open",
         conn \in [Client -> {"none", "open", "dropped"}], writable \in [Client -> BOOLEAN],
         pending \in [Client -> Seq(U)], wire \in [Client -> Seq(U)], seen[c] \in Seq(U),
         NEW out \in Seq(U), Flush(c, out)
  PROVE  Flushed(U, c, out)
<1>0. wire[c] \in Seq(U)
  OBVIOUS
<1>1. CASE Broken(c)
  <2>1. Drop(c) /\ wire' = wire
    BY <1>1 DEF Flush
  <2>2. /\ conn' \in [Client -> {"none", "open", "dropped"}] /\ conn'[c] = "dropped"
        /\ \A d \in Client \ {c} : conn'[d] = conn[d]
    BY <2>1 DEF Drop
  <2>3. writable' \in [Client -> BOOLEAN]
    BY <2>1 DEF Drop
  <2>4. << >> \in Seq(U)
    OBVIOUS
  <2>5. pending' \in [Client -> Seq(U)] /\ \A d \in Client \ {c} : pending'[d] = pending[d]
    BY <2>1, <2>4 DEF Drop
  <2>6. 0 \in 0 .. Len(out)
    BY LenProperties
  <2>7. Goes(seen[c], wire[c], out, 0)
    BY <1>0, <2>6, SentCarries, Zenon
  <2>8. QED
    BY <2>1, <2>2, <2>3, <2>5, <2>7 DEF Flushed, Goes
<1>2. CASE ~ Broken(c)
  <2> DEFINE n == Fits(c, out)
             w == wire[c] \o SubSeq(out, 1, n)
             p == SubSeq(out, n + 1, Len(out))
  <2>1. n \in 0 .. Len(out) /\ Len(wire[c]) + n <= Room
    BY <1>0, FitsOut
  <2>2. /\ wire' = [wire EXCEPT ![c] = w] /\ pending' = [pending EXCEPT ![c] = p] /\ conn' = conn
        /\ writable' = [writable EXCEPT ![c] = n < Len(out)]
    BY <1>2 DEF Flush, Sent
  <2> HIDE DEF n
  <2>3. w \in Seq(U) /\ p \in Seq(U) /\ Goes(seen[c], wire[c], out, n)
    BY <1>0, <2>1, SentCarries, Zenon
  <2>4. writable' \in [Client -> BOOLEAN]
    <3> DEFINE full == n < Len(out)
    <3>1. full \in BOOLEAN
      OBVIOUS
    <3> HIDE DEF full
    <3>2. writable' = [writable EXCEPT ![c] = full]
      BY <2>2 DEF full
    <3>3. QED
      BY <3>1, <3>2
  <2>5. Len(w) = Len(wire[c]) + n
        /\ \A all : Carries(seen[c], wire[c], out, all) => Carries(seen[c], w, p, all)
    BY <2>3 DEF Goes
  <2> HIDE DEF w, p
  <2>6. /\ wire' \in [Client -> Seq(U)] /\ wire'[c] = w
        /\ \A d \in Client \ {c} : wire'[d] = wire[d]
    BY <2>2, <2>3
  <2>7. /\ pending' \in [Client -> Seq(U)] /\ pending'[c] = p
        /\ \A d \in Client \ {c} : pending'[d] = pending[d]
    BY <2>2, <2>3
  <2>8. Len(w) <= Room
    BY <2>1, <2>5
  <2>9. QED
    BY <2>2, <2>4, <2>5, <2>6, <2>7, <2>8 DEF Flushed
<1>3. QED
  BY <1>1, <1>2

----------------------------------------------------------------------------
(* The decoder.                                                            *)
LEMMA DecoderFacts ==
  ASSUME NEW S, NEW pl, NEW n, NEW b, NEW e, NEW d, DecoderOK(S, pl, n, b, e, d)
  PROVE  /\ Len(pl) \in Nat /\ Len(b) \in Nat /\ Len(d) \in Nat /\ n \in Nat /\ n <= 2 * Len(pl)
         /\ Consumed(e, d) = 2 * Len(d) + e
         /\ Consumed(e, d) \in Nat /\ Consumed(e, d) + Len(b) = n
         /\ \A i \in 1 .. Len(b) : b[i] = UnitsOf(pl)[Consumed(e, d) + i]
<1>1. Len(pl) \in Nat /\ Len(b) \in Nat /\ Len(d) \in Nat
  BY LenProperties DEF DecoderOK
<1>2. /\ n \in Nat /\ n <= 2 * Len(pl) /\ e \in {0, 1} /\ Consumed(e, d) + Len(b) = n
      /\ \A i \in 1 .. Len(b) : b[i] = UnitsOf(pl)[Consumed(e, d) + i]
  BY DEF DecoderOK, Decoding
<1>3. Consumed(e, d) = 2 * Len(d) + e
  BY DEF Consumed
<1>4. Consumed(e, d) \in Nat
  BY <1>1, <1>2, <1>3
<1>5. QED
  BY <1>1, <1>2, <1>3, <1>4

LEMMA DecodeReceive ==
  ASSUME NEW S, NEW pl, NEW n, NEW b, NEW e, NEW d, DecoderOK(S, pl, n, b, e, d),
         NEW m \in n + 1 .. 2 * Len(pl)
  PROVE  DecoderOK(S, pl, m, b \o SubSeq(UnitsOf(pl), n + 1, m), e, d)
<1> DEFINE all == UnitsOf(pl)
           u == SubSeq(all, n + 1, m)
           k == Consumed(e, d)
           c == b \o u
           lb == Len(b)
           lu == Len(u)
           lc == Len(c)
<1>1. Len(pl) \in Nat /\ lb \in Nat /\ n \in Nat /\ k \in Nat /\ k + lb = n
  BY DecoderFacts
<1>0. \A i \in 1 .. lb : b[i] = all[k + i]
  BY DecoderFacts
<1>2. all \in Seq(S \X Nat) /\ Len(all) = 2 * Len(pl)
  BY UnitsType DEF DecoderOK
<1> HIDE DEF all, k, lb
<1>3. m \in Nat /\ n + 1 \in Int /\ m \in Int /\ m - n \in Nat /\ n + 1 <= m /\ m <= 2 * Len(pl)
  BY <1>1
<1>4. \A i \in n + 1 .. m : all[i] \in S \X Nat
  <2>1. ASSUME NEW i \in n + 1 .. m PROVE i \in 1 .. 2 * Len(pl)
    BY <1>1, <1>3
  <2>2. QED
    BY <1>2, <2>1, ElementOfSeq
<1>5. u \in Seq(S \X Nat)
  BY <1>3, <1>4, SubSeqProperties
<1>6. lu = m - n /\ \A i \in 1 .. m - n : u[i] = all[n + i]
  <2>1. /\ lu = IF n + 1 <= m THEN m - (n + 1) + 1 ELSE 0
        /\ \A i \in 1 .. m - (n + 1) + 1 : u[i] = all[n + 1 + i - 1]
    BY <1>3, <1>4, SubSeqProperties
  <2> HIDE DEF u, lu
  <2>2. m - (n + 1) + 1 = m - n
    BY <1>1, <1>3
  <2>3. ASSUME NEW i \in 1 .. m - n PROVE u[i] = all[n + i]
    <3>1. u[i] = all[n + 1 + i - 1]
      BY <2>1, <2>2
    <3>2. n + 1 + i - 1 = n + i
      BY <1>1, <1>3
    <3>3. QED
      BY <3>1, <3>2
  <2>4. QED
    BY <1>3, <2>1, <2>2, <2>3
<1> HIDE DEF u
<1>7. c \in Seq(S \X Nat)
  BY <1>5, ConcatProperties DEF DecoderOK
<1>8. lc = lb + lu /\ \A i \in 1 .. lb + lu : c[i] = IF i <= lb THEN b[i] ELSE u[i - lb]
  BY <1>5, ConcatProperties DEF DecoderOK, lb
<1> HIDE DEF c, lu, lc
<1>9. k + lc = m /\ lc \in Nat
  BY <1>1, <1>3, <1>6, <1>8
<1>10. ASSUME NEW i \in 1 .. lc PROVE c[i] = all[k + i]
  <2>1. i \in Nat /\ i \in 1 .. lb + lu
    BY <1>8, <1>9
  <2>2. CASE i <= lb
    <3>1. i \in 1 .. lb /\ c[i] = b[i]
      BY <1>1, <1>8, <2>1, <2>2
    <3>2. QED
      BY <1>0, <3>1
  <2>3. CASE ~ (i <= lb)
    <3>1. c[i] = u[i - lb]
      BY <1>8, <2>1, <2>3
    <3>2. i - lb \in 1 .. m - n /\ n + (i - lb) = k + i
      BY <1>1, <1>3, <1>6, <2>1, <2>3
    <3>3. QED
      BY <1>6, <3>1, <3>2
  <2>4. QED
    BY <2>2, <2>3
<1>11. Decoding(pl, n, b, e, d)
  BY DEF DecoderOK
<1>12. Decoding(pl, m, c, e, d)
  BY <1>9, <1>10, <1>11 DEF Decoding, k, all, lc
<1>13. QED
  BY <1>3, <1>7, <1>12 DEF DecoderOK, c, u, all

(* The unit in front belongs to the frame that is next.                    *)
FrameInFront(S, pl, b, e, d) ==
  /\ Len(d) < Len(pl) /\ Head(b)[1] = pl[Len(d) + 1] /\ Head(b)[1] \in S
  /\ Tail(b) \in Seq(S \X Nat)
  /\ Len(Tail(b)) = Len(b) - 1 /\ Len(b) \in Nat \ {0}
  /\ \A i \in 1 .. Len(b) - 1 : Tail(b)[i] = UnitsOf(pl)[Consumed(e, d) + 1 + i]

LEMMA DecodeHead ==
  ASSUME NEW S, NEW pl, NEW n, NEW b, NEW e, NEW d, DecoderOK(S, pl, n, b, e, d), b # << >>
  PROVE  FrameInFront(S, pl, b, e, d)
<1> DEFINE k == Consumed(e, d)
           all == UnitsOf(pl)
           t == Tail(b)
           lb == Len(b)
           ld == Len(d)
           lp == Len(pl)
<1>1. /\ lp \in Nat /\ ld \in Nat /\ n \in Nat /\ n <= 2 * lp
      /\ k \in Nat /\ k + lb = n /\ \A i \in 1 .. lb : b[i] = all[k + i]
  BY DecoderFacts
<1>2. k = 2 * ld \/ k = 2 * ld + 1
  <2>1. k = 2 * ld + e /\ ld \in Nat
    BY DecoderFacts
  <2>2. e \in {0, 1}
    BY DEF DecoderOK
  <2> HIDE DEF k, ld
  <2>3. QED
    BY <2>1, <2>2
<1>3. lb \in Nat \ {0}
  BY EmptySeq DEF DecoderOK
<1>4. t \in Seq(S \X Nat)
  BY HeadTailProperties DEF DecoderOK
<1>5. Head(b) = b[1]
  BY DEF DecoderOK
<1>6. Len(t) = lb - 1
  BY HeadTailProperties DEF DecoderOK
<1>7. \A i \in 1 .. Len(t) : t[i] = b[i + 1]
  BY HeadTailProperties DEF DecoderOK
<1> HIDE DEF k, t, lb, ld, lp, all
<1>8. ASSUME NEW i \in 1 .. lb - 1 PROVE t[i] = all[k + 1 + i]
  <2>1. i + 1 \in 1 .. lb /\ k + 1 + i = k + (i + 1) /\ t[i] = b[i + 1]
    BY <1>1, <1>3, <1>6, <1>7
  <2>2. QED
    BY <1>1, <2>1
<1>9. ld < lp /\ k + 1 \in 1 .. 2 * lp /\ (k + 1 + 1) \div 2 = ld + 1
  BY <1>1, <1>2, <1>3
<1>10. b[1] = all[k + 1]
  BY <1>1, <1>3
<1>11. all[k + 1] = << pl[(k + 1 + 1) \div 2], k + 1 >>
  BY <1>9, UnitsType DEF DecoderOK, lp, all
<1>12. pl[ld + 1] \in S
  <2>1. ld + 1 \in 1 .. lp
    BY <1>1, <1>9
  <2>2. QED
    BY <2>1, ElementOfSeq DEF DecoderOK, lp
<1>13. Head(b)[1] = pl[ld + 1]
  BY <1>5, <1>9, <1>10, <1>11
<1>14. QED
  BY <1>3, <1>4, <1>6, <1>8, <1>9, <1>12, <1>13 DEF FrameInFront, k, t, lb, ld, lp, all

(* A length is taken.                                                      *)
LEMMA DecodeLength ==
  ASSUME NEW S, NEW pl, NEW n, NEW b, NEW e, NEW d, DecoderOK(S, pl, n, b, e, d), b # << >>,
         e = 0, Head(b)[1] # "oversized"
  PROVE  DecoderOK(S, pl, n, Tail(b), 1, d)
<1> DEFINE t == Tail(b)
           k == Consumed(e, d)
           lb == Len(b)
           ld == Len(d)
           lt == Len(t)
<1>0. FrameInFront(S, pl, b, e, d)
  BY DecodeHead, Zenon
<1>1. lt = lb - 1 /\ lb \in Nat \ {0}
  BY <1>0 DEF FrameInFront
<1>2. Head(b)[1] = pl[ld + 1] /\ \A i \in 1 .. lb - 1 : t[i] = UnitsOf(pl)[k + 1 + i]
  BY <1>0 DEF FrameInFront
<1>3. ld \in Nat /\ n \in Nat /\ k + lb = n
  BY DecoderFacts
<1>4. k = 2 * ld + e /\ Consumed(1, d) = 2 * ld + 1
  BY DEF Consumed
<1>5. IsPrefixOf(d, pl) /\ \A i \in DOMAIN d : d[i] \notin Bad
  BY DEF DecoderOK, Decoding
<1>6. t \in Seq(S \X Nat)
  BY <1>0 DEF FrameInFront
<1> HIDE DEF t, k, lb, ld, lt
<1>7. Consumed(1, d) = k + 1 /\ k + 1 + lt = n
  BY <1>1, <1>3, <1>4
<1>8. \A i \in 1 .. lt : t[i] = UnitsOf(pl)[Consumed(1, d) + i]
  BY <1>1, <1>2, <1>7
<1>9. 1 = 1 => pl[Len(d) + 1] # "oversized"
  BY <1>2 DEF ld
<1>10. Consumed(1, d) + Len(t) = n /\ \A i \in 1 .. Len(t) : t[i] = UnitsOf(pl)[Consumed(1, d) + i]
  BY <1>7, <1>8 DEF lt
<1>11. Decoding(pl, n, t, 1, d)
  BY <1>5, <1>9, <1>10, Zenon DEF Decoding
<1>12. QED
  BY <1>6, <1>11 DEF DecoderOK, t

(* A frame is decoded, and the next length is expected.                    *)
LEMMA DecodeFrame ==
  ASSUME NEW S, NEW pl, NEW n, NEW b, NEW e, NEW d, DecoderOK(S, pl, n, b, e, d), b # << >>,
         e = 1, Head(b)[1] # "malformed"
  PROVE  DecoderOK(S, pl, n, Tail(b), 0, Append(d, Head(b)[1]))
<1> DEFINE f == Head(b)[1]
           g == Append(d, f)
           t == Tail(b)
           k == Consumed(e, d)
           lb == Len(b)
           ld == Len(d)
           lt == Len(t)
<1>0. FrameInFront(S, pl, b, e, d)
  BY DecodeHead, Zenon
<1>1. lt = lb - 1 /\ lb \in Nat \ {0}
  BY <1>0 DEF FrameInFront
<1>2. \A i \in 1 .. lb - 1 : t[i] = UnitsOf(pl)[k + 1 + i]
  BY <1>0 DEF FrameInFront
<1>3. Len(d) < Len(pl) /\ f = pl[Len(d) + 1] /\ f \in S /\ t \in Seq(S \X Nat)
  BY <1>0 DEF FrameInFront
<1>4. ld \in Nat /\ n \in Nat /\ k + lb = n
  BY DecoderFacts
<1>5. k = 2 * ld + e
  BY DEF Consumed
<1>6. IsPrefixOf(d, pl) /\ (\A i \in DOMAIN d : d[i] \notin Bad) /\ pl[Len(d) + 1] # "oversized"
  BY DEF DecoderOK, Decoding
<1>7. f \notin Bad
  BY <1>3, <1>6 DEF Bad
<1> HIDE DEF f, t, k, lb, ld, lt
<1>8. g \in Seq(S)
  BY <1>3, AppendProperties DEF DecoderOK
<1>9. Len(g) = ld + 1 /\ g[ld + 1] = f /\ \A i \in 1 .. ld : g[i] = d[i]
  BY <1>3, AppendProperties DEF DecoderOK, ld
<1>10. IsPrefixOf(g, pl)
  BY <1>3, <1>6, PrefixAppend DEF DecoderOK
<1>11. DOMAIN g = 1 .. Len(g) /\ DOMAIN d = 1 .. ld
  BY <1>8, LenProperties DEF DecoderOK, ld
<1>12. Consumed(0, g) = 2 * Len(g) + 0
  BY DEF Consumed
<1> HIDE DEF g
<1>13. \A i \in DOMAIN g : g[i] \notin Bad
  <2>1. ASSUME NEW i \in 1 .. ld + 1 PROVE g[i] \notin Bad
    <3>1. CASE i = ld + 1
      BY <1>7, <1>9, <3>1
    <3>2. CASE i # ld + 1
      <4>1. i \in 1 .. ld
        BY <1>4, <3>2
      <4>2. QED
        BY <1>6, <1>9, <1>11, <4>1
    <3>3. QED
      BY <3>1, <3>2
  <2>2. QED
    BY <1>9, <1>11, <2>1
<1>14. Consumed(0, g) = k + 1 /\ k + 1 + lt = n
  BY <1>1, <1>4, <1>5, <1>9, <1>12
<1>15. Consumed(0, g) + Len(t) = n /\ \A i \in 1 .. Len(t) : t[i] = UnitsOf(pl)[Consumed(0, g) + i]
  BY <1>1, <1>2, <1>14 DEF lt
<1>16. Decoding(pl, n, t, 0, g)
  BY <1>10, <1>13, <1>15 DEF Decoding
<1>17. QED
  BY <1>3, <1>8, <1>16 DEF DecoderOK, f, g, t

----------------------------------------------------------------------------
(* The replies: of the plan pl, the frame that is next is answered, or the *)
(* connection is gone and it is not.                                       *)
LEMMA AnswerOne ==
  ASSUME NEW S, NEW pl \in Seq(S), NEW d \in Seq(S), NEW R, NEW r \in Seq(R),
         Answered("open", pl, d, r), \A i \in DOMAIN d : d[i] \notin Bad, Len(d) < Len(pl),
         NEW a \in R, a \in AnswersTo(pl[Len(d) + 1]), NEW k
  PROVE  Answered(k, pl, Append(d, pl[Len(d) + 1]), Append(r, a))
<1> DEFINE f == pl[Len(d) + 1]
           g == Append(d, f)
           h == Append(r, a)
<1>1. Len(d) \in Nat /\ Len(pl) \in Nat /\ Len(r) \in Nat /\ f \in S
  <2>1. Len(d) \in Nat /\ Len(pl) \in Nat /\ Len(r) \in Nat
    BY LenProperties
  <2>2. QED
    BY <2>1, ElementOfSeq
<1>2. /\ Len(g) = Len(d) + 1 /\ g[Len(d) + 1] = f /\ \A i \in 1 .. Len(d) : g[i] = d[i]
      /\ DOMAIN g = 1 .. Len(d) + 1 /\ DOMAIN d = 1 .. Len(d)
  BY <1>1, AppendProperties, LenProperties
<1>3. /\ Len(h) = Len(r) + 1 /\ h[Len(r) + 1] = a /\ \A i \in 1 .. Len(r) : h[i] = r[i]
      /\ DOMAIN h = 1 .. Len(r) + 1 /\ DOMAIN r = 1 .. Len(r)
  BY <1>1, AppendProperties, LenProperties
<1>4. IsPrefixOf(g, pl)
  BY PrefixAppend DEF Answered
<1>5. Len(r) = Len(d) /\ \A i \in DOMAIN r : r[i] \in AnswersTo(pl[i])
  BY DEF Answered
<1> HIDE DEF f, g, h
<1>6. \A i \in DOMAIN h : h[i] \in AnswersTo(pl[i])
  BY <1>1, <1>3, <1>5
<1>7. \A i \in DOMAIN g : g[i] \in Bad => i = Len(g)
  BY <1>1, <1>2
<1>8. Len(h) = Len(g) /\ Len(h) <= Len(g)
  BY <1>1, <1>2, <1>3, <1>5
<1>9. QED
  BY <1>4, <1>6, <1>7, <1>8 DEF Answered, f, g, h

LEMMA AnswerNone ==
  ASSUME NEW S, NEW pl \in Seq(S), NEW d \in Seq(S), NEW R, NEW r \in Seq(R),
         NEW k, Answered(k, pl, d, r), NEW j, j # "open",
         \A i \in DOMAIN d : d[i] \notin Bad, Len(d) < Len(pl)
  PROVE  Answered(j, pl, Append(d, pl[Len(d) + 1]), r)
<1> DEFINE f == pl[Len(d) + 1]
           g == Append(d, f)
<1>1. Len(d) \in Nat /\ Len(pl) \in Nat /\ Len(r) \in Nat /\ f \in S
  <2>1. Len(d) \in Nat /\ Len(pl) \in Nat /\ Len(r) \in Nat
    BY LenProperties
  <2>2. QED
    BY <2>1, ElementOfSeq
<1>2. /\ Len(g) = Len(d) + 1 /\ g[Len(d) + 1] = f /\ \A i \in 1 .. Len(d) : g[i] = d[i]
      /\ DOMAIN g = 1 .. Len(d) + 1 /\ DOMAIN d = 1 .. Len(d)
  BY <1>1, AppendProperties, LenProperties
<1>3. IsPrefixOf(g, pl)
  BY PrefixAppend DEF Answered
<1>4. Len(r) <= Len(d) /\ \A i \in DOMAIN r : r[i] \in AnswersTo(pl[i])
  BY <1>1 DEF Answered
<1> HIDE DEF f, g
<1>5. \A i \in DOMAIN g : g[i] \in Bad => i = Len(g)
  BY <1>1, <1>2
<1>6. Len(r) <= Len(g)
  BY <1>1, <1>2, <1>4
<1>7. QED
  BY <1>3, <1>4, <1>5, <1>6 DEF Answered, f, g

(* A connection that goes keeps what it said.                              *)
LEMMA DropKeeps ==
  ASSUME NEW S, NEW pl, NEW d \in Seq(S), NEW R, NEW r \in Seq(R), NEW k, Answered(k, pl, d, r)
  PROVE  Answered("dropped", pl, d, r)
<1>1. Len(d) \in Nat /\ Len(r) \in Nat
  BY LenProperties
<1>2. QED
  BY <1>1 DEF Answered

LEMMA DropCarries ==
  ASSUME NEW U, NEW s \in Seq(U), NEW w \in Seq(U), NEW p \in Seq(U), NEW r, NEW k,
         Carried(k, s, w, p, r), NEW q
  PROVE  Carried("dropped", s, w, q, r)
<1>1. s \o w \in Seq(U)
  BY ConcatProperties
<1>2. IsPrefixOf(s \o w, s \o w \o p)
  BY <1>1, PrefixOfConcat
<1>3. QED
  BY <1>2 DEF Carried, Carries

(* The client reads one unit.                                              *)
LEMMA ReadCarries ==
  ASSUME NEW U, NEW s \in Seq(U), NEW w \in Seq(U), w # << >>
  PROVE  /\ Append(s, Head(w)) \in Seq(U) /\ Tail(w) \in Seq(U) /\ Len(Tail(w)) <= Len(w)
         /\ Append(s, Head(w)) \o Tail(w) = s \o w
<1>1. /\ Head(w) \in U /\ Tail(w) \in Seq(U) /\ Len(Tail(w)) = Len(w) - 1
      /\ \A i \in 1 .. Len(Tail(w)) : Tail(w)[i] = w[i + 1]
      /\ Head(w) = w[1]
  BY HeadTailProperties
<1>2. Len(s) \in Nat /\ Len(w) \in Nat \ {0}
  BY EmptySeq, LenProperties
<1> DEFINE a == Append(s, Head(w))
           t == Tail(w)
           x == a \o t
           y == s \o w
<1>3. /\ a \in Seq(U) /\ Len(a) = Len(s) + 1 /\ a[Len(s) + 1] = Head(w)
      /\ \A i \in 1 .. Len(s) : a[i] = s[i]
  BY <1>1, AppendProperties
<1> HIDE DEF a, t
<1>4. t \in Seq(U) /\ Len(t) = Len(w) - 1 /\ \A i \in 1 .. Len(w) - 1 : t[i] = w[i + 1]
  BY <1>1 DEF t
<1>5. /\ x \in Seq(U) /\ Len(x) = Len(a) + Len(t)
      /\ \A i \in 1 .. Len(a) + Len(t) : x[i] = IF i <= Len(a) THEN a[i] ELSE t[i - Len(a)]
  BY <1>3, <1>4, ConcatProperties
<1>6. /\ y \in Seq(U) /\ Len(y) = Len(s) + Len(w)
      /\ \A i \in 1 .. Len(s) + Len(w) : y[i] = IF i <= Len(s) THEN s[i] ELSE w[i - Len(s)]
  BY ConcatProperties
<1> HIDE DEF x, y
<1>7. Len(x) = Len(s) + Len(w)
  BY <1>2, <1>3, <1>4, <1>5
<1>8. ASSUME NEW i \in 1 .. Len(x) PROVE x[i] = y[i]
  <2>1. i \in 1 .. Len(s) + Len(w) /\ i \in 1 .. Len(a) + Len(t) /\ i \in Nat
    BY <1>2, <1>5, <1>7
  <2>2. CASE i <= Len(s)
    <3>1. i \in 1 .. Len(s) /\ i <= Len(a)
      BY <1>2, <1>3, <2>1, <2>2
    <3>2. QED
      BY <1>3, <1>5, <1>6, <2>1, <2>2, <3>1
  <2>3. CASE i = Len(s) + 1
    <3>1. i <= Len(a) /\ ~ (i <= Len(s)) /\ i - Len(s) = 1
      BY <1>2, <1>3, <2>3
    <3>2. x[i] = Head(w) /\ y[i] = w[1]
      BY <1>3, <1>5, <1>6, <2>1, <2>3, <3>1
    <3>3. QED
      BY <1>1, <3>2
  <2>4. CASE i > Len(s) + 1
    <3>1. /\ ~ (i <= Len(a)) /\ ~ (i <= Len(s)) /\ i - Len(a) \in 1 .. Len(w) - 1
          /\ i - Len(a) + 1 = i - Len(s)
      BY <1>2, <1>3, <2>1, <2>4
    <3>2. x[i] = t[i - Len(a)] /\ y[i] = w[i - Len(s)]
      BY <1>5, <1>6, <2>1, <3>1
    <3>3. QED
      BY <1>4, <3>1, <3>2
  <2>5. QED
    BY <1>2, <2>1, <2>2, <2>3, <2>4
<1>9. x = y
  BY <1>5, <1>6, <1>7, <1>8, SeqEqual
<1>10. QED
  BY <1>1, <1>2, <1>3, <1>9 DEF a, t, x, y

----------------------------------------------------------------------------
(* A connection nobody used.                                               *)
LEMMA FreshLine ==
  ASSUME NEW pl \in Seq(Frame), NEW k
  PROVE  /\ DecoderOK(Frame, pl, 0, << >>, 0, << >>)
         /\ Carried(k, << >>, << >>, << >>, << >>)
         /\ Answered(k, pl, << >>, << >>)
<1>1. Len(pl) \in Nat
  BY LenProperties
<1>2. /\ Len(<< >>) = 0 /\ DOMAIN << >> = {} /\ << >> \in Seq(Frame)
      /\ << >> \in Seq(Frame \X Nat) /\ << >> \in Seq(Reply) /\ << >> \in Seq(Reply \X Nat)
  OBVIOUS
<1>3. IsPrefixOf(<< >>, pl)
  <2>1. Len(<< >>) <= Len(pl) /\ \A i \in 1 .. Len(<< >>) : << >>[i] = pl[i]
    BY <1>1, <1>2
  <2>2. QED
    BY <1>2, <2>1, PrefixByElements
<1>4. Consumed(0, << >>) = 0
  BY <1>2 DEF Consumed
<1>5. Decoding(pl, 0, << >>, 0, << >>)
  BY <1>2, <1>3, <1>4 DEF Decoding
<1>6. DecoderOK(Frame, pl, 0, << >>, 0, << >>)
  BY <1>1, <1>2, <1>5 DEF DecoderOK
<1>7. UnitsOf(<< >>) = << >>
  <2>1. UnitsOf(<< >>) \in Seq(Reply \X Nat) /\ Len(UnitsOf(<< >>)) = 0
    <3>1. UnitsOf(<< >>) \in Seq(Reply \X Nat) /\ Len(UnitsOf(<< >>)) = 2 * Len(<< >>)
      BY <1>2, UnitsType
    <3>2. QED
      BY <1>2, <3>1
  <2>2. \A i \in 1 .. 0 : UnitsOf(<< >>)[i] = << >>[i]
    OBVIOUS
  <2>3. QED
    BY <1>2, <2>1, <2>2, SeqEqual
<1>8. << >> \o << >> \o << >> = << >>
  OBVIOUS
<1>9. << >> \o << >> = << >>
  OBVIOUS
<1>10. IsPrefixOf(<< >>, << >>)
  BY <1>2 DEF IsPrefixOf
<1>11. Carried(k, << >>, << >>, << >>, << >>)
  BY <1>7, <1>8, <1>9, <1>10 DEF Carried, Carries
<1>12. Answered(k, pl, << >>, << >>)
  BY <1>2, <1>3 DEF Answered
<1>13. QED
  BY <1>6, <1>11, <1>12

----------------------------------------------------------------------------
(* The state, with the sets of its sequences named.                        *)
Frames == Seq(Frame)
FrameUnits == Seq(Frame \X Nat)
Replies == Seq(Reply)
ReplyUnits == Seq(Reply \X Nat)

TypesOK ==
  /\ client \in [Client -> {"away", "connected", "closed"}]
  /\ plan \in Plans /\ plan \in [Client -> Frames]
  /\ written \in [Client -> Nat] /\ read \in [Client -> Nat]
  /\ conn \in [Client -> {"none", "open", "dropped"}]
  /\ buffer \in [Client -> FrameUnits]
  /\ expected \in [Client -> BOOLEAN]
  /\ writable \in [Client -> BOOLEAN]
  /\ pending \in [Client -> ReplyUnits]
  /\ wire \in [Client -> ReplyUnits]
  /\ seen \in [Client -> ReplyUnits]
  /\ decoded \in [Client -> Frames]
  /\ replies \in [Client -> Replies]
  /\ serving \in Client \cup {Nobody}

LEMMA TypesNamed == StreamTypeOK <=> TypesOK
<1>1. plan \in Plans => plan \in [Client -> Frames]
  BY StreamAssumption DEF Frames
<1>2. QED
  BY <1>1 DEF StreamTypeOK, TypesOK, Frames, FrameUnits, Replies, ReplyUnits

(* What a step of one client's connection leaves of the others.            *)
OthersKept(c) ==
  /\ plan' = plan
  /\ \A d \in Client \ {c} :
       /\ written'[d] = written[d] /\ read'[d] = read[d] /\ conn'[d] = conn[d]
       /\ buffer'[d] = buffer[d] /\ expected'[d] = expected[d] /\ pending'[d] = pending[d]
       /\ wire'[d] = wire[d] /\ seen'[d] = seen[d] /\ decoded'[d] = decoded[d]
       /\ replies'[d] = replies[d] /\ (serving' = d => serving = d)

LEMMA OthersStay ==
  ASSUME NEW c \in Client, OthersKept(c), NEW d \in Client \ {c}, Line(d)
  PROVE  Line(d)'
<1>1. Bounds(d)'
  BY DEF OthersKept, Line, Bounds
<1>2. Unused(d)'
  BY DEF OthersKept, Line, Unused
<1>3. Decodes(d)'
  BY DEF OthersKept, Line, Decodes
<1>4. Carried(conn[d], seen[d], wire[d], pending[d], replies[d])'
  BY DEF OthersKept, Line
<1>5. Answered(conn[d], plan[d], decoded[d], replies[d])'
  BY DEF OthersKept, Line
<1>6. QED
  BY <1>1, <1>2, <1>3, <1>4, <1>5 DEF Line

(* What it has to show of its own.                                         *)
Keeps(c) == TypesOK' /\ Line(c)' /\ OthersKept(c)

LEMMA KeepsInv ==
  ASSUME StreamInv, NEW c \in Client, Keeps(c)
  PROVE  StreamInv'
<1>1. ASSUME NEW d \in Client PROVE Line(d)'
  <2>1. CASE d = c
    BY <2>1 DEF Keeps
  <2>2. CASE d # c
    BY <2>2, OthersStay DEF Keeps, StreamInv
  <2>3. QED
    BY <2>1, <2>2
<1>2. StreamTypeOK'
  BY TypesNamed, PTL DEF Keeps
<1>3. QED
  BY <1>1, <1>2 DEF StreamInv

LEMMA AtClient ==
  ASSUME TypesOK, NEW c \in Client
  PROVE  /\ plan[c] \in Seq(Frame) /\ written[c] \in Nat /\ read[c] \in Nat
         /\ conn[c] \in {"none", "open", "dropped"}
         /\ buffer[c] \in Seq(Frame \X Nat) /\ expected[c] \in BOOLEAN
         /\ pending[c] \in Seq(Reply \X Nat) /\ wire[c] \in Seq(Reply \X Nat)
         /\ seen[c] \in Seq(Reply \X Nat)
         /\ decoded[c] \in Seq(Frame) /\ replies[c] \in Seq(Reply) /\ Len(plan[c]) \in Nat
<1>1. plan[c] \in Seq(Frame)
  BY DEF TypesOK, Frames
<1>2. Len(plan[c]) \in Nat
  BY <1>1, LenProperties
<1>3. QED
  BY <1>1, <1>2 DEF TypesOK, Frames, FrameUnits, Replies, ReplyUnits

----------------------------------------------------------------------------
(* The client.                                                             *)
LEMMA ConnectKeeps == ASSUME TypesOK, NEW c \in Client, Line(c), Connect(c) PROVE Keeps(c)
<1> USE DEF Connect, decoderVars
<1>1. TypesOK'
  BY DEF TypesOK
<1>2. Line(c)'
  BY DEF Line, Bounds, Unused, Decodes
<1>3. QED
  BY <1>1, <1>2 DEF Keeps, OthersKept

LEMMA CloseKeeps == ASSUME TypesOK, NEW c \in Client, Line(c), Close(c) PROVE Keeps(c)
<1> USE DEF Close, decoderVars
<1>1. TypesOK'
  BY DEF TypesOK
<1>2. Line(c)'
  BY DEF Line, Bounds, Unused, Decodes
<1>3. QED
  BY <1>1, <1>2 DEF Keeps, OthersKept

LEMMA SendAllKeeps == ASSUME TypesOK, NEW c \in Client, Line(c), SendAll(c) PROVE Keeps(c)
<1>1. PICK n \in written[c] + 1 .. 2 * Len(plan[c]) : written' = [written EXCEPT ![c] = n]
  BY DEF SendAll
<1>2. /\ client' = client /\ plan' = plan /\ conn' = conn /\ writable' = writable
      /\ pending' = pending /\ wire' = wire /\ seen' = seen /\ read' = read /\ buffer' = buffer
      /\ expected' = expected /\ decoded' = decoded /\ replies' = replies /\ serving' = serving
  BY DEF SendAll, decoderVars
<1>3. written[c] \in Nat /\ read[c] \in Nat /\ Len(plan[c]) \in Nat
  BY AtClient
<1>4. n \in Nat /\ written[c] <= n /\ n <= 2 * Len(plan[c])
  BY <1>3
<1>5. written'[c] = n /\ \A d \in Client \ {c} : written'[d] = written[d]
  BY <1>1 DEF TypesOK
<1>6. TypesOK'
  BY <1>1, <1>2, <1>4 DEF TypesOK
<1>7. read[c] <= n
  BY <1>3, <1>4 DEF Line, Bounds
<1>8. Bounds(c)'
  BY <1>2, <1>4, <1>5, <1>7 DEF Line, Bounds
<1>9. Line(c)'
  BY <1>2, <1>8 DEF Line, Unused, Decodes
<1>10. QED
  BY <1>2, <1>5, <1>6, <1>9 DEF Keeps, OthersKept

LEMMA ReadReplyKeeps == ASSUME TypesOK, NEW c \in Client, Line(c), ReadReply(c) PROVE Keeps(c)
<1> DEFINE s == Append(seen[c], Head(wire[c]))
           w == Tail(wire[c])
<1>1. /\ client' = client /\ plan' = plan /\ conn' = conn /\ writable' = writable /\ written' = written
      /\ pending' = pending /\ read' = read /\ buffer' = buffer
      /\ expected' = expected /\ decoded' = decoded /\ replies' = replies /\ serving' = serving
      /\ seen' = [seen EXCEPT ![c] = s] /\ wire' = [wire EXCEPT ![c] = w] /\ wire[c] # << >>
  BY DEF ReadReply, decoderVars
<1>2. seen[c] \in Seq(Reply \X Nat) /\ wire[c] \in Seq(Reply \X Nat)
  BY AtClient
<1>3. /\ s \in Seq(Reply \X Nat) /\ w \in Seq(Reply \X Nat) /\ Len(w) <= Len(wire[c])
      /\ s \o w = seen[c] \o wire[c]
  BY <1>1, <1>2, ReadCarries
<1>4. Len(w) \in Nat /\ Len(wire[c]) \in Nat /\ Room \in Nat
  BY <1>2, <1>3, LenProperties, StreamAssumption
<1> HIDE DEF s, w
<1>5. s \in ReplyUnits /\ w \in ReplyUnits
  BY <1>3 DEF ReplyUnits
<1>6. TypesOK'
  BY <1>1, <1>5 DEF TypesOK
<1>7. /\ seen'[c] = s /\ \A d \in Client \ {c} : seen'[d] = seen[d]
      /\ wire'[c] = w /\ \A d \in Client \ {c} : wire'[d] = wire[d]
  BY <1>1 DEF TypesOK
<1>8. Bounds(c)'
  <2>1. Len(wire[c]) <= Room /\ read[c] <= written[c] /\ written[c] <= 2 * Len(plan[c])
    BY DEF Line, Bounds
  <2>2. Len(w) <= Room
    BY <1>3, <1>4, <2>1
  <2>3. QED
    BY <1>1, <1>7, <2>1, <2>2 DEF Bounds
<1>9. Unused(c)'
  BY <1>1 DEF Line, Unused
<1>10. Decodes(c)'
  BY <1>1 DEF Line, Decodes
<1>11. Carried(conn[c], seen[c], wire[c], pending[c], replies[c])'
  <2>1. Carried(conn[c], s, w, pending[c], replies[c])
    BY <1>3 DEF Line, Carried, Carries
  <2>2. QED
    BY <1>1, <1>7, <2>1
<1>12. Answered(conn[c], plan[c], decoded[c], replies[c])'
  BY <1>1 DEF Line
<1>13. Line(c)'
  BY <1>8, <1>9, <1>10, <1>11, <1>12 DEF Line
<1>14. QED
  BY <1>1, <1>6, <1>7, <1>13 DEF Keeps, OthersKept

----------------------------------------------------------------------------
(* The supervisor: what changes nothing but the state of a connection.     *)
LEMMA LineParts ==
  ASSUME NEW c \in Client, Line(c)
  PROVE  /\ Bounds(c) /\ Unused(c) /\ Decodes(c)
         /\ Carried(conn[c], seen[c], wire[c], pending[c], replies[c])
         /\ Answered(conn[c], plan[c], decoded[c], replies[c])
  BY DEF Line

LEMMA AcceptKeeps == ASSUME TypesOK, NEW c \in Client, Line(c), Accept(c) PROVE Keeps(c)
<1>1. /\ client' = client /\ plan' = plan /\ writable' = writable /\ written' = written
      /\ pending' = pending /\ read' = read /\ buffer' = buffer /\ wire' = wire /\ seen' = seen
      /\ expected' = expected /\ decoded' = decoded /\ replies' = replies /\ serving' = serving
      /\ conn[c] = "none"
  BY DEF Accept, decoderVars
<1>2. PICK s \in {"open", "dropped"} : conn' = [conn EXCEPT ![c] = s]
  BY DEF Accept
<1>3. TypesOK'
  BY <1>1, <1>2 DEF TypesOK
<1>4. conn'[c] = s /\ \A d \in Client \ {c} : conn'[d] = conn[d]
  BY <1>2 DEF TypesOK
<1>5. /\ serving # c /\ read[c] = 0 /\ ~ expected[c]
      /\ buffer[c] = << >> /\ decoded[c] = << >> /\ replies[c] = << >>
      /\ seen[c] = << >> /\ wire[c] = << >> /\ pending[c] = << >>
  BY <1>1 DEF Line, Unused
<1>6. Taken(expected[c]) = 0
  BY <1>5 DEF Taken
<1>7. plan[c] \in Seq(Frame)
  BY AtClient
<1>8. /\ DecoderOK(Frame, plan[c], 0, << >>, 0, << >>)
      /\ Carried(s, << >>, << >>, << >>, << >>)
      /\ Answered(s, plan[c], << >>, << >>)
  BY <1>7, FreshLine
<1>9. Decodes(c)'
  BY <1>1, <1>5, <1>6, <1>8 DEF Decodes
<1>10. Unused(c)'
  BY <1>4 DEF Unused
<1>11. Bounds(c)'
  BY <1>1 DEF Line, Bounds
<1>12. /\ Carried(conn[c], seen[c], wire[c], pending[c], replies[c])'
       /\ Answered(conn[c], plan[c], decoded[c], replies[c])'
  BY <1>1, <1>4, <1>5, <1>8
<1>13. Line(c)'
  BY <1>9, <1>10, <1>11, <1>12 DEF Line
<1>14. QED
  BY <1>1, <1>3, <1>4, <1>13 DEF Keeps, OthersKept

(* The connection goes, with all that is queued.                           *)
LEMMA DropType ==
  ASSUME TypesOK, NEW c \in Client, Drop(c)
  PROVE  /\ conn' \in [Client -> {"none", "open", "dropped"}] /\ conn'[c] = "dropped"
         /\ pending' \in [Client -> ReplyUnits] /\ writable' \in [Client -> BOOLEAN]
         /\ \A d \in Client \ {c} : conn'[d] = conn[d] /\ pending'[d] = pending[d]
<1>1. << >> \in ReplyUnits
  BY DEF ReplyUnits
<1>2. QED
  BY <1>1 DEF Drop, TypesOK

LEMMA DropsKeep ==
  ASSUME TypesOK, NEW c \in Client, Line(c), conn[c] = "open", Drop(c),
         UNCHANGED <<client, plan, written, wire, seen, decoderVars>>
  PROVE  Keeps(c)
<1>1. /\ client' = client /\ plan' = plan /\ written' = written
      /\ read' = read /\ buffer' = buffer /\ wire' = wire /\ seen' = seen
      /\ expected' = expected /\ decoded' = decoded /\ replies' = replies /\ serving' = serving
  BY DEF decoderVars
<1>2. /\ conn' \in [Client -> {"none", "open", "dropped"}] /\ conn'[c] = "dropped"
      /\ pending' \in [Client -> ReplyUnits] /\ writable' \in [Client -> BOOLEAN]
      /\ \A d \in Client \ {c} : conn'[d] = conn[d] /\ pending'[d] = pending[d]
  BY DropType
<1>3. TypesOK'
  BY <1>1, <1>2 DEF TypesOK
<1>4. Bounds(c)' /\ Unused(c)'
  BY <1>1, <1>2 DEF Line, Bounds, Unused
<1>5. Decodes(c)'
  BY <1>1 DEF Line, Decodes
<1>6. /\ seen[c] \in Seq(Reply \X Nat) /\ wire[c] \in Seq(Reply \X Nat)
      /\ pending[c] \in Seq(Reply \X Nat)
      /\ decoded[c] \in Seq(Frame) /\ replies[c] \in Seq(Reply)
  BY AtClient
<1>7. /\ Carried(conn[c], seen[c], wire[c], pending[c], replies[c])
      /\ Answered(conn[c], plan[c], decoded[c], replies[c])
  BY DEF Line
<1>8. Carried("dropped", seen[c], wire[c], pending'[c], replies[c])
  BY <1>6, <1>7, DropCarries, Zenon
<1>9. Answered("dropped", plan[c], decoded[c], replies[c])
  BY <1>6, <1>7, DropKeeps, Zenon
<1>10. Line(c)'
  BY <1>1, <1>2, <1>4, <1>5, <1>8, <1>9 DEF Line
<1>11. QED
  BY <1>1, <1>2, <1>3, <1>10 DEF Keeps, OthersKept

LEMMA EndOfChunkKeeps == ASSUME TypesOK, NEW c \in Client, Line(c), EndOfChunk(c) PROVE Keeps(c)
<1>1. /\ client' = client /\ plan' = plan /\ writable' = writable /\ written' = written
      /\ pending' = pending /\ read' = read /\ buffer' = buffer /\ wire' = wire /\ seen' = seen
      /\ expected' = expected /\ decoded' = decoded /\ replies' = replies /\ serving' = Nobody
      /\ conn' = conn /\ Nobody \notin Client
  BY StreamAssumption DEF EndOfChunk
<1>2. TypesOK'
  BY <1>1 DEF TypesOK
<1>3. Line(c)'
  BY <1>1 DEF Line, Bounds, Unused, Decodes
<1>4. QED
  BY <1>1, <1>2, <1>3 DEF Keeps, OthersKept

LEMMA ReceiveKeeps == ASSUME TypesOK, NEW c \in Client, Line(c), Receive(c) PROVE Keeps(c)
<1>1. PICK n \in read[c] + 1 .. written[c] :
        /\ buffer' = [buffer EXCEPT ![c] = @ \o SubSeq(UnitsOf(plan[c]), read[c] + 1, n)]
        /\ read' = [read EXCEPT ![c] = n]
  BY DEF Receive
<1> DEFINE b == buffer[c] \o SubSeq(UnitsOf(plan[c]), read[c] + 1, n)
<1>2. /\ client' = client /\ plan' = plan /\ writable' = writable /\ written' = written
      /\ pending' = pending /\ wire' = wire /\ seen' = seen
      /\ expected' = expected /\ decoded' = decoded /\ replies' = replies /\ serving' = c
      /\ conn' = conn /\ conn[c] = "open" /\ serving = Nobody
  BY DEF Receive
<1>3. written[c] \in Nat /\ read[c] \in Nat /\ Len(plan[c]) \in Nat
  BY AtClient
<1>4. written[c] <= 2 * Len(plan[c]) /\ Len(wire[c]) <= Room
  BY DEF Line, Bounds
<1>5. n \in Nat /\ n <= written[c] /\ n \in read[c] + 1 .. 2 * Len(plan[c])
  BY <1>3, <1>4
<1>6. DecoderOK(Frame, plan[c], read[c], buffer[c], Taken(expected[c]), decoded[c])
  BY <1>2 DEF Line, Decodes
<1>7. DecoderOK(Frame, plan[c], n, b, Taken(expected[c]), decoded[c])
  BY <1>5, <1>6, DecodeReceive, Zenon
<1>8. buffer' = [buffer EXCEPT ![c] = b]
  BY <1>1 DEF TypesOK
<1> HIDE DEF b
<1>9. b \in FrameUnits
  BY <1>7 DEF DecoderOK, FrameUnits
<1>10. TypesOK'
  <2>1. read' \in [Client -> Nat]
    BY <1>1, <1>5 DEF TypesOK
  <2>2. buffer' \in [Client -> FrameUnits]
    BY <1>8, <1>9 DEF TypesOK
  <2>3. QED
    BY <1>2, <2>1, <2>2 DEF TypesOK
<1>11. /\ read'[c] = n /\ \A d \in Client \ {c} : read'[d] = read[d]
       /\ buffer'[c] = b /\ \A d \in Client \ {c} : buffer'[d] = buffer[d]
  BY <1>1, <1>8 DEF TypesOK
<1>12. Bounds(c)'
  BY <1>2, <1>4, <1>5, <1>11 DEF Bounds
<1>13. Unused(c)'
  BY <1>2 DEF Unused
<1>14. Decodes(c)'
  BY <1>2, <1>7, <1>11 DEF Decodes
<1>15. Line(c)'
  BY <1>2, <1>12, <1>13, <1>14 DEF Line
<1>16. QED
  BY <1>2, <1>10, <1>11, <1>15 DEF Keeps, OthersKept

LEMMA TakeLengthKeeps == ASSUME TypesOK, NEW c \in Client, Line(c), TakeLength(c) PROVE Keeps(c)
<1> DEFINE b == Tail(buffer[c])
<1>1. /\ client' = client /\ plan' = plan /\ writable' = writable /\ written' = written
      /\ pending' = pending /\ wire' = wire /\ seen' = seen /\ read' = read
      /\ decoded' = decoded /\ replies' = replies /\ serving' = serving
      /\ conn' = conn /\ serving = c /\ buffer[c] # << >> /\ ~ expected[c]
      /\ Head(buffer[c])[1] # "oversized"
  BY DEF TakeLength, NextFrame
<1>2. buffer' = [buffer EXCEPT ![c] = b] /\ expected' = [expected EXCEPT ![c] = ~ @]
  BY DEF TakeLength, Consume, TypesOK
<1>3. expected'[c] /\ \A d \in Client \ {c} : expected'[d] = expected[d]
  BY <1>1, <1>2 DEF TypesOK
<1>4. Taken(expected[c]) = 0 /\ Taken(expected'[c]) = 1
  BY <1>1, <1>3 DEF Taken
<1>5. DecoderOK(Frame, plan[c], read[c], buffer[c], Taken(expected[c]), decoded[c])
  BY <1>1 DEF Line, Decodes
<1>6. DecoderOK(Frame, plan[c], read[c], b, 1, decoded[c])
  BY <1>1, <1>4, <1>5, DecodeLength, Zenon
<1> HIDE DEF b
<1>7. b \in FrameUnits
  BY <1>6 DEF DecoderOK, FrameUnits
<1>8. expected' \in [Client -> BOOLEAN]
  BY <1>2 DEF TypesOK
<1>9. TypesOK'
  BY <1>1, <1>2, <1>7, <1>8 DEF TypesOK
<1>10. buffer'[c] = b /\ \A d \in Client \ {c} : buffer'[d] = buffer[d]
  BY <1>2 DEF TypesOK
<1>11. Bounds(c)'
  BY <1>1 DEF Line, Bounds
<1>12. conn[c] # "none"
  BY <1>1 DEF Line, Unused
<1>13. Unused(c)'
  BY <1>1, <1>12 DEF Unused
<1>14. Decodes(c)'
  BY <1>1, <1>4, <1>6, <1>10 DEF Decodes
<1>15. Line(c)'
  BY <1>1, <1>11, <1>13, <1>14 DEF Line
<1>16. QED
  BY <1>1, <1>3, <1>9, <1>10, <1>15 DEF Keeps, OthersKept

----------------------------------------------------------------------------
(* The supervisor: what it sends.                                          *)
LEMMA FlushKeeps ==
  ASSUME TypesOK, NEW c \in Client, Bounds(c), conn[c] = "open",
         NEW out \in Seq(Reply \X Nat), Flush(c, out)
  PROVE  Flushed(Reply \X Nat, c, out)
<1>1. /\ conn \in [Client -> {"none", "open", "dropped"}] /\ writable \in [Client -> BOOLEAN]
      /\ pending \in [Client -> Seq(Reply \X Nat)] /\ wire \in [Client -> Seq(Reply \X Nat)]
  BY DEF TypesOK, ReplyUnits
<1>2. seen[c] \in Seq(Reply \X Nat) /\ Len(wire[c]) <= Room
  BY AtClient DEF Bounds
<1>3. QED
  BY <1>1, <1>2, FlushCarries, Zenon

LEMMA ServiceWritableKeeps ==
  ASSUME TypesOK, NEW c \in Client, Line(c), ServiceWritable(c) PROVE Keeps(c)
<1>1. /\ client' = client /\ plan' = plan /\ written' = written /\ seen' = seen
      /\ read' = read /\ buffer' = buffer
      /\ expected' = expected /\ decoded' = decoded /\ replies' = replies /\ serving' = serving
      /\ conn[c] = "open" /\ Flush(c, pending[c])
  BY DEF ServiceWritable, decoderVars
<1>2. /\ Bounds(c) /\ Decodes(c)
      /\ Carried(conn[c], seen[c], wire[c], pending[c], replies[c])
      /\ Answered(conn[c], plan[c], decoded[c], replies[c])
  BY DEF Line
<1>3. pending[c] \in Seq(Reply \X Nat) /\ decoded[c] \in Seq(Frame) /\ replies[c] \in Seq(Reply)
  BY AtClient
<1>4. Flushed(Reply \X Nat, c, pending[c])
  BY <1>1, <1>2, <1>3, FlushKeeps, Zenon
<1>5. /\ conn' \in [Client -> {"none", "open", "dropped"}] /\ writable' \in [Client -> BOOLEAN]
      /\ pending' \in [Client -> ReplyUnits] /\ wire' \in [Client -> ReplyUnits]
      /\ \A d \in Client \ {c} : conn'[d] = conn[d] /\ pending'[d] = pending[d] /\ wire'[d] = wire[d]
      /\ conn'[c] \in {"open", "dropped"} /\ Len(wire'[c]) <= Room
      /\ Carries(seen[c], wire[c], pending[c], UnitsOf(replies[c])) =>
           IF conn'[c] = "open" THEN Carries(seen[c], wire'[c], pending'[c], UnitsOf(replies[c]))
                                ELSE IsPrefixOf(seen[c] \o wire'[c], UnitsOf(replies[c]))
  BY <1>4 DEF Flushed, ReplyUnits
<1>6. TypesOK'
  BY <1>1, <1>5 DEF TypesOK
<1>7. Bounds(c)'
  BY <1>1, <1>2, <1>5 DEF Bounds
<1>8. Unused(c)'
  BY <1>5 DEF Unused
<1>9. Decodes(c)'
  BY <1>1, <1>2 DEF Decodes
<1>10. Carried(conn[c], seen[c], wire[c], pending[c], replies[c])'
  BY <1>1, <1>2, <1>5 DEF Carried
<1>11. Answered(conn[c], plan[c], decoded[c], replies[c])'
  <2>1. CASE conn'[c] = "open"
    BY <1>1, <1>2, <2>1
  <2>2. CASE conn'[c] = "dropped"
    <3>1. Answered("dropped", plan[c], decoded[c], replies[c])
      BY <1>2, <1>3, DropKeeps, Zenon
    <3>2. QED
      BY <1>1, <2>2, <3>1
  <2>3. QED
    BY <1>5, <2>1, <2>2
<1>12. Line(c)'
  BY <1>7, <1>8, <1>9, <1>10, <1>11 DEF Line
<1>13. QED
  BY <1>1, <1>5, <1>6, <1>12 DEF Keeps, OthersKept

(* The frame that is next, at a connection the supervisor works on.        *)
LEMMA NextFrameFacts ==
  ASSUME TypesOK, NEW c \in Client, Line(c), serving = c, buffer[c] # << >>
  PROVE  /\ DecoderOK(Frame, plan[c], read[c], buffer[c], Taken(expected[c]), decoded[c])
         /\ Len(decoded[c]) < Len(plan[c]) /\ NextFrame(c) = plan[c][Len(decoded[c]) + 1]
         /\ NextFrame(c) \in Frame /\ \A i \in DOMAIN decoded[c] : decoded[c][i] \notin Bad
         /\ conn[c] # "none"
<1>1. DecoderOK(Frame, plan[c], read[c], buffer[c], Taken(expected[c]), decoded[c])
  BY DEF Line, Decodes
<1>2. FrameInFront(Frame, plan[c], buffer[c], Taken(expected[c]), decoded[c])
  BY <1>1, DecodeHead, Zenon
<1>3. Len(decoded[c]) < Len(plan[c]) /\ NextFrame(c) = plan[c][Len(decoded[c]) + 1] /\ NextFrame(c) \in Frame
  BY <1>2 DEF FrameInFront, NextFrame
<1>4. \A i \in DOMAIN decoded[c] : decoded[c][i] \notin Bad
  BY <1>1 DEF DecoderOK, Decoding
<1>5. conn[c] # "none"
  BY DEF Line, Unused
<1>6. QED
  BY <1>1, <1>3, <1>4, <1>5

(* A reply r to the frame that is next; k is what the connection becomes.  *)
LEMMA NextAnswered ==
  ASSUME TypesOK, NEW c \in Client, Line(c), serving = c, buffer[c] # << >>, conn[c] = "open",
         NEW r \in AnswersTo(NextFrame(c)), NEW k
  PROVE  /\ Answered(k, plan[c], Append(decoded[c], NextFrame(c)), Append(replies[c], r))
         /\ r \in Reply
<1>1. /\ Len(decoded[c]) < Len(plan[c]) /\ NextFrame(c) = plan[c][Len(decoded[c]) + 1]
      /\ NextFrame(c) \in Frame /\ \A i \in DOMAIN decoded[c] : decoded[c][i] \notin Bad
  BY NextFrameFacts
<1>2. plan[c] \in Seq(Frame) /\ decoded[c] \in Seq(Frame) /\ replies[c] \in Seq(Reply)
  BY AtClient
<1>3. r \in Reply
  BY <1>1, ReplyTypes
<1>4. Answered("open", plan[c], decoded[c], replies[c])
  BY DEF Line
<1>5. r \in AnswersTo(plan[c][Len(decoded[c]) + 1])
  BY <1>1
<1>6. Answered(k, plan[c], Append(decoded[c], plan[c][Len(decoded[c]) + 1]), Append(replies[c], r))
  BY <1>1, <1>2, <1>3, <1>4, <1>5, AnswerOne, Zenon
<1>7. QED
  BY <1>1, <1>3, <1>6

LEMMA NextUnanswered ==
  ASSUME TypesOK, NEW c \in Client, Line(c), serving = c, buffer[c] # << >>, NEW k, k # "open"
  PROVE  Answered(k, plan[c], Append(decoded[c], NextFrame(c)), replies[c])
<1>1. /\ Len(decoded[c]) < Len(plan[c]) /\ NextFrame(c) = plan[c][Len(decoded[c]) + 1]
      /\ NextFrame(c) \in Frame /\ \A i \in DOMAIN decoded[c] : decoded[c][i] \notin Bad
  BY NextFrameFacts
<1>2. plan[c] \in Seq(Frame) /\ decoded[c] \in Seq(Frame) /\ replies[c] \in Seq(Reply)
  BY AtClient
<1>3. Answered(conn[c], plan[c], decoded[c], replies[c])
  BY DEF Line
<1>4. Answered(k, plan[c], Append(decoded[c], plan[c][Len(decoded[c]) + 1]), replies[c])
  BY <1>1, <1>2, <1>3, AnswerNone, Zenon
<1>5. QED
  BY <1>1, <1>4

(* What Dispatch does at the decoder.                                      *)
LEMMA DispatchDecodes ==
  ASSUME TypesOK, NEW c \in Client, Line(c), Dispatch(c)
  PROVE  /\ buffer' \in [Client -> FrameUnits] /\ expected' \in [Client -> BOOLEAN]
         /\ decoded' \in [Client -> Frames] /\ decoded'[c] = Append(decoded[c], NextFrame(c))
         /\ DecoderOK(Frame, plan[c], read[c], buffer'[c], Taken(expected'[c]), decoded'[c])
         /\ \A d \in Client \ {c} :
              buffer'[d] = buffer[d] /\ expected'[d] = expected[d] /\ decoded'[d] = decoded[d]
<1> DEFINE b == Tail(buffer[c])
           g == Append(decoded[c], NextFrame(c))
<1>1. /\ serving = c /\ buffer[c] # << >> /\ expected[c] /\ NextFrame(c) # "malformed"
      /\ decoded' = [decoded EXCEPT ![c] = g]
  BY DEF Dispatch, TypesOK
<1>2. buffer' = [buffer EXCEPT ![c] = b] /\ expected' = [expected EXCEPT ![c] = ~ @]
  BY DEF Dispatch, Consume, TypesOK
<1>3. ~ expected'[c] /\ \A d \in Client \ {c} : expected'[d] = expected[d]
  BY <1>1, <1>2 DEF TypesOK
<1>4. Taken(expected[c]) = 1 /\ Taken(expected'[c]) = 0
  BY <1>1, <1>3 DEF Taken
<1>5. DecoderOK(Frame, plan[c], read[c], buffer[c], Taken(expected[c]), decoded[c])
  BY <1>1, NextFrameFacts
<1>6. Head(buffer[c])[1] # "malformed"
  BY <1>1 DEF NextFrame
<1>7. DecoderOK(Frame, plan[c], read[c], Tail(buffer[c]), 0, Append(decoded[c], Head(buffer[c])[1]))
  BY <1>1, <1>4, <1>5, <1>6, DecodeFrame, Zenon
<1>8. DecoderOK(Frame, plan[c], read[c], b, 0, g)
  BY <1>7 DEF NextFrame
<1> HIDE DEF b, g
<1>9. b \in FrameUnits /\ g \in Frames
  BY <1>8 DEF DecoderOK, FrameUnits, Frames
<1>10. expected' \in [Client -> BOOLEAN]
  BY <1>2 DEF TypesOK
<1>11. buffer' \in [Client -> FrameUnits] /\ decoded' \in [Client -> Frames]
  BY <1>1, <1>2, <1>9 DEF TypesOK
<1>12. /\ buffer'[c] = b /\ \A d \in Client \ {c} : buffer'[d] = buffer[d]
       /\ decoded'[c] = g /\ \A d \in Client \ {c} : decoded'[d] = decoded[d]
  BY <1>1, <1>2 DEF TypesOK
<1>13. QED
  BY <1>3, <1>4, <1>8, <1>10, <1>11, <1>12 DEF g

(* What Answer does: to an open connection the reply is queued and sent as *)
(* far as it goes, to one that is gone nothing is.                         *)
LEMMA AnswerSends ==
  ASSUME TypesOK, NEW c \in Client, Line(c), conn[c] = "open", NEW r \in Reply, Answer(c, r)
  PROVE  /\ conn' \in [Client -> {"none", "open", "dropped"}] /\ writable' \in [Client -> BOOLEAN]
         /\ pending' \in [Client -> ReplyUnits] /\ wire' \in [Client -> ReplyUnits]
         /\ replies' \in [Client -> Replies] /\ replies'[c] = Append(replies[c], r)
         /\ \A d \in Client \ {c} : /\ conn'[d] = conn[d] /\ pending'[d] = pending[d]
                                    /\ wire'[d] = wire[d] /\ replies'[d] = replies[d]
         /\ conn'[c] \in {"open", "dropped"} /\ Len(wire'[c]) <= Room
         /\ Carried(conn'[c], seen[c], wire'[c], pending'[c], replies'[c])
<1> DEFINE out == pending[c] \o UnitsOfReply(r, Len(replies[c]) + 1)
           h == Append(replies[c], r)
<1>1. replies' = [replies EXCEPT ![c] = h] /\ Flush(c, out)
  BY DEF Answer, TypesOK
<1>2. /\ seen[c] \in Seq(Reply \X Nat) /\ wire[c] \in Seq(Reply \X Nat)
      /\ pending[c] \in Seq(Reply \X Nat) /\ replies[c] \in Seq(Reply)
  BY AtClient
<1>3. Bounds(c) /\ Carries(seen[c], wire[c], pending[c], UnitsOf(replies[c]))
  BY DEF Line, Carried
<1>4. /\ out \in Seq(Reply \X Nat) /\ Carries(seen[c], wire[c], out, UnitsOf(h))
      /\ h \in Seq(Reply)
  BY <1>2, <1>3, ReplyQueued, Zenon
<1> HIDE DEF out, h
<1>5. Flushed(Reply \X Nat, c, out)
  BY <1>1, <1>3, <1>4, FlushKeeps, Zenon
<1>6. /\ conn' \in [Client -> {"none", "open", "dropped"}] /\ writable' \in [Client -> BOOLEAN]
      /\ pending' \in [Client -> ReplyUnits] /\ wire' \in [Client -> ReplyUnits]
      /\ \A d \in Client \ {c} : conn'[d] = conn[d] /\ pending'[d] = pending[d] /\ wire'[d] = wire[d]
      /\ conn'[c] \in {"open", "dropped"} /\ Len(wire'[c]) <= Room
      /\ Carries(seen[c], wire[c], out, UnitsOf(h)) =>
           IF conn'[c] = "open" THEN Carries(seen[c], wire'[c], pending'[c], UnitsOf(h))
                                ELSE IsPrefixOf(seen[c] \o wire'[c], UnitsOf(h))
  BY <1>5 DEF Flushed, ReplyUnits
<1>7. h \in Replies
  BY <1>4 DEF Replies
<1>8. /\ replies' \in [Client -> Replies] /\ replies'[c] = h
      /\ \A d \in Client \ {c} : replies'[d] = replies[d]
  BY <1>1, <1>7 DEF TypesOK
<1>9. Carried(conn'[c], seen[c], wire'[c], pending'[c], h)
  BY <1>4, <1>6 DEF Carried
<1>10. QED
  BY <1>6, <1>8, <1>9 DEF h

LEMMA DispatchKeeps == ASSUME TypesOK, NEW c \in Client, Line(c), Dispatch(c) PROVE Keeps(c)
<1>1. /\ client' = client /\ plan' = plan /\ written' = written /\ seen' = seen
      /\ read' = read /\ serving' = serving /\ serving = c /\ buffer[c] # << >>
  BY DEF Dispatch
<1>2. PICK r \in AnswersTo(NextFrame(c)) : Answer(c, r)
  BY DEF Dispatch
<1>3. /\ buffer' \in [Client -> FrameUnits] /\ expected' \in [Client -> BOOLEAN]
      /\ decoded' \in [Client -> Frames] /\ decoded'[c] = Append(decoded[c], NextFrame(c))
      /\ DecoderOK(Frame, plan[c], read[c], buffer'[c], Taken(expected'[c]), decoded'[c])
      /\ \A d \in Client \ {c} :
           buffer'[d] = buffer[d] /\ expected'[d] = expected[d] /\ decoded'[d] = decoded[d]
  BY DispatchDecodes
<1>4. Decodes(c)'
  BY <1>1, <1>3 DEF Decodes
<1>5. read[c] <= written[c] /\ written[c] <= 2 * Len(plan[c]) /\ Len(wire[c]) <= Room
  BY DEF Line, Bounds
<1>6. CASE conn[c] = "open"
  <2>1. r \in Reply /\ \A k : Answered(k, plan[c], Append(decoded[c], NextFrame(c)), Append(replies[c], r))
    BY <1>1, <1>6, NextAnswered
  <2>2. /\ conn' \in [Client -> {"none", "open", "dropped"}] /\ writable' \in [Client -> BOOLEAN]
        /\ pending' \in [Client -> ReplyUnits] /\ wire' \in [Client -> ReplyUnits]
        /\ replies' \in [Client -> Replies] /\ replies'[c] = Append(replies[c], r)
        /\ \A d \in Client \ {c} : /\ conn'[d] = conn[d] /\ pending'[d] = pending[d]
                                   /\ wire'[d] = wire[d] /\ replies'[d] = replies[d]
        /\ conn'[c] \in {"open", "dropped"} /\ Len(wire'[c]) <= Room
        /\ Carried(conn'[c], seen[c], wire'[c], pending'[c], replies'[c])
    BY <1>2, <1>6, <2>1, AnswerSends
  <2>3. TypesOK'
    BY <1>1, <1>3, <2>2 DEF TypesOK
  <2>4. Bounds(c)' /\ Unused(c)'
    BY <1>1, <1>5, <2>2 DEF Bounds, Unused
  <2>5. Answered(conn[c], plan[c], decoded[c], replies[c])'
    BY <1>1, <1>3, <2>1, <2>2
  <2>6. Line(c)'
    BY <1>1, <1>4, <2>2, <2>4, <2>5 DEF Line
  <2>7. QED
    BY <1>1, <1>3, <2>2, <2>3, <2>6 DEF Keeps, OthersKept
<1>7. CASE conn[c] # "open"
  <2>1. /\ replies' = replies /\ conn' = conn /\ pending' = pending /\ writable' = writable
        /\ wire' = wire
    BY <1>2, <1>7 DEF Answer
  <2>2. TypesOK'
    BY <1>1, <1>3, <2>1 DEF TypesOK
  <2>3. conn[c] # "none"
    BY <1>1, NextFrameFacts
  <2>4. Bounds(c)' /\ Unused(c)'
    BY <1>1, <1>5, <2>1, <2>3 DEF Bounds, Unused
  <2>5. Answered(conn[c], plan[c], Append(decoded[c], NextFrame(c)), replies[c])
    BY <1>1, <1>7, NextUnanswered, Zenon
  <2>6. /\ Carried(conn[c], seen[c], wire[c], pending[c], replies[c])'
        /\ Answered(conn[c], plan[c], decoded[c], replies[c])'
    BY <1>1, <1>3, <2>1, <2>5 DEF Line
  <2>7. Line(c)'
    BY <1>4, <2>4, <2>6 DEF Line
  <2>8. QED
    BY <1>1, <1>3, <2>1, <2>2, <2>7 DEF Keeps, OthersKept
<1>8. QED
  BY <1>6, <1>7

(* FrameError.                                                             *)
LEMMA RefuseKeeps == ASSUME TypesOK, NEW c \in Client, Line(c), Refuse(c) PROVE Keeps(c)
<1> DEFINE out == pending[c] \o UnitsOfReply("invalid", Len(replies[c]) + 1)
           w == wire[c] \o SubSeq(out, 1, Fits(c, out))
           h == Append(replies[c], "invalid")
           g == Append(decoded[c], NextFrame(c))
<1>1. /\ client' = client /\ plan' = plan /\ written' = written /\ seen' = seen
      /\ read' = read /\ buffer' = buffer /\ expected' = expected
      /\ serving' = Nobody /\ serving = c /\ buffer[c] # << >> /\ NextFrame(c) \in Bad
      /\ Drop(c) /\ Nobody \notin Client
  BY StreamAssumption DEF Refuse, Bad
<1>2. decoded' = [decoded EXCEPT ![c] = g]
  BY DEF Refuse, TypesOK
<1>3. IF Broken(c)
        THEN wire' = wire /\ replies' = replies
        ELSE wire' = [wire EXCEPT ![c] = w] /\ replies' = [replies EXCEPT ![c] = h]
  BY DEF Refuse, TypesOK
<1>4. /\ seen[c] \in Seq(Reply \X Nat) /\ wire[c] \in Seq(Reply \X Nat)
      /\ pending[c] \in Seq(Reply \X Nat) /\ replies[c] \in Seq(Reply)
      /\ decoded[c] \in Seq(Frame)
  BY AtClient
<1>5. "invalid" \in Reply /\ "invalid" \in AnswersTo(NextFrame(c)) /\ NextFrame(c) \in Frame
  BY <1>1, ReplyTypes DEF Bad, Reply, Frame
<1>6. g \in Frames
  BY <1>4, <1>5, AppendProperties DEF Frames
<1>7. /\ conn' \in [Client -> {"none", "open", "dropped"}] /\ conn'[c] = "dropped"
      /\ pending' \in [Client -> ReplyUnits] /\ writable' \in [Client -> BOOLEAN]
      /\ \A d \in Client \ {c} : conn'[d] = conn[d] /\ pending'[d] = pending[d]
  BY <1>1, DropType
<1>8. /\ Bounds(c) /\ Carried(conn[c], seen[c], wire[c], pending[c], replies[c])
  BY DEF Line
<1>9. Decodes(c)' /\ Unused(c)'
  BY <1>1, <1>7 DEF Decodes, Unused
<1> HIDE DEF g
<1>10. /\ decoded' \in [Client -> Frames] /\ decoded'[c] = g
       /\ \A d \in Client \ {c} : decoded'[d] = decoded[d]
  BY <1>2, <1>6 DEF TypesOK
<1>11. CASE Broken(c)
  <2>1. wire' = wire /\ replies' = replies
    BY <1>3, <1>11
  <2>2. TypesOK'
    BY <1>1, <1>7, <1>10, <2>1 DEF TypesOK
  <2>3. Bounds(c)'
    BY <1>1, <1>8, <2>1 DEF Bounds
  <2>4. Carried("dropped", seen[c], wire[c], pending'[c], replies[c])
    BY <1>4, <1>8, DropCarries, Zenon
  <2>5. Answered("dropped", plan[c], g, replies[c])
    BY <1>1, NextUnanswered DEF g
  <2>6. Line(c)'
    BY <1>1, <1>7, <1>9, <1>10, <2>1, <2>3, <2>4, <2>5 DEF Line
  <2>7. QED
    BY <1>1, <1>7, <1>10, <2>1, <2>2, <2>6 DEF Keeps, OthersKept
<1>12. CASE ~ Broken(c)
  <2>1. conn[c] = "open"
    BY <1>12 DEF Broken
  <2>2. Carries(seen[c], wire[c], pending[c], UnitsOf(replies[c])) /\ Len(wire[c]) <= Room
    BY <1>8, <2>1 DEF Carried, Bounds
  <2>3. /\ out \in Seq(Reply \X Nat) /\ Carries(seen[c], wire[c], out, UnitsOf(h))
        /\ h \in Seq(Reply)
    BY <1>4, <1>5, <2>2, ReplyQueued, Zenon
  <2>4. Answered("dropped", plan[c], g, h)
    BY <1>1, <1>5, <2>1, NextAnswered DEF g
  <2>5. wire' = [wire EXCEPT ![c] = w] /\ replies' = [replies EXCEPT ![c] = h]
    BY <1>3, <1>12
  <2> DEFINE n == Fits(c, out)
  <2> HIDE DEF out, h
  <2>6. n \in 0 .. Len(out) /\ Len(wire[c]) + n <= Room
    BY <1>4, <2>2, <2>3, FitsOut, Zenon
  <2> HIDE DEF n
  <2>7. wire[c] \o SubSeq(out, 1, n) \in Seq(Reply \X Nat) /\ Goes(seen[c], wire[c], out, n)
    BY <1>4, <2>3, <2>6, SentCarries, Zenon
  <2>8. /\ Len(wire[c] \o SubSeq(out, 1, n)) = Len(wire[c]) + n
        /\ IsPrefixOf(seen[c] \o (wire[c] \o SubSeq(out, 1, n)), UnitsOf(h))
    BY <2>3, <2>7 DEF Goes
  <2>9. w \in ReplyUnits /\ Len(w) <= Room /\ IsPrefixOf(seen[c] \o w, UnitsOf(h))
    BY <2>6, <2>7, <2>8 DEF n, ReplyUnits
  <2> HIDE DEF w
  <2>10. h \in Replies
    BY <2>3 DEF Replies
  <2>11. /\ wire' \in [Client -> ReplyUnits] /\ wire'[c] = w
         /\ \A d \in Client \ {c} : wire'[d] = wire[d]
    BY <2>5, <2>9 DEF TypesOK
  <2>12. /\ replies' \in [Client -> Replies] /\ replies'[c] = h
         /\ \A d \in Client \ {c} : replies'[d] = replies[d]
    BY <2>5, <2>10 DEF TypesOK
  <2>13. TypesOK'
    BY <1>1, <1>7, <1>10, <2>11, <2>12 DEF TypesOK
  <2>14. Bounds(c)'
    BY <1>1, <1>8, <2>9, <2>11 DEF Bounds
  <2>15. Carried("dropped", seen[c], w, pending'[c], h)
    BY <2>9 DEF Carried
  <2>16. Line(c)'
    BY <1>1, <1>7, <1>9, <1>10, <2>4, <2>11, <2>12, <2>14, <2>15 DEF Line
  <2>17. QED
    BY <1>1, <1>7, <1>10, <2>11, <2>12, <2>13, <2>16 DEF Keeps, OthersKept
<1>13. QED
  BY <1>11, <1>12

----------------------------------------------------------------------------
LEMMA StreamInitInv == StreamInit => StreamInv
<1> SUFFICES ASSUME StreamInit PROVE StreamInv
  OBVIOUS
<1>1. /\ << >> \in FrameUnits /\ << >> \in ReplyUnits /\ << >> \in Frames /\ << >> \in Replies
  BY DEF FrameUnits, ReplyUnits, Frames, Replies
<1>2. plan \in [Client -> Frames]
  BY StreamAssumption DEF StreamInit, Frames
<1>3. TypesOK
  BY <1>1, <1>2 DEF StreamInit, TypesOK
<1>4. ASSUME NEW c \in Client PROVE Line(c)
  <2>1. /\ written[c] = 0 /\ read[c] = 0 /\ conn[c] = "none" /\ buffer[c] = << >> /\ ~ expected[c]
        /\ pending[c] = << >> /\ wire[c] = << >> /\ seen[c] = << >> /\ decoded[c] = << >>
        /\ replies[c] = << >> /\ serving = Nobody
    BY DEF StreamInit
  <2>2. plan[c] \in Seq(Frame) /\ Len(plan[c]) \in Nat
    BY <1>3, AtClient
  <2>3. serving # c /\ Room \in Nat /\ Len(<< >>) = 0
    BY <2>1, StreamAssumption
  <2>4. Bounds(c) /\ Unused(c)
    BY <2>1, <2>2, <2>3 DEF Bounds, Unused
  <2>5. Decodes(c)
    BY <2>1, <2>3 DEF Decodes
  <2>6. /\ Carried(conn[c], << >>, << >>, << >>, << >>)
        /\ Answered(conn[c], plan[c], << >>, << >>)
    BY <2>2, FreshLine
  <2>7. QED
    BY <2>1, <2>4, <2>5, <2>6 DEF Line
<1>5. QED
  BY <1>3, <1>4, TypesNamed DEF StreamInv

LEMMA StreamNextInv == StreamInv /\ [StreamNext]_streamVars => StreamInv'
<1> SUFFICES ASSUME StreamInv, [StreamNext]_streamVars PROVE StreamInv'
  OBVIOUS
<1>1. TypesOK /\ \A c \in Client : Line(c)
  BY TypesNamed DEF StreamInv
<1>2. CASE StreamNext
  <2>1. PICK c \in Client : Supervise(c) \/ Talk(c) \/ Close(c) \/ Teardown(c)
    BY <1>2 DEF StreamNext
  <2>2. Line(c)
    BY <1>1
  <2>3. CASE Connect(c)
    BY <1>1, <2>2, <2>3, ConnectKeeps, KeepsInv
  <2>4. CASE SendAll(c)
    BY <1>1, <2>2, <2>4, SendAllKeeps, KeepsInv
  <2>5. CASE ReadReply(c)
    BY <1>1, <2>2, <2>5, ReadReplyKeeps, KeepsInv
  <2>6. CASE Close(c)
    BY <1>1, <2>2, <2>6, CloseKeeps, KeepsInv
  <2>7. CASE Teardown(c)
    <3>1. Keeps(c)
      BY <1>1, <2>2, <2>7, DropsKeep DEF Teardown
    <3>2. QED
      BY <3>1, KeepsInv
  <2>8. CASE Accept(c)
    BY <1>1, <2>2, <2>8, AcceptKeeps, KeepsInv
  <2>9. CASE Receive(c)
    BY <1>1, <2>2, <2>9, ReceiveKeeps, KeepsInv
  <2>10. CASE Hangup(c)
    <3>1. Keeps(c)
      BY <1>1, <2>2, <2>10, DropsKeep DEF Hangup
    <3>2. QED
      BY <3>1, KeepsInv
  <2>11. CASE Refuse(c)
    BY <1>1, <2>2, <2>11, RefuseKeeps, KeepsInv
  <2>12. CASE TakeLength(c)
    BY <1>1, <2>2, <2>12, TakeLengthKeeps, KeepsInv
  <2>13. CASE Dispatch(c)
    BY <1>1, <2>2, <2>13, DispatchKeeps, KeepsInv
  <2>14. CASE EndOfChunk(c)
    BY <1>1, <2>2, <2>14, EndOfChunkKeeps, KeepsInv
  <2>15. CASE ServiceWritable(c)
    BY <1>1, <2>2, <2>15, ServiceWritableKeeps, KeepsInv
  <2>16. QED
    BY <2>1, <2>3, <2>4, <2>5, <2>6, <2>7, <2>8, <2>9, <2>10, <2>11, <2>12, <2>13, <2>14, <2>15
       DEF Supervise, Talk
<1>3. CASE UNCHANGED streamVars
  <2>1. TypesOK'
    BY <1>1, <1>3 DEF streamVars, TypesOK
  <2>2. ASSUME NEW c \in Client PROVE Line(c)'
    BY <1>1, <1>3 DEF streamVars, Line, Bounds, Unused, Decodes
  <2>3. StreamTypeOK'
    BY <2>1, TypesNamed, PTL
  <2>4. QED
    BY <2>2, <2>3 DEF StreamInv
<1>4. QED
  BY <1>2, <1>3

InOrder(c) ==
  /\ IsPrefixOf(decoded[c], plan[c]) /\ Len(replies[c]) <= Len(decoded[c])
  /\ \A i \in DOMAIN replies[c] : replies[c][i] \in AnswersTo(plan[c][i])
  /\ \A i \in DOMAIN decoded[c] : decoded[c][i] \in Bad => i = Len(decoded[c])
  /\ IF conn[c] = "open" THEN seen[c] \o wire[c] \o pending[c] = UnitsOf(replies[c])
                         ELSE IsPrefixOf(seen[c] \o wire[c], UnitsOf(replies[c]))

LEMMA StreamInvReplies == StreamInv => RepliesInOrder
<1> SUFFICES ASSUME StreamInv PROVE RepliesInOrder
  OBVIOUS
<1>1. ASSUME NEW c \in Client PROVE InOrder(c)
  <2>1. /\ Carried(conn[c], seen[c], wire[c], pending[c], replies[c])
        /\ Answered(conn[c], plan[c], decoded[c], replies[c])
    BY DEF StreamInv, Line
  <2>2. decoded[c] \in Seq(Frame) /\ replies[c] \in Seq(Reply)
    BY TypesNamed, AtClient DEF StreamInv
  <2>3. Len(decoded[c]) \in Nat /\ Len(replies[c]) \in Nat
    BY <2>2, LenProperties
  <2>4. Len(replies[c]) <= Len(decoded[c])
    BY <2>1, <2>3 DEF Answered
  <2>5. QED
    BY <2>1, <2>4 DEF Carried, Carries, Answered, InOrder
<1>2. QED
  BY <1>1, Zenon DEF RepliesInOrder, InOrder

(* However the bytes are cut into chunks, and whatever a socket takes,     *)
(* every client reads the replies to its frames in order, whole and once   *)
(* (FrameDecoder.feed, _reply, _flush, _service_writable).                 *)
THEOREM RepliesStayInOrder == StreamSpec => []RepliesInOrder
<1>1. StreamSpec => []StreamInv
  BY StreamInitInv, StreamNextInv, PTL DEF StreamSpec
<1>2. QED
  BY <1>1, StreamInvReplies, PTL
=============================================================================
