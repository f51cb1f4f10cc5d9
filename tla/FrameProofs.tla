----------------------------- MODULE FrameProofs -----------------------------
(***************************************************************************)
(* Proofs about the frame receiver and the line, for every alphabet,       *)
(* checksum, buffer size and set of frames and text lines.                 *)
(*                                                                         *)
(* The receiver stays inside its buffers whatever bytes arrive (IInv), and *)
(* the bytes last heard end with what it has stored of the frame it is in  *)
(* (HeardInv), so a frame it accepts was heard as it was sent.  On a line  *)
(* that has lost nothing, what the receiver has begun and what is still on *)
(* the line together are the frame that is being sent (LinkInv), so the    *)
(* frame is accepted, once.  After the loss of one byte outside the type   *)
(* and the length the receiver is in one of a few places (Whereabouts),    *)
(* and from none of them can it accept what was not sent (OneLossInv).     *)
(***************************************************************************)
EXTENDS FrameLink, Induction, SequenceTheorems

Receivers ==
  [state : States, type : Bytes, len : Bytes, payload : Seq(Bytes),
   checksum : Bytes, line_len : Nat]

\* BufferBounds as a predicate on a receiver.
Bounded(r) ==
  /\ r.len <= MaxPayload
  /\ r.state = "READ_PAYLOAD" => Len(r.payload) < r.len
  /\ r.state = "READ_CHECKSUM" => Len(r.payload) = r.len
  /\ r.line_len <= LineMax

IInv == TypeOK /\ BufferBounds /\ TakenFits

LEMMA Constants ==
  /\ 0 \in Bytes /\ Bytes \subseteq Nat /\ <<>> \in Seq(Bytes) /\ Len(<<>>) = 0
  /\ MaxPayload \in Nat /\ LineMax \in Nat
  /\ \A a, b \in Bytes : Mix(a, b) \in Bytes
  BY ByteAssumption

LEMMA IdleBounded ==
  ASSUME NEW r \in Receivers, Bounded(r)
  PROVE  Idle(r) \in Receivers /\ Bounded(Idle(r))
  <1> DEFINE m == Idle(r)
  <1>1. m \in Receivers
    BY Constants DEF Idle, Receivers, States
  <1>2. m.state = "WAIT_SOF0" /\ m.len = 0 /\ m.line_len = r.line_len
    BY DEF Idle, Receivers
  <1> QED
    BY <1>1, <1>2, Constants DEF Bounded

\* A step that only moves the frame machine on, before the payload.
LEMMA StateMoves ==
  ASSUME NEW r \in Receivers, Bounded(r), NEW b \in Bytes
  PROVE  /\ LET m == [r EXCEPT !.state = "WAIT_SOF1"] IN m \in Receivers /\ Bounded(m)
         /\ LET m == [r EXCEPT !.state = "READ_TYPE"] IN m \in Receivers /\ Bounded(m)
         /\ LET m == [r EXCEPT !.type = b, !.checksum = b, !.state = "READ_LEN"]
            IN  m \in Receivers /\ Bounded(m)
  <1>1. ASSUME NEW t \in {"WAIT_SOF1", "READ_TYPE"}
        PROVE  LET m == [r EXCEPT !.state = t] IN m \in Receivers /\ Bounded(m)
    BY DEF Receivers, Bounded, States
  <1> DEFINE m == [r EXCEPT !.type = b, !.checksum = b, !.state = "READ_LEN"]
  <1>2. m \in Receivers
    BY DEF Receivers, States
  <1>3. m.state = "READ_LEN" /\ m.len = r.len /\ m.line_len = r.line_len
    BY DEF Receivers
  <1> QED
    BY <1>1, <1>2, <1>3 DEF Bounded

\* A length that does not fit is refused before a payload byte is stored.
LEMMA ReadLenBounded ==
  ASSUME NEW r \in Receivers, Bounded(r), NEW b \in Bytes
  PROVE  ReadLen(r, b) \in Receivers /\ Bounded(ReadLen(r, b))
  <1>1. CASE b > MaxPayload
    BY <1>1, IdleBounded, Constants DEF ReadLen
  <1>2. CASE ~(b > MaxPayload)
    <2>1. b \in Nat /\ b <= MaxPayload /\ r.checksum \in Bytes
      BY <1>2, Constants DEF Receivers
    <2> DEFINE x == Mix(r.checksum, b)
               t == IF b = 0 THEN "READ_CHECKSUM" ELSE "READ_PAYLOAD"
               m == [r EXCEPT !.len = b, !.payload = <<>>, !.checksum = x, !.state = t]
    <2>2. x \in Bytes /\ t \in States
      BY <2>1, Constants DEF States
    <2>3. ReadLen(r, b) = m
      BY <1>2 DEF ReadLen, Receivers
    <2> HIDE DEF x
    <2>4. m \in Receivers
      BY <2>2, Constants DEF Receivers
    <2>5. m.len = b /\ m.payload = <<>> /\ m.state = t /\ m.line_len = r.line_len
      BY DEF Receivers
    <2>6. Bounded(m)
      BY <2>1, <2>5, Constants DEF Bounded
    <2> QED
      BY <2>3, <2>4, <2>6
  <1> QED
    BY <1>1, <1>2

LEMMA ReadPayloadBounded ==
  ASSUME NEW r \in Receivers, Bounded(r), r.state = "READ_PAYLOAD", NEW b \in Bytes
  PROVE  ReadPayload(r, b) \in Receivers /\ Bounded(ReadPayload(r, b))
  <1> DEFINE p == Append(r.payload, b)
             x == Mix(r.checksum, b)
             m == [r EXCEPT !.payload = p, !.checksum = x]
             k == [m EXCEPT !.state = "READ_CHECKSUM"]
  <1>1. /\ p \in Seq(Bytes) /\ Len(p) = Len(r.payload) + 1 /\ Len(r.payload) \in Nat
        /\ x \in Bytes
    <2>1. r.payload \in Seq(Bytes) /\ r.checksum \in Bytes
      BY DEF Receivers
    <2>2. p \in Seq(Bytes) /\ Len(p) = Len(r.payload) + 1
      BY <2>1, AppendProperties
    <2>3. Len(r.payload) \in Nat
      BY <2>1, LenProperties
    <2>4. x \in Bytes
      BY <2>1, Constants
    <2> QED
      BY <2>2, <2>3, <2>4
  <1>2. Len(r.payload) < r.len /\ r.len \in Nat /\ r.len <= MaxPayload
    BY Constants DEF Bounded, Receivers
  <1>3. ReadPayload(r, b) = IF Len(m.payload) >= m.len THEN k ELSE m
    BY DEF ReadPayload, Receivers
  <1> HIDE DEF p, x
  <1>4. m \in Receivers /\ m.len = r.len /\ m.payload = p /\ m.line_len = r.line_len
        /\ m.state = "READ_PAYLOAD"
    BY <1>1 DEF Receivers
  <1> HIDE DEF m
  <1>5. /\ k \in Receivers /\ k.len = m.len /\ k.payload = m.payload
        /\ k.line_len = m.line_len /\ k.state = "READ_CHECKSUM"
    BY <1>4 DEF Receivers, States
  <1> HIDE DEF k
  <1>6. CASE Len(p) >= r.len
    <2>1. Len(k.payload) = k.len
      BY <1>1, <1>2, <1>4, <1>5, <1>6
    <2>2. Bounded(k)
      BY <1>2, <1>4, <1>5, <2>1 DEF Bounded
    <2> QED
      BY <1>3, <1>4, <1>5, <1>6, <2>2
  <1>7. CASE ~(Len(p) >= r.len)
    <2>1. Len(m.payload) < m.len
      BY <1>1, <1>2, <1>4, <1>7
    <2>2. Bounded(m)
      BY <1>2, <1>4, <2>1 DEF Bounded
    <2> QED
      BY <1>3, <1>4, <1>7, <2>2
  <1> QED
    BY <1>6, <1>7

\* feed_frame_byte keeps the bounds.
LEMMA FrameByteBounded ==
  ASSUME NEW r \in Receivers, Bounded(r), NEW b \in Bytes
  PROVE  FeedFrameByte(r, b) \in Receivers /\ Bounded(FeedFrameByte(r, b))
  <1>1. CASE r.state = "WAIT_SOF0"
    BY <1>1, StateMoves DEF FeedFrameByte
  <1>2. CASE r.state = "WAIT_SOF1"
    BY <1>2, StateMoves, IdleBounded DEF FeedFrameByte
  <1>3. CASE r.state = "READ_TYPE"
    BY <1>3, StateMoves DEF FeedFrameByte
  <1>4. CASE r.state = "READ_LEN"
    BY <1>4, ReadLenBounded DEF FeedFrameByte
  <1>5. CASE r.state = "READ_PAYLOAD"
    BY <1>5, ReadPayloadBounded DEF FeedFrameByte
  <1>6. CASE r.state = "READ_CHECKSUM"
    BY <1>6, IdleBounded DEF FeedFrameByte
  <1> QED
    BY <1>1, <1>2, <1>3, <1>4, <1>5, <1>6 DEF Receivers, States

LEMMA LineByteBounded ==
  ASSUME NEW r \in Receivers, Bounded(r), NEW b \in Bytes
  PROVE  FeedLineByte(r, b) \in Receivers /\ Bounded(FeedLineByte(r, b))
  <1>1. LineMax \in Nat
    BY ByteAssumption
  <1>2. CASE b = CR
    BY <1>2, ByteAssumption DEF FeedLineByte
  <1>3. CASE b # CR /\ b = LF
    BY <1>1, <1>3 DEF FeedLineByte, Receivers, Bounded
  <1>4. CASE b # CR /\ b # LF
    BY <1>1, <1>4 DEF FeedLineByte, Receivers, Bounded
  <1> QED
    BY <1>2, <1>3, <1>4

\* The accepted frame is handed over with the length its header announced.
LEMMA AcceptedFits ==
  ASSUME NEW r \in Receivers, Bounded(r), NEW b \in Bytes, Accepts(r, b)
  PROVE  /\ [type |-> r.type, payload |-> r.payload] \in Frames
         /\ Len(r.payload) <= MaxPayload
  BY DEF Receivers, Bounded, Accepts, Frames

LEMMA HeardTyped ==
  ASSUME NEW s \in Seq(Bytes), NEW b \in Bytes
  PROVE  LastOf(Append(s, b)) \in Seq(Bytes)
  <1>1. Append(s, b) \in Seq(Bytes) /\ Append(s, b) # <<>>
    BY AppendProperties
  <1> QED
    BY <1>1, HeadTailProperties DEF LastOf

LEMMA ReceiveBounded ==
  ASSUME IInv, NEW b \in Bytes, Receive(b)
  PROVE  IInv'
  <1>1. rx \in Receivers /\ Bounded(rx)
    BY DEF IInv, TypeOK, BufferBounds, Receivers, Bounded
  <1>2. rx' \in Receivers /\ Bounded(rx')
    BY <1>1, FrameByteBounded, LineByteBounded DEF Receive
  <1>3. taken' \in Frames \cup {NoFrame} /\ (taken' # NoFrame => Len(taken'.payload) <= MaxPayload)
    <2>1. CASE Accepts(rx, b)
      BY <1>1, <2>1, AcceptedFits DEF Receive
    <2>2. CASE ~Accepts(rx, b)
      BY <2>2 DEF Receive
    <2> QED
      BY <2>1, <2>2
  <1>4. line' \in BOOLEAN
    BY DEF Receive
  <1>5. heard' \in Seq(Bytes)
    BY HeardTyped DEF IInv, TypeOK, Receive
  <1> QED
    BY <1>2, <1>3, <1>4, <1>5 DEF IInv, TypeOK, BufferBounds, TakenFits, Receivers, Bounded

LEMMA InitBounded ==
  ASSUME Init
  PROVE  IInv
  <1>1. rx \in Receivers /\ Bounded(rx)
    BY ByteAssumption DEF Init, Receivers, Bounded, States
  <1> QED
    BY <1>1 DEF Init, IInv, TypeOK, BufferBounds, TakenFits, Receivers, Bounded

THEOREM Invariance == Spec => []IInv
  <1>1. Init => IInv
    BY InitBounded
  <1>2. IInv /\ [Next]_vars => IInv'
    <2> SUFFICES ASSUME IInv, [Next]_vars PROVE IInv'
      OBVIOUS
    <2>1. CASE Next
      BY <2>1, ReceiveBounded DEF Next
    <2>2. CASE UNCHANGED vars
      BY <2>2 DEF vars, IInv, TypeOK, BufferBounds, TakenFits
    <2> QED
      BY <2>1, <2>2
  <1> QED
    BY <1>1, <1>2, PTL DEF Spec

\* Every variable keeps its type.
THEOREM ReceiverTyped == Spec => []TypeOK
  <1>1. IInv => TypeOK
    BY DEF IInv
  <1> QED
    BY Invariance, <1>1, PTL

\* No byte stream makes feed_frame_byte or the line reader write outside its
\* buffer.
THEOREM BuffersSafe == Spec => []BufferBounds
  <1>1. IInv => BufferBounds
    BY DEF IInv
  <1> QED
    BY Invariance, <1>1, PTL

\* The payload handed to handle_frame_command or handle_payload leaves room
\* for its terminator.
THEOREM AcceptedPayloadFits == Spec => []TakenFits
  <1>1. IInv => TakenFits
    BY DEF IInv
  <1> QED
    BY Invariance, <1>1, PTL

-----------------------------------------------------------------------------
\* The partial sums of frame_checksum over the first m bytes of payload p,
\* for a frame of type t whose length byte is n.
IsSums(g, t, n, p, m) ==
  g = [k \in 0 .. m |-> IF k = 0 THEN Mix(t, n) ELSE Mix(g[k - 1], p[k])]

SumOf(t, n, p) == (CHOOSE g : IsSums(g, t, n, p, Len(p)))[Len(p)]

LEMMA ChecksumIsSum ==
  \A f : Checksum(f) = SumOf(f.type, Len(f.payload), f.payload)
  BY Zenon DEF Checksum, SumOf, IsSums

\* The recursive definition has a solution for every length.
LEMMA SumsExist ==
  ASSUME NEW t, NEW n, NEW p, NEW m \in Nat
  PROVE  \E g : IsSums(g, t, n, p, m)
  <1> DEFINE T == {k \in Nat : \E g : IsSums(g, t, n, p, k)}
  <1>1. 0 \in T
    <2> DEFINE g == [k \in 0 .. 0 |-> Mix(t, n)]
    <2>1. IsSums(g, t, n, p, 0)
      BY DEF IsSums
    <2> QED
      BY <2>1
  <1>2. ASSUME NEW k \in T PROVE k + 1 \in T
    <2>1. PICK g : IsSums(g, t, n, p, k)
      OBVIOUS
    <2> DEFINE h == [j \in 0 .. k + 1 |-> IF j = k + 1 THEN Mix(g[k], p[k + 1]) ELSE g[j]]
    <2>2. \A j \in 0 .. k : g[j] = IF j = 0 THEN Mix(t, n) ELSE Mix(g[j - 1], p[j])
      BY <2>1 DEF IsSums
    <2>3. \A j \in 0 .. k + 1 : h[j] = IF j = 0 THEN Mix(t, n) ELSE Mix(h[j - 1], p[j])
      BY <2>2
    <2>4. IsSums(h, t, n, p, k + 1)
      BY <2>3 DEF IsSums
    <2> QED
      BY <2>4
  <1>3. T = Nat
    <2> HIDE DEF T
    <2> QED
      BY <1>1, <1>2, NatSetInduction DEF T
  <1> QED
    BY <1>3

\* What the partial sums are depends only on the bytes they cover.
LEMMA SumsAgree ==
  ASSUME NEW t, NEW n, NEW p, NEW q, NEW l \in Nat, NEW m \in Nat, NEW g, NEW h,
         IsSums(g, t, n, p, l), IsSums(h, t, n, q, m),
         l <= m, \A j \in 1 .. l : p[j] = q[j]
  PROVE  \A k \in 0 .. l : g[k] = h[k]
  <1> DEFINE T == {k \in Nat : k <= l => g[k] = h[k]}
  <1>1. /\ \A j \in 0 .. l : g[j] = IF j = 0 THEN Mix(t, n) ELSE Mix(g[j - 1], p[j])
        /\ \A j \in 0 .. m : h[j] = IF j = 0 THEN Mix(t, n) ELSE Mix(h[j - 1], q[j])
    BY DEF IsSums
  <1>2. 0 \in T
    BY <1>1
  <1>3. ASSUME NEW k \in T PROVE k + 1 \in T
    BY <1>1
  <1>4. T = Nat
    <2> HIDE DEF T
    <2> QED
      BY <1>2, <1>3, NatSetInduction DEF T
  <1> QED
    BY <1>4

LEMMA SumIsASum ==
  ASSUME NEW t, NEW n, NEW p \in Seq(Bytes)
  PROVE  \E g : IsSums(g, t, n, p, Len(p)) /\ SumOf(t, n, p) = g[Len(p)]
  <1>1. \E g : IsSums(g, t, n, p, Len(p))
    BY SumsExist, LenProperties
  <1> QED
    BY <1>1, Zenon DEF SumOf

LEMMA SumTyped ==
  ASSUME NEW t \in Bytes, NEW n \in Bytes, NEW p \in Seq(Bytes)
  PROVE  SumOf(t, n, p) \in Bytes
  <1>1. PICK g : IsSums(g, t, n, p, Len(p)) /\ SumOf(t, n, p) = g[Len(p)]
    BY SumIsASum
  <1> DEFINE T == {k \in Nat : k <= Len(p) => g[k] \in Bytes}
  <1>2. Len(p) \in Nat /\ \A j \in 1 .. Len(p) : p[j] \in Bytes
    BY LenProperties, ElementOfSeq
  <1>3. \A j \in 0 .. Len(p) : g[j] = IF j = 0 THEN Mix(t, n) ELSE Mix(g[j - 1], p[j])
    BY <1>1 DEF IsSums
  <1>4. 0 \in T
    BY <1>2, <1>3, Constants
  <1>5. ASSUME NEW k \in T PROVE k + 1 \in T
    <2>1. CASE k + 1 <= Len(p)
      <3>1. k \in Nat /\ g[k] \in Bytes /\ p[k + 1] \in Bytes
        BY <1>2, <2>1
      <3>2. g[k + 1] = Mix(g[k], p[k + 1])
        BY <1>2, <1>3, <2>1, <3>1
      <3>3. g[k + 1] \in Bytes
        BY <3>1, <3>2, Constants
      <3> QED
        BY <3>1, <3>3
    <2>2. CASE ~(k + 1 <= Len(p))
      BY <2>2
    <2> QED
      BY <2>1, <2>2
  <1>6. T = Nat
    <2> HIDE DEF T
    <2> QED
      BY <1>4, <1>5, NatSetInduction DEF T
  <1> QED
    BY <1>1, <1>2, <1>6

\* The receiver can compute the checksum byte by byte, as feed_frame_byte does.
LEMMA SumStarts ==
  ASSUME NEW t, NEW n
  PROVE  SumOf(t, n, <<>>) = Mix(t, n)
  <1>1. <<>> \in Seq(Bytes) /\ Len(<<>>) = 0
    OBVIOUS
  <1>2. PICK g : IsSums(g, t, n, <<>>, 0) /\ SumOf(t, n, <<>>) = g[0]
    BY <1>1, SumIsASum
  <1> QED
    BY <1>2 DEF IsSums

LEMMA SumGoesOn ==
  ASSUME NEW t, NEW n, NEW p \in Seq(Bytes), NEW b \in Bytes
  PROVE  SumOf(t, n, Append(p, b)) = Mix(SumOf(t, n, p), b)
  <1> DEFINE q == Append(p, b)
  <1>1. /\ q \in Seq(Bytes) /\ Len(q) = Len(p) + 1 /\ Len(p) \in Nat
        /\ q[Len(p) + 1] = b /\ \A j \in 1 .. Len(p) : p[j] = q[j]
    BY AppendProperties, LenProperties
  <1> HIDE DEF q
  <1>2. PICK g : IsSums(g, t, n, p, Len(p)) /\ SumOf(t, n, p) = g[Len(p)]
    BY SumIsASum
  <1>3. PICK h : IsSums(h, t, n, q, Len(q)) /\ SumOf(t, n, q) = h[Len(q)]
    BY <1>1, SumIsASum
  <1>4. g[Len(p)] = h[Len(p)]
    <2>1. Len(q) \in Nat /\ Len(p) <= Len(q)
      BY <1>1
    <2>2. \A k \in 0 .. Len(p) : g[k] = h[k]
      BY <1>1, <1>2, <1>3, <2>1, SumsAgree
    <2> QED
      BY <1>1, <2>2
  <1>5. h[Len(q)] = Mix(h[Len(p)], b)
    BY <1>1, <1>3 DEF IsSums
  <1> QED
    BY <1>2, <1>3, <1>4, <1>5 DEF q

-----------------------------------------------------------------------------
\* What the receiver has of the frame it is in, as the bytes of its encoding.
Begun(r) ==
  CASE r.state = "WAIT_SOF0" -> <<>>
    [] r.state = "WAIT_SOF1" -> <<SOF0>>
    [] r.state = "READ_TYPE" -> <<SOF0, SOF1>>
    [] r.state = "READ_LEN" -> <<SOF0, SOF1, r.type>>
    [] r.state \in {"READ_PAYLOAD", "READ_CHECKSUM"} -> <<SOF0, SOF1, r.type, r.len>> \o r.payload

\* frame_checksum_byte is the checksum of what there is of the frame.
Summed(r) ==
  /\ r.state = "READ_LEN" => r.checksum = r.type
  /\ r.state \in {"READ_PAYLOAD", "READ_CHECKSUM"} => r.checksum = SumOf(r.type, r.len, r.payload)

EndsWith(s, e) ==
  /\ Len(e) <= Len(s)
  /\ \A i \in 1 .. Len(e) : s[Len(s) - Len(e) + i] = e[i]

LEMMA AppendIs ==
  ASSUME NEW e \in Seq(Bytes), NEW b \in Bytes, NEW s \in Seq(Bytes),
         Len(s) = Len(e) + 1, s[Len(e) + 1] = b, \A i \in 1 .. Len(e) : s[i] = e[i]
  PROVE  Append(e, b) = s
  <1> DEFINE t == Append(e, b)
  <1>1. /\ t \in Seq(Bytes) /\ Len(t) = Len(e) + 1 /\ Len(e) \in Nat
        /\ t[Len(e) + 1] = b /\ \A i \in 1 .. Len(e) : t[i] = e[i]
    BY AppendProperties, LenProperties
  <1> HIDE DEF t
  <1>2. \A i \in 1 .. Len(t) : t[i] = s[i]
    BY <1>1
  <1>3. t = s
    BY <1>1, <1>2, SeqEqual
  <1> QED
    BY <1>3 DEF t

\* The header, byte by byte.
LEMMA FirstThenByte ==
  ASSUME NEW x \in Bytes, NEW b \in Bytes
  PROVE  Append(<<x>>, b) = <<x, b>>
  <1> DEFINE e == <<x>>
             s == <<x, b>>
  <1>1. /\ e \in Seq(Bytes) /\ Len(e) = 1 /\ e[1] = x
        /\ s \in Seq(Bytes) /\ Len(s) = 2 /\ s[1] = x /\ s[2] = b
    OBVIOUS
  <1> HIDE DEF e, s
  <1>2. Len(s) = Len(e) + 1 /\ s[Len(e) + 1] = b /\ \A i \in 1 .. Len(e) : s[i] = e[i]
    BY <1>1
  <1>3. Append(e, b) = s
    BY <1>1, <1>2, AppendIs
  <1> QED
    BY <1>3 DEF e, s

LEMMA SecondThenByte ==
  ASSUME NEW x \in Bytes, NEW y \in Bytes, NEW b \in Bytes
  PROVE  Append(<<x, y>>, b) = <<x, y, b>>
  <1> DEFINE e == <<x, y>>
             s == <<x, y, b>>
  <1>1. /\ e \in Seq(Bytes) /\ Len(e) = 2 /\ e[1] = x /\ e[2] = y
        /\ s \in Seq(Bytes) /\ Len(s) = 3 /\ s[1] = x /\ s[2] = y /\ s[3] = b
    OBVIOUS
  <1> HIDE DEF e, s
  <1>2. Len(s) = Len(e) + 1 /\ s[Len(e) + 1] = b /\ \A i \in 1 .. Len(e) : s[i] = e[i]
    BY <1>1
  <1>3. Append(e, b) = s
    BY <1>1, <1>2, AppendIs
  <1> QED
    BY <1>3 DEF e, s

LEMMA ThirdThenByte ==
  ASSUME NEW x \in Bytes, NEW y \in Bytes, NEW z \in Bytes, NEW b \in Bytes
  PROVE  Append(<<x, y, z>>, b) = <<x, y, z, b>>
  <1> DEFINE e == <<x, y, z>>
             s == <<x, y, z, b>>
  <1>1. /\ e \in Seq(Bytes) /\ Len(e) = 3 /\ e[1] = x /\ e[2] = y /\ e[3] = z
        /\ s \in Seq(Bytes) /\ Len(s) = 4 /\ s[1] = x /\ s[2] = y /\ s[3] = z /\ s[4] = b
    OBVIOUS
  <1> HIDE DEF e, s
  <1>2. Len(s) = Len(e) + 1 /\ s[Len(e) + 1] = b /\ \A i \in 1 .. Len(e) : s[i] = e[i]
    BY <1>1
  <1>3. Append(e, b) = s
    BY <1>1, <1>2, AppendIs
  <1> QED
    BY <1>3 DEF e, s

LEMMA BegunIs ==
  ASSUME NEW r
  PROVE  /\ r.state = "WAIT_SOF0" => Begun(r) = <<>>
         /\ r.state = "WAIT_SOF1" => Begun(r) = <<SOF0>>
         /\ r.state = "READ_TYPE" => Begun(r) = <<SOF0, SOF1>>
         /\ r.state = "READ_LEN" => Begun(r) = <<SOF0, SOF1, r.type>>
         /\ r.state \in {"READ_PAYLOAD", "READ_CHECKSUM"} =>
              Begun(r) = <<SOF0, SOF1, r.type, r.len>> \o r.payload
  BY Zenon DEF Begun

LEMMA BegunTyped ==
  ASSUME NEW r \in Receivers, Bounded(r)
  PROVE  /\ Begun(r) \in Seq(Bytes)
         /\ Len(Begun(r)) <= MaxPayload + 4
  <1>1. r.type \in Bytes /\ r.len \in Bytes /\ r.payload \in Seq(Bytes) /\ r.state \in States
    BY DEF Receivers
  <1>2. /\ SOF0 \in Bytes /\ SOF1 \in Bytes /\ MaxPayload \in Nat /\ Bytes \subseteq Nat
    BY ByteAssumption
  <1>3. CASE r.state \in {"READ_PAYLOAD", "READ_CHECKSUM"}
    <2> DEFINE h == <<SOF0, SOF1, r.type, r.len>>
    <2>1. h \in Seq(Bytes) /\ Len(h) = 4
      BY <1>1, <1>2
    <2>2. Begun(r) = h \o r.payload
      BY <1>3, BegunIs
    <2> HIDE DEF h
    <2>3. h \o r.payload \in Seq(Bytes) /\ Len(h \o r.payload) = Len(h) + Len(r.payload)
      BY <1>1, <2>1, ConcatProperties
    <2>4. Len(r.payload) <= MaxPayload /\ Len(r.payload) \in Nat
      <3>1. Len(r.payload) \in Nat
        BY <1>1, LenProperties
      <3>2. Len(r.payload) <= r.len /\ r.len <= MaxPayload /\ r.len \in Nat
        <4>1. r.len <= MaxPayload /\ (Len(r.payload) < r.len \/ Len(r.payload) = r.len)
          BY <1>3 DEF Bounded
        <4>2. r.len \in Nat
          BY <1>1, <1>2
        <4> QED
          BY <3>1, <4>1, <4>2
      <3> QED
        BY <1>2, <3>1, <3>2
    <2>5. Len(h) + Len(r.payload) <= MaxPayload + 4
      BY <1>2, <2>1, <2>4
    <2> QED
      BY <2>2, <2>3, <2>5
  <1>4. CASE r.state = "WAIT_SOF0"
    <2>1. Begun(r) = <<>>
      BY <1>4, BegunIs
    <2> QED
      BY <1>2, <2>1
  <1>5. CASE r.state = "WAIT_SOF1"
    <2>1. Begun(r) = <<SOF0>>
      BY <1>5, BegunIs
    <2> QED
      BY <1>2, <2>1
  <1>6. CASE r.state = "READ_TYPE"
    <2>1. Begun(r) = <<SOF0, SOF1>>
      BY <1>6, BegunIs
    <2> QED
      BY <1>2, <2>1
  <1>7. CASE r.state = "READ_LEN"
    <2>1. Begun(r) = <<SOF0, SOF1, r.type>>
      BY <1>7, BegunIs
    <2> QED
      BY <1>1, <1>2, <2>1
  <1> QED
    BY <1>1, <1>3, <1>4, <1>5, <1>6, <1>7 DEF States

\* The history keeps every byte of a frame that is not too long.
LEMMA HistoryGrows ==
  ASSUME NEW s \in Seq(Bytes), NEW e \in Seq(Bytes), NEW b \in Bytes,
         EndsWith(s, e), Len(e) <= MaxPayload + 4
  PROVE  EndsWith(LastOf(Append(s, b)), Append(e, b))
  <1> DEFINE t == Append(s, b)
             f == Append(e, b)
  <1>1. /\ t \in Seq(Bytes) /\ t # <<>> /\ Len(t) = Len(s) + 1
        /\ \A i \in 1 .. Len(s) : t[i] = s[i]
        /\ t[Len(s) + 1] = b
    BY AppendProperties
  <1>2. /\ f \in Seq(Bytes) /\ Len(f) = Len(e) + 1
        /\ \A i \in 1 .. Len(e) : f[i] = e[i]
        /\ f[Len(e) + 1] = b
    BY AppendProperties
  <1>3. Len(s) \in Nat /\ Len(e) \in Nat /\ MaxPayload \in Nat
    BY ByteAssumption, LenProperties
  <1> HIDE DEF t, f
  <1>4. EndsWith(t, f)
    <2>1. Len(f) <= Len(t)
      BY <1>1, <1>2, <1>3 DEF EndsWith
    <2>2. ASSUME NEW i \in 1 .. Len(f) PROVE t[Len(t) - Len(f) + i] = f[i]
      <3>1. Len(t) - Len(f) + i = Len(s) - Len(e) + i /\ Len(e) <= Len(s)
        BY <1>1, <1>2, <1>3 DEF EndsWith
      <3>2. CASE i = Len(e) + 1
        BY <1>1, <1>2, <1>3, <3>1, <3>2
      <3>3. CASE i \in 1 .. Len(e)
        <4>1. s[Len(s) - Len(e) + i] = e[i]
          BY <3>3 DEF EndsWith
        <4>2. Len(s) - Len(e) + i \in 1 .. Len(s)
          BY <1>3, <3>1, <3>3
        <4> QED
          BY <1>1, <1>2, <3>1, <3>3, <4>1, <4>2
      <3> QED
        BY <1>2, <1>3, <3>2, <3>3
    <2> QED
      BY <2>1, <2>2 DEF EndsWith
  <1>5. CASE Len(t) > Window
    <2> DEFINE u == Tail(t)
    <2>1. Len(u) = Len(t) - 1 /\ \A i \in 1 .. Len(u) : u[i] = t[i + 1]
      BY <1>1, HeadTailProperties
    <2>2. Len(t) \in Nat /\ Len(f) \in Nat /\ Len(f) <= Len(t) - 1
      BY <1>1, <1>2, <1>3, <1>5 DEF Window
    <2> HIDE DEF u
    <2>3. ASSUME NEW i \in 1 .. Len(f) PROVE u[Len(u) - Len(f) + i] = f[i]
      <3>1. Len(u) - Len(f) + i \in 1 .. Len(u) /\ Len(u) - Len(f) + i + 1 = Len(t) - Len(f) + i
        BY <2>1, <2>2
      <3>2. u[Len(u) - Len(f) + i] = t[Len(t) - Len(f) + i]
        BY <2>1, <3>1
      <3> QED
        BY <1>4, <3>2 DEF EndsWith
    <2>4. EndsWith(u, f)
      BY <2>1, <2>2, <2>3 DEF EndsWith
    <2> QED
      BY <1>5, <2>4 DEF LastOf, t, f, u
  <1>6. CASE ~(Len(t) > Window)
    BY <1>4, <1>6 DEF LastOf, t, f
  <1> QED
    BY <1>5, <1>6

LEMMA AppendToConcat ==
  ASSUME NEW h \in Seq(Bytes), NEW p \in Seq(Bytes), NEW b \in Bytes
  PROVE  h \o Append(p, b) = Append(h \o p, b)
  <1>1. <<b>> \in Seq(Bytes) /\ h \o p \in Seq(Bytes)
    BY ConcatProperties
  <1>2. Append(p, b) = p \o <<b>> /\ Append(h \o p, b) = (h \o p) \o <<b>>
    BY <1>1, AppendIsConcat
  <1> QED
    BY <1>1, <1>2, ConcatAssociative

LEMMA IdleBegun ==
  ASSUME NEW r \in Receivers
  PROVE  Begun(Idle(r)) = <<>> /\ Summed(Idle(r))
  BY BegunIs DEF Idle, Receivers, Summed

\* A byte either belongs to the frame or makes the receiver give it up.
LEMMA LenByteBegun ==
  ASSUME NEW r \in Receivers, Bounded(r), Summed(r), r.state = "READ_LEN", NEW b \in Bytes
  PROVE  /\ Begun(ReadLen(r, b)) \in {<<>>, Append(Begun(r), b)}
         /\ Summed(ReadLen(r, b))
  <1>1. CASE b > MaxPayload
    <2>1. ReadLen(r, b) = Idle(r)
      BY <1>1, Constants DEF ReadLen
    <2> QED
      BY <2>1, IdleBegun
  <1>2. CASE ~(b > MaxPayload)
    <2>1. r.type \in Bytes /\ r.checksum = r.type /\ b \in Nat /\ SOF0 \in Bytes /\ SOF1 \in Bytes
      BY Constants, ByteAssumption DEF Receivers, Summed
    <2> DEFINE x == Mix(r.checksum, b)
               t == IF b = 0 THEN "READ_CHECKSUM" ELSE "READ_PAYLOAD"
               m == [r EXCEPT !.len = b, !.payload = <<>>, !.checksum = x, !.state = t]
    <2>2. x = SumOf(r.type, b, <<>>)
      BY <2>1, SumStarts
    <2>3. ReadLen(r, b) = m
      BY <1>2 DEF ReadLen, Receivers
    <2> HIDE DEF x
    <2>4. /\ m.len = b /\ m.payload = <<>> /\ m.state \in {"READ_PAYLOAD", "READ_CHECKSUM"}
          /\ m.type = r.type /\ m.checksum = x
      BY DEF Receivers
    <2> HIDE DEF m
    <2>5. Summed(m)
      BY <2>2, <2>4 DEF Summed
    <2>6. Begun(m) = <<SOF0, SOF1, r.type, b>> \o <<>>
      BY <2>4, BegunIs
    <2>7. <<SOF0, SOF1, r.type, b>> \o <<>> = <<SOF0, SOF1, r.type, b>>
      BY <2>1
    <2>8. Append(Begun(r), b) = <<SOF0, SOF1, r.type, b>>
      <3>1. Begun(r) = <<SOF0, SOF1, r.type>>
        BY BegunIs
      <3>2. Append(<<SOF0, SOF1, r.type>>, b) = <<SOF0, SOF1, r.type, b>>
        <4>1. SOF0 \in Bytes /\ SOF1 \in Bytes /\ r.type \in Bytes
          BY <2>1
        <4> QED
          BY <4>1, ThirdThenByte, Zenon
      <3> QED
        BY <3>1, <3>2
    <2> QED
      BY <2>3, <2>5, <2>6, <2>7, <2>8
  <1> QED
    BY <1>1, <1>2

LEMMA PayloadByteBegun ==
  ASSUME NEW r \in Receivers, Bounded(r), Summed(r), r.state = "READ_PAYLOAD", NEW b \in Bytes
  PROVE  /\ Begun(ReadPayload(r, b)) = Append(Begun(r), b)
         /\ Summed(ReadPayload(r, b))
  <1> DEFINE p == Append(r.payload, b)
             x == Mix(r.checksum, b)
             t == IF Len(p) >= r.len THEN "READ_CHECKSUM" ELSE "READ_PAYLOAD"
             m == [r EXCEPT !.payload = p, !.checksum = x, !.state = t]
             h == <<SOF0, SOF1, r.type, r.len>>
  <1>1. /\ r.payload \in Seq(Bytes) /\ r.type \in Bytes /\ r.len \in Bytes
        /\ SOF0 \in Bytes /\ SOF1 \in Bytes
    BY ByteAssumption DEF Receivers
  <1>2. x = SumOf(r.type, r.len, p)
    BY <1>1, SumGoesOn DEF Summed
  <1>3. ReadPayload(r, b) = m
    BY DEF ReadPayload, Receivers
  <1>4. h \in Seq(Bytes)
    BY <1>1
  <1>5. t \in {"READ_PAYLOAD", "READ_CHECKSUM"}
    OBVIOUS
  <1>6. h \o p = Append(h \o r.payload, b)
    <2> HIDE DEF h
    <2> QED
      BY <1>1, <1>4, AppendToConcat
  <1>7. Begun(r) = h \o r.payload
    BY BegunIs
  <1> HIDE DEF p, x, t
  <1>8. m.payload = p /\ m.checksum = x /\ m.state = t /\ m.type = r.type /\ m.len = r.len
    BY DEF Receivers
  <1> HIDE DEF m
  <1>9. Begun(m) = h \o p
    BY <1>5, <1>8, BegunIs
  <1> HIDE DEF h
  <1>10. Summed(m)
    BY <1>2, <1>5, <1>8 DEF Summed
  <1> QED
    BY <1>3, <1>6, <1>7, <1>9, <1>10

LEMMA FrameByteBegun ==
  ASSUME NEW r \in Receivers, Bounded(r), Summed(r), NEW b \in Bytes
  PROVE  /\ Begun(FeedFrameByte(r, b)) \in {<<>>, Append(Begun(r), b)}
         /\ Summed(FeedFrameByte(r, b))
  <1> DEFINE m == FeedFrameByte(r, b)
  <1>0. SOF0 \in Bytes /\ SOF1 \in Bytes /\ r.type \in Bytes
    BY ByteAssumption DEF Receivers
  <1>1. CASE r.state = "WAIT_SOF0"
    <2>1. Begun(r) = <<>>
      BY <1>1, BegunIs
    <2>2. CASE b = SOF0
      <3>1. m.state = "WAIT_SOF1"
        BY <1>1, <2>2 DEF FeedFrameByte, Receivers
      <3> HIDE DEF m
      <3>2. Begun(m) = <<SOF0>> /\ Summed(m)
        BY <3>1, BegunIs DEF Summed
      <3>3. Append(<<>>, b) = <<SOF0>>
        BY <2>2
      <3> QED
        BY <2>1, <3>2, <3>3 DEF m
    <2>3. CASE b # SOF0
      <3>1. m = r
        BY <1>1, <2>3 DEF FeedFrameByte
      <3> QED
        BY <2>1, <3>1
    <2> QED
      BY <2>2, <2>3
  <1>2. CASE r.state = "WAIT_SOF1"
    <2>1. CASE b = SOF1
      <3>1. m.state = "READ_TYPE"
        BY <1>2, <2>1 DEF FeedFrameByte, Receivers
      <3>2. Begun(r) = <<SOF0>>
        BY <1>2, BegunIs
      <3> HIDE DEF m
      <3>3. Begun(m) = <<SOF0, SOF1>> /\ Summed(m)
        BY <3>1, BegunIs DEF Summed
      <3>4. Append(<<SOF0>>, b) = <<SOF0, SOF1>>
        BY <1>0, <2>1, FirstThenByte, Zenon
      <3> QED
        BY <3>2, <3>3, <3>4 DEF m
    <2>2. CASE b # SOF1
      BY <1>2, <2>2, IdleBegun DEF FeedFrameByte
    <2> QED
      BY <2>1, <2>2
  <1>3. CASE r.state = "READ_TYPE"
    <2>1. m.state = "READ_LEN" /\ m.type = b /\ m.checksum = b
      BY <1>3 DEF FeedFrameByte, Receivers
    <2>2. Begun(r) = <<SOF0, SOF1>>
      BY <1>3, BegunIs
    <2> HIDE DEF m
    <2>3. Begun(m) = <<SOF0, SOF1, b>> /\ Summed(m)
      BY <2>1, BegunIs DEF Summed
    <2>4. Append(<<SOF0, SOF1>>, b) = <<SOF0, SOF1, b>>
      BY <1>0, SecondThenByte, Zenon
    <2> QED
      BY <2>2, <2>3, <2>4 DEF m
  <1>4. CASE r.state = "READ_LEN"
    BY <1>4, LenByteBegun DEF FeedFrameByte
  <1>5. CASE r.state = "READ_PAYLOAD"
    BY <1>5, PayloadByteBegun DEF FeedFrameByte
  <1>6. CASE r.state = "READ_CHECKSUM"
    BY <1>6, IdleBegun DEF FeedFrameByte
  <1> QED
    BY <1>1, <1>2, <1>3, <1>4, <1>5, <1>6 DEF Receivers, States

-----------------------------------------------------------------------------
\* What the history ends with while a frame comes in, and when it is accepted.
HeardInv ==
  /\ Summed(rx)
  /\ EndsWith(heard, Begun(rx))
  /\ taken # NoFrame => Encode(taken) \in Seq(Bytes) /\ EndsWith(heard, Encode(taken))

LEMMA Encoding ==
  ASSUME NEW f \in Frames, Len(f.payload) \in Bytes
  PROVE  /\ Encode(f) \in Seq(Bytes)
         /\ <<SOF0, SOF1, f.type, Len(f.payload)>> \o f.payload \in Seq(Bytes)
         /\ Checksum(f) \in Bytes
         /\ Encode(f) = Append(<<SOF0, SOF1, f.type, Len(f.payload)>> \o f.payload, Checksum(f))
  <1> DEFINE h == <<SOF0, SOF1, f.type, Len(f.payload)>>
  <1>1. SOF0 \in Bytes /\ SOF1 \in Bytes /\ f.type \in Bytes /\ f.payload \in Seq(Bytes)
    BY ByteAssumption DEF Frames
  <1>2. h \in Seq(Bytes)
    BY <1>1
  <1>3. Encode(f) = h \o f.payload \o <<Checksum(f)>>
    BY DEF Encode
  <1> HIDE DEF h
  <1>4. h \o f.payload \in Seq(Bytes)
    BY <1>1, <1>2, ConcatProperties
  <1>5. Checksum(f) \in Bytes
    BY <1>1, ChecksumIsSum, SumTyped
  <1>6. <<Checksum(f)>> \in Seq(Bytes)
    BY <1>5
  <1>7. Append(h \o f.payload, Checksum(f)) = h \o f.payload \o <<Checksum(f)>>
    BY <1>4, <1>5, AppendIsConcat
  <1>8. Append(h \o f.payload, Checksum(f)) \in Seq(Bytes)
    BY <1>4, <1>5, AppendProperties
  <1> QED
    BY <1>3, <1>4, <1>5, <1>7, <1>8 DEF h

\* The receiver accepts exactly when the bytes of the frame, with this one,
\* are the encoding of what it hands over.
LEMMA AcceptedIsEncoded ==
  ASSUME NEW r \in Receivers, Bounded(r), Summed(r), NEW b \in Bytes, Accepts(r, b)
  PROVE  /\ Append(Begun(r), b) = Encode([type |-> r.type, payload |-> r.payload])
         /\ Encode([type |-> r.type, payload |-> r.payload]) \in Seq(Bytes)
  <1> DEFINE f == [type |-> r.type, payload |-> r.payload]
  <1>1. f \in Frames /\ f.type = r.type /\ f.payload = r.payload
    BY DEF Receivers, Frames
  <1>2. r.state = "READ_CHECKSUM" /\ b = r.checksum /\ Len(r.payload) = r.len /\ r.len \in Bytes
    BY DEF Accepts, Bounded, Receivers
  <1> HIDE DEF f
  <1>3. b = Checksum(f)
    BY <1>1, <1>2, ChecksumIsSum DEF Summed
  <1>4. Begun(r) = <<SOF0, SOF1, f.type, Len(f.payload)>> \o f.payload
    BY <1>1, <1>2, BegunIs
  <1>5. /\ Encode(f) = Append(<<SOF0, SOF1, f.type, Len(f.payload)>> \o f.payload, Checksum(f))
        /\ Encode(f) \in Seq(Bytes)
    BY <1>1, <1>2, Encoding
  <1> QED
    BY <1>3, <1>4, <1>5 DEF f

LEMMA ReceiveHeard ==
  ASSUME IInv, HeardInv, NEW b \in Bytes, Receive(b)
  PROVE  HeardInv'
  <1>1. rx \in Receivers /\ Bounded(rx) /\ Summed(rx) /\ heard \in Seq(Bytes)
    BY DEF IInv, TypeOK, BufferBounds, Receivers, Bounded, HeardInv
  <1>2. Begun(rx) \in Seq(Bytes) /\ Len(Begun(rx)) <= MaxPayload + 4
    BY <1>1, BegunTyped
  <1>3. EndsWith(heard', Append(Begun(rx), b))
    BY <1>1, <1>2, HistoryGrows DEF HeardInv, Receive
  <1>4. heard' \in Seq(Bytes) /\ EndsWith(heard', <<>>)
    <2>1. heard' \in Seq(Bytes)
      BY <1>1, HeardTyped DEF Receive
    <2> QED
      BY <2>1, LenProperties DEF EndsWith
  <1>5. Summed(rx') /\ Begun(rx') \in {<<>>, Append(Begun(rx), b)}
    <2>1. CASE InFrame(rx, b)
      BY <1>1, <2>1, FrameByteBegun DEF Receive
    <2>2. CASE ~InFrame(rx, b)
      <3>1. rx' = FeedLineByte(rx, b) /\ rx.state = "WAIT_SOF0"
        BY <2>2 DEF InFrame, Receive
      <3>2. rx'.state = "WAIT_SOF0"
        BY <1>1, <3>1 DEF FeedLineByte, Receivers
      <3>3. Begun(rx') = <<>>
        BY <3>2, BegunIs
      <3> QED
        BY <3>2, <3>3 DEF Summed
    <2> QED
      BY <2>1, <2>2
  <1>6. EndsWith(heard', Begun(rx'))
    BY <1>3, <1>4, <1>5
  <1>7. ASSUME taken' # NoFrame
        PROVE  Encode(taken') \in Seq(Bytes) /\ EndsWith(heard', Encode(taken'))
    <2>1. Accepts(rx, b) /\ taken' = [type |-> rx.type, payload |-> rx.payload]
      BY <1>7 DEF Receive
    <2> QED
      BY <1>1, <1>3, <2>1, AcceptedIsEncoded
  <1> QED
    BY <1>5, <1>6, <1>7 DEF HeardInv

LEMMA InitHeard ==
  ASSUME Init
  PROVE  HeardInv
  <1>1. rx.state = "WAIT_SOF0" /\ heard = <<>> /\ taken = NoFrame
    BY DEF Init
  <1>2. Begun(rx) = <<>>
    BY <1>1, BegunIs
  <1> QED
    BY <1>1, <1>2 DEF HeardInv, Summed, EndsWith

THEOREM HeardInvariance == Spec => []HeardInv
  <1>1. Init => HeardInv
    BY InitHeard
  <1>2. IInv /\ HeardInv /\ [Next]_vars => HeardInv'
    <2> SUFFICES ASSUME IInv, HeardInv, [Next]_vars PROVE HeardInv'
      OBVIOUS
    <2>1. CASE Next
      BY <2>1, ReceiveHeard DEF Next
    <2>2. CASE UNCHANGED vars
      BY <2>2 DEF vars, HeardInv
    <2> QED
      BY <2>1, <2>2
  <1> QED
    BY <1>1, <1>2, Invariance, PTL DEF Spec

\* feed_frame_byte accepts a frame only if the bytes that came last are
\* exactly what send_frame would have sent for it.
THEOREM AcceptedWasHeard == Spec => []AcceptsWhatWasHeard
  <1>1. IInv /\ HeardInv => AcceptsWhatWasHeard
    <2> SUFFICES ASSUME IInv, HeardInv, taken # NoFrame
                 PROVE  LET n == Len(Encode(taken))
                        IN  /\ Len(heard) >= n
                            /\ SubSeq(heard, Len(heard) - n + 1, Len(heard)) = Encode(taken)
      BY DEF AcceptsWhatWasHeard
    <2> DEFINE e == Encode(taken)
    <2>1. e \in Seq(Bytes) /\ EndsWith(heard, e) /\ heard \in Seq(Bytes)
      BY DEF IInv, TypeOK, HeardInv
    <2> HIDE DEF e
    <2>2. /\ Len(e) \in Nat /\ Len(heard) \in Nat /\ Len(heard) >= Len(e)
          /\ \A i \in 1 .. Len(heard) : heard[i] \in Bytes
      BY <2>1, LenProperties, ElementOfSeq DEF EndsWith
    <2> DEFINE m == Len(heard) - Len(e) + 1
               w == SubSeq(heard, m, Len(heard))
    <2>3. /\ w \in Seq(Bytes) /\ Len(w) = Len(e)
          /\ \A i \in 1 .. Len(e) : w[i] = heard[Len(heard) - Len(e) + i]
      <3>1. m \in Int /\ Len(heard) \in Int /\ \A i \in m .. Len(heard) : heard[i] \in Bytes
        BY <2>2
      <3>2. Len(heard) - m + 1 = Len(e) /\ \A i \in 1 .. Len(e) : m + i - 1 = Len(heard) - Len(e) + i
        BY <2>2
      <3>3. m <= Len(heard) \/ Len(e) = 0
        BY <2>2
      <3>4. m <= Len(heard) => Len(heard) - m + 1 = Len(e)
        BY <2>2
      <3> HIDE DEF m
      <3>5. /\ w \in Seq(Bytes)
            /\ Len(w) = IF m <= Len(heard) THEN Len(heard) - m + 1 ELSE 0
            /\ \A i \in 1 .. Len(heard) - m + 1 : w[i] = heard[m + i - 1]
        BY <3>1, SubSeqProperties
      <3> QED
        BY <2>2, <3>2, <3>3, <3>5 DEF m
    <2> HIDE DEF m, w
    <2>4. w = e
      BY <2>1, <2>3, SeqEqual DEF EndsWith
    <2> QED
      BY <2>2, <2>4 DEF e, m, w
  <1> QED
    BY <1>1, Invariance, HeardInvariance, PTL

-----------------------------------------------------------------------------
\* The frame that is being sent: what the receiver has and what is still on
\* the line make up its encoding, or it has been accepted.
Underway ==
  \/ wire = <<>> /\ accepted = 1 /\ rx.state = "WAIT_SOF0"
  \/ wire # <<>> /\ accepted = 0 /\ Begun(rx) \o wire = Encode(sent)

LinkInv ==
  /\ IInv /\ HeardInv
  /\ wire \in Seq(Bytes)
  /\ losses \in Nat
  /\ sent # NoFrame => sent \in Traffic
  /\ losses = 0 /\ sent = NoFrame => wire \in Seq(Bytes \ {SOF0}) /\ rx.state = "WAIT_SOF0"
  /\ losses = 0 /\ sent # NoFrame => Underway

LEMMA TrafficEncoded ==
  ASSUME NEW f \in Traffic
  PROVE  /\ f \in Frames /\ f # NoFrame
         /\ Encode(f) \in Seq(Bytes)
         /\ Len(f.payload) \in Nat /\ Len(f.payload) <= MaxPayload
         /\ f.payload \in Seq(Bytes) /\ f.type \in Bytes
         /\ Len(Encode(f)) = Len(f.payload) + 5
         /\ Encode(f)[1] = SOF0 /\ Encode(f)[2] = SOF1
         /\ Encode(f)[3] = f.type /\ Encode(f)[4] = Len(f.payload)
         /\ \A i \in 1 .. Len(f.payload) : Encode(f)[4 + i] = f.payload[i]
         /\ Encode(f)[Len(f.payload) + 5] = Checksum(f)
  <1> DEFINE h == <<SOF0, SOF1, f.type, Len(f.payload)>>
             g == h \o f.payload
             n == Len(f.payload)
  <1>1. /\ f \in Frames /\ f # NoFrame /\ n \in Bytes /\ n <= MaxPayload
        /\ f.type \in Bytes /\ f.payload \in Seq(Bytes) /\ n \in Nat
    BY TrafficAssumption, NoFrameAssumption, LenProperties DEF Frames
  <1>2. SOF0 \in Bytes /\ SOF1 \in Bytes
    BY ByteAssumption
  <1>3. h \in Seq(Bytes) /\ Len(h) = 4 /\ h[1] = SOF0 /\ h[2] = SOF1 /\ h[3] = f.type /\ h[4] = n
    BY <1>1, <1>2
  <1>4. Encode(f) \in Seq(Bytes) /\ Checksum(f) \in Bytes /\ g \in Seq(Bytes)
        /\ Encode(f) = Append(g, Checksum(f))
    BY <1>1, Encoding
  <1> HIDE DEF h
  <1>5. Len(g) = n + 4 /\ (\A i \in 1 .. n + 4 : g[i] = IF i <= 4 THEN h[i] ELSE f.payload[i - 4])
    <2>1. Len(g) = Len(h) + Len(f.payload)
          /\ \A i \in 1 .. Len(h) + Len(f.payload) :
               g[i] = IF i <= Len(h) THEN h[i] ELSE f.payload[i - Len(h)]
      BY <1>1, <1>3, ConcatProperties
    <2> QED
      BY <1>1, <1>3, <2>1
  <1> HIDE DEF g
  <1>6. /\ Len(Encode(f)) = Len(g) + 1 /\ Encode(f)[Len(g) + 1] = Checksum(f)
        /\ \A i \in 1 .. Len(g) : Encode(f)[i] = g[i]
    BY <1>4, AppendProperties
  <1>7. /\ Encode(f)[1] = SOF0 /\ Encode(f)[2] = SOF1
        /\ Encode(f)[3] = f.type /\ Encode(f)[4] = n
        /\ \A i \in 1 .. n : Encode(f)[4 + i] = f.payload[i]
    BY <1>1, <1>3, <1>5, <1>6
  <1> QED
    BY <1>1, <1>4, <1>5, <1>6, <1>7

\* The next byte, and what it leaves.
LEMMA Split ==
  ASSUME NEW e \in Seq(Bytes), NEW w \in Seq(Bytes), w # <<>>
  PROVE  /\ Head(w) \in Bytes /\ Tail(w) \in Seq(Bytes)
         /\ Len(e) \in Nat /\ Len(w) \in Nat /\ Len(e \o w) = Len(e) + Len(w)
         /\ Len(Tail(w)) = Len(w) - 1 /\ (Tail(w) = <<>> <=> Len(w) = 1)
         /\ (e \o w)[Len(e) + 1] = Head(w)
         /\ \A i \in 1 .. Len(e) : (e \o w)[i] = e[i]
         /\ Append(e, Head(w)) \o Tail(w) = e \o w
  <1> DEFINE b == Head(w)
             t == Tail(w)
             c == e \o w
  <1>1. b \in Bytes /\ t \in Seq(Bytes) /\ Len(t) = Len(w) - 1 /\ b = w[1]
        /\ \A i \in 1 .. Len(t) : t[i] = w[i + 1]
    BY HeadTailProperties
  <1>2. Len(e) \in Nat /\ Len(w) \in Nat /\ Len(w) >= 1
    BY LenProperties, EmptySeq
  <1>3. /\ c \in Seq(Bytes) /\ Len(c) = Len(e) + Len(w)
        /\ \A i \in 1 .. Len(e) + Len(w) : c[i] = IF i <= Len(e) THEN e[i] ELSE w[i - Len(e)]
    BY ConcatProperties
  <1>4. t = <<>> <=> Len(w) = 1
    <2> HIDE DEF t
    <2>1. t = <<>> => Len(t) = 0
      OBVIOUS
    <2>2. t # <<>> => Len(t) # 0
      BY <1>1, EmptySeq
    <2> QED
      BY <1>1, <1>2, <2>1, <2>2
  <1> DEFINE d == Append(e, b)
  <1>5. /\ d \in Seq(Bytes) /\ Len(d) = Len(e) + 1 /\ d[Len(e) + 1] = b
        /\ \A i \in 1 .. Len(e) : d[i] = e[i]
    BY <1>1, AppendProperties
  <1> HIDE DEF b, t, c, d
  <1> DEFINE u == d \o t
  <1>6. /\ u \in Seq(Bytes) /\ Len(u) = Len(d) + Len(t)
        /\ \A i \in 1 .. Len(d) + Len(t) : u[i] = IF i <= Len(d) THEN d[i] ELSE t[i - Len(d)]
    BY <1>1, <1>5, ConcatProperties
  <1> HIDE DEF u
  <1>7. Len(u) = Len(c)
    BY <1>1, <1>2, <1>3, <1>5, <1>6
  <1>8. ASSUME NEW i \in 1 .. Len(u) PROVE u[i] = c[i]
    <2> DEFINE p == Len(e)
               q == Len(w)
    <2>1. i \in 1 .. p + q /\ i \in 1 .. Len(d) + Len(t) /\ p \in Nat /\ q \in Nat /\ q >= 1
      BY <1>2, <1>3, <1>6, <1>7
    <2>2. Len(d) = p + 1 /\ Len(t) = q - 1
      BY <1>1, <1>5
    <2>3. u[i] = IF i <= p + 1 THEN d[i] ELSE t[i - (p + 1)]
      BY <1>6, <2>1, <2>2
    <2>4. c[i] = IF i <= p THEN e[i] ELSE w[i - p]
      BY <1>3, <2>1
    <2>5. b = w[1] /\ d[p + 1] = b /\ \A j \in 1 .. p : d[j] = e[j]
      BY <1>1, <1>5
    <2>6. \A j \in 1 .. q - 1 : t[j] = w[j + 1]
      BY <1>1, <2>2
    <2> HIDE DEF p, q
    <2>7. CASE i <= p
      BY <2>1, <2>3, <2>4, <2>5, <2>7
    <2>8. CASE i = p + 1
      <3>1. i - p = 1 /\ ~(i <= p) /\ i <= p + 1
        BY <2>1, <2>8
      <3> QED
        BY <2>3, <2>4, <2>5, <2>8, <3>1
    <2>9. CASE i > p + 1
      <3>1. i - (p + 1) \in 1 .. q - 1 /\ (i - (p + 1)) + 1 = i - p /\ ~(i <= p) /\ ~(i <= p + 1)
        BY <2>1, <2>9
      <3> QED
        BY <2>3, <2>4, <2>6, <3>1
    <2> QED
      BY <2>1, <2>7, <2>8, <2>9
  <1>9. u = c
    BY <1>3, <1>6, <1>7, <1>8, SeqEqual
  <1>10. c[Len(e) + 1] = b
    BY <1>1, <1>2, <1>3
  <1>11. \A i \in 1 .. Len(e) : c[i] = e[i]
    BY <1>2, <1>3
  <1> QED
    BY <1>1, <1>2, <1>3, <1>4, <1>9, <1>10, <1>11 DEF b, t, c, d, u

LEMMA Waiting ==
  ASSUME NEW r \in Receivers, Bounded(r), Begun(r) = <<>>
  PROVE  r.state = "WAIT_SOF0"
  <1>1. /\ r.state \in States /\ r.type \in Bytes /\ r.len \in Bytes /\ r.payload \in Seq(Bytes)
        /\ SOF0 \in Bytes /\ SOF1 \in Bytes
    BY ByteAssumption DEF Receivers
  <1>2. <<SOF0>> # <<>> /\ <<SOF0, SOF1>> # <<>> /\ <<SOF0, SOF1, r.type>> # <<>>
    OBVIOUS
  <1>3. <<SOF0, SOF1, r.type, r.len>> \o r.payload # <<>>
    <2> DEFINE h == <<SOF0, SOF1, r.type, r.len>>
    <2>1. h \in Seq(Bytes) /\ Len(h) = 4
      BY <1>1
    <2> HIDE DEF h
    <2>2. Len(h \o r.payload) = Len(h) + Len(r.payload) /\ Len(r.payload) \in Nat
      BY <1>1, <2>1, ConcatProperties, LenProperties
    <2>3. Len(h \o r.payload) # 0
      BY <2>1, <2>2
    <2>4. h \o r.payload # <<>>
      BY <2>3, EmptySeq
    <2> QED
      BY <2>4 DEF h
  <1> QED
    BY <1>1, <1>2, <1>3, BegunIs DEF States

\* As long as a frame's own bytes come in the receiver does not give it up.
LEMMA OwnByte ==
  ASSUME NEW f \in Traffic, NEW r \in Receivers, Bounded(r), Summed(r),
         NEW w \in Seq(Bytes), w # <<>>, Begun(r) \o w = Encode(f)
  PROVE  /\ InFrame(r, Head(w))
         /\ Accepts(r, Head(w)) <=> Tail(w) = <<>>
         /\ Accepts(r, Head(w)) => FeedFrameByte(r, Head(w)).state = "WAIT_SOF0"
         /\ ~Accepts(r, Head(w)) => Begun(FeedFrameByte(r, Head(w))) \o Tail(w) = Encode(f)
  <1> DEFINE b == Head(w)
             m == FeedFrameByte(r, b)
             e == Begun(r)
             c == Encode(f)
             n == Len(f.payload)
  <1>1. e \in Seq(Bytes) /\ r.state \in States /\ r.payload \in Seq(Bytes)
    BY BegunTyped DEF Receivers
  <1>2. /\ b \in Bytes /\ Tail(w) \in Seq(Bytes)
        /\ Len(e) \in Nat /\ Len(c) = Len(e) + Len(w) /\ Len(w) \in Nat
        /\ (Tail(w) = <<>> <=> Len(w) = 1)
        /\ c[Len(e) + 1] = b
        /\ \A i \in 1 .. Len(e) : c[i] = e[i]
        /\ Append(e, b) \o Tail(w) = c
    <2> HIDE DEF e
    <2>1. e \o w = c
      BY DEF e
    <2> HIDE DEF c
    <2> QED
      BY <1>1, <2>1, Split
  <1>3. /\ n \in Nat /\ n <= MaxPayload /\ MaxPayload \in Nat /\ Len(c) = n + 5
        /\ c[1] = SOF0 /\ c[2] = SOF1 /\ c[3] = f.type /\ c[4] = n
        /\ (\A i \in 1 .. n : c[4 + i] = f.payload[i])
        /\ c[n + 5] = Checksum(f) /\ f.payload \in Seq(Bytes)
    BY TrafficEncoded, Constants
  <1>4. SOF0 \in Bytes /\ SOF1 \in Bytes
    BY ByteAssumption
  <1>5. Begun(m) \in {<<>>, Append(e, b)}
    BY <1>2, FrameByteBegun
  <1>6. m \in Receivers /\ Bounded(m)
    BY <1>2, FrameByteBounded
  <1>7. m.state # "WAIT_SOF0" => Begun(m) \o Tail(w) = c
    BY <1>2, <1>5, <1>6, Waiting
  <1> HIDE DEF b, c, n
  <1>16. n \in Nat /\ Len(e) \in Nat /\ Len(w) \in Nat /\ Len(e) + Len(w) = n + 5
    BY <1>2, <1>3
  <1>8. CASE r.state = "WAIT_SOF0"
    <2>1. e = <<>>
      BY <1>8, BegunIs
    <2>2. b = SOF0
      BY <1>2, <1>3, <2>1
    <2>3. m.state = "WAIT_SOF1"
      BY <1>8, <2>2 DEF FeedFrameByte, Receivers
    <2>4. Len(w) # 1
      BY <1>2, <1>3, <2>1
    <2> QED
      BY <1>2, <1>7, <1>8, <2>2, <2>3, <2>4 DEF Accepts, InFrame, b, c
  <1>9. CASE r.state = "WAIT_SOF1"
    <2>1. e = <<SOF0>>
      BY <1>9, BegunIs
    <2>2. Len(e) = 1
      BY <1>4, <2>1
    <2> HIDE DEF e
    <2>3. b = SOF1 /\ Len(w) # 1
      <3>1. c[Len(e) + 1] = b /\ c[2] = SOF1
        BY <1>2, <1>3
      <3>2. Len(e) + 1 = 2
        BY <2>2
      <3> QED
        BY <1>16, <2>2, <3>1, <3>2
    <2>4. m.state = "READ_TYPE"
      BY <1>9, <2>3 DEF FeedFrameByte, Receivers
    <2> QED
      BY <1>2, <1>7, <1>9, <2>3, <2>4 DEF Accepts, InFrame, b, c
  <1>10. CASE r.state = "READ_TYPE"
    <2>1. e = <<SOF0, SOF1>>
      BY <1>10, BegunIs
    <2>2. Len(e) = 2
      BY <1>4, <2>1
    <2> HIDE DEF e
    <2>3. Len(w) # 1
      BY <1>16, <2>2
    <2>4. m.state = "READ_LEN"
      BY <1>10 DEF FeedFrameByte, Receivers
    <2> QED
      BY <1>2, <1>7, <1>10, <2>3, <2>4 DEF Accepts, InFrame, b, c
  <1>11. CASE r.state = "READ_LEN"
    <2>1. e = <<SOF0, SOF1, r.type>> /\ r.type \in Bytes
      BY <1>11, BegunIs DEF Receivers
    <2>2. Len(e) = 3
      BY <1>4, <2>1
    <2> HIDE DEF e
    <2>3. b = n /\ Len(w) # 1
      <3>1. c[Len(e) + 1] = b /\ c[4] = n
        BY <1>2, <1>3
      <3>2. Len(e) + 1 = 4
        BY <2>2
      <3> QED
        BY <1>16, <2>2, <3>1, <3>2
    <2>4. m = ReadLen(r, b)
      BY <1>11 DEF FeedFrameByte
    <2>5. m.state # "WAIT_SOF0"
      BY <1>3, <2>3, <2>4 DEF ReadLen, Receivers
    <2> QED
      BY <1>2, <1>7, <1>11, <2>3, <2>5 DEF Accepts, InFrame, b, c
  <1>12. ASSUME r.state \in {"READ_PAYLOAD", "READ_CHECKSUM"}
         PROVE  /\ Len(e) = 4 + Len(r.payload) /\ Len(r.payload) \in Nat
                /\ r.type = f.type /\ r.len = n
                /\ \A i \in 1 .. Len(r.payload) : r.payload[i] = c[4 + i]
    <2> DEFINE h == <<SOF0, SOF1, r.type, r.len>>
    <2>1. r.type \in Bytes /\ r.len \in Bytes /\ Len(r.payload) \in Nat
      BY <1>1, LenProperties DEF Receivers
    <2>2. h \in Seq(Bytes) /\ Len(h) = 4 /\ h[3] = r.type /\ h[4] = r.len
      BY <1>4, <2>1
    <2>3. e = h \o r.payload
      BY <1>12, BegunIs
    <2> HIDE DEF h, e
    <2>4. /\ Len(e) = Len(h) + Len(r.payload)
          /\ \A i \in 1 .. Len(h) + Len(r.payload) :
               e[i] = IF i <= Len(h) THEN h[i] ELSE r.payload[i - Len(h)]
      BY <1>1, <2>2, <2>3, ConcatProperties
    <2>5. Len(e) = 4 + Len(r.payload)
      BY <2>2, <2>4
    <2>6. e[3] = r.type /\ e[4] = r.len /\ \A i \in 1 .. Len(r.payload) : e[4 + i] = r.payload[i]
      <3>1. 3 \in 1 .. Len(h) + Len(r.payload) /\ 4 \in 1 .. Len(h) + Len(r.payload)
        BY <2>1, <2>2
      <3>2. e[3] = r.type /\ e[4] = r.len
        BY <2>2, <2>4, <3>1
      <3>3. ASSUME NEW i \in 1 .. Len(r.payload) PROVE e[4 + i] = r.payload[i]
        <4>1. 4 + i \in 1 .. Len(h) + Len(r.payload) /\ ~(4 + i <= Len(h)) /\ (4 + i) - Len(h) = i
          BY <2>1, <2>2
        <4> QED
          BY <2>4, <4>1
      <3> QED
        BY <3>2, <3>3
    <2>7. c[3] = e[3] /\ c[4] = e[4] /\ \A i \in 1 .. Len(r.payload) : c[4 + i] = e[4 + i]
      <3>1. \A i \in 1 .. Len(e) : c[i] = e[i]
        BY <1>2
      <3>2. 3 \in 1 .. Len(e) /\ 4 \in 1 .. Len(e) /\ \A i \in 1 .. Len(r.payload) : 4 + i \in 1 .. Len(e)
        BY <2>1, <2>5
      <3> QED
        BY <3>1, <3>2
    <2> QED
      BY <1>3, <2>1, <2>5, <2>6, <2>7
  <1>13. CASE r.state = "READ_PAYLOAD"
    <2>1. Len(e) = 4 + Len(r.payload) /\ r.len = n /\ Len(r.payload) < r.len /\ Len(r.payload) \in Nat
      BY <1>12, <1>13 DEF Bounded
    <2> HIDE DEF e
    <2>2. Len(w) # 1
      <3>1. Len(e) = 4 + Len(r.payload) /\ Len(r.payload) < n /\ Len(r.payload) \in Nat
        BY <2>1
      <3> QED
        BY <1>16, <3>1
    <2>3. m = ReadPayload(r, b)
      BY <1>13 DEF FeedFrameByte
    <2>4. m.state # "WAIT_SOF0"
      BY <1>13, <2>3 DEF ReadPayload, Receivers
    <2> QED
      BY <1>2, <1>7, <1>13, <2>2, <2>4 DEF Accepts, InFrame, b, c
  <1>14. CASE r.state = "READ_CHECKSUM"
    <2>1. /\ Len(e) = 4 + n /\ Len(r.payload) = n /\ r.len = n /\ r.type = f.type
          /\ \A i \in 1 .. n : r.payload[i] = f.payload[i]
      BY <1>3, <1>12, <1>14 DEF Bounded
    <2>2. r.payload = f.payload
      BY <1>1, <1>3, <2>1, SeqEqual DEF n
    <2> HIDE DEF e
    <2>3. Len(w) = 1 /\ b = Checksum(f)
      <3>1. c[Len(e) + 1] = b /\ c[n + 5] = Checksum(f)
        BY <1>2, <1>3
      <3>2. Len(e) = 4 + n
        BY <2>1
      <3> DEFINE k == Len(e)
                 j == Len(w)
      <3>3. n \in Nat /\ k \in Nat /\ j \in Nat /\ k + j = n + 5 /\ k = 4 + n
        BY <1>16, <3>2
      <3> HIDE DEF k, j
      <3>4. j = 1 /\ k + 1 = n + 5
        BY <3>3
      <3>5. Len(w) = 1
        BY <3>4 DEF j
      <3>6. Len(e) + 1 = n + 5
        BY <3>4 DEF k
      <3> QED
        BY <3>1, <3>5, <3>6
    <2>4. b = r.checksum
      BY <1>14, <2>1, <2>2, <2>3, ChecksumIsSum DEF Summed, n
    <2>5. m.state = "WAIT_SOF0"
      BY <1>14 DEF FeedFrameByte, Idle, Receivers
    <2> QED
      BY <1>2, <1>14, <2>3, <2>4, <2>5 DEF Accepts, InFrame, b, c
  <1> QED
    BY <1>1, <1>8, <1>9, <1>10, <1>11, <1>13, <1>14 DEF States

\* Outside a frame a text line's byte does not start one.
LEMMA LineByteWaits ==
  ASSUME IInv, rx.state = "WAIT_SOF0", NEW b \in Bytes, b # SOF0, Receive(b)
  PROVE  rx'.state = "WAIT_SOF0"
  <1>1. rx \in Receivers
    BY DEF IInv, TypeOK, Receivers
  <1>2. rx' = FeedLineByte(rx, b)
    BY DEF Receive, InFrame
  <1> QED
    BY <1>1, <1>2 DEF FeedLineByte, Receivers

LEMMA LinkTyped ==
  ASSUME LinkInv
  PROVE  /\ rx \in Receivers /\ Bounded(rx) /\ Summed(rx)
         /\ NoFrame \notin Traffic
  <1>1. NoFrame \notin Traffic
    BY TrafficAssumption, NoFrameAssumption
  <1> QED
    BY <1>1 DEF LinkInv, IInv, HeardInv, TypeOK, BufferBounds, Receivers, Bounded

LEMMA IdleLine ==
  ASSUME LinkInv, losses = 0, wire = <<>>
  PROVE  rx.state = "WAIT_SOF0"
  BY DEF LinkInv, Underway

LEMMA SendFrameSafe ==
  ASSUME LinkInv, NEW f \in Traffic, SendFrame(f)
  PROVE  LinkInv'
  <1>1. Encode(f) \in Seq(Bytes) /\ f # NoFrame /\ Len(Encode(f)) # 0
    BY TrafficEncoded
  <1>2. /\ wire' = Encode(f) /\ sent' = f /\ accepted' = 0 /\ losses' = losses
        /\ rx' = rx /\ taken' = taken /\ line' = line /\ heard' = heard /\ wire = <<>>
    BY DEF SendFrame, Put, vars
  <1>3. IInv' /\ HeardInv'
    BY <1>2 DEF LinkInv, IInv, TypeOK, BufferBounds, TakenFits, HeardInv
  <1>4. ASSUME losses' = 0 PROVE Underway'
    <2>1. Begun(rx) = <<>>
      BY <1>2, <1>4, IdleLine, BegunIs
    <2>2. <<>> \o Encode(f) = Encode(f)
      BY <1>1, ConcatEmptySeq
    <2>3. Encode(f) # <<>>
      BY <1>1, EmptySeq
    <2> QED
      BY <1>2, <2>1, <2>2, <2>3 DEF Underway
  <1> QED
    BY <1>1, <1>2, <1>3, <1>4 DEF LinkInv

LEMMA SendLineSafe ==
  ASSUME LinkInv, NEW l \in Lines, SendLine(l)
  PROVE  LinkInv'
  <1>1. l \in Seq(Bytes \ {SOF0})
    BY TrafficAssumption
  <1>2. l \in Seq(Bytes)
    BY <1>1, SeqMonotonic
  <1>3. /\ wire' = l /\ sent' = NoFrame /\ accepted' = 0 /\ losses' = losses
        /\ rx' = rx /\ taken' = taken /\ line' = line /\ heard' = heard /\ wire = <<>>
    BY DEF SendLine, Put, vars
  <1>4. IInv' /\ HeardInv'
    BY <1>3 DEF LinkInv, IInv, TypeOK, BufferBounds, TakenFits, HeardInv
  <1>5. losses' = 0 => rx'.state = "WAIT_SOF0"
    BY <1>3, IdleLine
  <1> QED
    BY <1>1, <1>2, <1>3, <1>4, <1>5 DEF LinkInv

LEMMA LoseByteSafe ==
  ASSUME LinkInv, LoseByte
  PROVE  LinkInv'
  <1>1. /\ wire' = Tail(wire) /\ sent' = sent /\ losses' = losses + 1
        /\ rx' = rx /\ taken' = taken /\ line' = line /\ heard' = heard /\ wire # <<>>
    BY DEF LoseByte, vars
  <1>2. IInv' /\ HeardInv'
    BY <1>1 DEF LinkInv, IInv, TypeOK, BufferBounds, TakenFits, HeardInv
  <1>3. wire' \in Seq(Bytes)
    BY <1>1, HeadTailProperties DEF LinkInv
  <1>4. losses' \in Nat /\ losses' # 0
    BY <1>1 DEF LinkInv
  <1> QED
    BY <1>1, <1>2, <1>3, <1>4 DEF LinkInv

LEMMA DeliverSafe ==
  ASSUME LinkInv, Deliver
  PROVE  LinkInv'
  <1> DEFINE b == Head(wire)
  <1>1. /\ wire \in Seq(Bytes) /\ wire # <<>> /\ Receive(b) /\ wire' = Tail(wire)
        /\ sent' = sent /\ losses' = losses
        /\ accepted' = IF taken' # NoFrame THEN accepted + 1 ELSE accepted
    BY DEF Deliver, LinkInv
  <1>2. b \in Bytes /\ Tail(wire) \in Seq(Bytes)
    BY <1>1, HeadTailProperties
  <1>3. IInv' /\ HeardInv'
    BY <1>1, <1>2, ReceiveBounded, ReceiveHeard DEF LinkInv
  <1>4. ASSUME losses = 0, sent = NoFrame
        PROVE  wire' \in Seq(Bytes \ {SOF0}) /\ rx'.state = "WAIT_SOF0"
    <2>1. wire \in Seq(Bytes \ {SOF0}) /\ rx.state = "WAIT_SOF0" /\ IInv
      BY <1>4 DEF LinkInv
    <2>2. b \in Bytes \ {SOF0} /\ Tail(wire) \in Seq(Bytes \ {SOF0})
      BY <1>1, <2>1, HeadTailProperties
    <2> QED
      BY <1>1, <2>1, <2>2, LineByteWaits
  <1>5. ASSUME losses = 0, sent # NoFrame
        PROVE  Underway'
    <2>1. sent \in Traffic /\ accepted = 0 /\ Begun(rx) \o wire = Encode(sent)
      BY <1>1, <1>5 DEF LinkInv, Underway
    <2>2. rx \in Receivers /\ Bounded(rx) /\ Summed(rx) /\ NoFrame \notin Frames
      BY LinkTyped, NoFrameAssumption
    <2>3. /\ InFrame(rx, b)
          /\ Accepts(rx, b) <=> Tail(wire) = <<>>
          /\ Accepts(rx, b) => FeedFrameByte(rx, b).state = "WAIT_SOF0"
          /\ ~Accepts(rx, b) => Begun(FeedFrameByte(rx, b)) \o Tail(wire) = Encode(sent)
      BY <1>1, <2>1, <2>2, OwnByte
    <2>4. rx' = FeedFrameByte(rx, b)
      BY <1>1, <2>3 DEF Receive
    <2>5. CASE Accepts(rx, b)
      <3>1. taken' # NoFrame
        BY <1>1, <1>2, <2>2, <2>5, AcceptedFits DEF Receive
      <3> QED
        BY <1>1, <2>1, <2>3, <2>4, <2>5, <3>1 DEF Underway
    <2>6. CASE ~Accepts(rx, b)
      <3>1. taken' = NoFrame
        BY <1>1, <2>6 DEF Receive
      <3> QED
        BY <1>1, <2>1, <2>3, <2>4, <2>6, <3>1 DEF Underway
    <2> QED
      BY <2>5, <2>6
  <1> QED
    BY <1>1, <1>2, <1>3, <1>4, <1>5 DEF LinkInv

THEOREM LinkInvariance == LinkSpec => []LinkInv
  <1>1. LinkInit => LinkInv
    <2> SUFFICES ASSUME LinkInit PROVE LinkInv
      OBVIOUS
    <2>1. IInv /\ HeardInv
      BY InitBounded, InitHeard DEF LinkInit
    <2>2. wire \in Seq(Bytes) /\ wire \in Seq(Bytes \ {SOF0}) /\ rx.state = "WAIT_SOF0"
      BY DEF LinkInit, Init
    <2> QED
      BY <2>1, <2>2 DEF LinkInv, LinkInit
  <1>2. LinkInv /\ [LinkNext]_linkVars => LinkInv'
    <2> SUFFICES ASSUME LinkInv, [LinkNext]_linkVars PROVE LinkInv'
      OBVIOUS
    <2>1. ASSUME NEW f \in Traffic, SendFrame(f) PROVE LinkInv'
      BY <2>1, SendFrameSafe
    <2>2. ASSUME NEW l \in Lines, SendLine(l) PROVE LinkInv'
      BY <2>2, SendLineSafe
    <2>3. CASE Deliver
      BY <2>3, DeliverSafe
    <2>4. CASE LoseByte
      BY <2>4, LoseByteSafe
    <2>5. CASE UNCHANGED linkVars
      BY <2>5 DEF linkVars, vars, sender, LinkInv, IInv, TypeOK, BufferBounds, TakenFits,
                  HeardInv, Underway
    <2> QED
      BY <2>1, <2>2, <2>3, <2>4, <2>5 DEF LinkNext
  <1> QED
    BY <1>1, <1>2, PTL DEF LinkSpec

\* On a line that loses nothing each frame send_frame puts on it is accepted
\* exactly once, whatever frames and text lines came before it.
THEOREM FramesAreDelivered == LinkSpec => []NothingLostIsDelivered
  <1>1. LinkInv => NothingLostIsDelivered
    BY DEF LinkInv, Underway, NothingLostIsDelivered
  <1> QED
    BY <1>1, LinkInvariance, PTL

\* The receiver on the link only ever does what FrameReceiver lets it do: a
\* byte delivered is a byte read, and sending or losing one is none of its
\* steps.
THEOREM LinkIsAReceiver == LinkSpec => Spec
  <1>1. LinkInit => Init
    BY DEF LinkInit
  <1>2. LinkInv /\ [LinkNext]_linkVars => [Next]_vars
    <2> SUFFICES ASSUME LinkInv, [LinkNext]_linkVars PROVE [Next]_vars
      OBVIOUS
    <2>1. CASE Deliver
      <3>1. Head(wire) \in Bytes /\ Receive(Head(wire))
        BY <2>1, HeadTailProperties DEF Deliver, LinkInv
      <3> QED
        BY <3>1 DEF Next
    <2>2. CASE ~Deliver
      BY <2>2 DEF LinkNext, SendFrame, SendLine, Put, LoseByte, linkVars
    <2> QED
      BY <2>1, <2>2
  <1> QED
    BY <1>1, <1>2, LinkInvariance, PTL DEF LinkSpec, Spec

-----------------------------------------------------------------------------
\* One byte is lost.  The partial sums of the checksum of a frame.
Sums(f) == CHOOSE g : IsSums(g, f.type, Len(f.payload), f.payload, Len(f.payload))

\* How many bytes of the frame have been delivered or lost.
Gone == Len(Encode(sent)) - Len(wire)

\* What is on the line is the rest of the frame.
Rest ==
  /\ wire # <<>>
  /\ Gone \in 0 .. Len(sent.payload) + 4
  /\ \A i \in 1 .. Len(wire) : wire[i] = Encode(sent)[Gone + i]

\* Where the receiver can be while a frame is sent.  It is in the frame;
Synced == wire # <<>> /\ Begun(rx) \o wire = Encode(sent)

\* it is in the frame and misses one byte x of the payload;
Short(x) ==
  /\ Rest /\ Gone >= 5
  /\ rx.state = "READ_PAYLOAD"
  /\ rx.len = Len(sent.payload) /\ Len(rx.payload) = Gone - 5
  /\ Mix(rx.checksum, x) = Sums(sent)[Gone - 4]

\* it waits for the checksum of the frame before, and the start byte it gets
\* instead is wrong or completes a frame that was sent;
Starved(f) ==
  /\ rx.state = "READ_CHECKSUM"
  /\ rx.checksum # SOF0 \/ [type |-> rx.type, payload |-> rx.payload] = f

\* or it is between frames and finds no start of one in the rest.
Astray ==
  /\ Rest
  /\ \/ rx.state = "WAIT_SOF0" /\ Gone > 0
     \/ rx.state = "WAIT_SOF1" /\ wire[1] # SOF1

Whereabouts ==
  /\ sent # NoFrame /\ wire # <<>> =>
       \/ Synced
       \/ \E x \in Bytes \ {SOF0} : Short(x)
       \/ Starved(previous) /\ wire = Encode(sent)
       \/ Astray
  /\ sent = NoFrame /\ wire # <<>> =>
       /\ wire \in Seq(Bytes \ {SOF0})
       /\ \/ rx.state = "WAIT_SOF0"
          \/ rx.state \in {"WAIT_SOF1", "READ_CHECKSUM"} /\ Len(wire) >= 2 /\ wire[1] # SOF1
  /\ wire = <<>> => rx.state \in {"WAIT_SOF0", "WAIT_SOF1"} \/ Starved(sent)

\* What has been accepted was sent.
TakenWasSent ==
  /\ taken # NoFrame => rx.state = "WAIT_SOF0"
  /\ wire = <<>> => taken \in {NoFrame, sent}
  /\ sent # NoFrame => taken \in {NoFrame, sent, previous}

OneLossInv == losses <= 1 /\ "header" \notin where => Whereabouts /\ TakenWasSent

\* What the receiver has of a frame whose own bytes it has got.
LEMMA BegunMeans ==
  ASSUME NEW f \in Traffic, NEW r \in Receivers, Bounded(r),
         NEW w \in Seq(Bytes), w # <<>>, Begun(r) \o w = Encode(f)
  PROVE  LET p == Len(Encode(f)) - Len(w)
         IN  /\ Len(w) \in Nat /\ Len(w) >= 1 /\ p \in 0 .. Len(f.payload) + 4
             /\ \A i \in 1 .. Len(w) : w[i] = Encode(f)[p + i]
             /\ p = 0 <=> r.state = "WAIT_SOF0"
             /\ p = 1 <=> r.state = "WAIT_SOF1"
             /\ p = 2 <=> r.state = "READ_TYPE"
             /\ p = 3 <=> r.state = "READ_LEN"
             /\ p >= 4 => /\ r.state = IF p = Len(f.payload) + 4
                                       THEN "READ_CHECKSUM" ELSE "READ_PAYLOAD"
                          /\ r.type = f.type /\ r.len = Len(f.payload)
                          /\ Len(r.payload) = p - 4
                          /\ \A i \in 1 .. p - 4 : r.payload[i] = f.payload[i]
  <1> DEFINE e == Begun(r)
             c == Encode(f)
             n == Len(f.payload)
             p == Len(c) - Len(w)
  <1>1. e \in Seq(Bytes) /\ r.state \in States /\ r.payload \in Seq(Bytes)
        /\ r.type \in Bytes /\ r.len \in Bytes
    BY BegunTyped DEF Receivers
  <1>2. /\ n \in Nat /\ Len(c) = n + 5 /\ c[3] = f.type /\ c[4] = n
        /\ \A i \in 1 .. n : c[4 + i] = f.payload[i]
    BY TrafficEncoded
  <1>3. SOF0 \in Bytes /\ SOF1 \in Bytes
    BY ByteAssumption
  <1>4. /\ c \in Seq(Bytes) /\ Len(e) \in Nat /\ Len(w) \in Nat /\ Len(w) # 0
        /\ Len(c) = Len(e) + Len(w)
        /\ \A i \in 1 .. Len(e) + Len(w) : c[i] = IF i <= Len(e) THEN e[i] ELSE w[i - Len(e)]
    <2> HIDE DEF e
    <2>1. e \o w = c
      BY DEF e
    <2> HIDE DEF c
    <2> QED
      BY <1>1, <2>1, ConcatProperties, LenProperties, EmptySeq
  <1> HIDE DEF c, n
  <1>5. /\ Len(w) >= 1 /\ p = Len(e) /\ p \in 0 .. n + 4
        /\ \A i \in 1 .. Len(w) : w[i] = c[p + i]
    <2> HIDE DEF e
    <2> DEFINE k == Len(e)
               j == Len(w)
    <2>1. k \in Nat /\ j \in Nat /\ j # 0 /\ Len(c) = k + j /\ Len(c) = n + 5 /\ n \in Nat
      BY <1>2, <1>4
    <2>2. \A i \in 1 .. k + j : c[i] = IF i <= k THEN e[i] ELSE w[i - k]
      BY <1>4
    <2>3. p = Len(c) - j
      OBVIOUS
    <2> HIDE DEF k, j, p
    <2>4. j >= 1 /\ p = k /\ p \in 0 .. n + 4
      BY <2>1, <2>3
    <2>5. ASSUME NEW i \in 1 .. j PROVE w[i] = c[p + i]
      <3>1. k + i \in 1 .. k + j /\ ~(k + i <= k) /\ (k + i) - k = i
        BY <2>1
      <3> QED
        BY <2>2, <2>4, <3>1
    <2> QED
      BY <2>4, <2>5 DEF k, j
  <1> HIDE DEF p
  <1>6. \A i \in 1 .. Len(e) : c[i] = e[i]
    BY <1>4
  <1>7. r.state \in {"WAIT_SOF0", "WAIT_SOF1", "READ_TYPE", "READ_LEN"} =>
          Len(e) = CASE r.state = "WAIT_SOF0" -> 0 [] r.state = "WAIT_SOF1" -> 1
                     [] r.state = "READ_TYPE" -> 2 [] r.state = "READ_LEN" -> 3
    <2>1. CASE r.state = "WAIT_SOF0"
      BY <2>1, BegunIs, Constants
    <2>2. CASE r.state = "WAIT_SOF1"
      <3>1. e = <<SOF0>>
        BY <2>2, BegunIs
      <3> QED
        BY <1>3, <2>2, <3>1
    <2>3. CASE r.state = "READ_TYPE"
      <3>1. e = <<SOF0, SOF1>>
        BY <2>3, BegunIs
      <3> QED
        BY <1>3, <2>3, <3>1
    <2>4. CASE r.state = "READ_LEN"
      <3>1. e = <<SOF0, SOF1, r.type>>
        BY <2>4, BegunIs
      <3> QED
        BY <1>1, <1>3, <2>4, <3>1
    <2> QED
      BY <2>1, <2>2, <2>3, <2>4
  <1>8. ASSUME r.state \in {"READ_PAYLOAD", "READ_CHECKSUM"}
        PROVE  /\ Len(e) = 4 + Len(r.payload) /\ Len(r.payload) \in Nat
               /\ r.type = f.type /\ r.len = n
               /\ \A i \in 1 .. Len(r.payload) : r.payload[i] = c[4 + i]
    <2> DEFINE h == <<SOF0, SOF1, r.type, r.len>>
    <2>1. Len(r.payload) \in Nat
      BY <1>1, LenProperties
    <2>2. h \in Seq(Bytes) /\ Len(h) = 4 /\ h[3] = r.type /\ h[4] = r.len
      BY <1>1, <1>3
    <2>3. e = h \o r.payload
      BY <1>8, BegunIs
    <2> HIDE DEF h, e
    <2>4. /\ Len(e) = Len(h) + Len(r.payload)
          /\ \A i \in 1 .. Len(h) + Len(r.payload) :
               e[i] = IF i <= Len(h) THEN h[i] ELSE r.payload[i - Len(h)]
      BY <1>1, <2>2, <2>3, ConcatProperties
    <2>5. Len(e) = 4 + Len(r.payload)
      BY <2>2, <2>4
    <2>6. 3 \in 1 .. Len(e) /\ 4 \in 1 .. Len(e) /\ 3 <= Len(h) /\ 4 <= Len(h)
      BY <2>1, <2>2, <2>5
    <2>7. e[3] = r.type /\ e[4] = r.len
      BY <2>2, <2>4, <2>6
    <2>8. ASSUME NEW i \in 1 .. Len(r.payload) PROVE e[4 + i] = r.payload[i] /\ 4 + i \in 1 .. Len(e)
      <3>1. 4 + i \in 1 .. Len(h) + Len(r.payload) /\ ~(4 + i <= Len(h)) /\ (4 + i) - Len(h) = i
        BY <2>1, <2>2
      <3> QED
        BY <2>4, <3>1
    <2> QED
      BY <1>2, <1>6, <2>1, <2>5, <2>6, <2>7, <2>8
  <1> DEFINE k == Len(r.payload)
  <1>9. CASE r.state = "READ_PAYLOAD"
    <2>1. /\ k < r.len /\ r.len = n /\ p = 4 + k /\ k \in Nat /\ r.type = f.type
          /\ \A i \in 1 .. k : r.payload[i] = c[4 + i]
      BY <1>5, <1>8, <1>9 DEF Bounded
    <2> HIDE DEF k, e
    <2>2. /\ p >= 4 /\ p # n + 4 /\ k = p - 4
          /\ \A i \in 1 .. k : i \in 1 .. n
      BY <1>2, <2>1
    <2>3. \A i \in 1 .. p - 4 : r.payload[i] = f.payload[i]
      BY <1>2, <2>1, <2>2
    <2>4. p # 0 /\ p # 1 /\ p # 2 /\ p # 3
      BY <1>2, <2>1
    <2> QED
      BY <1>5, <1>9, <2>1, <2>2, <2>3, <2>4 DEF p, c, n, k
  <1>10. CASE r.state = "READ_CHECKSUM"
    <2>1. /\ k = r.len /\ r.len = n /\ p = 4 + k /\ k \in Nat /\ r.type = f.type
          /\ \A i \in 1 .. k : r.payload[i] = c[4 + i]
      BY <1>5, <1>8, <1>10 DEF Bounded
    <2> HIDE DEF k, e
    <2>2. p >= 4 /\ p = n + 4 /\ k = p - 4
      BY <1>2, <2>1
    <2>3. \A i \in 1 .. p - 4 : r.payload[i] = f.payload[i]
      BY <1>2, <2>1, <2>2
    <2>4. p # 0 /\ p # 1 /\ p # 2 /\ p # 3
      BY <1>2, <2>1
    <2> QED
      BY <1>5, <1>10, <2>1, <2>2, <2>3, <2>4 DEF p, c, n, k
  <1>11. CASE r.state \in {"WAIT_SOF0", "WAIT_SOF1", "READ_TYPE", "READ_LEN"}
    <2>1. p = CASE r.state = "WAIT_SOF0" -> 0 [] r.state = "WAIT_SOF1" -> 1
                [] r.state = "READ_TYPE" -> 2 [] r.state = "READ_LEN" -> 3
      BY <1>5, <1>7, <1>11
    <2>2. p \in 0 .. 3 /\ ~(p >= 4)
      BY <1>11, <2>1
    <2> HIDE DEF e
    <2> QED
      BY <1>5, <1>11, <2>1, <2>2 DEF p, c, n
  <1> QED
    BY <1>1, <1>9, <1>10, <1>11 DEF States

LEMMA SumsAre ==
  ASSUME NEW f \in Traffic
  PROVE  /\ \A k \in 1 .. Len(f.payload) : Sums(f)[k] = Mix(Sums(f)[k - 1], f.payload[k])
         /\ Checksum(f) = Sums(f)[Len(f.payload)]
         /\ IsSums(Sums(f), f.type, Len(f.payload), f.payload, Len(f.payload))
  <1>1. Len(f.payload) \in Nat
    BY TrafficEncoded
  <1>2. \E g : IsSums(g, f.type, Len(f.payload), f.payload, Len(f.payload))
    BY <1>1, SumsExist
  <1>3. IsSums(Sums(f), f.type, Len(f.payload), f.payload, Len(f.payload))
    BY <1>2, Zenon DEF Sums
  <1>4. Checksum(f) = Sums(f)[Len(f.payload)]
    BY ChecksumIsSum, Zenon DEF SumOf, Sums
  <1>5. \A k \in 1 .. Len(f.payload) : Sums(f)[k] = Mix(Sums(f)[k - 1], f.payload[k])
    <2> DEFINE g == Sums(f)
               n == Len(f.payload)
    <2>1. g = [k \in 0 .. n |-> IF k = 0 THEN Mix(f.type, n) ELSE Mix(g[k - 1], f.payload[k])]
      BY <1>3 DEF IsSums
    <2>2. n \in Nat
      BY <1>1
    <2> HIDE DEF g, n
    <2>3. \A k \in 0 .. n : g[k] = IF k = 0 THEN Mix(f.type, n) ELSE Mix(g[k - 1], f.payload[k])
      BY <2>1
    <2>4. \A k \in 1 .. n : g[k] = Mix(g[k - 1], f.payload[k])
      BY <2>2, <2>3
    <2> QED
      BY <2>4 DEF g, n
  <1> QED
    BY <1>3, <1>4, <1>5

\* The sum of the first bytes of a payload is a partial sum.
LEMMA PrefixSum ==
  ASSUME NEW f \in Traffic, NEW p \in Seq(Bytes), Len(p) <= Len(f.payload),
         \A i \in 1 .. Len(p) : p[i] = f.payload[i]
  PROVE  SumOf(f.type, Len(f.payload), p) = Sums(f)[Len(p)]
  <1> DEFINE n == Len(f.payload)
             k == Len(p)
  <1>1. n \in Nat /\ k \in Nat
    BY TrafficEncoded, LenProperties
  <1>2. PICK g : IsSums(g, f.type, n, p, k) /\ SumOf(f.type, n, p) = g[k]
    BY SumIsASum
  <1>3. IsSums(Sums(f), f.type, n, f.payload, n)
    BY SumsAre
  <1> HIDE DEF n, k
  <1>4. \A j \in 0 .. k : g[j] = Sums(f)[j]
    <2> DEFINE s == Sums(f)
               t == f.type
               q == f.payload
    <2>1. IsSums(g, t, n, p, k) /\ IsSums(s, t, n, q, n)
      BY <1>2, <1>3
    <2>2. k <= n /\ \A j \in 1 .. k : p[j] = q[j]
      BY DEF n, k
    <2> HIDE DEF s, t, q
    <2>3. \A j \in 0 .. k : g[j] = s[j]
      BY <1>1, <2>1, <2>2, SumsAgree
    <2> QED
      BY <2>3 DEF s
  <1>5. k \in 0 .. k
    BY <1>1
  <1> QED
    BY <1>2, <1>4, <1>5 DEF n, k

\* What a byte does to a receiver outside the header and the payload.
LEMMA Moves ==
  ASSUME rx \in Receivers, NEW b \in Bytes, Receive(b)
  PROVE  /\ rx.state = "WAIT_SOF0" =>
              rx'.state = IF b = SOF0 THEN "WAIT_SOF1" ELSE "WAIT_SOF0"
         /\ rx.state = "WAIT_SOF1" /\ b # SOF1 => rx'.state = "WAIT_SOF0"
         /\ rx.state = "READ_PAYLOAD" => rx' = ReadPayload(rx, b)
         /\ rx.state = "READ_CHECKSUM" => rx'.state = "WAIT_SOF0"
         /\ taken' # NoFrame =>
              /\ rx.state = "READ_CHECKSUM" /\ b = rx.checksum /\ rx'.state = "WAIT_SOF0"
              /\ taken' = [type |-> rx.type, payload |-> rx.payload]
  <1>1. CASE rx.state = "WAIT_SOF0"
    <2>1. CASE b = SOF0
      BY <1>1, <2>1 DEF Receive, InFrame, Accepts, FeedFrameByte, Receivers
    <2>2. CASE b # SOF0
      <3>1. rx' = FeedLineByte(rx, b) /\ taken' = NoFrame
        BY <1>1, <2>2 DEF Receive, InFrame, Accepts
      <3> QED
        BY <1>1, <2>2, <3>1 DEF FeedLineByte, Receivers
    <2> QED
      BY <2>1, <2>2
  <1>2. CASE rx.state # "WAIT_SOF0"
    <2>1. rx' = FeedFrameByte(rx, b)
      BY <1>2 DEF Receive, InFrame
    <2>2. CASE rx.state = "READ_CHECKSUM"
      BY <2>1, <2>2 DEF Receive, Accepts, FeedFrameByte, Idle, Receivers
    <2>3. CASE rx.state # "READ_CHECKSUM"
      <3>1. taken' = NoFrame
        BY <2>3 DEF Receive, Accepts
      <3>2. rx.state = "WAIT_SOF1" /\ b # SOF1 => rx'.state = "WAIT_SOF0"
        BY <2>1 DEF FeedFrameByte, Idle, Receivers
      <3>3. rx.state = "READ_PAYLOAD" => rx' = ReadPayload(rx, b)
        BY <2>1 DEF FeedFrameByte
      <3> QED
        BY <1>2, <2>3, <3>1, <3>2, <3>3
    <2> QED
      BY <2>2, <2>3
  <1> QED
    BY <1>1, <1>2

\* The next byte of the rest, and what is left then.
LEMMA RestGoesOn ==
  ASSUME wire \in Seq(Bytes), sent \in Traffic, Rest, wire' = Tail(wire), sent' = sent
  PROVE  /\ Head(wire) = Encode(sent)[Gone + 1]
         /\ Gone' = Gone + 1
         /\ wire' = <<>> <=> Gone = Len(sent.payload) + 4
         /\ wire' # <<>> => Rest' /\ wire'[1] = Encode(sent)[Gone + 2]
  <1> DEFINE c == Encode(sent)
             n == Len(sent.payload)
             j == Len(wire)
             t == Tail(wire)
  <1>1. n \in Nat /\ Len(c) = n + 5
    BY TrafficEncoded
  <1>2. /\ wire # <<>> /\ Gone \in 0 .. n + 4 /\ Gone = Len(c) - j
        /\ \A i \in 1 .. j : wire[i] = c[Gone + i]
    BY DEF Rest, Gone
  <1>3. /\ j \in Nat /\ j # 0 /\ Head(wire) = wire[1] /\ t \in Seq(Bytes) /\ Len(t) = j - 1
        /\ \A i \in 1 .. Len(t) : t[i] = wire[i + 1]
    BY <1>2, LenProperties, EmptySeq, HeadTailProperties
  <1>4. t = <<>> <=> j = 1
    <2> HIDE DEF t
    <2>1. t = <<>> => Len(t) = 0
      OBVIOUS
    <2>2. t # <<>> => Len(t) # 0
      BY <1>3, EmptySeq
    <2> HIDE DEF j
    <2> QED
      BY <1>3, <2>1, <2>2
  <1>5. Gone' = Len(c) - Len(t)
    BY DEF Gone
  <1> DEFINE p == Gone
             q == Gone'
  <1> HIDE DEF c, n, j, t, p, q
  <1>6. /\ p \in 0 .. n + 4 /\ p = n + 5 - j /\ q = n + 5 - (j - 1) /\ j >= 1
        /\ \A i \in 1 .. j : wire[i] = c[p + i]
    BY <1>1, <1>2, <1>3, <1>5 DEF p, q
  <1>7. q = p + 1 /\ (j = 1 <=> p = n + 4)
    BY <1>1, <1>3, <1>6
  <1>8. Head(wire) = c[p + 1]
    BY <1>3, <1>6
  <1>9. ASSUME t # <<>> PROVE Rest' /\ t[1] = c[p + 2]
    <2>1. j # 1 /\ j - 1 >= 1
      BY <1>3, <1>4, <1>9
    <2>2. q \in 0 .. n + 4
      BY <1>1, <1>3, <1>6, <1>7, <2>1
    <2>3. \A i \in 1 .. j - 1 : t[i] = c[q + i]
      <3>1. ASSUME NEW i \in 1 .. j - 1 PROVE t[i] = c[q + i]
        <4>1. i \in 1 .. Len(t) /\ i + 1 \in 1 .. j
          BY <1>3
        <4>2. p + (i + 1) = q + i
          BY <1>1, <1>6, <1>7
        <4> QED
          BY <1>3, <1>6, <4>1, <4>2
      <3> QED
        BY <3>1
    <2>4. Rest'
      BY <1>3, <1>9, <2>2, <2>3 DEF Rest, c, n, t, q
    <2>5. t[1] = c[p + 2]
      <3>1. 1 \in 1 .. j - 1 /\ q + 1 = p + 2
        BY <1>3, <1>6, <1>7, <2>1
      <3> QED
        BY <2>3, <3>1
    <2> QED
      BY <2>4, <2>5
  <1> QED
    BY <1>4, <1>7, <1>8, <1>9 DEF c, n, t, p, q

\* Where the bytes of a start of frame occur in a frame.
LEMMA MarkedFrame ==
  ASSUME Marked, NEW f \in Traffic
  PROVE  /\ Encode(f)[1] # SOF1 /\ Encode(f)[3] # SOF1
         /\ Encode(f)[3] = SOF0 => Encode(f)[4] # SOF1
         /\ \A i \in 2 .. Len(f.payload) + 4 : Encode(f)[i] = SOF0 => i = 3
  <1> DEFINE c == Encode(f)
             n == Len(f.payload)
  <1>1. /\ n \in Nat /\ c[1] = SOF0 /\ c[2] = SOF1 /\ c[3] = f.type /\ c[4] = n
        /\ \A i \in 1 .. n : c[4 + i] = f.payload[i]
    BY TrafficEncoded
  <1>2. /\ SOF0 # SOF1 /\ f.type # SOF1 /\ n # SOF0 /\ (f.type = SOF0 => n # SOF1)
        /\ \A i \in 1 .. n : f.payload[i] # SOF0
    BY DEF Marked
  <1> HIDE DEF c, n
  <1>3. ASSUME NEW i \in 2 .. n + 4, c[i] = SOF0 PROVE i = 3
    <2>1. CASE i > 4
      <3>1. i - 4 \in 1 .. n /\ 4 + (i - 4) = i
        BY <1>1, <2>1
      <3> QED
        BY <1>1, <1>2, <1>3, <3>1
    <2>2. i \in {2, 3, 4} \/ i > 4
      BY <1>1
    <2> QED
      BY <1>1, <1>2, <1>3, <2>1, <2>2
  <1> QED
    BY <1>1, <1>2, <1>3 DEF c, n

LEMMA DeliverIs ==
  ASSUME LinkInv, Deliver
  PROVE  /\ wire \in Seq(Bytes) /\ wire # <<>> /\ wire' = Tail(wire) /\ wire' \in Seq(Bytes)
         /\ Head(wire) \in Bytes /\ Head(wire) = wire[1] /\ Receive(Head(wire))
         /\ sent' = sent /\ previous' = previous /\ losses' = losses /\ where' = where
         /\ sent # NoFrame => sent \in Traffic
  <1>1. /\ wire \in Seq(Bytes) /\ wire # <<>> /\ Receive(Head(wire)) /\ wire' = Tail(wire)
        /\ sent' = sent /\ previous' = previous /\ losses' = losses /\ where' = where
        /\ sent # NoFrame => sent \in Traffic
    BY DEF Deliver, LinkInv
  <1>2. Head(wire) \in Bytes /\ Head(wire) = wire[1] /\ Tail(wire) \in Seq(Bytes)
    BY <1>1, HeadTailProperties
  <1> QED
    BY <1>1, <1>2

\* A new frame or line is put on the line.
LEMMA PutKeeps ==
  ASSUME LinkInv, Whereabouts, TakenWasSent, Marked,
         \/ \E f \in Traffic : SendFrame(f)
         \/ \E l \in Lines : SendLine(l)
  PROVE  Whereabouts' /\ TakenWasSent'
  <1>1. /\ wire = <<>> /\ previous' = sent /\ rx' = rx /\ taken' = taken
        /\ rx.state \in {"WAIT_SOF0", "WAIT_SOF1"} \/ Starved(sent)
        /\ taken \in {NoFrame, sent} /\ (taken # NoFrame => rx.state = "WAIT_SOF0")
    BY DEF SendFrame, SendLine, Put, vars, Whereabouts, TakenWasSent
  <1>2. ASSUME NEW f \in Traffic, SendFrame(f) PROVE Whereabouts' /\ TakenWasSent'
    <2>1. sent' = f /\ wire' = Encode(f)
      BY <1>2 DEF SendFrame, Put
    <2>2. /\ f # NoFrame /\ Encode(f) \in Seq(Bytes) /\ Len(f.payload) \in Nat
          /\ Len(Encode(f)) = Len(f.payload) + 5 /\ Encode(f)[1] # SOF1
      BY TrafficEncoded, MarkedFrame
    <2> DEFINE c == Encode(f)
               n == Len(f.payload)
    <2>3. c # <<>>
      BY <2>2, EmptySeq
    <2>4. CASE rx.state = "WAIT_SOF0"
      <3>1. Begun(rx) = <<>> /\ <<>> \o c = c
        BY <2>2, <2>4, BegunIs, ConcatEmptySeq
      <3>2. Synced'
        BY <1>1, <2>1, <2>3, <3>1 DEF Synced
      <3> QED
        BY <1>1, <2>1, <2>2, <2>3, <3>2 DEF Whereabouts, TakenWasSent
    <2>5. CASE rx.state = "WAIT_SOF1"
      <3>1. Gone' = 0
        BY <2>1, <2>2 DEF Gone
      <3>2. Rest'
        <4>1. 0 \in 0 .. n + 4 /\ \A i \in 1 .. Len(c) : 0 + i = i
          BY <2>2
        <4> QED
          BY <2>1, <2>3, <3>1, <4>1 DEF Rest
      <3>3. Astray'
        BY <1>1, <2>1, <2>2, <2>5, <3>2 DEF Astray
      <3> QED
        BY <1>1, <2>1, <2>2, <2>3, <3>3 DEF Whereabouts, TakenWasSent
    <2>6. CASE Starved(sent)
      <3>1. Starved(previous)' /\ wire' = Encode(sent')
        BY <1>1, <2>1, <2>6 DEF Starved
      <3> QED
        BY <1>1, <2>1, <2>2, <2>3, <3>1 DEF Whereabouts, TakenWasSent
    <2> QED
      BY <1>1, <2>4, <2>5, <2>6
  <1>3. ASSUME NEW l \in Lines, SendLine(l) PROVE Whereabouts' /\ TakenWasSent'
    <2>1. sent' = NoFrame /\ wire' = l
      BY <1>3 DEF SendLine, Put
    <2>2. l \in Seq(Bytes \ {SOF0}) /\ Len(l) >= 2 /\ l[1] # SOF1
      BY TrafficAssumption DEF Marked
    <2>3. l # <<>>
      BY <2>2
    <2> QED
      BY <1>1, <2>1, <2>2, <2>3 DEF Whereabouts, TakenWasSent, Starved
  <1> QED
    BY <1>2, <1>3

\* A byte of a text line: it starts no frame, and the last byte of a line
\* finds the receiver between frames.
LEMMA LineDelivers ==
  ASSUME LinkInv, Whereabouts, TakenWasSent, Deliver, sent = NoFrame
  PROVE  Whereabouts' /\ TakenWasSent'
  <1> DEFINE b == Head(wire)
  <1>1. /\ wire # <<>> /\ wire' = Tail(wire) /\ b = wire[1] /\ b \in Bytes /\ Receive(b)
        /\ sent' = sent /\ rx \in Receivers
    BY DeliverIs, LinkTyped
  <1>2. /\ wire \in Seq(Bytes \ {SOF0})
        /\ \/ rx.state = "WAIT_SOF0"
           \/ rx.state \in {"WAIT_SOF1", "READ_CHECKSUM"} /\ Len(wire) >= 2 /\ b # SOF1
    BY <1>1 DEF Whereabouts
  <1>3. b # SOF0 /\ wire' \in Seq(Bytes \ {SOF0}) /\ Len(wire') = Len(wire) - 1
    <2>1. Head(wire) \in Bytes \ {SOF0} /\ Tail(wire) \in Seq(Bytes \ {SOF0})
          /\ Len(Tail(wire)) = Len(wire) - 1
      BY <1>1, <1>2, HeadTailProperties
    <2> QED
      BY <1>1, <2>1
  <1>4. rx'.state = "WAIT_SOF0"
    BY <1>1, <1>2, <1>3, Moves
  <1>5. wire' = <<>> => taken' = NoFrame
    <2>1. SUFFICES ASSUME wire' = <<>> PROVE taken' = NoFrame
      OBVIOUS
    <2>2. Len(wire') = 0
      BY <2>1
    <2>3. ~(Len(wire) >= 2)
      <3>1. Len(wire) \in Nat
        BY <1>2, LenProperties
      <3> QED
        BY <1>3, <2>2, <3>1
    <2> QED
      BY <1>1, <1>2, <2>3, Moves
  <1> QED
    BY <1>1, <1>3, <1>4, <1>5 DEF Whereabouts, TakenWasSent

\* The next byte of the frame the receiver is in.
LEMMA SyncedDelivers ==
  ASSUME LinkInv, Deliver, sent # NoFrame, Synced
  PROVE  Whereabouts' /\ TakenWasSent'
  <1> DEFINE b == Head(wire)
  <1>1. /\ wire \in Seq(Bytes) /\ wire # <<>> /\ wire' = Tail(wire) /\ b \in Bytes /\ Receive(b)
        /\ sent' = sent /\ sent \in Traffic
        /\ rx \in Receivers /\ Bounded(rx) /\ Summed(rx) /\ Begun(rx) \o wire = Encode(sent)
    BY DeliverIs, LinkTyped DEF Synced
  <1>2. /\ InFrame(rx, b)
        /\ Accepts(rx, b) <=> Tail(wire) = <<>>
        /\ Accepts(rx, b) => FeedFrameByte(rx, b).state = "WAIT_SOF0"
        /\ ~Accepts(rx, b) => Begun(FeedFrameByte(rx, b)) \o Tail(wire) = Encode(sent)
    BY <1>1, OwnByte
  <1>3. rx' = FeedFrameByte(rx, b)
    BY <1>1, <1>2 DEF Receive
  <1>4. CASE Accepts(rx, b)
    <2>1. taken' = [type |-> rx.type, payload |-> rx.payload] /\ rx.state = "READ_CHECKSUM"
      BY <1>1, <1>4 DEF Receive, Accepts
    <2> DEFINE n == Len(sent.payload)
               p == Len(Encode(sent)) - Len(wire)
    <2>2. /\ p \in 0 .. n + 4
          /\ p = 0 <=> rx.state = "WAIT_SOF0"
          /\ p = 1 <=> rx.state = "WAIT_SOF1"
          /\ p = 2 <=> rx.state = "READ_TYPE"
          /\ p = 3 <=> rx.state = "READ_LEN"
          /\ p >= 4 => /\ rx.state = IF p = n + 4 THEN "READ_CHECKSUM" ELSE "READ_PAYLOAD"
                       /\ rx.type = sent.type /\ rx.len = n
                       /\ Len(rx.payload) = p - 4
                       /\ \A i \in 1 .. p - 4 : rx.payload[i] = sent.payload[i]
      BY <1>1, BegunMeans
    <2>3. /\ n \in Nat /\ sent \in Frames /\ sent.payload \in Seq(Bytes)
          /\ rx.payload \in Seq(Bytes)
      BY <1>1, TrafficEncoded DEF Receivers
    <2> HIDE DEF p
    <2>4. p = n + 4
      <3> HIDE DEF n
      <3>1. p \in 0 .. n + 4 /\ n \in Nat
        BY <2>2, <2>3
      <3>2. p \in 0 .. 3 \/ p >= 4
        BY <3>1
      <3> QED
        BY <2>1, <2>2, <3>2
    <2>5. Len(rx.payload) = n /\ \A i \in 1 .. n : rx.payload[i] = sent.payload[i]
      BY <2>2, <2>3, <2>4
    <2>6. rx.payload = sent.payload /\ rx.type = sent.type
      BY <2>2, <2>3, <2>4, <2>5, SeqEqual
    <2>7. taken' = sent
      BY <2>1, <2>3, <2>6 DEF Frames
    <2> QED
      BY <1>1, <1>2, <1>3, <1>4, <2>7 DEF Whereabouts, TakenWasSent
  <1>5. CASE ~Accepts(rx, b)
    <2>1. taken' = NoFrame
      BY <1>1, <1>5 DEF Receive
    <2>2. Synced' /\ wire' # <<>>
      BY <1>1, <1>2, <1>3, <1>5 DEF Synced
    <2> QED
      BY <1>1, <2>1, <2>2 DEF Whereabouts, TakenWasSent
  <1> QED
    BY <1>4, <1>5

\* The next byte of a frame that misses one of its payload: the checksum is
\* taken for the last byte of the payload, and the receiver then waits for a
\* checksum that is the byte it misses.
LEMMA ShortDelivers ==
  ASSUME LinkInv, Deliver, sent # NoFrame, XorLike,
         NEW x \in Bytes \ {SOF0}, Short(x)
  PROVE  Whereabouts' /\ TakenWasSent'
  <1> DEFINE b == Head(wire)
             n == Len(sent.payload)
             p == Gone
             s == Sums(sent)
             c == Encode(sent)
             u == Mix(rx.checksum, b)
  <1>1. /\ wire \in Seq(Bytes) /\ wire' = Tail(wire) /\ b \in Bytes /\ Receive(b)
        /\ sent' = sent /\ sent \in Traffic /\ rx \in Receivers
    BY DeliverIs, LinkTyped
  <1>2. /\ Rest /\ p >= 5 /\ p \in 0 .. n + 4 /\ rx.state = "READ_PAYLOAD" /\ rx.len = n
        /\ Len(rx.payload) = p - 5 /\ Mix(rx.checksum, x) = s[p - 4]
    BY DEF Short, Rest
  <1>3. /\ b = c[p + 1] /\ Gone' = p + 1 /\ (wire' = <<>> <=> p = n + 4)
        /\ (wire' # <<>> => Rest')
    BY <1>1, <1>2, RestGoesOn
  <1>4. rx' = ReadPayload(rx, b) /\ taken' = NoFrame
    BY <1>1, <1>2, Moves
  <1>5. n \in Nat /\ rx.payload \in Seq(Bytes) /\ rx.checksum \in Bytes
    BY <1>1, TrafficEncoded DEF Receivers
  <1>6. /\ rx'.len = n /\ rx'.checksum = u /\ rx'.payload = Append(rx.payload, b)
        /\ rx'.state = IF Len(Append(rx.payload, b)) >= n THEN "READ_CHECKSUM" ELSE "READ_PAYLOAD"
    BY <1>1, <1>2, <1>4 DEF ReadPayload, Receivers
  <1>7. Len(Append(rx.payload, b)) = p - 4
    <2>1. Len(Append(rx.payload, b)) = Len(rx.payload) + 1
      BY <1>1, <1>5, AppendProperties
    <2> QED
      BY <1>2, <1>5, <2>1
  <1>8. Mix(u, x) = Mix(s[p - 4], b)
    <2>1. Mix(Mix(rx.checksum, b), x) = Mix(Mix(rx.checksum, x), b)
      BY <1>1, <1>5 DEF XorLike
    <2> QED
      BY <1>2, <2>1
  <1> HIDE DEF u, s, c, n
  <1>9. CASE wire' # <<>>
    <2>1. p # n + 4 /\ p - 3 \in 1 .. n /\ (p - 3) - 1 = p - 4 /\ 4 + (p - 3) = p + 1 /\ ~(p - 4 >= n)
      BY <1>2, <1>3, <1>5, <1>9
    <2>2. b = sent.payload[p - 3]
      <3>1. \A i \in 1 .. n : c[4 + i] = sent.payload[i]
        BY <1>1, TrafficEncoded DEF c, n
      <3> QED
        BY <1>3, <2>1, <3>1
    <2>3. s[p - 3] = Mix(s[p - 4], b)
      <3>1. \A k \in 1 .. n : s[k] = Mix(s[k - 1], sent.payload[k])
        BY <1>1, SumsAre DEF s, n
      <3> QED
        BY <2>1, <2>2, <3>1
    <2>4. Gone' - 4 = p - 3 /\ Gone' - 5 = p - 4 /\ Gone' >= 5
      BY <1>2, <1>3, <1>5
    <2>5. rx'.state = "READ_PAYLOAD"
      BY <1>6, <1>7, <2>1
    <2>6. Short(x)'
      BY <1>1, <1>3, <1>6, <1>7, <1>8, <1>9, <2>3, <2>4, <2>5 DEF Short, s, n
    <2> QED
      BY <1>1, <1>4, <1>9, <2>6 DEF Whereabouts, TakenWasSent
  <1>10. CASE wire' = <<>>
    <2>1. p = n + 4
      BY <1>3, <1>10
    <2>2. p + 1 = n + 5 /\ p - 4 = n /\ p - 4 >= n
      BY <1>5, <2>1
    <2>3. c[n + 5] = Checksum(sent) /\ Checksum(sent) = s[n]
      BY <1>1, TrafficEncoded, SumsAre DEF c, n, s
    <2>4. b = s[n] /\ Mix(rx.checksum, x) = s[n]
      BY <1>2, <1>3, <2>2, <2>3
    <2>5. u = x
      BY <1>5, <2>4 DEF XorLike, u
    <2>6. rx'.state = "READ_CHECKSUM" /\ rx'.checksum # SOF0
      BY <1>6, <1>7, <2>2, <2>5
    <2>7. Starved(sent)'
      BY <2>6 DEF Starved
    <2> QED
      BY <1>1, <1>4, <1>10, <2>7 DEF Whereabouts, TakenWasSent
  <1> QED
    BY <1>9, <1>10

\* The start byte of the next frame stands in for a missing checksum.
LEMMA StarvedDelivers ==
  ASSUME LinkInv, Deliver, sent # NoFrame, Starved(previous), wire = Encode(sent)
  PROVE  Whereabouts' /\ TakenWasSent'
  <1> DEFINE b == Head(wire)
             n == Len(sent.payload)
  <1>1. /\ wire \in Seq(Bytes) /\ wire # <<>> /\ wire' = Tail(wire) /\ b \in Bytes /\ b = wire[1]
        /\ Receive(b) /\ sent' = sent /\ previous' = previous /\ sent \in Traffic
        /\ rx \in Receivers
    BY DeliverIs, LinkTyped
  <1>2. b = SOF0 /\ n \in Nat /\ Len(wire) = n + 5
    BY <1>1, TrafficEncoded
  <1>3. /\ rx'.state = "WAIT_SOF0"
        /\ taken' # NoFrame =>
             b = rx.checksum /\ taken' = [type |-> rx.type, payload |-> rx.payload]
    BY <1>1, Moves DEF Starved
  <1>4. taken' \in {NoFrame, previous}
    BY <1>2, <1>3 DEF Starved
  <1>5. Gone = 0
    BY <1>2 DEF Gone
  <1>6. Rest
    <2>1. 0 \in 0 .. n + 4 /\ \A i \in 1 .. Len(wire) : 0 + i = i
      BY <1>2
    <2> QED
      BY <1>1, <1>5, <2>1 DEF Rest
  <1>7. Gone' = Gone + 1 /\ (wire' = <<>> <=> Gone = n + 4) /\ (wire' # <<>> => Rest')
    BY <1>1, <1>6, RestGoesOn
  <1>8. wire' # <<>> /\ Gone' > 0
    BY <1>2, <1>5, <1>7
  <1>9. Astray'
    BY <1>3, <1>7, <1>8 DEF Astray
  <1> QED
    BY <1>1, <1>3, <1>4, <1>8, <1>9 DEF Whereabouts, TakenWasSent

\* The rest of a frame whose start was missed.
LEMMA AstrayDelivers ==
  ASSUME LinkInv, Deliver, sent # NoFrame, Marked, Astray
  PROVE  Whereabouts' /\ TakenWasSent'
  <1> DEFINE b == Head(wire)
             n == Len(sent.payload)
             c == Encode(sent)
             p == Gone
  <1>1. /\ wire \in Seq(Bytes) /\ wire' = Tail(wire) /\ b \in Bytes /\ b = wire[1]
        /\ Receive(b) /\ sent' = sent /\ sent \in Traffic /\ rx \in Receivers
    BY DeliverIs, LinkTyped
  <1>2. /\ Rest /\ p \in 0 .. n + 4
        /\ \/ rx.state = "WAIT_SOF0" /\ p > 0
           \/ rx.state = "WAIT_SOF1" /\ b # SOF1
    BY <1>1 DEF Astray, Rest
  <1>3. /\ b = c[p + 1] /\ Gone' = p + 1 /\ (wire' = <<>> <=> p = n + 4)
        /\ (wire' # <<>> => Rest' /\ wire'[1] = c[p + 2])
    BY <1>1, <1>2, RestGoesOn
  <1>4. taken' = NoFrame
    BY <1>1, <1>2, Moves
  <1>5. n \in Nat /\ Gone' > 0
    BY <1>1, <1>2, <1>3, TrafficEncoded
  <1>6. CASE rx'.state = "WAIT_SOF0"
    <2>1. wire' # <<>> => Astray'
      BY <1>3, <1>5, <1>6 DEF Astray
    <2> QED
      BY <1>1, <1>4, <1>6, <2>1 DEF Whereabouts, TakenWasSent
  <1>7. CASE rx'.state # "WAIT_SOF0"
    <2>1. rx.state = "WAIT_SOF0" /\ p > 0 /\ b = SOF0 /\ rx'.state = "WAIT_SOF1"
      BY <1>1, <1>2, <1>7, Moves
    <2>2. ASSUME wire' # <<>> PROVE wire'[1] # SOF1
      <3>1. p # n + 4
        BY <1>3, <2>2
      <3> HIDE DEF n, c
      <3>2. p + 1 \in 2 .. n + 4
        <4> HIDE DEF p
        <4> QED
          BY <1>2, <1>5, <2>1, <3>1
      <3>3. p + 1 = 3
        BY <1>1, <1>3, <2>1, <3>2, MarkedFrame DEF n, c
      <3>4. p + 2 = 4
        <4> HIDE DEF p
        <4> QED
          BY <1>2, <1>5, <3>3
      <3>5. c[3] = SOF0 /\ wire'[1] = c[4]
        BY <1>3, <2>1, <2>2, <3>3, <3>4
      <3> QED
        BY <1>1, <3>5, MarkedFrame DEF c
    <2>3. wire' # <<>> => Astray'
      BY <1>3, <2>1, <2>2 DEF Astray
    <2> QED
      BY <1>1, <1>4, <2>1, <2>3 DEF Whereabouts, TakenWasSent
  <1> QED
    BY <1>6, <1>7

\* The first byte that is lost.
LEMMA LossKeeps ==
  ASSUME LinkInv, TakenWasSent, LoseByte, losses = 0, "header" \notin where', Marked
  PROVE  Whereabouts' /\ TakenWasSent'
  <1> DEFINE n == Len(sent.payload)
             c == Encode(sent)
             p == Gone
             s == Sums(sent)
  <1>1. /\ wire # <<>> /\ sent # NoFrame /\ wire' = Tail(wire) /\ sent' = sent
        /\ previous' = previous /\ rx' = rx /\ taken' = taken
        /\ where' = where \cup {CASE Position \in {1, 2} -> "start"
                                   [] Position \in {3, 4} -> "header"
                                   [] OTHER -> "body"}
    BY DEF LoseByte, vars
  <1>2. /\ wire \in Seq(Bytes) /\ sent \in Traffic /\ Begun(rx) \o wire = Encode(sent)
        /\ rx \in Receivers /\ Bounded(rx) /\ Summed(rx)
    BY <1>1, LinkTyped DEF LinkInv, Underway
  <1>3. /\ Len(wire) \in Nat /\ Len(wire) >= 1 /\ p \in 0 .. n + 4
        /\ \A i \in 1 .. Len(wire) : wire[i] = c[p + i]
        /\ p = 0 <=> rx.state = "WAIT_SOF0"
        /\ p = 1 <=> rx.state = "WAIT_SOF1"
        /\ p = 2 <=> rx.state = "READ_TYPE"
        /\ p = 3 <=> rx.state = "READ_LEN"
        /\ p >= 4 => /\ rx.state = IF p = n + 4 THEN "READ_CHECKSUM" ELSE "READ_PAYLOAD"
                     /\ rx.type = sent.type /\ rx.len = n
                     /\ Len(rx.payload) = p - 4
                     /\ \A i \in 1 .. p - 4 : rx.payload[i] = sent.payload[i]
    BY <1>1, <1>2, BegunMeans DEF Gone
  <1>4. n \in Nat /\ Len(c) = n + 5 /\ rx.payload \in Seq(Bytes)
    BY <1>2, TrafficEncoded DEF Receivers
  <1>5. Rest
    BY <1>1, <1>3 DEF Rest
  <1>6. /\ Gone' = p + 1 /\ (wire' = <<>> <=> p = n + 4)
        /\ (wire' # <<>> => Rest' /\ wire'[1] = c[p + 2])
    BY <1>1, <1>2, <1>5, RestGoesOn
  <1>7. p \notin {2, 3}
    <2>1. Position = p + 1
      <3> DEFINE a == Len(Encode(sent))
                 j == Len(wire)
      <3>1. a \in Nat /\ j \in Nat /\ Position = a - j + 1 /\ p = a - j
        BY <1>3, <1>4 DEF Position, Gone
      <3> HIDE DEF a, j, p
      <3> QED
        BY <3>1
    <2>2. Position \notin {3, 4}
      <3>1. SUFFICES ASSUME Position \in {3, 4} PROVE FALSE
        OBVIOUS
      <3>2. Position \notin {1, 2}
        BY <3>1
      <3>3. "header" \in where'
        BY <1>1, <3>1, <3>2
      <3> QED
        BY <3>3
    <2> HIDE DEF p
    <2> QED
      BY <1>3, <2>1, <2>2
  <1>8. taken # NoFrame => p = 0
    BY <1>3 DEF TakenWasSent
  <1>9. TakenWasSent'
    <2>1. wire' = <<>> => taken' \in {NoFrame, sent'}
      <3>1. wire' = <<>> => p # 0
        BY <1>4, <1>6
      <3> QED
        BY <1>1, <1>8, <3>1
    <2> QED
      BY <1>1, <2>1 DEF TakenWasSent
  <1> HIDE DEF p, n, c, s
  <1>10. CASE p = 0
    <2>1. wire' # <<>> /\ Gone' > 0
      BY <1>4, <1>6, <1>10
    <2>2. Astray'
      BY <1>1, <1>3, <1>6, <1>10, <2>1 DEF Astray
    <2> QED
      BY <1>1, <1>9, <2>1, <2>2 DEF Whereabouts
  <1>11. CASE p = 1
    <2>1. wire' # <<>> /\ p + 2 = 3
      BY <1>4, <1>6, <1>11
    <2>2. c[3] # SOF1
      BY <1>2, MarkedFrame DEF c
    <2>3. Astray'
      BY <1>1, <1>3, <1>6, <1>11, <2>1, <2>2 DEF Astray
    <2> QED
      BY <1>1, <1>9, <2>1, <2>3 DEF Whereabouts
  <1>12. CASE p >= 4 /\ p # n + 4
    <2> DEFINE x == sent.payload[p - 3]
    <2>1. /\ p - 3 \in 1 .. n /\ (p - 3) - 1 = p - 4 /\ p - 4 <= n
          /\ (p + 1) - 5 = p - 4 /\ (p + 1) - 4 = p - 3 /\ p + 1 >= 5
      BY <1>3, <1>4, <1>12
    <2>2. x \in Bytes \ {SOF0}
      <3>1. sent.payload \in Seq(Bytes)
        BY <1>2, TrafficEncoded
      <3>2. \A i \in 1 .. n : sent.payload[i] # SOF0
        BY <1>2 DEF Marked, n
      <3>3. sent.payload[p - 3] \in Bytes
        BY <2>1, <3>1, ElementOfSeq DEF n
      <3> QED
        BY <2>1, <3>2, <3>3
    <2>3. /\ rx.state = "READ_PAYLOAD" /\ rx.type = sent.type /\ rx.len = n
          /\ Len(rx.payload) = p - 4
          /\ \A i \in 1 .. Len(rx.payload) : rx.payload[i] = sent.payload[i]
      BY <1>3, <1>12
    <2>4. rx.checksum = s[p - 4]
      <3>1. rx.checksum = SumOf(sent.type, Len(sent.payload), rx.payload)
        BY <1>2, <2>3 DEF Summed, n
      <3>2. Len(rx.payload) <= Len(sent.payload)
        BY <2>1, <2>3 DEF n
      <3>3. SumOf(sent.type, Len(sent.payload), rx.payload) = Sums(sent)[Len(rx.payload)]
        BY <1>2, <1>4, <2>3, <3>2, PrefixSum
      <3> QED
        BY <2>3, <3>1, <3>3 DEF s
    <2>5. Mix(rx.checksum, x) = s[p - 3]
      <3>1. \A k \in 1 .. n : s[k] = Mix(s[k - 1], sent.payload[k])
        BY <1>2, SumsAre DEF s, n
      <3> QED
        BY <2>1, <2>4, <3>1
    <2> HIDE DEF x
    <2>6. wire' # <<>>
      BY <1>6, <1>12
    <2>7. PICK y \in Bytes \ {SOF0} : y = x
      BY <2>2
    <2>8. Mix(rx.checksum, y) = s[p - 3]
      BY <2>5, <2>7
    <2>9. Short(y)'
      BY <1>1, <1>6, <2>1, <2>3, <2>6, <2>8 DEF Short, n, s
    <2>10. \E z \in Bytes \ {SOF0} : Short(z)'
      BY <2>9
    <2> QED
      BY <1>1, <1>9, <2>6, <2>10 DEF Whereabouts
  <1>13. CASE p >= 4 /\ p = n + 4
    <2>1. wire' = <<>> /\ rx.state = "READ_CHECKSUM"
      BY <1>3, <1>6, <1>13
    <2>2. Len(rx.payload) = n /\ \A i \in 1 .. n : rx.payload[i] = sent.payload[i]
      <3>1. p - 4 = n
        BY <1>4, <1>13
      <3> QED
        BY <1>3, <1>13, <3>1
    <2>3. sent \in Frames /\ sent.payload \in Seq(Bytes)
      BY <1>2, TrafficEncoded
    <2>4. rx.payload = sent.payload /\ rx.type = sent.type
      BY <1>3, <1>4, <1>13, <2>2, <2>3, SeqEqual DEF n
    <2>5. [type |-> rx.type, payload |-> rx.payload] = sent
      BY <2>3, <2>4 DEF Frames
    <2>6. Starved(sent)'
      BY <1>1, <2>1, <2>5 DEF Starved
    <2> QED
      BY <1>1, <1>9, <2>1, <2>6 DEF Whereabouts
  <1>14. p \in {0, 1} \/ p >= 4
    BY <1>3, <1>4, <1>7
  <1> QED
    BY <1>10, <1>11, <1>12, <1>13, <1>14

LEMMA LinkStepKeeps ==
  ASSUME LinkInv, OneLossInv, Marked, XorLike, [LinkNext]_linkVars
  PROVE  OneLossInv'
  <1>1. SUFFICES ASSUME losses' <= 1, "header" \notin where'
                 PROVE  Whereabouts' /\ TakenWasSent'
    BY DEF OneLossInv
  <1>2. losses \in Nat
    BY DEF LinkInv
  <1>3. CASE Deliver
    <2>1. Whereabouts /\ TakenWasSent
      BY <1>1, <1>3, DeliverIs DEF OneLossInv
    <2>2. CASE sent = NoFrame
      BY <1>3, <2>1, <2>2, LineDelivers
    <2>3. CASE sent # NoFrame
      <3>1. \/ Synced
            \/ \E x \in Bytes \ {SOF0} : Short(x)
            \/ Starved(previous) /\ wire = Encode(sent)
            \/ Astray
        BY <1>3, <2>1, <2>3, DeliverIs DEF Whereabouts
      <3>2. ASSUME NEW x \in Bytes \ {SOF0}, Short(x) PROVE Whereabouts' /\ TakenWasSent'
        BY <1>3, <2>3, <3>2, ShortDelivers
      <3> QED
        BY <1>3, <2>3, <3>1, <3>2, SyncedDelivers, StarvedDelivers, AstrayDelivers
    <2> QED
      BY <2>2, <2>3
  <1>4. CASE LoseByte
    <2>1. losses' = losses + 1 /\ losses = 0
      BY <1>1, <1>2, <1>4 DEF LoseByte
    <2>2. "header" \notin where
      BY <1>1, <1>4 DEF LoseByte
    <2>3. TakenWasSent
      BY <2>1, <2>2 DEF OneLossInv
    <2> QED
      BY <1>1, <1>4, <2>1, <2>3, LossKeeps
  <1>5. CASE \/ \E f \in Traffic : SendFrame(f)
             \/ \E l \in Lines : SendLine(l)
    <2>1. losses' = losses /\ where' = where
      BY <1>5 DEF SendFrame, SendLine, Put
    <2>2. Whereabouts /\ TakenWasSent
      BY <1>1, <2>1 DEF OneLossInv
    <2> QED
      BY <1>5, <2>2, PutKeeps
  <1>6. CASE UNCHANGED linkVars
    <2>1. UNCHANGED <<rx, taken, wire, sent, previous, losses, where>>
      BY <1>6 DEF linkVars, vars, sender
    <2>2. Whereabouts /\ TakenWasSent
      BY <1>1, <2>1 DEF OneLossInv
    <2> QED
      BY <2>1, <2>2
         DEF Whereabouts, TakenWasSent, Synced, Short, Starved, Astray, Rest, Gone
  <1> QED
    BY <1>3, <1>4, <1>5, <1>6 DEF LinkNext

\* One byte lost in a payload, a checksum or the start of a frame never makes
\* the receiver accept a frame that was not sent, whatever frames and lines
\* come before and after it: the checksum and the start of the next frame
\* cannot fill the gap as long as no text byte is SOF0.
THEOREM OneLossIsHarmless ==
  ASSUME Marked, XorLike
  PROVE  LinkSpec => [](losses <= 1 => OnlySentFrames)
  <1>1. LinkInit => OneLossInv
    BY DEF LinkInit, Init, OneLossInv, Whereabouts, TakenWasSent
  <1>2. LinkInv /\ OneLossInv /\ [LinkNext]_linkVars => OneLossInv'
    BY LinkStepKeeps
  <1>3. OneLossInv => (losses <= 1 => OnlySentFrames)
    BY DEF OneLossInv, TakenWasSent, OnlySentFrames
  <1> QED
    BY <1>1, <1>2, <1>3, LinkInvariance, PTL DEF LinkSpec
=============================================================================
