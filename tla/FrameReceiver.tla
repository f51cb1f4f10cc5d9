---------------------------- MODULE FrameReceiver ----------------------------
(***************************************************************************)
(* The byte-level receiver both ends of the UART use: feed_frame_byte and  *)
(* the loop around it, in sensor-node/src/main.c and, with the same        *)
(* transitions, in base-station/src/driver/sensor_node_driver.c.  A frame  *)
(* is SOF0 SOF1 type length payload checksum; outside a frame the bytes    *)
(* are a text line.  There is no timeout: a frame that lost a byte goes on *)
(* with the bytes that follow it.                                          *)
(*                                                                         *)
(* Here any byte may come at any time; FrameLink says who sends them.      *)
(***************************************************************************)
EXTENDS Integers, Sequences

CONSTANTS
  Bytes,       \* what the UART can deliver
  SOF0, SOF1,  \* start of frame
  CR, LF,
  MaxPayload,  \* FRAME_MAX_PAYLOAD
  LineMax,     \* sizeof(rx_buf) - 1
  Mix(_, _),   \* one step of the checksum (exclusive or)
  NoFrame

ASSUME ByteAssumption ==
  /\ Bytes \subseteq Nat
  /\ {0, SOF0, SOF1, CR, LF} \subseteq Bytes
  /\ SOF0 \notin {CR, LF} /\ CR # LF
  /\ MaxPayload \in Nat /\ LineMax \in Nat
  /\ \A a, b \in Bytes : Mix(a, b) \in Bytes

Frames == [type : Bytes, payload : Seq(Bytes)]

ASSUME NoFrameAssumption == NoFrame \notin Frames

VARIABLES
  rx,     \* the receiver: frame_state and what it has of the frame, and rx_len
  taken,  \* the frame accepted by the byte just read, or NoFrame
  line,   \* whether that byte ended a text line
  heard   \* history: the last bytes read

vars == <<rx, taken, line, heard>>

\* frame_checksum, over the type, the length and the payload.
Checksum(frame) ==
  LET sum[k \in 0 .. Len(frame.payload)] ==
        IF k = 0 THEN Mix(frame.type, Len(frame.payload)) ELSE Mix(sum[k - 1], frame.payload[k])
  IN  sum[Len(frame.payload)]

\* What send_frame puts on the line.
Encode(frame) ==
  <<SOF0, SOF1, frame.type, Len(frame.payload)>> \o frame.payload \o <<Checksum(frame)>>

-----------------------------------------------------------------------------
\* frame_pos is the length of `payload'.  Outside a frame the variables of
\* the frame hold leftovers that are overwritten before they are read; here
\* they are reset.
Idle(r) == [r EXCEPT !.state = "WAIT_SOF0", !.type = 0, !.len = 0, !.payload = <<>>, !.checksum = 0]

\* Mutants: the length is not checked; the longest payload is refused.
ReadLenUnchecked(r, b) ==
  LET m == [r EXCEPT !.len = b, !.payload = <<>>, !.checksum = Mix(@, b)]
  IN  IF b = 0 THEN [m EXCEPT !.state = "READ_CHECKSUM"] ELSE [m EXCEPT !.state = "READ_PAYLOAD"]

ReadLenTooStrict(r, b) ==
  LET m == [r EXCEPT !.len = b, !.payload = <<>>, !.checksum = Mix(@, b)]
  IN  CASE b >= MaxPayload -> Idle(r)
        [] b = 0 -> [m EXCEPT !.state = "READ_CHECKSUM"]
        [] OTHER -> [m EXCEPT !.state = "READ_PAYLOAD"]

ReadLen(r, b) ==
  LET m == [r EXCEPT !.len = b, !.payload = <<>>, !.checksum = Mix(@, b)]
  IN  CASE b > MaxPayload -> Idle(r)
        [] b = 0 -> [m EXCEPT !.state = "READ_CHECKSUM"]
        [] OTHER -> [m EXCEPT !.state = "READ_PAYLOAD"]

ReadPayload(r, b) ==
  LET m == [r EXCEPT !.payload = Append(@, b), !.checksum = Mix(@, b)]
  IN  IF Len(m.payload) >= m.len THEN [m EXCEPT !.state = "READ_CHECKSUM"] ELSE m

\* Mutants: a byte between the two start bytes is skipped; after a wrong
\* checksum the receiver waits for the right one.
FeedFrameByteSkips(r, b) ==
  CASE r.state = "WAIT_SOF0" -> IF b = SOF0 THEN [r EXCEPT !.state = "WAIT_SOF1"] ELSE r
    [] r.state = "WAIT_SOF1" -> IF b = SOF1 THEN [r EXCEPT !.state = "READ_TYPE"] ELSE r
    [] r.state = "READ_TYPE" -> [r EXCEPT !.type = b, !.checksum = b, !.state = "READ_LEN"]
    [] r.state = "READ_LEN" -> ReadLen(r, b)
    [] r.state = "READ_PAYLOAD" -> ReadPayload(r, b)
    [] r.state = "READ_CHECKSUM" -> Idle(r)

FeedFrameByteWaits(r, b) ==
  CASE r.state = "WAIT_SOF0" -> IF b = SOF0 THEN [r EXCEPT !.state = "WAIT_SOF1"] ELSE r
    [] r.state = "WAIT_SOF1" -> IF b = SOF1 THEN [r EXCEPT !.state = "READ_TYPE"] ELSE Idle(r)
    [] r.state = "READ_TYPE" -> [r EXCEPT !.type = b, !.checksum = b, !.state = "READ_LEN"]
    [] r.state = "READ_LEN" -> ReadLen(r, b)
    [] r.state = "READ_PAYLOAD" -> ReadPayload(r, b)
    [] r.state = "READ_CHECKSUM" -> IF b = r.checksum THEN Idle(r) ELSE r

FeedFrameByte(r, b) ==
  CASE r.state = "WAIT_SOF0" -> IF b = SOF0 THEN [r EXCEPT !.state = "WAIT_SOF1"] ELSE r
    [] r.state = "WAIT_SOF1" -> IF b = SOF1 THEN [r EXCEPT !.state = "READ_TYPE"] ELSE Idle(r)
    [] r.state = "READ_TYPE" -> [r EXCEPT !.type = b, !.checksum = b, !.state = "READ_LEN"]
    [] r.state = "READ_LEN" -> ReadLen(r, b)
    [] r.state = "READ_PAYLOAD" -> ReadPayload(r, b)
    [] r.state = "READ_CHECKSUM" -> Idle(r)

\* Mutant: the checksum is not compared.
AcceptsAny(r, b) == r.state = "READ_CHECKSUM"

Accepts(r, b) == r.state = "READ_CHECKSUM" /\ b = r.checksum

\* Mutant: one byte too many.
FeedLineByteTooFar(r, b) ==
  CASE b = CR -> r
    [] b = LF -> [r EXCEPT !.line_len = 0]
    [] b \notin {CR, LF} ->
         [r EXCEPT !.line_len = IF r.line_len <= LineMax THEN r.line_len + 1 ELSE 0]

\* A byte of a text line; a line that is too long is forgotten.
FeedLineByte(r, b) ==
  CASE b = CR -> r
    [] b = LF -> [r EXCEPT !.line_len = 0]
    [] b \notin {CR, LF} ->
         [r EXCEPT !.line_len = IF r.line_len < LineMax THEN r.line_len + 1 ELSE 0]

InFrame(r, b) == r.state # "WAIT_SOF0" \/ b = SOF0

Window == MaxPayload + 5  \* the longest frame

LastOf(s) == IF Len(s) > Window THEN Tail(s) ELSE s

-----------------------------------------------------------------------------
Init ==
  /\ rx = [state |-> "WAIT_SOF0", type |-> 0, len |-> 0, payload |-> <<>>,
           checksum |-> 0, line_len |-> 0]
  /\ taken = NoFrame
  /\ line = FALSE
  /\ heard = <<>>

Receive(b) ==
  /\ rx' = IF InFrame(rx, b) THEN FeedFrameByte(rx, b) ELSE FeedLineByte(rx, b)
  /\ taken' = IF Accepts(rx, b) THEN [type |-> rx.type, payload |-> rx.payload] ELSE NoFrame
  /\ line' = (~InFrame(rx, b) /\ b = LF)
  /\ heard' = LastOf(Append(heard, b))

Next == \E b \in Bytes : Receive(b)

Spec == Init /\ [][Next]_vars

-----------------------------------------------------------------------------
States == {"WAIT_SOF0", "WAIT_SOF1", "READ_TYPE", "READ_LEN", "READ_PAYLOAD", "READ_CHECKSUM"}

\* Every variable has its type.
TypeOK ==
  /\ rx \in [state : States, type : Bytes, len : Bytes, payload : Seq(Bytes),
             checksum : Bytes, line_len : Nat]
  /\ taken \in Frames \cup {NoFrame}
  /\ line \in BOOLEAN
  /\ heard \in Seq(Bytes)

\* Whatever the line delivers, the receiver stays inside its buffers:
\* frame_payload[frame_pos] is written while frame_pos < frame_len <=
\* FRAME_MAX_PAYLOAD, frame_payload[frame_len] is terminated where the payload
\* ends, and rx_buf[rx_len] stays inside rx_buf.
BufferBounds ==
  /\ rx.len <= MaxPayload
  /\ rx.state = "READ_PAYLOAD" => Len(rx.payload) < rx.len
  /\ rx.state = "READ_CHECKSUM" => Len(rx.payload) = rx.len
  /\ rx.line_len <= LineMax

\* What is accepted fits the buffer it is handed over in.
TakenFits == taken # NoFrame => Len(taken.payload) <= MaxPayload

\* A frame is accepted only if its encoding is exactly what the line delivered
\* last: no byte was skipped, taken twice, or taken from the frame before.
AcceptsWhatWasHeard ==
  taken # NoFrame =>
    LET n == Len(Encode(taken))
    IN  /\ Len(heard) >= n
        /\ SubSeq(heard, Len(heard) - n + 1, Len(heard)) = Encode(taken)
=============================================================================
