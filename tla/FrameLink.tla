------------------------------ MODULE FrameLink ------------------------------
(***************************************************************************)
(* One direction of the UART: a sender that sends whole frames             *)
(* (send_frame), now and then a text line (uart_puts), a line that may     *)
(* lose bytes, and the receiver of FrameReceiver.                          *)
(***************************************************************************)
EXTENDS FrameReceiver

CONSTANTS
  Traffic,    \* the frames that are sent
  Lines,      \* the text lines that are sent
  MaxLosses   \* bound: bytes lost in a behaviour

ASSUME TrafficAssumption ==
  /\ \A f \in Traffic : f \in Frames /\ Len(f.payload) \in Bytes /\ Len(f.payload) <= MaxPayload
  /\ Lines \subseteq Seq(Bytes \ {SOF0})
  /\ MaxLosses \in Nat

VARIABLES
  wire,      \* bytes sent and not yet delivered
  sent,      \* the frame they belong to, or NoFrame for a text line
  previous,  \* the frame or line sent before it
  losses,    \* number of bytes lost so far
  where,     \* where in their frames bytes were lost: "start", "header", "body"
  accepted   \* how often the receiver has accepted a frame since `sent' was sent

sender == <<sent, previous, losses, where, accepted>>
linkVars == <<vars, wire, sender>>

LinkInit ==
  /\ Init
  /\ wire = <<>> /\ sent = NoFrame /\ previous = NoFrame
  /\ losses = 0 /\ where = {} /\ accepted = 0

Put(bytes, what) ==
  /\ wire = <<>>
  /\ wire' = bytes
  /\ sent' = what /\ previous' = sent
  /\ accepted' = 0
  /\ UNCHANGED <<vars, losses, where>>

SendFrame(f) == Put(Encode(f), f)

SendLine(l) == Put(l, NoFrame)

Deliver ==
  /\ wire # <<>>
  /\ Receive(Head(wire))
  /\ wire' = Tail(wire)
  /\ accepted' = IF taken' # NoFrame THEN accepted + 1 ELSE accepted
  /\ UNCHANGED <<sent, previous, losses, where>>

\* The position in the frame of the byte that comes next.
Position == Len(Encode(sent)) - Len(wire) + 1

LoseByte ==
  /\ wire # <<>> /\ sent # NoFrame /\ losses < MaxLosses
  /\ wire' = Tail(wire)
  /\ losses' = losses + 1
  /\ where' = where \cup {CASE Position \in {1, 2} -> "start"
                             [] Position \in {3, 4} -> "header"
                             [] OTHER -> "body"}
  /\ UNCHANGED <<vars, sent, previous, accepted>>

LinkNext ==
  \/ \E f \in Traffic : SendFrame(f)
  \/ \E l \in Lines : SendLine(l)
  \/ Deliver
  \/ LoseByte

LinkSpec == LinkInit /\ [][LinkNext]_linkVars

\* What is on the line arrives, and the sender does not stop.
LiveLinkSpec == LinkSpec /\ WF_linkVars(Deliver) /\ WF_linkVars(\E f \in Traffic : SendFrame(f))

-----------------------------------------------------------------------------
\* What a damaged frame cannot be mistaken for.  Payloads are text and at most
\* 160 bytes, so no payload byte and no length is SOF0; no type is SOF1, and
\* the answer whose type is SOF0 is not SOF1 bytes long; lines are words.
Marked ==
  /\ SOF0 # SOF1
  /\ \A f \in Traffic :
       /\ f.type # SOF1
       /\ Len(f.payload) # SOF0 /\ (f.type = SOF0 => Len(f.payload) # SOF1)
       /\ \A i \in 1 .. Len(f.payload) : f.payload[i] # SOF0
  /\ \A l \in Lines : Len(l) >= 2 /\ l[1] # SOF1

\* What the proofs use of the exclusive or.
XorLike ==
  /\ \A a, b, c \in Bytes : Mix(Mix(a, b), c) = Mix(Mix(a, c), b)
  /\ \A a, b \in Bytes : Mix(a, Mix(a, b)) = b

-----------------------------------------------------------------------------
\* As long as nothing is lost every frame is accepted, once, whatever frames
\* and lines came before it, from the empty payload to the longest.
NothingLostIsDelivered ==
  losses = 0 /\ sent # NoFrame /\ wire = <<>> => accepted = 1

\* A byte lost in the payload or the checksum, or in the start of a frame,
\* never makes the receiver accept a frame that was not sent: it accepts the
\* one just sent, or the one before (the first byte of this one having stood
\* in for its checksum).  A lost type or length can, if eight bits of checksum
\* happen to agree, and so can a text line after the damaged frame.
OnlySentFrames ==
  taken # NoFrame /\ sent # NoFrame /\ "header" \notin where =>
    taken = sent \/ taken = previous

\* The receiver recovers without a timeout: if frames whose checksum is not
\* the start byte are sent for ever, frames are accepted for ever, whatever
\* was lost before.  (After a frame whose checksum is SOF0 the next start
\* byte is not recognised; a sender that only sends such frames is never
\* heard again.)
Recovers ==
  []<>(sent # NoFrame /\ Checksum(sent) # SOF0) => []<>(taken # NoFrame)
=============================================================================
