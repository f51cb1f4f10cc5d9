----------------------------- MODULE MCFrameLink -----------------------------
(***************************************************************************)
(* Half-bytes instead of bytes.  As in the program no payload byte and no  *)
(* length is SOF0, but a type can be (a reply to SET_HUMIDITY_HIGH, 0x25,  *)
(* has type 0xA5), and so can a checksum.                                  *)
(***************************************************************************)
EXTENDS FrameLink, Bitwise

MCXor == [a \in Bytes |-> [b \in Bytes |-> a ^^ b]]

MCMix(a, b) == MCXor[a][b]

MCTraffic ==
  {[type |-> 1, payload |-> <<>>],         \* a read command
   [type |-> 12, payload |-> <<7>>],       \* its checksum is SOF0
   [type |-> SOF0, payload |-> <<4, 1>>],
   [type |-> 9, payload |-> <<4, 6, 2>>]}  \* the longest

MCLines == {<<4, 6, 4, 13, 3>>}

ASSUME FramesAreMarked == Marked /\ XorLike
=============================================================================
