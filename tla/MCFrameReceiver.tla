--------------------------- MODULE MCFrameReceiver ---------------------------
(***************************************************************************)
(* Four byte values; the checksum is an exclusive or of two bits.  Every   *)
(* value is also a length, a type and a payload byte, SOF0 and SOF1 too.   *)
(***************************************************************************)
EXTENDS FrameReceiver, Bitwise

MCMix(a, b) == a ^^ b
=============================================================================
