------------------------------ MODULE MCBaseApp ------------------------------
(***************************************************************************)
(* The host types four short lines, the third longer than a command can    *)
(* be.                                                                     *)
(***************************************************************************)
EXTENDS BaseApp

MCLineLen == <<1, 2, 4, 1>>
=============================================================================
