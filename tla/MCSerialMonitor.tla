--------------------------- MODULE MCSerialMonitor ---------------------------
(***************************************************************************)
(* Two request threads and a reader thread for each start they can make:   *)
(* either all the requests with no browser watching, or one request and    *)
(* its reader with a browser.                                              *)
(***************************************************************************)
EXTENDS SerialMonitor

MCPublishers == Handlers \cup Readers

Watched == \E b \in Browsers : stream[b] # "away"

MCInit ==
  /\ Init
  /\ lines = MaxLines
  /\ requests = IF Watched THEN 1 ELSE MaxRequests

MCSpec == MCInit /\ [][Next]_vars /\ Fairness
=============================================================================
