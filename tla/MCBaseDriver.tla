---------------------------- MODULE MCBaseDriver ----------------------------
(***************************************************************************)
(* A small instance of BaseDriver: one reply of each kind that is handled  *)
(* differently, alone, and the pairs whose order matters.                  *)
(***************************************************************************)
EXTENDS BaseDriver

R(kind, event) == [kind |-> kind, event |-> event, service |-> FALSE, interrupt |-> FALSE]

MCSingles ==
  {R("FORCE", FALSE), R("FORCE", TRUE), R("ALL", FALSE), R("ALL", TRUE), R("EVENT", FALSE),
   R("EVENT", TRUE), R("CLEARED", FALSE), R("OTHER", FALSE), R("BOOTSEL", FALSE)}

MCBatches ==
  {<<>>} \cup {<<r>> : r \in MCSingles}
         \cup {<<R("EVENT", TRUE), R("CLEARED", FALSE)>>, <<R("CLEARED", FALSE), R("ALL", TRUE)>>,
               <<R("EVENT", TRUE), R("BOOTSEL", FALSE)>>}
=============================================================================
