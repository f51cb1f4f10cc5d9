------------------------------ MODULE MCReadings ------------------------------
(* The two addresses that read_environment tries, 0x76 and 0x77, and three  *)
(* measurements: one just below zero, one with a digit of each place, and   *)
(* one with the greatest gas resistance.                                    *)
EXTENDS Readings

MCAddresses == <<118, 119>>
MCMeasured ==
  << [temperature |-> -5, humidity |-> 0, gas |-> 0],
     [temperature |-> -1234, humidity |-> 4507, gas |-> 19],
     [temperature |-> 2130, humidity |-> 10000, gas |-> U32Max] >>
===============================================================================
