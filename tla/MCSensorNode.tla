---------------------------- MODULE MCSensorNode ----------------------------
(***************************************************************************)
(* Small instances of SensorNode.  The unit of the force and environment   *)
(* scales is chosen so that a reading can lie below a limit, inside its    *)
(* hysteresis and above it; the unit of time so that a press can be short, *)
(* long or neither, and a pause short enough or too long.                  *)
(***************************************************************************)
EXTENDS SensorNode

AllSources(v) == [s \in Sources |-> v]

MCHysteresis == AllSources(1)
MCLimitMin == AllSources(1)
MCLimitMax == AllSources(4)
MCDefaultLimit == AllSources(3)

\* Only the force limit is set.
MCForceLimitArgs == [s \in Sources |-> IF s = "FORCE" THEN {3, 9} ELSE {}]

\* Only the limits of light and temperature are set.
MCEnvLimitArgs ==
  [s \in Sources |-> CASE s = "LIGHT" -> {0, 3} [] s = "TEMP" -> {3, 9} [] OTHER -> {}]

MCNoLimitArgs == AllSources({})
=============================================================================
