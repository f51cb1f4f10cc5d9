----------------------------- MODULE EventLatch -----------------------------
(***************************************************************************)
(* What the sensor node promises about alarms, without saying how alarms   *)
(* are detected: at most one event is held, the first one wins, it is held *)
(* until it is cleared, and service mode is silent.  SensorNode implements *)
(* this specification, and CaseGuardian composes it with the base station. *)
(***************************************************************************)
CONSTANTS
  Events,   \* everything that can be latched
  NoEvent   \* the latch is empty

VARIABLES
  service_mode,       \* alarms are suppressed
  interrupt_enabled,  \* the event line may be driven
  event,              \* the latched event, or NoEvent
  irq_pin             \* level of the event line (GPIO15)

vars == <<service_mode, interrupt_enabled, event, irq_pin>>

Init ==
  /\ service_mode = FALSE
  /\ interrupt_enabled = TRUE
  /\ event = NoEvent
  /\ irq_pin = FALSE

\* An alarm condition is detected while the latch is free.
Latch(e) ==
  /\ ~service_mode
  /\ event = NoEvent
  /\ event' = e
  /\ irq_pin' = interrupt_enabled
  /\ UNCHANGED <<service_mode, interrupt_enabled>>

\* CLEAR_EVENT empties the latch, whatever it holds.
Clear ==
  /\ event' = NoEvent
  /\ irq_pin' = FALSE
  /\ UNCHANGED <<service_mode, interrupt_enabled>>

\* ENABLE_INTERRUPT gates the line and leaves the latch alone.
EnableInterrupt(b) ==
  /\ interrupt_enabled' = b
  /\ irq_pin' = (b /\ event # NoEvent)
  /\ UNCHANGED <<service_mode, event>>

\* Entering service mode forgets the alarm and disables the line.
EnterService ==
  /\ ~service_mode
  /\ service_mode' = TRUE
  /\ interrupt_enabled' = FALSE
  /\ event' = NoEvent
  /\ irq_pin' = FALSE

\* Leaving it enables the line again.  READ_ALL evaluates the environment
\* right after a gesture has ended, so an alarm may be found at once.
LeaveService ==
  /\ service_mode
  /\ service_mode' = FALSE
  /\ interrupt_enabled' = TRUE
  /\ \/ /\ event' = NoEvent
        /\ irq_pin' = FALSE
     \/ /\ event' \in Events
        /\ irq_pin' = TRUE

\* The microcontroller is reset.
Restart ==
  /\ service_mode' = FALSE
  /\ interrupt_enabled' = TRUE
  /\ event' = NoEvent
  /\ irq_pin' = FALSE

Next ==
  \/ \E e \in Events : Latch(e)
  \/ Clear
  \/ \E b \in BOOLEAN : EnableInterrupt(b)
  \/ EnterService
  \/ LeaveService
  \/ Restart

Spec == Init /\ [][Next]_vars
=============================================================================
