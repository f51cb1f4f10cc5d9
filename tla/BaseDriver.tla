----------------------------- MODULE BaseDriver -----------------------------
(***************************************************************************)
(* The sensor-node driver of the base station                              *)
(* (base-station/src/driver/sensor_node_driver.c): what it sends and when, *)
(* what it caches from the replies, and when it warns that the node is     *)
(* silent.                                                                 *)
(*                                                                         *)
(* One pass of sensor_node_driver_process is three actions, because time   *)
(* passes, and the GPIO interrupt comes, between them: the pass reads the  *)
(* clock, drains the received frames and sends at most one command, and    *)
(* then resets the flag that asked for the command and may warn.  A        *)
(* timestamp is kept as the time elapsed since; the difference of two      *)
(* uint32_t clocks is taken modulo TimeMod, as the C code takes it.        *)
(***************************************************************************)
EXTENDS Integers, Sequences

CONSTANTS
  CheckMs,   \* SENSOR_EVENT_CHECK_MS: how often the level of the line is read
  PollMs,    \* NORMAL_POLL_MS
  WarnMs,    \* NO_REPLY_WARN_MS
  RepeatMs,  \* NO_REPLY_REPEAT_MS
  MaxBusy,   \* longest a pass is held up between two of its steps
  AgeCap,    \* ages at and above the cap are not told apart
  TimeMod,   \* the clock wraps (2^32)
  Batches    \* sequences of replies that one pass can find in the UART

VARIABLE drv

\* What a reply of the node carries: FORCE, ALL and EVENT answer the reads,
\* CLEARED and CONFIG the commands of that name, SERVICE, INTERRUPT and
\* SETTING a command that set something; OTHER is PONG or an error.  BOOTSEL
\* is the node's one unsolicited frame.  A field is read only from the kinds
\* that have it.
Kinds == {"FORCE", "ALL", "EVENT", "CLEARED", "CONFIG", "SERVICE", "INTERRUPT", "SETTING",
          "OTHER", "BOOTSEL"}

Reply == [kind : Kinds, event : BOOLEAN, service : BOOLEAN, interrupt : BOOLEAN]

HasEvent(r) == r.kind \in {"FORCE", "ALL", "EVENT"}

\* Mutant: the mode is taken only from the answers that are about it.
HasServiceConfigOnly(r) == r.kind \in {"CONFIG", "SERVICE"}

HasService(r) == r.kind \in {"FORCE", "ALL", "EVENT", "CONFIG", "SERVICE"}
HasInterrupt(r) == r.kind \in {"CONFIG", "INTERRUPT"}
HasConfig(r) == HasService(r) \/ HasInterrupt(r) \/ r.kind = "SETTING"

ASSUME DriverAssumption ==
  /\ CheckMs \in Nat /\ PollMs \in Nat /\ WarnMs \in Nat /\ RepeatMs \in Nat
  /\ MaxBusy \in Nat /\ AgeCap \in Nat /\ TimeMod \in Nat
  /\ CheckMs + MaxBusy <= AgeCap /\ PollMs + MaxBusy <= AgeCap
  /\ WarnMs + MaxBusy <= AgeCap /\ RepeatMs + MaxBusy <= AgeCap
  /\ AgeCap + MaxBusy < TimeMod
  /\ Batches \subseteq Seq(Reply)

Commands == {"READ_FORCE", "READ_ALL", "READ_EVENT", "CLEAR_EVENT", "READ_CONFIG",
             "SERVICE_ON", "SERVICE_OFF", "INTERRUPT_ON", "INTERRUPT_OFF", "SET_LIMIT"}

\* The driver after device initialisation, before it is started.
ResetState ==
  [phase           |-> "off",    \* "off", "idle", or the step a pass has reached
   now_age         |-> 0,        \* time since the pass read the clock
   sent            |-> "NONE",   \* command sent by the step just taken
   warned          |-> FALSE,    \* the step just taken warned
   irq_pending     |-> FALSE,    \* event_irq_pending
   clear_pending   |-> FALSE,    \* clear_event_pending
   read_all_next   |-> TRUE,
   has_tx          |-> FALSE,    \* last_tx_label is set
   send_age        |-> 0,        \* since last_send_ms
   rx_age          |-> 0,        \* since last_rx_ms
   warn_age        |-> 0,        \* since last_warn_ms
   check_age       |-> 0,        \* since last_event_check_ms
   valid           |-> {},       \* which of the three caches are valid
   reading_event   |-> FALSE,    \* latest_reading.event_latched
   event_latched   |-> FALSE,    \* latest_event.latched
   service_mode    |-> FALSE,    \* latest_config.service_mode
   interrupt_enabled |-> FALSE]  \* latest_config.interrupt_enabled

Up(a) == IF a < AgeCap THEN a + 1 ELSE AgeCap

\* Mutant: the difference is taken the wrong way round.
SinceReversed(d, age) == (d.now_age - age) % TimeMod

\* now - t for the clock read at the start of the pass and the age of t.
Since(d, age) == (age - d.now_age) % TimeMod

-----------------------------------------------------------------------------
\* One reply, taken from a frame whose checksum was right.

UpdateReading(d, r) ==
  IF HasEvent(r)
  THEN [d EXCEPT !.reading_event = r.event, !.valid = @ \cup {"reading"}]
  ELSE d

UpdateConfig(d, r) ==
  [d EXCEPT !.service_mode = IF HasService(r) THEN r.service ELSE @,
            !.interrupt_enabled = IF HasInterrupt(r) THEN r.interrupt ELSE @,
            !.valid = IF HasConfig(r) THEN @ \cup {"config"} ELSE @]

UpdateEvent(d, r) == [d EXCEPT !.event_latched = r.event, !.valid = @ \cup {"event"}]

\* Mutant: every reply to READ_ALL asks for a clear.
HandlePayloadAlwaysClears(d, r) ==
  LET m == UpdateConfig(UpdateReading([d EXCEPT !.rx_age = 0], r), r)
  IN  CASE r.kind = "EVENT" ->
             [UpdateEvent(m, r) EXCEPT !.clear_pending = @ \/ r.event]
        [] r.kind = "CLEARED" ->
             [m EXCEPT !.event_latched = FALSE, !.reading_event = FALSE]
        [] r.kind = "ALL" -> [m EXCEPT !.clear_pending = TRUE]
        [] OTHER -> m

HandlePayload(d, r) ==
  LET m == UpdateConfig(UpdateReading([d EXCEPT !.rx_age = 0], r), r)
  IN  CASE r.kind = "EVENT" ->
             [UpdateEvent(m, r) EXCEPT !.clear_pending = @ \/ r.event]
        [] r.kind = "CLEARED" ->
             [m EXCEPT !.event_latched = FALSE, !.reading_event = FALSE]
        [] r.kind = "ALL" ->
             [m EXCEPT !.clear_pending = @ \/ m.reading_event]
        [] OTHER -> m

\* All the frames a pass finds are handled in order; BASE_BOOTSEL reboots
\* into the ROM loader, and whatever runs next starts from scratch.
ProcessUartRx(d, rx) ==
  LET after[k \in 0 .. Len(rx)] ==
        IF k = 0 THEN d
        ELSE IF rx[k].kind = "BOOTSEL" THEN ResetState
        ELSE IF after[k - 1].phase = "off" THEN after[k - 1]
        ELSE HandlePayload(after[k - 1], rx[k])
  IN  after[Len(rx)]

\* The level of the line is read now and then, for an edge that was missed.
CheckLevel(d, level) ==
  IF Since(d, d.check_age) >= CheckMs
  THEN [d EXCEPT !.check_age = d.now_age, !.irq_pending = @ \/ level]
  ELSE d


ChoiceSkipsForce(d) ==
  CASE d.clear_pending -> "CLEAR_EVENT"
    [] ~d.clear_pending /\ d.irq_pending -> "READ_EVENT"
    [] ~d.clear_pending /\ ~d.irq_pending /\ Since(d, d.send_age) >= PollMs ->
         (IF d.read_all_next THEN "READ_ALL" ELSE "NONE")
    [] OTHER -> "NONE"

\* The one command of a pass: clear before read before poll.
Choice(d) ==
  CASE d.clear_pending -> "CLEAR_EVENT"
    [] ~d.clear_pending /\ d.irq_pending -> "READ_EVENT"
    [] ~d.clear_pending /\ ~d.irq_pending /\ Since(d, d.send_age) >= PollMs ->
         (IF d.read_all_next THEN "READ_ALL" ELSE "READ_FORCE")
    [] OTHER -> "NONE"

SendFrame(d, cmd) == [d EXCEPT !.send_age = 0, !.has_tx = TRUE, !.sent = cmd]

SendChoice(d) ==
  IF Choice(d) = "NONE" THEN [d EXCEPT !.phase = "sent"]
  ELSE [SendFrame(d, Choice(d)) EXCEPT !.phase = Choice(d)]

\* Mutant: a clear also forgets the edge that came meanwhile.
ResetRequestForgetsEdge(d) ==
  CASE d.phase = "CLEAR_EVENT" -> [d EXCEPT !.clear_pending = FALSE, !.irq_pending = FALSE]
    [] d.phase = "READ_EVENT" -> [d EXCEPT !.irq_pending = FALSE]
    [] d.phase \in {"READ_ALL", "READ_FORCE"} -> [d EXCEPT !.read_all_next = ~@]
    [] OTHER -> d

\* After the send: the flag that asked for it is reset.
ResetRequest(d) ==
  CASE d.phase = "CLEAR_EVENT" -> [d EXCEPT !.clear_pending = FALSE]
    [] d.phase = "READ_EVENT" -> [d EXCEPT !.irq_pending = FALSE]
    [] d.phase \in {"READ_ALL", "READ_FORCE"} -> [d EXCEPT !.read_all_next = ~@]
    [] OTHER -> d

\* Mutant: the test for a command sent is the wrong way round.
MaybeWarnBeforeSend(d) ==
  IF /\ ~d.has_tx
     /\ Since(d, d.rx_age) >= WarnMs
     /\ Since(d, d.warn_age) >= RepeatMs
  THEN [d EXCEPT !.warn_age = d.now_age, !.warned = TRUE]
  ELSE d

\* Mutant: the warning is repeated in every pass.
MaybeWarnEachPass(d) ==
  IF d.has_tx /\ Since(d, d.rx_age) >= WarnMs
  THEN [d EXCEPT !.warn_age = d.now_age, !.warned = TRUE]
  ELSE d

MaybeWarn(d) ==
  IF /\ d.has_tx
     /\ Since(d, d.rx_age) >= WarnMs
     /\ Since(d, d.warn_age) >= RepeatMs
  THEN [d EXCEPT !.warn_age = d.now_age, !.warned = TRUE]
  ELSE d

Quiet(d) == [d EXCEPT !.sent = "NONE", !.warned = FALSE]

-----------------------------------------------------------------------------
Init == drv = ResetState

\* Time passes, also while a pass is held up by the UART or by the log.
Tick ==
  /\ drv.phase \in {"off", "idle"} \/ drv.now_age < MaxBusy
  /\ drv' = [Quiet(drv) EXCEPT
               !.now_age  = IF drv.phase \in {"off", "idle"} THEN 0 ELSE @ + 1,
               !.send_age = Up(@), !.rx_age = Up(@), !.warn_age = Up(@), !.check_age = Up(@)]

\* sensor_node_driver_start, once the devices are ready.
Start ==
  /\ drv.phase = "off"
  /\ drv' = [Quiet(drv) EXCEPT !.phase = "idle", !.send_age = 0, !.rx_age = 0,
                               !.warn_age = 0, !.check_age = 0]

\* A pass reads the clock.
BeginProcess ==
  /\ drv.phase = "idle"
  /\ drv' = [Quiet(drv) EXCEPT !.phase = "began", !.now_age = 0]

\* It drains the received frames, looks at the line and sends.
ReceiveAndSend(rx, level) ==
  /\ drv.phase = "began"
  /\ LET d == ProcessUartRx(Quiet(drv), rx)
     IN  drv' = IF d.phase = "off" THEN d ELSE SendChoice(CheckLevel(d, level))

\* It resets the request and may warn.
EndProcess ==
  /\ drv.phase \notin {"off", "idle", "began"}
  /\ drv' = [MaybeWarn(ResetRequest(Quiet(drv))) EXCEPT !.phase = "idle", !.now_age = 0]

\* sensor_event_isr, at any time.
SensorEventIsr ==
  /\ drv.phase # "off"
  /\ drv' = [Quiet(drv) EXCEPT !.irq_pending = TRUE]

\* A request of the application (sensor_node_driver_request_all and others),
\* made between two passes by the same thread.
Request(cmd) ==
  /\ drv.phase = "idle"
  /\ drv' = SendFrame(Quiet(drv), cmd)

\* The base station is reset.
Reboot == drv' = ResetState

\* One step of a driver whose passes can find these sequences of replies.
Step(batches) ==
  \/ Tick
  \/ Start
  \/ BeginProcess
  \/ \E rx \in batches, level \in BOOLEAN : ReceiveAndSend(rx, level)
  \/ EndProcess
  \/ SensorEventIsr
  \/ \E cmd \in Commands : Request(cmd)
  \/ Reboot

Next == Step(Batches)

Spec == Init /\ [][Next]_drv

\* The loop of the application goes on, and time passes.
Passing ==
  \/ BeginProcess
  \/ \E rx \in Batches, level \in BOOLEAN : ReceiveAndSend(rx, level)
  \/ EndProcess

LiveSpec == Init /\ [][Next]_drv /\ WF_drv(Tick) /\ WF_drv(Start) /\ WF_drv(Passing)

-----------------------------------------------------------------------------
\* An edge of the event line is answered by READ_EVENT, unless replies keep
\* reporting events, in which case CLEAR_EVENT goes first for ever.  (An edge
\* that falls between the send and the reset of the flag is forgotten; only
\* the level, read by a later pass, can repair that.)
EdgeIsAnswered ==
  <>[](drv.sent # "CLEAR_EVENT") =>
    (drv.irq_pending /\ drv.phase = "idle" ~> drv.sent = "READ_EVENT" \/ drv.phase = "off")

\* A node that stays silent is reported (maybe_warn_no_reply).
Silent == drv.has_tx /\ drv.rx_age = AgeCap

SilenceIsReported == Silent ~> drv.warned \/ ~Silent

\* Polling does not stop: as long as the driver runs it sends again and again.
KeepsTalking == []<>(drv.sent # "NONE" \/ drv.phase = "off")

\* Time from a stamp to the moment the pass read the clock, which is before
\* the stamp when that was set in the same pass.
Elapsed(age) == age - drv.now_age

\* A poll is never sent early: whatever was sent and received meanwhile and
\* however long the pass has been held up, the unsigned difference to
\* last_send_ms has not wrapped when it is compared with NORMAL_POLL_MS.
PollDue ==
  drv.phase = "began" /\ drv'.sent \in {"READ_ALL", "READ_FORCE"}
    => Elapsed(drv.send_age) >= PollMs

\* The warning of maybe_warn_no_reply is true and not repeated too soon, save
\* for one case: last_rx_ms was set by a reply of the same pass, after the
\* clock had been read.
WarningDue ==
  drv'.warned =>
    /\ drv.has_tx
    /\ Elapsed(drv.rx_age) >= WarnMs \/ Elapsed(drv.rx_age) < 0
    /\ Elapsed(drv.warn_age) >= RepeatMs

\* What the driver has been asked to do it does: until it is reset, a pending
\* clear or edge is forgotten only by a pass that has sent the command for it,
\* whatever the interrupt handler and the application do between the steps.
RequestKept ==
  /\ drv.clear_pending /\ ~drv'.clear_pending => drv.phase = "CLEAR_EVENT" \/ drv'.phase = "off"
  /\ drv.irq_pending /\ ~drv'.irq_pending => drv.phase = "READ_EVENT" \/ drv'.phase = "off"
  /\ drv'.phase \in Commands /\ drv'.phase # drv.phase => drv'.sent = drv'.phase

\* No step polls early, warns without cause or forgets a request.
StepsAreSound == [][PollDue /\ WarningDue /\ RequestKept]_drv
=============================================================================
