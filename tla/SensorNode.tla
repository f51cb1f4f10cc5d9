----------------------------- MODULE SensorNode -----------------------------
(***************************************************************************)
(* The sensor node firmware (sensor-node/src/main.c): the event latch and  *)
(* its interrupt line, service mode, the touch gesture that toggles it,    *)
(* the edge detectors of the four alarm channels, and every command that   *)
(* changes any of them.                                                    *)
(*                                                                         *)
(* The firmware is one loop, so a handler runs to its end before the next  *)
(* one starts.  Its static variables are the fields of the record `node';  *)
(* a C function that updates them is an operator from a record to a        *)
(* record, and a handler is the composition of the functions it calls.     *)
(* The unit of time is the 10 ms sampling period of the force sensor; a    *)
(* timestamp is kept as the time elapsed since, up to a cap beyond which   *)
(* no comparison in the code can tell values apart.                        *)
(***************************************************************************)
EXTENDS Integers, Sequences

CONSTANTS
  ForceRaw,      \* values the ADC returns for the force sensor
  EnvRaw,        \* values of the light, temperature and humidity sensors
  NoReading,     \* a sensor that does not answer
  NoEvent,       \* an empty latch, for the refinement of EventLatch
  LimitArgs,     \* [Sources -> arguments of the commands that set a limit]
  LimitMin,      \* [Sources -> least limit], the clamps of those commands
  LimitMax,      \* [Sources -> greatest limit]
  DefaultLimit,  \* [Sources -> limit at power on]
  Hysteresis,    \* [Sources -> how far below its limit a channel re-arms]
  SamplingArgs,  \* arguments of SET_SAMPLING_RATE
  MinSampling, DefaultSampling, MaxSampling,
  ShortMax,      \* longest press that is an S  (SERVICE_SHORT_MAX_MS)
  LongMin,       \* shortest press that is an L (SERVICE_LONG_MIN_MS)
  GapMax,        \* longest pause in a gesture  (SERVICE_GAP_MAX_MS)
  AgeCap         \* ages at and above the cap are not told apart

EnvSources == {"LIGHT", "TEMP", "HUMIDITY"}
Sources == EnvSources \cup {"FORCE"}

ASSUME RawAssumption ==
  /\ ForceRaw \subseteq Nat
  /\ 0 \in ForceRaw
  /\ EnvRaw \subseteq Int
  /\ NoReading \notin EnvRaw
  /\ NoEvent \notin [source : Sources, value : ForceRaw \cup EnvRaw]

ASSUME LimitAssumption ==
  /\ LimitArgs \in [Sources -> SUBSET Int]
  /\ LimitMin \in [Sources -> Int]
  /\ LimitMax \in [Sources -> Int]
  /\ DefaultLimit \in [Sources -> Int]
  /\ Hysteresis \in [Sources -> Nat]
  /\ \A s \in Sources : LimitMin[s] <= DefaultLimit[s] /\ DefaultLimit[s] <= LimitMax[s]

ASSUME TimeAssumption ==
  /\ ShortMax \in Nat /\ LongMin \in Nat /\ GapMax \in Nat /\ AgeCap \in Nat
  /\ ShortMax < LongMin /\ LongMin < AgeCap /\ GapMax < AgeCap
  /\ SamplingArgs \subseteq Nat
  /\ MinSampling \in Nat /\ DefaultSampling \in Nat /\ MaxSampling \in Nat
  /\ MinSampling <= DefaultSampling /\ DefaultSampling <= MaxSampling
  /\ \A v \in SamplingArgs : v <= MaxSampling

VARIABLE node

Lesser(a, b) == IF a < b THEN a ELSE b
Greater(a, b) == IF a > b THEN a ELSE b

Symbols == {"S", "L"}
ServicePattern == <<"S", "S", "L">>
ServicePrefixes == {<<>>, <<"S">>, <<"S", "S">>, ServicePattern}
PatternCapacity == 3  \* service_pattern[4] keeps one byte for the terminator

-----------------------------------------------------------------------------
\* The latch and its line.

UpdatePin(n) ==
  [n EXCEPT !.irq_pin = n.interrupt_enabled /\ n.event_latched /\ ~n.service_mode]

\* Mutant: the line keeps its level.
ClearLatchKeepsPin(n) ==
  [n EXCEPT !.event_latched = FALSE, !.event_source = "NONE", !.event_value = 0]

ClearLatch(n) ==
  UpdatePin([n EXCEPT !.event_latched = FALSE, !.event_source = "NONE", !.event_value = 0])

\* Mutant: a second event overwrites the first.
LatchEventOverwrites(n, s, v) ==
  IF n.service_mode THEN n
  ELSE UpdatePin([n EXCEPT !.event_latched = TRUE, !.event_source = s, !.event_value = v])

\* Of the readings stored with an event, event_value is the one of the
\* channel that raised it.
LatchEvent(n, s, v) ==
  IF n.service_mode \/ n.event_latched
  THEN n
  ELSE UpdatePin([n EXCEPT !.event_latched = TRUE, !.event_source = s, !.event_value = v])

\* Mutants: the latch is not cleared on entry; the line is not enabled on exit.
SetServiceModeKeepsLatch(n, enabled) ==
  IF n.service_mode = enabled THEN n
  ELSE UpdatePin([n EXCEPT !.service_mode = enabled, !.interrupt_enabled = ~enabled])

SetServiceModeKeepsDisabled(n, enabled) ==
  IF n.service_mode = enabled THEN n
  ELSE IF enabled
  THEN ClearLatch([n EXCEPT !.service_mode = TRUE, !.interrupt_enabled = FALSE,
                            !.was_high = [s \in Sources |-> FALSE]])
  ELSE UpdatePin([n EXCEPT !.service_mode = FALSE])

SetServiceMode(n, enabled) ==
  LET m == [n EXCEPT !.service_mode = enabled, !.interrupt_enabled = ~enabled]
  IN  IF n.service_mode = enabled THEN n
      ELSE IF enabled THEN ClearLatch([m EXCEPT !.was_high = [s \in Sources |-> FALSE]])
      ELSE UpdatePin(m)

-----------------------------------------------------------------------------
\* The gesture.  Timestamps and peaks that the code can no longer read are
\* set to zero, so that states differ only where the program can tell.

ResetPattern(n) ==
  [n EXCEPT !.pattern = <<>>, !.pattern_peak = 0, !.symbol_age = 0, !.pending_force = FALSE]

LatchPendingPattern(n) ==
  ResetPattern(IF n.pending_force /\ ~n.service_mode
               THEN LatchEvent(n, "FORCE", n.pattern_peak)
               ELSE n)

\* Mutant: a gesture that is given up after a pause is forgotten.
FlushAfterGapDrops(n) ==
  IF n.pattern # <<>> /\ n.symbol_age > GapMax THEN ResetPattern(n) ELSE n

FlushAfterGap(n) ==
  IF n.pattern # <<>> /\ n.symbol_age > GapMax THEN LatchPendingPattern(n) ELSE n

FlushIfFull(n) ==
  IF Len(n.pattern) >= PatternCapacity THEN LatchPendingPattern(n) ELSE n

\* Mutants: the pause before a symbol is not checked; the prefix is not
\* checked; the peak is not recorded.
AppendSymbolIgnoresGap(n, symbol, peak) ==
  LET m == FlushIfFull(n)
      a == [m EXCEPT !.pattern = Append(@, symbol), !.pattern_peak = Greater(@, peak),
                     !.symbol_age = 0, !.pending_force = TRUE]
  IN  IF a.pattern = ServicePattern THEN ResetPattern(SetServiceMode(a, ~a.service_mode))
      ELSE IF a.pattern \in ServicePrefixes THEN a
      ELSE LatchPendingPattern(a)

AppendSymbolKeepsAny(n, symbol, peak) ==
  LET m == FlushIfFull(FlushAfterGap(n))
      a == [m EXCEPT !.pattern = Append(@, symbol), !.pattern_peak = Greater(@, peak),
                     !.symbol_age = 0, !.pending_force = TRUE]
  IN  IF a.pattern = ServicePattern THEN ResetPattern(SetServiceMode(a, ~a.service_mode)) ELSE a

AppendSymbolLosesPeak(n, symbol, peak) ==
  LET m == FlushIfFull(FlushAfterGap(n))
      a == [m EXCEPT !.pattern = Append(@, symbol), !.symbol_age = 0, !.pending_force = TRUE]
  IN  IF a.pattern = ServicePattern THEN ResetPattern(SetServiceMode(a, ~a.service_mode))
      ELSE IF a.pattern \in ServicePrefixes THEN a
      ELSE LatchPendingPattern(a)

AppendSymbol(n, symbol, peak) ==
  LET m == FlushIfFull(FlushAfterGap(n))
      a == [m EXCEPT !.pattern = Append(@, symbol),
                     !.pattern_peak = Greater(@, peak),
                     !.symbol_age = 0,
                     !.pending_force = TRUE]
  IN  IF a.pattern = ServicePattern THEN ResetPattern(SetServiceMode(a, ~a.service_mode))
      ELSE IF a.pattern \in ServicePrefixes THEN a
      ELSE LatchPendingPattern(a)

IsPressed(n, raw) ==
  IF n.is_pressed
  THEN raw + Hysteresis["FORCE"] >= n.limit["FORCE"]
  ELSE raw >= n.limit["FORCE"]

\* Mutant: a press is reported only while a gesture is under way.
HoldPressNeedsPattern(n, raw) ==
  LET m == IF n.is_pressed
           THEN [n EXCEPT !.press_peak = Greater(@, raw)]
           ELSE [n EXCEPT !.is_pressed = TRUE, !.press_age = 0, !.press_peak = raw]
  IN  IF /\ ~m.service_mode /\ m.pattern # <<>>
         /\ m.press_age > ShortMax /\ ~m.was_high["FORCE"]
      THEN [LatchEvent(m, "FORCE", m.press_peak) EXCEPT !.was_high["FORCE"] = TRUE]
      ELSE m

\* The sensor is loaded: a press starts or goes on.
HoldPress(n, raw) ==
  LET m == IF n.is_pressed
           THEN [n EXCEPT !.press_peak = Greater(@, raw)]
           ELSE [n EXCEPT !.is_pressed = TRUE, !.press_age = 0, !.press_peak = raw]
  IN  IF /\ ~m.service_mode
         /\ m.pattern = <<>>
         /\ m.press_age > ShortMax
         /\ ~m.was_high["FORCE"]
      THEN [LatchEvent(m, "FORCE", m.press_peak) EXCEPT !.was_high["FORCE"] = TRUE]
      ELSE m

\* Mutants: the duration is passed for the peak; a press that is neither short
\* nor long is ignored.
EndPressPassesDuration(n) ==
  LET m == [n EXCEPT !.is_pressed = FALSE, !.press_age = 0, !.press_peak = 0]
  IN  CASE n.press_age <= ShortMax -> AppendSymbol(m, "S", n.press_age)
        [] n.press_age >= LongMin  -> AppendSymbol(m, "L", n.press_age)
        [] OTHER                   -> ResetPattern(LatchEvent(m, "FORCE", n.press_peak))

EndPressIgnoresMiddle(n) ==
  LET m == [n EXCEPT !.is_pressed = FALSE, !.press_age = 0, !.press_peak = 0]
  IN  CASE n.press_age <= ShortMax -> AppendSymbol(m, "S", n.press_peak)
        [] n.press_age >= LongMin  -> AppendSymbol(m, "L", n.press_peak)
        [] OTHER                   -> ResetPattern(m)

\* The press `n.is_pressed' has ended and is classified by its duration.
EndPress(n) ==
  LET m == [n EXCEPT !.is_pressed = FALSE, !.press_age = 0, !.press_peak = 0]
  IN  CASE n.press_age <= ShortMax -> AppendSymbol(m, "S", n.press_peak)
        [] n.press_age >= LongMin  -> AppendSymbol(m, "L", n.press_peak)
        [] OTHER                   -> ResetPattern(LatchEvent(m, "FORCE", n.press_peak))

Unload(n, raw) ==
  LET m == [n EXCEPT !.was_high["FORCE"] =
                       @ /\ raw + Hysteresis["FORCE"] >= n.limit["FORCE"]]
  IN  IF n.is_pressed THEN EndPress(m) ELSE m

UpdateGesture(n, raw) ==
  LET m == IF n.is_pressed THEN n ELSE FlushAfterGap(n)
  IN  IF IsPressed(n, raw) THEN HoldPress(m, raw) ELSE Unload(m, raw)

UpdateForce(n, raw) == UpdateGesture([n EXCEPT !.latest_force = raw], raw)

-----------------------------------------------------------------------------
\* The edge detectors of the environment channels.

\* Mutant: the alarm is raised at the level where the channel re-arms.
UpdateChannelTooEarly(n, s, v) ==
  CASE ~n.was_high[s] /\ v + Hysteresis[s] >= n.limit[s] ->
         LatchEvent([n EXCEPT !.was_high[s] = TRUE], s, v)
    [] n.was_high[s] /\ v + Hysteresis[s] < n.limit[s] ->
         [n EXCEPT !.was_high[s] = FALSE]
    [] OTHER -> n

UpdateChannel(n, s, v) ==
  CASE ~n.was_high[s] /\ v >= n.limit[s] ->
         LatchEvent([n EXCEPT !.was_high[s] = TRUE], s, v)
    [] n.was_high[s] /\ v + Hysteresis[s] < n.limit[s] ->
         [n EXCEPT !.was_high[s] = FALSE]
    [] OTHER -> n

UpdateIfRead(n, s, r) == IF r[s] = NoReading THEN n ELSE UpdateChannel(n, s, r[s])

\* Mutant: the channels are judged in service mode too.
UpdateEnvironmentAlways(n, r) ==
  UpdateIfRead(UpdateIfRead(UpdateIfRead(n, "LIGHT", r), "TEMP", r), "HUMIDITY", r)

UpdateEnvironment(n, r) ==
  IF n.service_mode
  THEN n
  ELSE UpdateIfRead(UpdateIfRead(UpdateIfRead(n, "LIGHT", r), "TEMP", r), "HUMIDITY", r)

\* What the sensors can answer: the BME680 gives temperature and humidity
\* together or not at all, the VEML7700 gives light.
Readings ==
  {r \in [EnvSources -> EnvRaw \cup {NoReading}] : r["TEMP"] = NoReading <=> r["HUMIDITY"] = NoReading}

LightOnly == {r \in Readings : r["TEMP"] = NoReading}
BmeOnly == {r \in Readings : r["LIGHT"] = NoReading}

-----------------------------------------------------------------------------
\* The node after power on.

InitNode ==
  [service_mode      |-> FALSE,
   interrupt_enabled |-> TRUE,
   event_latched     |-> FALSE,
   event_source      |-> "NONE",
   event_value       |-> 0,
   irq_pin           |-> FALSE,
   was_high          |-> [s \in Sources |-> FALSE],
   limit             |-> DefaultLimit,
   sampling_ms       |-> DefaultSampling,
   latest_force      |-> 0,
   is_pressed        |-> FALSE,
   press_age         |-> 0,
   press_peak        |-> 0,
   pattern           |-> <<>>,
   pattern_peak      |-> 0,
   symbol_age        |-> 0,
   pending_force     |-> FALSE,
   sample_age        |-> 0,
   sensor_age        |-> 0]

Init == node = InitNode

\* 10 ms go by.
Tick ==
  node' = [node EXCEPT
             !.press_age  = IF node.is_pressed THEN Lesser(@ + 1, AgeCap) ELSE @,
             !.symbol_age = IF node.pattern # <<>> THEN Lesser(@ + 1, AgeCap) ELSE @,
             !.sample_age = 1,
             !.sensor_age = Lesser(@ + 1, MaxSampling)]

\* The force sensor is sampled by the main loop.
SampleForce(raw) ==
  /\ node.sample_age = 1
  /\ node' = UpdateForce([node EXCEPT !.sample_age = 0], raw)

\* The other sensors are sampled by the main loop.
SampleSensors(r) ==
  /\ node.sensor_age >= node.sampling_ms
  /\ node' = UpdateEnvironment([node EXCEPT !.sensor_age = 0], r)

-----------------------------------------------------------------------------
\* Commands, from the link or from the USB console.

\* Mutant: the interval is not limited.
SetSamplingUnchecked(v) == node' = [node EXCEPT !.sampling_ms = v]

SetSampling(v) == node' = [node EXCEPT !.sampling_ms = Greater(v, MinSampling)]

Clamped(s, v) == Greater(LimitMin[s], Lesser(v, LimitMax[s]))

SetForceLimit(v) ==
  LET limit == Clamped("FORCE", v)
  IN  node' = [node EXCEPT !.limit["FORCE"] = limit,
                           !.was_high["FORCE"] = node.latest_force >= limit]

SetEnvLimit(s, v) ==
  node' = [node EXCEPT !.limit[s] = Clamped(s, v),
                       !.was_high = [t \in Sources |-> t = "FORCE" /\ @["FORCE"]]]

\* Mutant: the line is not updated.
EnableInterruptOnly(b) == node' = [node EXCEPT !.interrupt_enabled = b]

EnableInterrupt(b) == node' = UpdatePin([node EXCEPT !.interrupt_enabled = b])

ServiceMode(b) == node' = SetServiceMode(node, b)

ClearEvent == node' = ClearLatch(node)

\* READ_FORCE and READ_EVENT take a fresh force reading before they answer.
ReadForce(raw) == node' = UpdateForce(node, raw)

ReadAll(raw, r) == node' = UpdateEnvironment(UpdateForce(node, raw), r)

ReadEnvironment(r) == r \in BmeOnly /\ node' = UpdateEnvironment(node, r)

ReadLight(r) == r \in LightOnly /\ node' = UpdateEnvironment(node, r)

\* The commands of the USB console (those that only print are left out).
UsbCommand ==
  \/ \E v \in SamplingArgs : SetSampling(v)
  \/ \E v \in LimitArgs["FORCE"] : SetForceLimit(v)
  \/ \E s \in EnvSources : \E v \in LimitArgs[s] : SetEnvLimit(s, v)
  \/ \E b \in BOOLEAN : EnableInterrupt(b)
  \/ \E b \in BOOLEAN : ServiceMode(b)

\* The commands of the link: those of the console, the reads and CLEAR_EVENT.
LinkCommand ==
  \/ UsbCommand
  \/ ClearEvent
  \/ \E raw \in ForceRaw : ReadForce(raw)
  \/ \E raw \in ForceRaw, r \in Readings : ReadAll(raw, r)
  \/ \E r \in Readings : ReadEnvironment(r) \/ ReadLight(r)

Sample ==
  \/ \E raw \in ForceRaw : SampleForce(raw)
  \/ \E r \in Readings : SampleSensors(r)

\* The microcontroller is reset (BOOTSEL flashing, brown-out, watchdog).
Restart == node' = InitNode

PoweredStep == Tick \/ Sample \/ LinkCommand

Next == PoweredStep \/ Restart

Spec == Init /\ [][Next]_node

\* The main loop never stops, so time passes and the force sensor is sampled
\* again and again while the node stays powered.
ForceSampled == WF_node(\E raw \in ForceRaw : SampleForce(raw))

LiveSpec == Init /\ [][PoweredStep]_node /\ WF_node(Tick) /\ ForceSampled

-----------------------------------------------------------------------------
Ages == 0 .. AgeCap

Nodes ==
  [service_mode      : BOOLEAN,
   interrupt_enabled : BOOLEAN,
   event_latched     : BOOLEAN,
   event_source      : Sources \cup {"NONE"},
   event_value       : ForceRaw \cup EnvRaw \cup {0},
   irq_pin           : BOOLEAN,
   was_high          : [Sources -> BOOLEAN],
   limit             : [Sources -> Int],
   sampling_ms       : MinSampling .. MaxSampling,
   latest_force      : ForceRaw,
   is_pressed        : BOOLEAN,
   press_age         : Ages,
   press_peak        : ForceRaw,
   pattern           : Seq(Symbols),
   pattern_peak      : ForceRaw,
   symbol_age        : Ages,
   pending_force     : BOOLEAN,
   sample_age        : {0, 1},
   sensor_age        : 0 .. MaxSampling]

\* Every field has its type; the sampling interval is never below its minimum.
TypeOK == node \in Nodes

\* Service mode is silent: no alarm is held, the line is low, and no channel
\* of the environment is remembered as high, so each is judged afresh when
\* the mode ends (set_service_mode, update_environment_events).
ServiceModeSilent ==
  node.service_mode =>
    /\ ~node.event_latched
    /\ \A s \in EnvSources : ~node.was_high[s]

\* The line the base station watches is always what the latch, the mode and
\* the enable bit say, although update_event_irq_pin is called by hand after
\* some of the assignments to them and not after others.
IrqPinMirrors ==
  node.irq_pin = (node.interrupt_enabled /\ node.event_latched /\ ~node.service_mode)

\* Between two handlers the recorded symbols are a proper prefix of the
\* gesture, so service_pattern[4] is never written beyond its end, whatever
\* is pressed; and a touch is pending exactly while symbols are recorded, so
\* no path forgets the touch and keeps the symbols, or the reverse
\* (append_service_symbol, latch_pending_force_pattern).
PatternIsPrefix ==
  /\ node.pattern \in ServicePrefixes \ {ServicePattern}
  /\ node.pending_force = (node.pattern # <<>>)

\* The latch holds a source exactly while it is occupied.
SourceMirrors == node.event_latched = (node.event_source # "NONE")

IInv ==
  /\ TypeOK
  /\ ServiceModeSilent
  /\ IrqPinMirrors
  /\ PatternIsPrefix
  /\ SourceMirrors

\* Every alarm has evidence: the stored reading reached a limit its channel
\* can have.  A touch is reported after its press has ended and its peak has
\* been copied twice, so the peak could be lost on the way.
PossibleLimits(s) == {DefaultLimit[s]} \cup {Clamped(s, v) : v \in LimitArgs[s]}

Reached(s, v) == \E l \in PossibleLimits(s) : v >= l

AlarmHasEvidence ==
  node.event_latched => Reached(node.event_source, node.event_value)

\* What carries the evidence from a press to the latch.
PeakHasEvidence ==
  /\ node.is_pressed => Reached("FORCE", node.press_peak)
  /\ node.pending_force => Reached("FORCE", node.pattern_peak)

LimitIsPossible == \A s \in Sources : node.limit[s] \in PossibleLimits(s)

EvidenceInv == AlarmHasEvidence /\ PeakHasEvidence /\ LimitIsPossible

-----------------------------------------------------------------------------
\* Service mode changes only on a SERVICE_MODE command, by the third press of
\* the gesture (two short presses recorded, a long one just ending, no pause
\* since that was too long), or by a reset.
GestureCompletes ==
  /\ node.pattern = <<"S", "S">>
  /\ node.symbol_age <= GapMax
  /\ node.is_pressed
  /\ node.press_age >= LongMin
  /\ ~node'.is_pressed

ModeChangeJustified ==
  [][node'.service_mode # node.service_mode =>
       GestureCompletes \/ (\E b \in BOOLEAN : ServiceMode(b)) \/ Restart]_node

\* A touch that was recorded as a possible gesture is not dropped: when the
\* record is given up, an alarm is held or the gesture was completed.
TouchNeverDropped ==
  [][node.pending_force /\ ~node'.pending_force =>
       \/ node'.event_latched
       \/ node.service_mode
       \/ GestureCompletes
       \/ Restart]_node

\* Presses end: whoever loads the sensor lets go again and again.
PressesEnd == []<>(~node.is_pressed)

\* A touch is reported: while presses end, a press in protection mode is
\* followed by an alarm or by the change to service mode.  Every path of
\* the classification (S, L, neither, hold, broken gesture, pause) leads there.
TouchReported ==
  PressesEnd =>
    (node.is_pressed /\ ~node.service_mode ~> node.event_latched \/ node.service_mode)

\* A press is reported while it is held, if no gesture is under way when the
\* hold begins and the channel is not marked high already.  (After a tap it is
\* not: the condition in update_service_gesture asks for an empty pattern.)
HeldPress == node.is_pressed /\ ~node.service_mode /\ ~node.was_high["FORCE"]

FreshHold == HeldPress /\ node.pattern = <<>>

FreshHoldReported ==
  FreshHold ~> node.event_latched \/ ~HeldPress

-----------------------------------------------------------------------------
\* The node implements the abstract latch.

Held ==
  IF node.event_latched
  THEN [source |-> node.event_source, value |-> node.event_value]
  ELSE NoEvent

Latch ==
  INSTANCE EventLatch WITH
    Events <- [source : Sources, value : ForceRaw \cup EnvRaw],
    NoEvent <- NoEvent,
    service_mode <- node.service_mode,
    interrupt_enabled <- node.interrupt_enabled,
    event <- Held,
    irq_pin <- node.irq_pin

\* One event at a time, the first one wins, held until cleared, silent in
\* service mode: every handler does one step of EventLatch or none of it.
ImplementsLatch == Latch!Spec
=============================================================================
