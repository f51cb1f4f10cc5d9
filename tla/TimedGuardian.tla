---------------------------- MODULE TimedGuardian ----------------------------
(***************************************************************************)
(* The alarm protocol in time.  In CaseGuardian a command or a reply may   *)
(* wait for ever; here the lines have the speed of the hardware, and the   *)
(* node has the pauses of its main loop (sensor-node/src/main.c).  The     *)
(* loop empties the UART, samples the force and then, when a sampling is   *)
(* due, sits in a BME680 measurement and reads nothing; READ_ALL measures, *)
(* too, before it is answered and before the commands behind it are read.  *)
(* The base goes on looking at the event line and polling meanwhile, so    *)
(* the node's receiver overflows.  The last frame that does not fit is cut *)
(* off, and the receiver takes the start of the next one for its rest.     *)
(*                                                                         *)
(* One tick is the period at which the base looks at the level of the      *)
(* event line (SENSOR_EVENT_CHECK_MS).  The operator requests nothing.     *)
(***************************************************************************)
EXTENDS CaseGuardian

CONSTANTS
  MaxBlind,   \* longest measurement, in ticks
  MinRest,    \* ticks from one sampling's measurement to the next
  MaxFaults   \* bound: frames damaged on the lines, resets and gestures

ASSUME TimingAssumption == MaxBlind \in Nat /\ MinRest \in Nat /\ MaxFaults \in Nat

VARIABLE timing

timedVars == <<vars, timing>>

TimedInit ==
  /\ Init
  /\ timing = [measuring |-> "no",    \* or "sample" (the main loop), "all" (READ_ALL)
               blind     |-> 0,       \* ticks the measurement has lasted
               rest      |-> 0,       \* ticks before the loop can sample again
               due       |-> 0,       \* commands the node has to read before the next tick
               torn      |-> FALSE,   \* the node's receiver is inside a frame cut off
               arrived   |-> 0,       \* replies that were under way at the last tick
               passed    |-> FALSE,   \* the base has made a pass since then
               damaged   |-> 0]       \* frames damaged so far

OneLess(n) == IF n > 0 THEN n - 1 ELSE 0

\* There may be so many of them more.
Room(n) == resets + gestures + timing.damaged + n <= MaxFaults

-----------------------------------------------------------------------------
\* Time passes.  A node that is not measuring empties its UART in every turn of
\* its loop, so a command that has waited for a tick is read before the next;
\* a measurement comes to its end, and the base's loop goes round.
TimedTick ==
  /\ Tick
  /\ drv.phase = "off" \/ timing.passed
  /\ LET t == [timing EXCEPT !.passed = FALSE, !.arrived = Len(toBase)]
     IN  \/ /\ timing.measuring = "no" /\ timing.due = 0
            /\ timing' = [t EXCEPT !.due = Len(toNode), !.rest = OneLess(@)]
         \/ /\ timing.measuring # "no" /\ timing.blind < MaxBlind
            /\ timing' = [t EXCEPT !.blind = @ + 1]

\* The loop samples only when it has emptied the UART.
BeginSample ==
  /\ timing.measuring = "no" /\ toNode = <<>> /\ timing.rest = 0
  /\ timing' = [timing EXCEPT !.measuring = "sample"]
  /\ UNCHANGED vars

EndSample ==
  /\ timing.measuring = "sample"
  /\ timing' = [timing EXCEPT !.measuring = "no", !.blind = 0, !.rest = MinRest, !.due = Len(toNode)]
  /\ UNCHANGED vars

\* READ_ALL is read and measures.  (Its frame keeps its place in the model's
\* receiver until it has been answered.)
BeginReadAll ==
  /\ timing.measuring = "no" /\ toNode # <<>> /\ Head(toNode) = "READ_ALL"
  /\ timing' = [timing EXCEPT !.measuring = "all"]
  /\ UNCHANGED vars

\* A command is executed and answered, READ_ALL after its measurement.  The
\* answer may be damaged on its way.
TimedHandle ==
  LET hurt == IF toBase' = toBase /\ Len(toBase) < LinkCap THEN 1 ELSE 0
      t == [timing EXCEPT !.damaged = @ + hurt]
  IN  /\ HandleCommand /\ Room(hurt)
      /\ \/ /\ Head(toNode) # "READ_ALL" /\ timing.measuring = "no"
            /\ timing' = [t EXCEPT !.due = OneLess(@)]
         \/ /\ Head(toNode) = "READ_ALL" /\ timing.measuring = "all"
            /\ timing' = [t EXCEPT !.measuring = "no", !.blind = 0, !.due = Len(toNode')]

\* A pass takes at least the replies that have had a tick to arrive.  What it
\* sends is lost in a full receiver or behind a torn frame, or may be damaged.
TimedReceive ==
  LET sends == drv'.sent # "NONE"
      full == Len(toNode) = LinkCap
      lost == sends /\ toNode' = toNode
      hurt == IF lost /\ ~full /\ ~timing.torn THEN 1 ELSE 0
  IN  /\ \E k \in 0 .. Len(toBase) : timing.arrived <= k /\ ReceiveAndSend(k)
      /\ sends /\ timing.torn => lost
      /\ Room(hurt)
      /\ timing' = [timing EXCEPT !.arrived = 0, !.passed = TRUE, !.damaged = @ + hurt,
                                  !.torn = IF sends THEN full ELSE @]

\* The steps that take no time and send nothing.
Untimed ==
  /\ RaiseEvent \/ (Gesture /\ Room(1)) \/ StartDriver \/ BeginProcess \/ EndProcess
  /\ UNCHANGED timing

TimedReset ==
  /\ Room(1)
  /\ \/ ResetNode /\ timing' = [timing EXCEPT !.measuring = "no", !.blind = 0, !.rest = 0,
                                              !.due = 0, !.torn = FALSE]
     \/ ResetBase /\ timing' = [timing EXCEPT !.arrived = 0, !.passed = FALSE]

TimedNext ==
  \/ TimedTick
  \/ BeginSample \/ EndSample \/ BeginReadAll \/ TimedHandle
  \/ TimedReceive \/ Untimed
  \/ TimedReset

TimedPass == TimedReceive \/ ((BeginProcess \/ EndProcess) /\ UNCHANGED timing)

TimedSpec ==
  /\ TimedInit /\ [][TimedNext]_timedVars
  /\ SF_timedVars(TimedTick)
  /\ WF_timedVars(StartDriver /\ UNCHANGED timing) /\ WF_timedVars(TimedPass)
  /\ WF_timedVars(EndSample) /\ WF_timedVars(BeginReadAll) /\ WF_timedVars(TimedHandle)

-----------------------------------------------------------------------------

\* The base's view of the node converges: once the latch stays empty and the
\* mode stays put, the cached reading says so for good.
ViewConverges ==
  /\ <>[](event = NoEvent) => <>[](~drv.reading_event)
  /\ <>[]service_mode => <>[]drv.service_mode
  /\ <>[](~service_mode) => <>[](~drv.service_mode)
=============================================================================
