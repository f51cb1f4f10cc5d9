---------------------------- MODULE CaseGuardian ----------------------------
(***************************************************************************)
(* The sensor node and the base station together: the alarm protocol.  The *)
(* node is its abstract latch (EventLatch, which SensorNode implements)    *)
(* behind the command dispatcher of sensor-node/src/main.c; the base is    *)
(* BaseDriver.  Between them are the event line, whose rising edge runs    *)
(* the base's interrupt handler, and a UART in each direction that keeps   *)
(* the order of frames but can lose any of them: a damaged frame is        *)
(* discarded, and a frame sent to a full receiver is lost.  Nothing is     *)
(* said here of time; TimedGuardian adds it.                               *)
(*                                                                         *)
(* The events are numbered in the order they are latched.  What the base   *)
(* has been told of each is kept in history variables.                     *)
(***************************************************************************)
EXTENDS Integers, Sequences

CONSTANTS
  CheckMs, PollMs, WarnMs, RepeatMs, MaxBusy, AgeCap, TimeMod,  \* of BaseDriver
  MaxEvents,     \* bound: alarms raised in a behaviour
  LinkCap,       \* frames a receiver can hold
  MaxResets,     \* bound: resets of the node and of the base
  MaxGestures,   \* bound: uses of the gesture
  HostCommands   \* what the operator has the application request

NoEvent == 0

EventIds == 1 .. MaxEvents

VARIABLES
  service_mode, interrupt_enabled, event, irq_pin,  \* the node (EventLatch)
  drv,       \* the driver of the base station
  toNode,    \* commands under way or waiting in the node's UART
  toBase,    \* replies under way, each with the event it reports
  raised,    \* number of events latched so far
  told,      \* events some reply has reported to the base
  gestures,  \* uses of the gesture so far
  resets     \* resets so far

node == <<service_mode, interrupt_enabled, event, irq_pin>>
history == <<raised, told, gestures, resets>>
vars == <<node, drv, toNode, toBase, history>>

Latch == INSTANCE EventLatch WITH Events <- EventIds

Driver == INSTANCE BaseDriver WITH Batches <- {<<>>}

ASSUME GuardianAssumption ==
  /\ CheckMs \in Nat /\ PollMs \in Nat /\ WarnMs \in Nat /\ RepeatMs \in Nat
  /\ MaxBusy \in Nat /\ AgeCap \in Nat /\ TimeMod \in Nat
  /\ \A t \in {CheckMs, PollMs, WarnMs, RepeatMs} : t + MaxBusy <= AgeCap
  /\ AgeCap + MaxBusy < TimeMod
  /\ MaxEvents \in Nat /\ LinkCap \in Nat /\ MaxResets \in Nat
  /\ MaxGestures \in Nat
  /\ HostCommands \subseteq Driver!Commands

\* What the receiver may hold after a frame has been sent to it: the frame may
\* be damaged on the way, and a full receiver takes nothing.
Sent(link, frame) == IF Len(link) < LinkCap THEN {link, Append(link, frame)} ELSE {link}

\* The command of the step just taken goes to the node.
Transmit == toNode' \in IF drv'.sent = "NONE" THEN {toNode} ELSE Sent(toNode, drv'.sent)

\* A rising edge of the event line runs the interrupt handler.
Interrupt ==
  IF ~irq_pin /\ irq_pin' /\ drv.phase # "off" THEN Driver!SensorEventIsr ELSE UNCHANGED drv

Init ==
  /\ Latch!Init
  /\ Driver!Init
  /\ toNode = <<>> /\ toBase = <<>>
  /\ raised = 0 /\ told = {} /\ gestures = 0 /\ resets = 0

-----------------------------------------------------------------------------
\* The node.

\* The firmware latches an alarm (in its main loop, or as a READ command
\* takes a fresh reading).
RaiseEvent ==
  /\ raised < MaxEvents
  /\ Latch!Latch(raised + 1)
  /\ raised' = raised + 1
  /\ Interrupt
  /\ UNCHANGED <<toNode, toBase, told, gestures, resets>>

\* The gesture switches service mode.
Gesture ==
  /\ gestures < MaxGestures /\ gestures' = gestures + 1
  /\ Latch!EnterService \/ (Latch!LeaveService /\ event' = NoEvent)
  /\ Interrupt
  /\ UNCHANGED <<toNode, toBase, raised, told, resets>>

\* The effect of a command on the latch.
Execute(cmd) ==
  CASE cmd = "CLEAR_EVENT" -> Latch!Clear
    [] cmd = "SERVICE_ON" /\ ~service_mode -> Latch!EnterService
    [] cmd = "SERVICE_OFF" /\ service_mode -> Latch!LeaveService /\ event' = NoEvent
    [] cmd = "INTERRUPT_ON" -> Latch!EnableInterrupt(TRUE)
    [] cmd = "INTERRUPT_OFF" -> Latch!EnableInterrupt(FALSE)
    [] OTHER -> UNCHANGED node

ReplyKind(cmd) ==
  CASE cmd = "READ_FORCE" -> "FORCE"
    [] cmd = "READ_ALL" -> "ALL"
    [] cmd = "READ_EVENT" -> "EVENT"
    [] cmd = "CLEAR_EVENT" -> "CLEARED"
    [] cmd = "READ_CONFIG" -> "CONFIG"
    [] cmd \in {"SERVICE_ON", "SERVICE_OFF"} -> "SERVICE"
    [] cmd \in {"INTERRUPT_ON", "INTERRUPT_OFF"} -> "INTERRUPT"
    [] cmd = "SET_LIMIT" -> "SETTING"

\* The reply is composed after the command has been executed.
Answer(cmd) ==
  LET r == [kind |-> ReplyKind(cmd), event |-> FALSE, service |-> FALSE, interrupt |-> FALSE]
  IN  [reply |-> [r EXCEPT !.event = Driver!HasEvent(r) /\ event' # NoEvent,
                           !.service = Driver!HasService(r) /\ service_mode',
                           !.interrupt = Driver!HasInterrupt(r) /\ interrupt_enabled'],
       about |-> IF Driver!HasEvent(r) THEN event' ELSE NoEvent]

HandleCommand ==
  /\ toNode # <<>>
  /\ Execute(Head(toNode))
  /\ toNode' = Tail(toNode)
  /\ toBase' \in Sent(toBase, Answer(Head(toNode)))
  /\ Interrupt
  /\ UNCHANGED history

-----------------------------------------------------------------------------
\* The base station.

Tick == Driver!Tick /\ UNCHANGED <<node, toNode, toBase, history>>

StartDriver == Driver!Start /\ UNCHANGED <<node, toNode, toBase, history>>

BeginProcess == Driver!BeginProcess /\ UNCHANGED <<node, toNode, toBase, history>>

\* A pass takes the first k of the replies: those that have arrived.
ReceiveAndSend(k) ==
  LET rx == [i \in 1 .. k |-> toBase[i].reply]
      reports == {j \in 1 .. k : rx[j].kind \in {"FORCE", "ALL", "EVENT"}}
  IN  /\ Driver!ReceiveAndSend(rx, irq_pin)
      /\ Transmit
      /\ toBase' = SubSeq(toBase, k + 1, Len(toBase))
      /\ told' = told \cup ({toBase[i].about : i \in reports} \ {NoEvent})
      /\ UNCHANGED <<node, raised, gestures, resets>>

EndProcess == Driver!EndProcess /\ UNCHANGED <<node, toNode, toBase, history>>

HostRequest(cmd) ==
  /\ Driver!Request(cmd)
  /\ Transmit
  /\ UNCHANGED <<node, toBase, history>>

-----------------------------------------------------------------------------
\* Either side is reset.

Reset == resets < MaxResets /\ resets' = resets + 1

ResetNode ==
  /\ Reset
  /\ Latch!Restart
  /\ toNode' = <<>>
  /\ UNCHANGED <<drv, toBase, raised, told, gestures>>

ResetBase ==
  /\ Reset
  /\ Driver!Reboot
  /\ toBase' = <<>>
  /\ UNCHANGED <<node, toNode, raised, told, gestures>>

NodeStep == RaiseEvent \/ Gesture \/ HandleCommand

Passing ==
  \/ BeginProcess
  \/ \E k \in 0 .. Len(toBase) : ReceiveAndSend(k)
  \/ EndProcess

BaseStep == StartDriver \/ Passing \/ (\E cmd \in HostCommands : HostRequest(cmd))

ResetStep == ResetNode \/ ResetBase

Next == Tick \/ NodeStep \/ BaseStep \/ ResetStep

Spec == Init /\ [][Next]_vars

-----------------------------------------------------------------------------
\* The node executes a CLEAR_EVENT that finds an event in the latch.
Clears == toNode # <<>> /\ Head(toNode) = "CLEAR_EVENT" /\ event # NoEvent

\* The base never clears on its own account: whatever is lost or restarted, an
\* alarm is acknowledged only after some alarm, this one or one before it, has
\* been reported to the base.
ClearIsPrompted ==
  [][HandleCommand /\ Clears => \E e \in told : e <= event]_vars
=============================================================================
