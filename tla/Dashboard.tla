------------------------------ MODULE Dashboard ------------------------------
(***************************************************************************)
(* What the operator sees.  The dashboard (host-gui/static/app.js) derives *)
(* the case status from a model that the GUI server (host-gui/app.py)      *)
(* builds out of the lines the base station prints: `[tx]' for each        *)
(* command it sends, another for each reply of the sensor node.  The mode  *)
(* is changed by the GUI, which sends three commands and then notes the    *)
(* mode itself, and by the gesture at the case, of which nobody is told.   *)
(*                                                                         *)
(* The node is its abstract latch (EventLatch); of the base's driver, the  *)
(* choice of commands is kept (BaseDriver has the rest).  A line is        *)
(* applied in the step that prints it.  The page raises an alarm for the   *)
(* latch and one for each reading it shows at or above its limit; of a     *)
(* reading only this is kept.                                              *)
(***************************************************************************)
EXTENDS Naturals, Sequences

CONSTANTS
  Channels,    \* the readings that reach their limits, of "force", "light", "air"
  LinkCap,     \* frames a receiver can hold
  MaxAlarms,   \* bound: events latched
  MaxChanges,  \* bound: gestures, mode changes from the GUI, readings that rise
  MaxFaults    \* bound: things switched off, pulled out or failing

NoEvent == 0

ASSUME ChannelsAssumption == Channels \subseteq {"force", "light", "air"}

VARIABLES
  service_mode, interrupt_enabled, event, irq_pin,  \* the node (EventLatch)
  powered,   \* the node runs
  bme,       \* its BME680 answers
  high,      \* the channels at or above their limits
  base,      \* the base station
  toNode,    \* commands under way
  toBase,    \* replies under way
  console,   \* commands written to the base's USB port, not yet handled
  posted,    \* modes (armed or not) the server will note when it has written
  gui,       \* the server's model, as the page shows it
  reached,   \* history: the channels that have been
  alarms, changes, faults  \* what the bounds count

latch == <<service_mode, interrupt_enabled, event, irq_pin>>
node == <<latch, powered, bme>>
readings == <<high, reached>>
links == <<toNode, toBase>>
server == <<console, posted>>
counts == <<alarms, changes, faults>>
vars == <<node, readings, base, links, server, gui, counts>>

Latch == INSTANCE EventLatch WITH Events <- {1}

Configure == <<"SERVICE_OFF", "INTERRUPT_ON", "READ_CONFIG">>

\* The commands of a mode change, in the order _build_config_commands has them.
ModeCommands(armed) ==
  IF armed THEN Configure ELSE <<"SERVICE_ON", "INTERRUPT_OFF", "READ_CONFIG">>

\* The page after the first readings, or after it has begun service mode.
Init ==
  /\ service_mode \in BOOLEAN /\ interrupt_enabled = ~service_mode
  /\ event = NoEvent /\ irq_pin = FALSE
  /\ powered = TRUE /\ bme = TRUE
  /\ high = {} /\ reached = {}
  /\ base = [up |-> TRUE, irq_pending |-> FALSE, clear_pending |-> FALSE]
  /\ toNode = <<>> /\ toBase = <<>>
  /\ console = <<>> /\ posted = {}
  /\ gui = [connected |-> TRUE,    \* connected
            interrupt |-> ~service_mode,  \* base.config.interrupt
            service   |-> service_mode,   \* base.config.service
            event     |-> FALSE,   \* sensor.event
            high      |-> {},      \* the readings shown at or above their limits
            env       |-> TRUE,    \* sensor.environment_ok
            recent    |-> FALSE,   \* last_interrupt_ms is at most 15 s old
            fresh     |-> TRUE]    \* last_update_ms is at most 7 s old
  /\ alarms = 0 /\ changes = 0 /\ faults = 0

-----------------------------------------------------------------------------
\* The server's model: one operator per kind of line.

Armed(g) == g.interrupt /\ ~g.service

RecordInterrupt(g) == IF Armed(g) THEN [g EXCEPT !.recent = TRUE] ELSE g

ClearAlarm(g) == [g EXCEPT !.event = FALSE, !.recent = FALSE]

\* `[tx]': the server takes a command for done when it has been sent.
RecordCommand(g, cmd) ==
  CASE cmd = "READ_EVENT" -> RecordInterrupt(g)
    [] cmd = "SERVICE_ON" -> ClearAlarm([g EXCEPT !.service = TRUE, !.interrupt = FALSE])
    [] cmd = "SERVICE_OFF" -> [g EXCEPT !.service = FALSE, !.interrupt = TRUE]
    [] cmd = "INTERRUPT_ON" -> [g EXCEPT !.interrupt = TRUE]
    [] cmd = "INTERRUPT_OFF" -> [g EXCEPT !.interrupt = FALSE]
    [] OTHER -> g

HasEvent(r) == r.kind \in {"FORCE", "ALL", "EVENT"}

\* The readings a reply has a value for; temperature and humidity may be ERR,
\* which is no value at a limit.
Carried(r) ==
  CASE r.kind = "ALL" -> Channels
    [] r.kind \in {"FORCE", "EVENT"} -> Channels \cap {"force"}
    [] OTHER -> {}


\* A value that is not in the reply stays as it was.
ApplyValues(shown, r) == (shown \ Carried(r)) \cup r.high

HasInterrupt(r) == r.kind \in {"CONFIG", "INTERRUPT"}

\* Mutant: the fields of the mode in readings are not looked at.
HasServiceLess(r) == r.kind \in {"CONFIG", "SERVICE"}

HasService(r) == r.kind \in {"FORCE", "ALL", "EVENT", "CONFIG", "SERVICE"}

\* Mutant: INTERRUPT is taken only from the answer to ENABLE_INTERRUPT.
ApplyConfigFieldsLess(g, r) ==
  LET h == IF r.kind = "INTERRUPT" THEN [g EXCEPT !.interrupt = r.interrupt] ELSE g
      s == IF HasService(r) THEN [h EXCEPT !.service = r.service] ELSE h
  IN  IF HasService(r) /\ r.service THEN ClearAlarm(s) ELSE s

ApplyConfigFields(g, r) ==
  LET h == IF HasInterrupt(r) THEN [g EXCEPT !.interrupt = r.interrupt] ELSE g
      s == IF HasService(r) THEN [h EXCEPT !.service = r.service] ELSE h
  IN  IF HasService(r) /\ r.service THEN ClearAlarm(s) ELSE s

\* Mutant: a reading without an event leaves the last one standing.
ApplyReadingFieldsKeeps(g, r) ==
  LET f == [g EXCEPT !.high = ApplyValues(@, r)]
      e == IF HasEvent(r) THEN [f EXCEPT !.event = @ \/ r.event] ELSE f
      i == IF HasEvent(r) /\ r.event THEN RecordInterrupt(e) ELSE e
      v == IF r.kind = "ALL" THEN [i EXCEPT !.env = r.env] ELSE i
  IN  ApplyConfigFields(v, r)

\* `[force]', `[data]' and `[config]'.
ApplyReadingFields(g, r) ==
  LET f == [g EXCEPT !.high = ApplyValues(@, r)]
      e == IF HasEvent(r) THEN [f EXCEPT !.event = r.event] ELSE f
      i == IF HasEvent(r) /\ r.event THEN RecordInterrupt(e) ELSE e
      v == IF r.kind = "ALL" THEN [i EXCEPT !.env = r.env] ELSE i
  IN  ApplyConfigFields(v, r)

\* `[event] EVENT=': the interrupt is noted once more, in the mode just read.
ApplyBaseEvent(g, r) ==
  LET h == ApplyReadingFields(g, r)
  IN  IF r.kind = "EVENT" /\ r.event THEN RecordInterrupt(h) ELSE h

\* Mutant: the model follows the replies alone.
ShowTxNothing(g, cmd) == IF g.connected THEN [g EXCEPT !.fresh = TRUE] ELSE g

\* A line reaches the server while its reader thread has the port open.
ShowTx(g, cmd) ==
  IF g.connected THEN RecordCommand([g EXCEPT !.fresh = TRUE], cmd) ELSE g

ShowReply(g, r) ==
  IF g.connected THEN ApplyBaseEvent([g EXCEPT !.fresh = TRUE], r) ELSE g

-----------------------------------------------------------------------------
\* deriveActiveAlarms and deriveCaseStatus.

EventAlarm(g) == Armed(g) /\ (g.event \/ g.recent)

ReadingAlarm(g) == Armed(g) /\ g.high # {}

ActiveAlarm(g) == EventAlarm(g) \/ ReadingAlarm(g)

\* Mutant: the age of the data is looked at in service mode only.
CaseStatusLate(g) ==
  CASE ActiveAlarm(g) -> "Tamper"
    [] ~ActiveAlarm(g) /\ (~g.connected \/ ~g.env) -> "Attention"
    [] ~ActiveAlarm(g) /\ g.connected /\ g.env /\ Armed(g) -> "Protected"
    [] OTHER -> IF g.fresh THEN "Service" ELSE "Attention"

CaseStatus(g) ==
  CASE ActiveAlarm(g) -> "Tamper"
    [] ~ActiveAlarm(g) /\ (~g.connected \/ ~g.fresh \/ ~g.env) -> "Attention"
    [] ~ActiveAlarm(g) /\ g.connected /\ g.fresh /\ g.env /\ Armed(g) -> "Protected"
    [] OTHER -> "Service"

-----------------------------------------------------------------------------
\* The sensor node.

\* The rising edge of the event line runs the base's interrupt handler.
Edge(b) == IF ~irq_pin /\ irq_pin' /\ b.up THEN [b EXCEPT !.irq_pending = TRUE] ELSE b

RaiseEvent ==
  /\ powered /\ alarms < MaxAlarms /\ alarms' = alarms + 1
  /\ Latch!Latch(1)
  /\ base' = Edge(base)
  /\ UNCHANGED <<powered, bme, readings, links, server, gui, changes, faults>>

Gesture ==
  /\ powered /\ changes < MaxChanges /\ changes' = changes + 1
  /\ Latch!EnterService \/ (Latch!LeaveService /\ event' = NoEvent)
  /\ UNCHANGED <<powered, bme, readings, base, links, server, gui, alarms, faults>>

\* What is measured comes to its limit and leaves it.  A press that is part of
\* the service gesture, or comes while an event is latched, latches nothing.
ReadingRises(ch) ==
  /\ ch \notin high /\ changes < MaxChanges /\ changes' = changes + 1
  /\ high' = high \cup {ch} /\ reached' = reached \cup {ch}
  /\ UNCHANGED <<node, base, links, server, gui, alarms, faults>>

ReadingFalls(ch) ==
  /\ ch \in high
  /\ high' = high \ {ch}
  /\ UNCHANGED <<reached, node, base, links, server, gui, counts>>

Execute(cmd) ==
  CASE cmd = "CLEAR_EVENT" -> Latch!Clear
    [] cmd = "SERVICE_ON" /\ ~service_mode -> Latch!EnterService
    [] cmd = "SERVICE_OFF" /\ service_mode -> Latch!LeaveService /\ event' = NoEvent
    [] cmd = "INTERRUPT_ON" -> Latch!EnableInterrupt(TRUE)
    [] cmd = "INTERRUPT_OFF" -> Latch!EnableInterrupt(FALSE)
    [] OTHER -> UNCHANGED latch

ReplyKind(cmd) ==
  CASE cmd = "READ_FORCE" -> "FORCE"
    [] cmd = "READ_ALL" -> "ALL"
    [] cmd = "READ_EVENT" -> "EVENT"
    [] cmd = "CLEAR_EVENT" -> "CLEARED"
    [] cmd = "READ_CONFIG" -> "CONFIG"
    [] cmd \in {"SERVICE_ON", "SERVICE_OFF"} -> "SERVICE"
    [] cmd \in {"INTERRUPT_ON", "INTERRUPT_OFF"} -> "INTERRUPT"

\* What is sent to a full receiver is lost.
Sent(link, frame) == IF Len(link) < LinkCap THEN Append(link, frame) ELSE link

\* The fields of a reply; those its kind does not have are FALSE.  Without its
\* BME680 the node reports no temperature and no humidity.
Answer(cmd) ==
  LET r == [kind |-> ReplyKind(cmd)]
  IN  [kind |-> r.kind, event |-> HasEvent(r) /\ event' # NoEvent,
       service |-> HasService(r) /\ service_mode',
       interrupt |-> HasInterrupt(r) /\ interrupt_enabled',
       env |-> r.kind = "ALL" /\ bme,
       high |-> Carried(r) \cap IF bme THEN high ELSE high \ {"air"}]

HandleCommand ==
  /\ powered /\ toNode # <<>>
  /\ Execute(Head(toNode))
  /\ base' = Edge(base)
  /\ toNode' = Tail(toNode)
  /\ toBase' = Sent(toBase, Answer(Head(toNode)))
  /\ UNCHANGED <<powered, bme, readings, server, gui, counts>>

-----------------------------------------------------------------------------
\* The base station.

\* A command is sent to the node (which may be off) and printed.
Send(cmd) ==
  /\ toNode' = IF powered THEN Sent(toNode, cmd) ELSE toNode
  /\ gui' = ShowTx(gui, cmd)
  /\ UNCHANGED <<node, readings, toBase, posted, counts>>

SendClear ==
  /\ base.up /\ base.clear_pending
  /\ base' = [base EXCEPT !.clear_pending = FALSE]
  /\ Send("CLEAR_EVENT") /\ UNCHANGED console

\* An edge, or the level that is looked at every 20 ms.
SendReadEvent ==
  /\ base.up /\ ~base.clear_pending
  /\ base.irq_pending \/ irq_pin
  /\ base' = [base EXCEPT !.irq_pending = FALSE]
  /\ Send("READ_EVENT") /\ UNCHANGED console

\* The last command has been answered by the time the next poll is due.
SendPoll(cmd) ==
  /\ base.up /\ ~base.clear_pending /\ ~base.irq_pending
  /\ toNode = <<>> /\ toBase = <<>>
  /\ Send(cmd) /\ UNCHANGED <<base, console>>

SendConsole ==
  /\ base.up /\ console # <<>>
  /\ console' = Tail(console)
  /\ Send(Head(console)) /\ UNCHANGED base

ReceiveReply ==
  /\ base.up /\ toBase # <<>>
  /\ LET r == Head(toBase)
     IN  /\ gui' = ShowReply(gui, r)
         /\ base' = [base EXCEPT !.clear_pending = @ \/ (r.kind \in {"ALL", "EVENT"} /\ r.event)]
  /\ toBase' = Tail(toBase)
  /\ UNCHANGED <<node, readings, toNode, server, counts>>

-----------------------------------------------------------------------------
\* The GUI.

\* POST /api/config: the commands are written, each with a `[host-tx]' line
\* of the server's own, which counts as data.
PostMode(armed) ==
  /\ gui.connected /\ console = <<>> /\ posted = {}
  /\ changes < MaxChanges /\ changes' = changes + 1
  /\ console' = IF base.up THEN ModeCommands(armed) ELSE <<>>
  /\ posted' = {armed}
  /\ gui' = [gui EXCEPT !.fresh = TRUE]
  /\ UNCHANGED <<node, readings, base, links, alarms, faults>>

\* Any other setting is sent with a READ_CONFIG behind it.  Settings come
\* seldom: the last exchange is over (each one puts the next poll off).
PostSetting ==
  /\ toNode = <<>> /\ toBase = <<>>
  /\ gui.connected /\ console = <<>> /\ posted = {}
  /\ console' = IF base.up THEN <<"READ_CONFIG">> ELSE <<>>
  /\ gui' = [gui EXCEPT !.fresh = TRUE]
  /\ UNCHANGED <<node, readings, base, links, posted, counts>>

Post == (\E armed \in BOOLEAN : PostMode(armed)) \/ PostSetting

\* Mutant: the alarm is left standing.
ApplyLocalModeKeeps(armed) ==
  /\ armed \in posted
  /\ posted' = {}
  /\ gui' = [gui EXCEPT !.interrupt = armed, !.service = ~armed]
  /\ UNCHANGED <<node, readings, base, links, console, counts>>

\* After a mode change the server notes the mode itself; the base may have
\* handled all of the commands by then, or none.
ApplyLocalMode(armed) ==
  /\ armed \in posted
  /\ posted' = {}
  /\ gui' = LET g == [gui EXCEPT !.interrupt = armed, !.service = ~armed]
            IN  IF armed THEN g ELSE ClearAlarm(g)
  /\ UNCHANGED <<node, readings, base, links, console, counts>>

\* Time passes: 15 s since the last interrupt, 7 s since the last line (a base
\* that runs sends and prints a command each second).
AlarmAges ==
  /\ gui.recent /\ gui' = [gui EXCEPT !.recent = FALSE]
  /\ UNCHANGED <<node, readings, base, links, server, counts>>

DataAges ==
  /\ gui.fresh /\ ~(base.up /\ gui.connected)
  /\ gui' = [gui EXCEPT !.fresh = FALSE]
  /\ UNCHANGED <<node, readings, base, links, server, counts>>

-----------------------------------------------------------------------------
\* Faults.

Fault == faults < MaxFaults /\ faults' = faults + 1 /\ UNCHANGED <<alarms, changes>>

BmeFails ==
  /\ Fault /\ bme /\ bme' = FALSE
  /\ UNCHANGED <<latch, powered, readings, base, links, server, gui>>

\* The node loses its power, and may get it back.
PowerOff ==
  /\ Fault /\ powered /\ powered' = FALSE
  /\ irq_pin' = FALSE /\ toNode' = <<>>
  /\ UNCHANGED <<service_mode, interrupt_enabled, event, bme, readings, base, toBase, server, gui>>

PowerOn ==
  /\ ~powered /\ powered' = TRUE
  /\ Latch!Restart
  /\ UNCHANGED <<bme, readings, base, links, server, gui, counts>>

\* The base is in its bootloader; when it starts it configures the node.
BaseDown ==
  /\ Fault /\ base.up
  /\ base' = [up |-> FALSE, irq_pending |-> FALSE, clear_pending |-> FALSE]
  /\ toBase' = <<>> /\ console' = <<>>
  /\ UNCHANGED <<node, readings, toNode, posted, gui>>

\* Mutant: setting up the pin raises an edge.
BaseBootsEdge ==
  /\ ~base.up
  /\ base' = [base EXCEPT !.up = TRUE, !.irq_pending = TRUE]
  /\ console' = Configure
  /\ UNCHANGED <<node, readings, links, posted, gui, counts>>

BaseBoots ==
  /\ ~base.up
  /\ base' = [base EXCEPT !.up = TRUE]
  /\ console' = Configure
  /\ UNCHANGED <<node, readings, links, posted, gui, counts>>

Disconnect ==
  /\ Fault /\ gui.connected
  /\ gui' = [gui EXCEPT !.connected = FALSE]
  /\ UNCHANGED <<node, readings, base, links, server>>

Connect ==
  /\ ~gui.connected
  /\ gui' = [gui EXCEPT !.connected = TRUE]
  /\ UNCHANGED <<node, readings, base, links, server, counts>>

-----------------------------------------------------------------------------
Work ==
  \/ HandleCommand
  \/ SendClear \/ SendReadEvent \/ SendConsole \/ ReceiveReply
  \/ SendPoll("READ_ALL") \/ SendPoll("READ_FORCE")
  \/ (\E armed \in BOOLEAN : ApplyLocalMode(armed))

Next ==
  \/ Work \/ AlarmAges \/ DataAges
  \/ RaiseEvent \/ Gesture \/ Post
  \/ (\E ch \in Channels : ReadingRises(ch) \/ ReadingFalls(ch))
  \/ BmeFails \/ PowerOff \/ PowerOn \/ BaseDown \/ BaseBoots \/ Disconnect \/ Connect

Spec == Init /\ [][Next]_vars

\* The firmware runs, READ_ALL recurs (BaseDriver: KeepsTalking), time goes
\* on.  Nothing that has failed need come back.
Fairness ==
  /\ WF_vars(HandleCommand) /\ WF_vars(ReceiveReply)
  /\ WF_vars(SendClear) /\ WF_vars(SendReadEvent) /\ WF_vars(SendConsole)
  /\ SF_vars(SendPoll("READ_ALL"))
  /\ WF_vars(\E armed \in BOOLEAN : ApplyLocalMode(armed))
  /\ WF_vars(AlarmAges) /\ WF_vars(DataAges)

LiveSpec == Spec /\ Fairness

-----------------------------------------------------------------------------
Online == powered /\ base.up /\ gui.connected

Tamper == CaseStatus(gui) = "Tamper"

\* An alarm reaches the operator: an event whose edge the base has seen shows
\* on the page, unless the page thinks the case is in service mode, the node
\* goes into service mode, or something on the way is off.  It does so even
\* when a stray CLEAR_EVENT wipes the event before a reply reports it.
AlarmReachesPage ==
  (event # NoEvent /\ base.irq_pending /\ Online)
    ~> (Tamper \/ ~Armed(gui) \/ service_mode \/ ~Online)

\* ... and it does not stay for ever: with the latch empty and the readings
\* below their limits for good, whatever was recorded of past events and
\* readings and in whatever order, the alarm ends.
AlarmEnds ==
  <>[](event = NoEvent /\ high = {} /\ Online) => <>[]~Tamper


\* The mode on the page follows the node, whoever changed it and whatever
\* answers were under way.  The polls carry the service flag.  The interrupt
\* flag does not come with them: it is right for good if the configuration is
\* read again and again (it is otherwise what was heard last).
ModeReachesPage ==
  /\ <>[](service_mode /\ Online) => <>[](gui.service)
  /\ <>[](~service_mode /\ Online) => <>[](~gui.service)
  /\ ([]<><<ReceiveReply /\ Head(toBase).kind = "CONFIG">>_vars
        /\ <>[](~service_mode /\ interrupt_enabled /\ Online))
       => <>[]Armed(gui)

\* A base station that has fallen silent is noticed, once the operator no
\* longer changes settings (the server's own lines look like data).
SilentBaseIsShown ==
  <>[](~base.up) /\ <>[][~Post]_vars => <>[](CaseStatus(gui) \in {"Attention", "Tamper"})

\* What the page reports as tampering has been: the node has latched an event
\* before there is an alarm for one, and every reading with an alarm has been at
\* its limit.  No reset, stale reply, reconnect, mode change or command of the
\* page makes either.
NoFalseTamper ==
  Tamper => (EventAlarm(gui) => alarms > 0) /\ (ReadingAlarm(gui) => gui.high \subseteq reached)

\* Service mode on the page leaves nothing of an event behind that could come
\* back when the page arms the case again, whoever has changed the mode and
\* whatever replies were under way.
ServiceForgetsAlarms == gui.service => ~gui.event /\ ~gui.recent

\* No alarm is shown without a cause, and no event comes back after service mode.
AlarmsAreTrue == NoFalseTamper /\ ServiceForgetsAlarms

\* host-gui/README.md, line 44: "Attention: serial data is missing/stale, the
\* serial link is disconnected, or the BME680 environment stream is
\* unavailable."  With the sensor node off, none comes.
SilentNodeIsShown ==
  <>[](~powered) => <>[](CaseStatus(gui) \in {"Attention", "Tamper"})
=============================================================================
