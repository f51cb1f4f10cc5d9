--------------------------- MODULE DashboardProofs ---------------------------
(***************************************************************************)
(* Proofs about what the page shows, for any number of alarms, mode        *)
(* changes and faults and any length of the links.                         *)
(*                                                                         *)
(* An event alarm on the page can come from the model's event flag, from a *)
(* recorded interrupt, and these from a reply or from a READ_EVENT the     *)
(* base has sent of its own accord, which it does for an edge or a level   *)
(* of the event line.  Quiet says that none of this is about before the    *)
(* first event, Witnessed that neither page nor a reply under way has a    *)
(* reading at a limit it has never come to.                                *)
(***************************************************************************)
EXTENDS Dashboard, SequenceTheorems, TLAPS

ConsoleCommands == {"SERVICE_ON", "SERVICE_OFF", "INTERRUPT_ON", "INTERRUPT_OFF", "READ_CONFIG"}

NodeCommands == ConsoleCommands \cup {"READ_FORCE", "READ_ALL", "READ_EVENT", "CLEAR_EVENT"}

Replies == [kind : {"FORCE", "ALL", "EVENT", "CLEARED", "CONFIG", "SERVICE", "INTERRUPT"},
            event : BOOLEAN, service : BOOLEAN, interrupt : BOOLEAN, env : BOOLEAN,
            high : SUBSET Channels]

Bases == [up : BOOLEAN, irq_pending : BOOLEAN, clear_pending : BOOLEAN]

Models == [connected : BOOLEAN, interrupt : BOOLEAN, service : BOOLEAN, event : BOOLEAN,
           high : SUBSET Channels, env : BOOLEAN, recent : BOOLEAN, fresh : BOOLEAN]

Types ==
  /\ service_mode \in BOOLEAN /\ interrupt_enabled \in BOOLEAN /\ irq_pin \in BOOLEAN
  /\ bme \in BOOLEAN /\ powered \in BOOLEAN
  /\ high \subseteq Channels /\ reached \subseteq Channels
  /\ base \in Bases /\ gui \in Models
  /\ toNode \in Seq(NodeCommands) /\ toBase \in Seq(Replies)
  /\ console \in Seq(ConsoleCommands) /\ posted \subseteq BOOLEAN
  /\ alarms \in Nat

\* A model of the server that shows nothing of an event.
Silent(g) == ~g.event /\ ~g.recent

QuietReplies == {r \in Replies : ~r.event}

\* Nothing speaks of an event.
Quiet ==
  /\ event = NoEvent /\ ~irq_pin
  /\ ~base.irq_pending
  /\ toBase \in Seq(QuietReplies)
  /\ Silent(gui)

\* Replies that show no reading at its limit that has not been there.
TrueReplies(S) == {r \in Replies : r.high \subseteq S}

\* No reading is believed to be at its limit that has not been there.
Witnessed ==
  /\ high \subseteq reached
  /\ toBase \in Seq(TrueReplies(reached))
  /\ gui.high \subseteq reached

PageInv ==
  /\ Types
  /\ Witnessed
  /\ alarms = 0 => Quiet
  /\ ServiceForgetsAlarms

-----------------------------------------------------------------------------
\* The server's model.

\* What an operator may do to a model: it keeps its type, service mode does
\* not remember an alarm, and, if silent is preserved as well, nothing new.
Proper(g) == g \in Models /\ (g.service => Silent(g))

LEMMA RecordInterruptProper ==
  ASSUME NEW g, Proper(g)
  PROVE  Proper(RecordInterrupt(g)) /\ RecordInterrupt(g).high = g.high
  BY DEF Proper, Silent, Models, RecordInterrupt, Armed

LEMMA ClearAlarmProper ==
  ASSUME NEW g \in Models
  PROVE  /\ ClearAlarm(g) \in Models /\ Silent(ClearAlarm(g))
         /\ ClearAlarm(g).service = g.service /\ ClearAlarm(g).high = g.high
  BY DEF Silent, Models, ClearAlarm

LEMMA RecordCommandProper ==
  ASSUME NEW g, Proper(g), NEW cmd \in NodeCommands
  PROVE  /\ Proper(RecordCommand(g, cmd)) /\ RecordCommand(g, cmd).high = g.high
         /\ Silent(g) /\ cmd # "READ_EVENT" => Silent(RecordCommand(g, cmd))
  <1> DEFINE h == RecordCommand(g, cmd)
  <1>1. CASE cmd = "READ_EVENT"
    <2>1. h = RecordInterrupt(g)
      BY <1>1 DEF RecordCommand
    <2> QED
      BY <1>1, <2>1, RecordInterruptProper
  <1>2. CASE cmd = "SERVICE_ON"
    <2> DEFINE s == [g EXCEPT !.service = TRUE, !.interrupt = FALSE]
    <2>1. h = ClearAlarm(s) /\ s \in Models /\ s.high = g.high
      BY <1>2 DEF RecordCommand, Proper, Models
    <2> QED
      BY <2>1, ClearAlarmProper DEF Proper
  <1>3. CASE cmd = "SERVICE_OFF"
    <2>1. h = [g EXCEPT !.service = FALSE, !.interrupt = TRUE]
      BY <1>3 DEF RecordCommand
    <2> QED
      BY <2>1 DEF Proper, Silent, Models
  <1>4. CASE cmd = "INTERRUPT_ON"
    <2>1. h = [g EXCEPT !.interrupt = TRUE]
      BY <1>4 DEF RecordCommand
    <2> QED
      BY <2>1 DEF Proper, Silent, Models
  <1>5. CASE cmd = "INTERRUPT_OFF"
    <2>1. h = [g EXCEPT !.interrupt = FALSE]
      BY <1>5 DEF RecordCommand
    <2> QED
      BY <2>1 DEF Proper, Silent, Models
  <1>6. CASE cmd \in {"READ_CONFIG", "READ_FORCE", "READ_ALL", "CLEAR_EVENT"}
    <2>1. h = g
      BY <1>6 DEF RecordCommand
    <2> QED
      BY <2>1
  <1> QED
    BY <1>1, <1>2, <1>3, <1>4, <1>5, <1>6 DEF NodeCommands, ConsoleCommands

\* The reply may turn the event flag on and the mode into service mode in one
\* step; the flags of the mode are looked at last.
LEMMA ApplyReadingFieldsProper ==
  ASSUME NEW g, Proper(g), NEW r \in Replies
  PROVE  /\ Proper(ApplyReadingFields(g, r))
         /\ ApplyReadingFields(g, r).high \subseteq g.high \cup r.high
         /\ Silent(g) /\ ~r.event => Silent(ApplyReadingFields(g, r))
  <1> DEFINE f == [g EXCEPT !.high = ApplyValues(@, r)]
             e == IF HasEvent(r) THEN [f EXCEPT !.event = r.event] ELSE f
             i == IF HasEvent(r) /\ r.event THEN RecordInterrupt(e) ELSE e
             v == IF r.kind = "ALL" THEN [i EXCEPT !.env = r.env] ELSE i
             h == IF HasInterrupt(r) THEN [v EXCEPT !.interrupt = r.interrupt] ELSE v
             s == IF HasService(r) THEN [h EXCEPT !.service = r.service] ELSE h
  <1>0. /\ f \in Models /\ f.service = g.service /\ f.event = g.event /\ f.recent = g.recent
        /\ f.high \subseteq g.high \cup r.high
    <2>1. g.high \subseteq Channels /\ r.high \subseteq Channels
      BY DEF Proper, Models, Replies
    <2>2. f = [g EXCEPT !.high = ApplyValues(g.high, r)]
      BY DEF Proper, Models
    <2>3. /\ ApplyValues(g.high, r) \subseteq g.high \cup r.high
          /\ ApplyValues(g.high, r) \in SUBSET Channels
      BY <2>1 DEF ApplyValues
    <2> HIDE DEF f
    <2> QED
      BY <2>2, <2>3 DEF Proper, Models
  <1>1. /\ e \in Models /\ e.service = g.service /\ e.high = f.high
        /\ ~HasEvent(r) => e.event = g.event /\ e.recent = g.recent
        /\ Silent(g) /\ ~r.event => Silent(e)
    <2> HIDE DEF f
    <2> QED
      BY <1>0 DEF Models, Replies, Silent
  <1>2. /\ i \in Models /\ i.service = g.service /\ i.high = f.high
        /\ ~HasEvent(r) => i.event = g.event /\ i.recent = g.recent
        /\ Silent(g) /\ ~r.event => Silent(i)
    <2> HIDE DEF e, f
    <2> QED
      BY <1>1 DEF RecordInterrupt, Models, Silent
  <1>3. /\ v \in Models /\ v.service = g.service /\ v.high = f.high
        /\ ~HasEvent(r) => v.event = g.event /\ v.recent = g.recent
        /\ Silent(g) /\ ~r.event => Silent(v)
    <2> HIDE DEF i, f
    <2> QED
      BY <1>2 DEF Models, Silent, Replies
  <1>4. /\ h \in Models /\ h.service = g.service /\ h.high = f.high
        /\ ~HasEvent(r) => h.event = g.event /\ h.recent = g.recent
        /\ Silent(g) /\ ~r.event => Silent(h)
    <2> HIDE DEF v, f
    <2> QED
      BY <1>3 DEF Models, Silent, Replies
  <1>5. /\ s \in Models /\ s.high = f.high
        /\ s.service = (IF HasService(r) THEN r.service ELSE g.service)
        /\ ~HasEvent(r) => s.event = g.event /\ s.recent = g.recent
        /\ Silent(g) /\ ~r.event => Silent(s)
    <2> HIDE DEF h, f
    <2> QED
      BY <1>4 DEF Models, Silent, Replies
  <1>6. ApplyReadingFields(g, r) = IF HasService(r) /\ r.service THEN ClearAlarm(s) ELSE s
    BY DEF ApplyReadingFields, ApplyConfigFields
  <1> HIDE DEF e, i, v, h, s, f
  <1>7. CASE HasService(r) /\ r.service
    BY <1>0, <1>5, <1>6, <1>7, ClearAlarmProper DEF Proper
  <1>8. CASE ~(HasService(r) /\ r.service)
    <2>1. ApplyReadingFields(g, r) = s
      BY <1>6, <1>8
    <2>2. s.service => Silent(s)
      <3>1. SUFFICES ASSUME s.service PROVE Silent(s)
        OBVIOUS
      <3>2. ~HasService(r) /\ g.service
        BY <1>5, <1>8, <3>1
      <3>3. ~HasEvent(r)
        BY <3>2 DEF HasEvent, HasService
      <3> QED
        BY <1>5, <3>2, <3>3 DEF Proper, Silent
    <2> QED
      BY <1>0, <1>5, <2>1, <2>2 DEF Proper
  <1> QED
    BY <1>7, <1>8

LEMMA ApplyBaseEventProper ==
  ASSUME NEW g, Proper(g), NEW r \in Replies
  PROVE  /\ Proper(ApplyBaseEvent(g, r))
         /\ ApplyBaseEvent(g, r).high \subseteq g.high \cup r.high
         /\ Silent(g) /\ ~r.event => Silent(ApplyBaseEvent(g, r))
  <1> DEFINE h == ApplyReadingFields(g, r)
  <1>1. ApplyBaseEvent(g, r) = IF r.kind = "EVENT" /\ r.event THEN RecordInterrupt(h) ELSE h
    BY DEF ApplyBaseEvent
  <1>2. /\ Proper(h) /\ h.high \subseteq g.high \cup r.high
        /\ Silent(g) /\ ~r.event => Silent(h)
    BY ApplyReadingFieldsProper
  <1> HIDE DEF h
  <1> QED
    BY <1>1, <1>2, RecordInterruptProper

LEMMA ShowTxProper ==
  ASSUME NEW g, Proper(g), NEW cmd \in NodeCommands
  PROVE  /\ Proper(ShowTx(g, cmd)) /\ ShowTx(g, cmd).high = g.high
         /\ Silent(g) /\ cmd # "READ_EVENT" => Silent(ShowTx(g, cmd))
  <1> DEFINE f == [g EXCEPT !.fresh = TRUE]
  <1>1. Proper(f) /\ f.high = g.high /\ (Silent(g) => Silent(f))
    BY DEF Proper, Models, Silent
  <1>2. ShowTx(g, cmd) = IF g.connected THEN RecordCommand(f, cmd) ELSE g
    BY DEF ShowTx
  <1> HIDE DEF f
  <1> QED
    BY <1>1, <1>2, RecordCommandProper

LEMMA ShowReplyProper ==
  ASSUME NEW g, Proper(g), NEW r \in Replies
  PROVE  /\ Proper(ShowReply(g, r))
         /\ ShowReply(g, r).high \subseteq g.high \cup r.high
         /\ Silent(g) /\ ~r.event => Silent(ShowReply(g, r))
  <1> DEFINE f == [g EXCEPT !.fresh = TRUE]
  <1>1. Proper(f) /\ f.high = g.high /\ (Silent(g) => Silent(f))
    BY DEF Proper, Models, Silent
  <1>2. ShowReply(g, r) = IF g.connected THEN ApplyBaseEvent(f, r) ELSE g
    BY DEF ShowReply
  <1> HIDE DEF f
  <1> QED
    BY <1>1, <1>2, ApplyBaseEventProper

-----------------------------------------------------------------------------
\* The links.

LEMMA SentTyped ==
  ASSUME NEW S, NEW link \in Seq(S), NEW frame \in S
  PROVE  Sent(link, frame) \in Seq(S)
  BY AppendProperties DEF Sent

LEMMA SeqGrows ==
  ASSUME NEW S, NEW T, S \subseteq T, NEW q \in Seq(S)
  PROVE  q \in Seq(T)
  OBVIOUS

LEMMA EmptyTyped == \A S : <<>> \in Seq(S)
  BY EmptySeq

LEMMA NodeCommandsAre ==
  /\ ConsoleCommands \subseteq NodeCommands
  /\ "READ_EVENT" \notin ConsoleCommands
  /\ {"READ_FORCE", "READ_ALL", "READ_EVENT", "CLEAR_EVENT"} \subseteq NodeCommands
  BY DEF ConsoleCommands, NodeCommands

-----------------------------------------------------------------------------
\* The node.

LEMMA LeaveServiceSilently ==
  ASSUME Latch!LeaveService, event' = NoEvent
  PROVE  service_mode' = FALSE /\ interrupt_enabled' = TRUE /\ irq_pin' = FALSE
  <1>1. NoEvent \notin {1}
    BY DEF NoEvent
  <1> QED
    BY <1>1 DEF Latch!LeaveService

LEMMA EdgeTyped ==
  ASSUME base \in Bases, irq_pin' \in BOOLEAN
  PROVE  Edge(base) \in Bases /\ (~irq_pin' => Edge(base) = base)
  BY DEF Edge, Bases

\* A command raises no alarm.
LEMMA ExecuteRaisesNothing ==
  ASSUME Types, NEW cmd \in NodeCommands, Execute(cmd)
  PROVE  /\ service_mode' \in BOOLEAN /\ interrupt_enabled' \in BOOLEAN /\ irq_pin' \in BOOLEAN
         /\ event = NoEvent /\ ~irq_pin => event' = NoEvent /\ ~irq_pin'
  <1> USE DEF Types
  <1>1. CASE cmd = "CLEAR_EVENT"
    <2>1. Latch!Clear
      BY <1>1 DEF Execute
    <2> QED
      BY <2>1 DEF Latch!Clear
  <1>2. CASE cmd = "SERVICE_ON" /\ ~service_mode
    <2>1. Latch!EnterService
      BY <1>2 DEF Execute
    <2> QED
      BY <2>1 DEF Latch!EnterService
  <1>3. CASE cmd = "SERVICE_OFF" /\ service_mode
    <2>1. Latch!LeaveService /\ event' = NoEvent
      BY <1>3 DEF Execute
    <2> QED
      BY <2>1, LeaveServiceSilently
  <1>4. CASE cmd = "INTERRUPT_ON"
    <2>1. Latch!EnableInterrupt(TRUE)
      BY <1>4 DEF Execute
    <2> QED
      BY <2>1 DEF Latch!EnableInterrupt
  <1>5. CASE cmd = "INTERRUPT_OFF"
    <2>1. Latch!EnableInterrupt(FALSE)
      BY <1>5 DEF Execute
    <2> QED
      BY <2>1 DEF Latch!EnableInterrupt
  <1>6. CASE /\ cmd \notin {"CLEAR_EVENT", "INTERRUPT_ON", "INTERRUPT_OFF"}
             /\ ~(cmd = "SERVICE_ON" /\ ~service_mode)
             /\ ~(cmd = "SERVICE_OFF" /\ service_mode)
    <2>1. UNCHANGED latch
      BY <1>6 DEF Execute
    <2> QED
      BY <2>1 DEF latch
  <1> QED
    BY <1>1, <1>2, <1>3, <1>4, <1>5, <1>6

LEMMA AnswerTyped ==
  ASSUME Types, NEW cmd \in NodeCommands, service_mode' \in BOOLEAN, interrupt_enabled' \in BOOLEAN
  PROVE  /\ Answer(cmd) \in Replies /\ (event' = NoEvent => ~Answer(cmd).event)
         /\ Answer(cmd).high \subseteq high
  <1>1. ReplyKind(cmd) \in {"FORCE", "ALL", "EVENT", "CLEARED", "CONFIG", "SERVICE", "INTERRUPT"}
    BY DEF ReplyKind, NodeCommands, ConsoleCommands
  <1>2. /\ (HasEvent([kind |-> ReplyKind(cmd)]) /\ event' # NoEvent) \in BOOLEAN
        /\ (HasService([kind |-> ReplyKind(cmd)]) /\ service_mode') \in BOOLEAN
        /\ (HasInterrupt([kind |-> ReplyKind(cmd)]) /\ interrupt_enabled') \in BOOLEAN
        /\ (ReplyKind(cmd) = "ALL" /\ bme) \in BOOLEAN
    OBVIOUS
  <1> DEFINE H == Carried([kind |-> ReplyKind(cmd)]) \cap IF bme THEN high ELSE high \ {"air"}
  <1>3. H \subseteq high /\ H \in SUBSET Channels
    BY DEF Types
  <1> HIDE DEF H
  <1>4. Answer(cmd) = [kind |-> ReplyKind(cmd),
                       event |-> HasEvent([kind |-> ReplyKind(cmd)]) /\ event' # NoEvent,
                       service |-> HasService([kind |-> ReplyKind(cmd)]) /\ service_mode',
                       interrupt |-> HasInterrupt([kind |-> ReplyKind(cmd)]) /\ interrupt_enabled',
                       env |-> ReplyKind(cmd) = "ALL" /\ bme,
                       high |-> H]
    BY DEF Answer, H
  <1> DEFINE k == ReplyKind(cmd)
             e == HasEvent([kind |-> k]) /\ event' # NoEvent
             v == HasService([kind |-> k]) /\ service_mode'
             i == HasInterrupt([kind |-> k]) /\ interrupt_enabled'
             n == k = "ALL" /\ bme
  <1>5. Answer(cmd) = [kind |-> k, event |-> e, service |-> v, interrupt |-> i, env |-> n, high |-> H]
    BY <1>4
  <1>6. event' = NoEvent => ~e
    OBVIOUS
  <1>7. k \in {"FORCE", "ALL", "EVENT", "CLEARED", "CONFIG", "SERVICE", "INTERRUPT"}
        /\ e \in BOOLEAN /\ v \in BOOLEAN /\ i \in BOOLEAN /\ n \in BOOLEAN
    BY <1>1, <1>2
  <1> HIDE DEF k, e, v, i, n
  <1> QED
    BY <1>3, <1>5, <1>6, <1>7 DEF Replies

LEMMA RaiseEventKeeps ==
  ASSUME PageInv, RaiseEvent
  PROVE  PageInv'
  <1>1. /\ irq_pin' \in BOOLEAN /\ alarms' = alarms + 1 /\ base' = Edge(base)
        /\ UNCHANGED <<service_mode, interrupt_enabled, powered, bme, high, reached, toNode, toBase,
                       console, posted, gui>>
    BY DEF RaiseEvent, Latch!Latch, PageInv, Types, readings, links, server
  <1>2. base' \in Bases
    BY <1>1, EdgeTyped DEF PageInv, Types
  <1> QED
    BY <1>1, <1>2 DEF PageInv, Types, Witnessed, ServiceForgetsAlarms

LEMMA GestureKeeps ==
  ASSUME PageInv, Gesture
  PROVE  PageInv'
  <1>1. /\ event' = NoEvent /\ irq_pin' = FALSE
        /\ service_mode' \in BOOLEAN /\ interrupt_enabled' \in BOOLEAN
        /\ UNCHANGED <<powered, bme, high, reached, base, toNode, toBase, console, posted, gui, alarms>>
    <2>1. CASE Latch!EnterService
      BY <2>1 DEF Gesture, Latch!EnterService, readings, links, server
    <2>2. CASE Latch!LeaveService /\ event' = NoEvent
      BY <2>2, LeaveServiceSilently DEF Gesture, readings, links, server
    <2> QED
      BY <2>1, <2>2 DEF Gesture
  <1> QED
    BY <1>1 DEF PageInv, Types, Witnessed, Quiet, ServiceForgetsAlarms

\* A channel that comes to its limit is one more that has been there.
LEMMA ReadingsKeep ==
  ASSUME PageInv, NEW ch \in Channels, ReadingRises(ch) \/ ReadingFalls(ch)
  PROVE  PageInv'
  <1>1. /\ high' \subseteq high \cup {ch} /\ reached \subseteq reached'
        /\ high' \subseteq reached' /\ reached' \subseteq Channels
        /\ UNCHANGED <<latch, powered, bme, base, toNode, toBase, console, posted, gui, alarms>>
    BY DEF ReadingRises, ReadingFalls, PageInv, Types, Witnessed, node, links, server, counts
  <1>2. toBase' \in Seq(TrueReplies(reached'))
    <2>1. TrueReplies(reached) \subseteq TrueReplies(reached')
      BY <1>1 DEF TrueReplies
    <2>2. toBase \in Seq(TrueReplies(reached'))
      BY <2>1, SeqGrows DEF PageInv, Witnessed
    <2> QED
      BY <1>1, <2>2
  <1> QED
    BY <1>1, <1>2 DEF PageInv, Types, Witnessed, Quiet, latch, ServiceForgetsAlarms

LEMMA HandleCommandKeeps ==
  ASSUME PageInv, HandleCommand
  PROVE  PageInv'
  <1> DEFINE cmd == Head(toNode)
  <1>1. /\ toNode # <<>> /\ Execute(cmd) /\ base' = Edge(base)
        /\ toNode' = Tail(toNode) /\ toBase' = Sent(toBase, Answer(cmd))
        /\ UNCHANGED <<powered, bme, high, reached, console, posted, gui, alarms>>
    BY DEF HandleCommand, readings, server, counts
  <1>2. cmd \in NodeCommands /\ toNode' \in Seq(NodeCommands)
    BY <1>1, HeadTailProperties DEF PageInv, Types
  <1> HIDE DEF cmd
  <1>3. /\ service_mode' \in BOOLEAN /\ interrupt_enabled' \in BOOLEAN /\ irq_pin' \in BOOLEAN
        /\ event = NoEvent /\ ~irq_pin => event' = NoEvent /\ ~irq_pin'
    BY <1>1, <1>2, ExecuteRaisesNothing DEF PageInv
  <1>4. base' \in Bases /\ (~irq_pin' => base' = base)
    BY <1>1, <1>3, EdgeTyped DEF PageInv, Types
  <1>5. /\ Answer(cmd) \in Replies /\ (event' = NoEvent => ~Answer(cmd).event)
        /\ Answer(cmd).high \subseteq high
    BY <1>2, <1>3, AnswerTyped DEF PageInv
  <1>6. toBase' \in Seq(Replies)
    BY <1>1, <1>5, SentTyped DEF PageInv, Types
  <1>7. Quiet => Quiet'
    <2>1. SUFFICES ASSUME Quiet PROVE Quiet'
      OBVIOUS
    <2>2. event' = NoEvent /\ ~irq_pin' /\ base' = base
      BY <1>3, <1>4, <2>1 DEF Quiet
    <2>3. Answer(cmd) \in QuietReplies
      BY <1>5, <2>2 DEF QuietReplies
    <2>4. toBase' \in Seq(QuietReplies)
      BY <1>1, <2>1, <2>3, SentTyped DEF Quiet
    <2> QED
      BY <1>1, <2>1, <2>2, <2>4 DEF Quiet
  <1>8. Witnessed'
    <2>1. Answer(cmd) \in TrueReplies(reached)
      BY <1>5 DEF TrueReplies, PageInv, Witnessed
    <2>2. toBase' \in Seq(TrueReplies(reached))
      BY <1>1, <2>1, SentTyped DEF PageInv, Witnessed
    <2> QED
      BY <1>1, <2>2 DEF PageInv, Witnessed
  <1> QED
    BY <1>1, <1>2, <1>3, <1>4, <1>6, <1>7, <1>8 DEF PageInv, Types, ServiceForgetsAlarms

-----------------------------------------------------------------------------
\* The base station.

\* Sending a command and printing it.  READ_EVENT is not sent while all is quiet.
LEMMA SendKeeps ==
  ASSUME PageInv, NEW cmd \in NodeCommands, Send(cmd),
         Quiet => cmd # "READ_EVENT" /\ ~base'.irq_pending,
         base' \in Bases, console' \in Seq(ConsoleCommands)
  PROVE  PageInv'
  <1>1. /\ toNode' = IF powered THEN Sent(toNode, cmd) ELSE toNode
        /\ gui' = ShowTx(gui, cmd)
        /\ UNCHANGED <<service_mode, interrupt_enabled, event, irq_pin, powered, bme, high, reached,
                       toBase, posted, alarms>>
    BY DEF Send, node, latch, readings, counts
  <1>2. toNode' \in Seq(NodeCommands)
    BY <1>1, SentTyped DEF PageInv, Types
  <1>3. Proper(gui)
    BY DEF PageInv, Types, Proper, ServiceForgetsAlarms, Silent
  <1>4. /\ Proper(gui') /\ gui'.high = gui.high
        /\ Silent(gui) /\ cmd # "READ_EVENT" => Silent(gui')
    BY <1>1, <1>3, ShowTxProper
  <1>5. Quiet => Quiet'
    BY <1>1, <1>4 DEF Quiet
  <1> QED
    BY <1>1, <1>2, <1>4, <1>5 DEF PageInv, Types, Witnessed, Proper, ServiceForgetsAlarms, Silent

LEMMA BaseSendsKeep ==
  ASSUME PageInv,
         \/ SendClear \/ SendReadEvent \/ SendConsole
         \/ SendPoll("READ_ALL") \/ SendPoll("READ_FORCE")
  PROVE  PageInv'
  <1> USE NodeCommandsAre
  <1>1. base \in Bases /\ console \in Seq(ConsoleCommands)
    BY DEF PageInv, Types
  <1>2. CASE SendClear
    <2>1. Send("CLEAR_EVENT") /\ base' = [base EXCEPT !.clear_pending = FALSE] /\ console' = console
      BY <1>2 DEF SendClear
    <2>2. base' \in Bases /\ base'.irq_pending = base.irq_pending
      BY <1>1, <2>1 DEF Bases
    <2> QED
      BY <1>1, <2>1, <2>2, SendKeeps DEF Quiet
  <1>3. CASE SendReadEvent
    <2>1. /\ Send("READ_EVENT") /\ base' = [base EXCEPT !.irq_pending = FALSE]
          /\ console' = console /\ (base.irq_pending \/ irq_pin)
      BY <1>3 DEF SendReadEvent
    <2>2. base' \in Bases
      BY <1>1, <2>1 DEF Bases
    <2>3. ~Quiet
      BY <2>1 DEF Quiet
    <2> QED
      BY <1>1, <2>1, <2>2, <2>3, SendKeeps
  <1>4. CASE SendConsole
    <2>1. console # <<>> /\ console' = Tail(console) /\ Send(Head(console)) /\ base' = base
      BY <1>4 DEF SendConsole
    <2>2. Head(console) \in ConsoleCommands /\ console' \in Seq(ConsoleCommands)
      BY <1>1, <2>1, HeadTailProperties
    <2> QED
      BY <1>1, <2>1, <2>2, SendKeeps DEF Quiet
  <1>5. CASE SendPoll("READ_ALL")
    <2>1. Send("READ_ALL") /\ base' = base /\ console' = console
      BY <1>5 DEF SendPoll
    <2> QED
      BY <1>1, <2>1, SendKeeps DEF Quiet
  <1>6. CASE SendPoll("READ_FORCE")
    <2>1. Send("READ_FORCE") /\ base' = base /\ console' = console
      BY <1>6 DEF SendPoll
    <2> QED
      BY <1>1, <2>1, SendKeeps DEF Quiet
  <1> QED
    BY <1>2, <1>3, <1>4, <1>5, <1>6

LEMMA ReceiveReplyKeeps ==
  ASSUME PageInv, ReceiveReply
  PROVE  PageInv'
  <1> DEFINE r == Head(toBase)
  <1>1. /\ toBase # <<>> /\ gui' = ShowReply(gui, r) /\ toBase' = Tail(toBase)
        /\ base' = [base EXCEPT !.clear_pending = @ \/ (r.kind \in {"ALL", "EVENT"} /\ r.event)]
        /\ UNCHANGED <<service_mode, interrupt_enabled, event, irq_pin, powered, bme, high, reached,
                       toNode, console, posted, alarms>>
    BY DEF ReceiveReply, node, latch, readings, server, counts
  <1>2. r \in Replies /\ toBase' \in Seq(Replies)
    BY <1>1, HeadTailProperties DEF PageInv, Types
  <1>3. toBase \in Seq(QuietReplies) => ~r.event /\ toBase' \in Seq(QuietReplies)
    BY <1>1, HeadTailProperties DEF QuietReplies
  <1>8. r.high \subseteq reached /\ toBase' \in Seq(TrueReplies(reached))
    BY <1>1, HeadTailProperties DEF PageInv, Witnessed, TrueReplies
  <1> HIDE DEF r
  <1>4. base' \in Bases /\ base'.irq_pending = base.irq_pending
    <2>1. base \in Bases
      BY DEF PageInv, Types
    <2>2. (base.clear_pending \/ (r.kind \in {"ALL", "EVENT"} /\ r.event)) \in BOOLEAN
      OBVIOUS
    <2> QED
      BY <1>1, <2>1, <2>2 DEF Bases
  <1>5. Proper(gui)
    BY DEF PageInv, Types, Proper, ServiceForgetsAlarms, Silent
  <1>6. /\ Proper(gui') /\ gui'.high \subseteq gui.high \cup r.high
        /\ Silent(gui) /\ ~r.event => Silent(gui')
    BY <1>1, <1>2, <1>5, ShowReplyProper
  <1>7. Quiet => Quiet'
    BY <1>1, <1>3, <1>4, <1>6 DEF Quiet
  <1>9. Witnessed'
    BY <1>1, <1>6, <1>8 DEF PageInv, Witnessed
  <1> QED
    BY <1>1, <1>2, <1>4, <1>6, <1>7, <1>9 DEF PageInv, Types, Proper, ServiceForgetsAlarms, Silent

-----------------------------------------------------------------------------
\* The GUI, time and faults.

\* A step that at most resets a flag of the model or of the base, or noting a mode.
LEMMA ModelKeeps ==
  ASSUME PageInv, gui' \in Models, gui'.high = gui.high,
         gui'.service => Silent(gui'), Silent(gui) => Silent(gui'),
         UNCHANGED <<latch, powered, bme, readings, base, toNode, toBase, alarms>>,
         console' \in Seq(ConsoleCommands), posted' \subseteq BOOLEAN
  PROVE  PageInv'
  BY DEF PageInv, Types, Witnessed, Quiet, latch, readings, ServiceForgetsAlarms, Silent

LEMMA ThreeTyped ==
  ASSUME NEW S, NEW a \in S, NEW b \in S, NEW c \in S
  PROVE  <<a, b, c>> \in Seq(S) /\ <<a>> \in Seq(S)
  OBVIOUS

LEMMA ConfigureTyped ==
  /\ Configure \in Seq(ConsoleCommands)
  /\ \A armed \in BOOLEAN : ModeCommands(armed) \in Seq(ConsoleCommands)
  /\ <<"READ_CONFIG">> \in Seq(ConsoleCommands)
  <1>1. {"SERVICE_ON", "SERVICE_OFF", "INTERRUPT_ON", "INTERRUPT_OFF", "READ_CONFIG"}
          \subseteq ConsoleCommands
    BY DEF ConsoleCommands
  <1>2. Configure \in Seq(ConsoleCommands)
    BY <1>1, ThreeTyped DEF Configure
  <1>3. ASSUME NEW armed \in BOOLEAN PROVE ModeCommands(armed) \in Seq(ConsoleCommands)
    BY <1>1, <1>2, ThreeTyped DEF ModeCommands
  <1> QED
    BY <1>1, <1>2, <1>3, ThreeTyped

LEMMA PageStepsKeep ==
  ASSUME PageInv,
         \/ Post
         \/ \E armed \in BOOLEAN : ApplyLocalMode(armed)
         \/ AlarmAges \/ DataAges \/ Disconnect \/ Connect
  PROVE  PageInv'
  <1>1. gui \in Models /\ console \in Seq(ConsoleCommands) /\ posted \subseteq BOOLEAN
        /\ (gui.service => Silent(gui))
    BY DEF PageInv, Types, ServiceForgetsAlarms, Silent
  <1>2. ASSUME NEW armed \in BOOLEAN, PostMode(armed) PROVE PageInv'
    <2>1. /\ console' \in {<<>>, ModeCommands(armed)} /\ posted' = {armed}
          /\ gui' = [gui EXCEPT !.fresh = TRUE]
          /\ UNCHANGED <<latch, powered, bme, readings, base, toNode, toBase, alarms>>
      BY <1>2 DEF PostMode, node, links
    <2>2. console' \in Seq(ConsoleCommands)
      BY <2>1, ConfigureTyped, EmptyTyped
    <2>3. /\ gui' \in Models /\ gui'.high = gui.high
          /\ (gui'.service => Silent(gui')) /\ (Silent(gui) => Silent(gui'))
      BY <1>1, <2>1 DEF Models, Silent
    <2> QED
      BY <1>1, <2>1, <2>2, <2>3, ModelKeeps
  <1>3. CASE PostSetting
    <2>1. /\ console' \in {<<>>, <<"READ_CONFIG">>} /\ posted' = posted
          /\ gui' = [gui EXCEPT !.fresh = TRUE]
          /\ UNCHANGED <<latch, powered, bme, readings, base, toNode, toBase, alarms>>
      BY <1>3 DEF PostSetting, node, links, counts
    <2>2. console' \in Seq(ConsoleCommands)
      BY <2>1, ConfigureTyped, EmptyTyped
    <2>3. /\ gui' \in Models /\ gui'.high = gui.high
          /\ (gui'.service => Silent(gui')) /\ (Silent(gui) => Silent(gui'))
      BY <1>1, <2>1 DEF Models, Silent
    <2> QED
      BY <1>1, <2>1, <2>2, <2>3, ModelKeeps
  <1>4. ASSUME NEW armed \in BOOLEAN, ApplyLocalMode(armed) PROVE PageInv'
    <2> DEFINE g == [gui EXCEPT !.interrupt = armed, !.service = ~armed]
    <2>1. /\ gui' = (IF armed THEN g ELSE ClearAlarm(g)) /\ posted' = {} /\ console' = console
          /\ UNCHANGED <<latch, powered, bme, readings, base, toNode, toBase, alarms>>
      BY <1>4 DEF ApplyLocalMode, node, links, counts
    <2>2. /\ g \in Models /\ g.high = gui.high /\ g.service = ~armed /\ (Silent(gui) => Silent(g))
      BY <1>1 DEF Models, Silent
    <2> HIDE DEF g
    <2>3. /\ gui' \in Models /\ gui'.high = gui.high
          /\ (gui'.service => Silent(gui')) /\ (Silent(gui) => Silent(gui'))
      BY <2>1, <2>2, ClearAlarmProper
    <2> QED
      BY <1>1, <2>1, <2>3, ModelKeeps
  <1>5. CASE AlarmAges
    <2>1. /\ gui' = [gui EXCEPT !.recent = FALSE] /\ console' = console /\ posted' = posted
          /\ UNCHANGED <<latch, powered, bme, readings, base, toNode, toBase, alarms>>
      BY <1>5 DEF AlarmAges, node, links, server, counts
    <2>2. /\ gui' \in Models /\ gui'.high = gui.high
          /\ (gui'.service => Silent(gui')) /\ (Silent(gui) => Silent(gui'))
      BY <1>1, <2>1 DEF Models, Silent
    <2> QED
      BY <1>1, <2>1, <2>2, ModelKeeps
  <1>6. CASE DataAges
    <2>1. /\ gui' = [gui EXCEPT !.fresh = FALSE] /\ console' = console /\ posted' = posted
          /\ UNCHANGED <<latch, powered, bme, readings, base, toNode, toBase, alarms>>
      BY <1>6 DEF DataAges, node, links, server, counts
    <2>2. /\ gui' \in Models /\ gui'.high = gui.high
          /\ (gui'.service => Silent(gui')) /\ (Silent(gui) => Silent(gui'))
      BY <1>1, <2>1 DEF Models, Silent
    <2> QED
      BY <1>1, <2>1, <2>2, ModelKeeps
  <1>7. CASE Disconnect \/ Connect
    <2>1. /\ gui' = [gui EXCEPT !.connected = gui'.connected] /\ gui'.connected \in BOOLEAN
          /\ console' = console /\ posted' = posted
          /\ UNCHANGED <<latch, powered, bme, readings, base, toNode, toBase, alarms>>
      BY <1>1, <1>7 DEF Disconnect, Connect, Fault, Models, node, links, server, counts
    <2>2. /\ gui' \in Models /\ gui'.high = gui.high
          /\ (gui'.service => Silent(gui')) /\ (Silent(gui) => Silent(gui'))
      BY <1>1, <2>1 DEF Models, Silent
    <2> QED
      BY <1>1, <2>1, <2>2, ModelKeeps
  <1> QED
    BY <1>2, <1>3, <1>4, <1>5, <1>6, <1>7 DEF Post

LEMMA FaultsKeep ==
  ASSUME PageInv, BmeFails \/ PowerOff \/ PowerOn \/ BaseDown \/ BaseBoots
  PROVE  PageInv'
  <1>1. CASE BmeFails
    <2>1. bme' = FALSE
          /\ UNCHANGED <<latch, powered, readings, base, toNode, toBase, console, posted, gui, alarms>>
      BY <1>1 DEF BmeFails, Fault, links, server
    <2> QED
      BY <2>1 DEF PageInv, Types, Witnessed, readings, Quiet, latch, ServiceForgetsAlarms
  <1>2. CASE PowerOff
    <2>1. /\ powered' = FALSE /\ irq_pin' = FALSE /\ toNode' = <<>>
          /\ UNCHANGED <<service_mode, interrupt_enabled, event, bme, readings, base, toBase,
                         console, posted, gui, alarms>>
      BY <1>2 DEF PowerOff, Fault, server
    <2> QED
      BY <2>1, EmptyTyped DEF PageInv, Types, Witnessed, readings, Quiet, ServiceForgetsAlarms
  <1>3. CASE PowerOn
    <2>1. /\ powered' = TRUE /\ service_mode' = FALSE /\ interrupt_enabled' = TRUE
          /\ event' = NoEvent /\ irq_pin' = FALSE
          /\ UNCHANGED <<bme, readings, base, toNode, toBase, console, posted, gui, alarms>>
      BY <1>3 DEF PowerOn, Latch!Restart, links, server, counts
    <2> QED
      BY <2>1 DEF PageInv, Types, Witnessed, readings, Quiet, ServiceForgetsAlarms
  <1>4. CASE BaseDown
    <2>1. /\ base' = [up |-> FALSE, irq_pending |-> FALSE, clear_pending |-> FALSE]
          /\ toBase' = <<>> /\ console' = <<>>
          /\ UNCHANGED <<latch, powered, bme, readings, toNode, posted, gui, alarms>>
      BY <1>4 DEF BaseDown, Fault, node
    <2> QED
      BY <2>1, EmptyTyped DEF PageInv, Types, Witnessed, readings, Quiet, Bases, latch, ServiceForgetsAlarms
  <1>5. CASE BaseBoots
    <2>1. /\ base' = [base EXCEPT !.up = TRUE] /\ console' = Configure
          /\ UNCHANGED <<latch, powered, bme, readings, toNode, toBase, posted, gui, alarms>>
      BY <1>5 DEF BaseBoots, node, links, counts
    <2>2. base' \in Bases /\ base'.irq_pending = base.irq_pending
      BY <2>1 DEF PageInv, Types, Bases
    <2> QED
      BY <2>1, <2>2, ConfigureTyped DEF PageInv, Types, Witnessed, readings, Quiet, latch, ServiceForgetsAlarms
  <1> QED
    BY <1>1, <1>2, <1>3, <1>4, <1>5

-----------------------------------------------------------------------------
LEMMA PageInitially == Init => PageInv
  <1> SUFFICES ASSUME Init PROVE PageInv
    OBVIOUS
  <1>1. gui \in Models /\ gui.event = FALSE /\ gui.recent = FALSE /\ gui.high = {}
    BY DEF Init, Models
  <1>2. base \in Bases /\ base.irq_pending = FALSE
    BY DEF Init, Bases
  <1>3. /\ service_mode \in BOOLEAN /\ interrupt_enabled \in BOOLEAN /\ irq_pin = FALSE
        /\ event = NoEvent /\ bme \in BOOLEAN /\ powered \in BOOLEAN /\ posted \subseteq BOOLEAN
        /\ toNode = <<>> /\ toBase = <<>> /\ console = <<>> /\ alarms \in Nat
        /\ high = {} /\ reached = {}
    BY DEF Init
  <1> QED
    BY <1>1, <1>2, <1>3, EmptyTyped DEF PageInv, Types, Witnessed, Quiet, Silent, ServiceForgetsAlarms

LEMMA PageInvariance == PageInv /\ [Next]_vars => PageInv'
  <1> SUFFICES ASSUME PageInv, [Next]_vars PROVE PageInv'
    OBVIOUS
  <1>1. CASE UNCHANGED vars
    BY <1>1 DEF PageInv, Types, Witnessed, Quiet, ServiceForgetsAlarms, vars, node, latch, readings,
                 links, server, counts
  <1>2. CASE Work
    BY <1>2, HandleCommandKeeps, BaseSendsKeep, ReceiveReplyKeeps, PageStepsKeep DEF Work
  <1>3. CASE AlarmAges \/ DataAges \/ Post \/ Disconnect \/ Connect
    BY <1>3, PageStepsKeep
  <1>4. CASE RaiseEvent \/ Gesture \/ (\E ch \in Channels : ReadingRises(ch) \/ ReadingFalls(ch))
    BY <1>4, RaiseEventKeeps, GestureKeeps, ReadingsKeep
  <1>5. CASE BmeFails \/ PowerOff \/ PowerOn \/ BaseDown \/ BaseBoots
    BY <1>5, FaultsKeep
  <1> QED
    BY <1>1, <1>2, <1>3, <1>4, <1>5 DEF Next

\* What the page reports as tampering has been: an event the node has latched,
\* or a reading that has come to its limit.
THEOREM TamperHasCause == Spec => []NoFalseTamper
  <1>1. PageInv => NoFalseTamper
    <2>1. PageInv => alarms > 0 \/ Silent(gui)
      BY DEF PageInv, Types, Quiet
    <2>2. Silent(gui) => ~EventAlarm(gui)
      BY DEF Silent, EventAlarm
    <2>3. PageInv => gui.high \subseteq reached
      BY DEF PageInv, Witnessed
    <2> QED
      BY <2>1, <2>2, <2>3 DEF NoFalseTamper
  <1> QED
    BY <1>1, PageInitially, PageInvariance, PTL DEF Spec

\* Service mode on the page leaves nothing of an alarm behind.
THEOREM ServiceForgets == Spec => []ServiceForgetsAlarms
  <1>1. PageInv => ServiceForgetsAlarms
    BY DEF PageInv
  <1> QED
    BY <1>1, PageInitially, PageInvariance, PTL DEF Spec

\* Both together, whatever is lost, reset or switched off.
THEOREM AlarmsTrue == Spec => []AlarmsAreTrue
  <1>1. NoFalseTamper /\ ServiceForgetsAlarms => AlarmsAreTrue
    BY DEF AlarmsAreTrue
  <1> QED
    BY <1>1, TamperHasCause, ServiceForgets, PTL
=============================================================================
