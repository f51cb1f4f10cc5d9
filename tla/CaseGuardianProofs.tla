------------------------- MODULE CaseGuardianProofs -------------------------
(***************************************************************************)
(* The base station acknowledges an alarm only after a reply has reported  *)
(* one, for any number of alarms, lost frames, resets and commands of the  *)
(* operator (other than a CLEAR_EVENT of his own).                         *)
(*                                                                         *)
(* The driver of the base station is one part of that system.  What it     *)
(* does with its clocks and its requests is proved of the driver alone,    *)
(* for every sequence of replies, and the system is shown to run it.       *)
(***************************************************************************)
EXTENDS TimedGuardian, Induction, SequenceTheorems

\* The driver is a record with these fields; what they hold matters only
\* where the proof says so.
Fields == DOMAIN Driver!ResetState

\* The only fields the argument is about.
LEMMA FieldsAre ==
  /\ {"phase", "sent", "clear_pending", "reading_event"} \subseteq Fields
  /\ ~Driver!ResetState.clear_pending
  /\ Driver!ResetState.sent = "NONE"
  BY DEF Fields, Driver!ResetState

\* A reply asks for a clear only if it reports an event.
Asks(r) == r.kind \in {"EVENT", "ALL"} /\ r.event

LEMMA PayloadAsks ==
  ASSUME NEW d, DOMAIN d = Fields, NEW r
  PROVE  /\ DOMAIN Driver!HandlePayload(d, r) = Fields
         /\ Driver!HandlePayload(d, r).sent = d.sent
         /\ Driver!HandlePayload(d, r).clear_pending => d.clear_pending \/ Asks(r)
  <1> DEFINE a == [d EXCEPT !.rx_age = 0]
             b == Driver!UpdateReading(a, r)
             m == Driver!UpdateConfig(b, r)
             u == Driver!UpdateEvent(m, r)
  <1>1. DOMAIN a = Fields /\ a.clear_pending = d.clear_pending /\ a.sent = d.sent
    BY FieldsAre
  <1>2. DOMAIN b = Fields /\ b.clear_pending = a.clear_pending /\ b.sent = a.sent
    <2> HIDE DEF a
    <2> QED
      BY <1>1, FieldsAre DEF Driver!UpdateReading
  <1>3. DOMAIN m = Fields /\ m.clear_pending = b.clear_pending /\ m.sent = b.sent
    <2> HIDE DEF b
    <2> QED
      BY <1>2, FieldsAre DEF Driver!UpdateConfig
  <1>4. DOMAIN u = Fields /\ u.clear_pending = m.clear_pending /\ u.sent = m.sent
    <2> HIDE DEF m
    <2> QED
      BY <1>3, FieldsAre DEF Driver!UpdateEvent
  <1>5. r.kind = "ALL" => m.reading_event = r.event
    <2>1. r.kind = "ALL" => b.reading_event = r.event
      <3> HIDE DEF a
      <3> QED
        BY <1>1, FieldsAre DEF Driver!UpdateReading, Driver!HasEvent
    <2> HIDE DEF b
    <2>2. m.reading_event = b.reading_event
      BY <1>2, FieldsAre DEF Driver!UpdateConfig
    <2> QED
      BY <2>1, <2>2
  <1> DEFINE h == Driver!HandlePayload(d, r)
  <1> HIDE DEF a, b, m, u
  <1>6. CASE r.kind = "EVENT"
    <2>1. h = [u EXCEPT !.clear_pending = @ \/ r.event]
      BY <1>6 DEF Driver!HandlePayload, a, b, m, u
    <2> HIDE DEF h
    <2>2. DOMAIN h = Fields /\ h.sent = u.sent /\ (h.clear_pending => u.clear_pending \/ r.event)
      BY <1>4, <2>1, FieldsAre
    <2> QED
      BY <1>1, <1>2, <1>3, <1>4, <1>6, <2>2 DEF Asks, h
  <1>7. CASE r.kind = "CLEARED"
    <2>1. h = [m EXCEPT !.event_latched = FALSE, !.reading_event = FALSE]
      BY <1>7 DEF Driver!HandlePayload, a, b, m
    <2> HIDE DEF h
    <2>2. DOMAIN h = Fields /\ h.clear_pending = m.clear_pending /\ h.sent = m.sent
      BY <1>3, <2>1, FieldsAre
    <2> QED
      BY <1>1, <1>2, <1>3, <2>2 DEF h
  <1>8. CASE r.kind = "ALL"
    <2>1. h = [m EXCEPT !.clear_pending = @ \/ m.reading_event]
      BY <1>8 DEF Driver!HandlePayload, a, b, m
    <2> HIDE DEF h
    <2>2. DOMAIN h = Fields /\ h.sent = m.sent /\ (h.clear_pending => m.clear_pending \/ m.reading_event)
      BY <1>3, <2>1, FieldsAre
    <2> QED
      BY <1>1, <1>2, <1>3, <1>5, <1>8, <2>2 DEF Asks, h
  <1>9. CASE r.kind \notin {"EVENT", "CLEARED", "ALL"}
    <2>1. h = m
      BY <1>9 DEF Driver!HandlePayload, a, b, m
    <2> QED
      BY <1>1, <1>2, <1>3, <2>1
  <1> QED
    BY <1>6, <1>7, <1>8, <1>9

-----------------------------------------------------------------------------
\* The drivers after each of the first m replies of rx.
IsTrace(g, d, rx, m) ==
  g = [k \in 0 .. m |->
         IF k = 0 THEN d
         ELSE IF rx[k].kind = "BOOTSEL" THEN Driver!ResetState
         ELSE IF g[k - 1].phase = "off" THEN g[k - 1]
         ELSE Driver!HandlePayload(g[k - 1], rx[k])]

LEMMA ProcessIsTrace ==
  ASSUME NEW d, NEW rx
  PROVE  Driver!ProcessUartRx(d, rx) = (CHOOSE g : IsTrace(g, d, rx, Len(rx)))[Len(rx)]
  BY Zenon DEF Driver!ProcessUartRx, IsTrace

\* The recursive definition has a solution for every number of replies.
LEMMA TraceExists ==
  ASSUME NEW d, NEW rx, NEW m \in Nat
  PROVE  \E g : IsTrace(g, d, rx, m)
  <1> DEFINE next(x, k) == IF rx[k].kind = "BOOTSEL" THEN Driver!ResetState
                           ELSE IF x.phase = "off" THEN x
                           ELSE Driver!HandlePayload(x, rx[k])
             T == {n \in Nat : \E g : IsTrace(g, d, rx, n)}
  <1>1. \A g, n : IsTrace(g, d, rx, n) <=> g = [k \in 0 .. n |-> IF k = 0 THEN d ELSE next(g[k - 1], k)]
    BY DEF IsTrace
  <1> HIDE DEF next
  <1>2. 0 \in T
    <2> DEFINE g == [k \in 0 .. 0 |-> d]
    <2>1. g = [k \in 0 .. 0 |-> IF k = 0 THEN d ELSE next(g[k - 1], k)]
      OBVIOUS
    <2> HIDE DEF g
    <2>2. IsTrace(g, d, rx, 0)
      BY <1>1, <2>1
    <2> QED
      BY <2>2
  <1>3. ASSUME NEW n \in T PROVE n + 1 \in T
    <2>1. PICK g : IsTrace(g, d, rx, n)
      OBVIOUS
    <2> DEFINE h == [j \in 0 .. n + 1 |-> IF j = n + 1 THEN next(g[n], n + 1) ELSE g[j]]
    <2>2. \A j \in 0 .. n : g[j] = IF j = 0 THEN d ELSE next(g[j - 1], j)
      BY <1>1, <2>1
    <2>3. \A j \in 0 .. n + 1 : h[j] = IF j = 0 THEN d ELSE next(h[j - 1], j)
      BY <2>2
    <2>4. IsTrace(h, d, rx, n + 1)
      BY <1>1, <2>3
    <2> QED
      BY <2>4
  <1>4. T = Nat
    <2> HIDE DEF T
    <2> QED
      BY <1>2, <1>3, NatSetInduction DEF T
  <1> QED
    BY <1>4

\* A pass that leaves a clear pending found it pending or found a reply that
\* reports an event.
LEMMA ProcessAsks ==
  ASSUME NEW d, DOMAIN d = Fields, d.sent = "NONE", NEW rx, Len(rx) \in Nat
  PROVE  LET p == Driver!ProcessUartRx(d, rx)
         IN  /\ DOMAIN p = Fields
             /\ p.sent = "NONE"
             /\ p.clear_pending => d.clear_pending \/ \E i \in 1 .. Len(rx) : Asks(rx[i])
  <1>1. PICK g : IsTrace(g, d, rx, Len(rx)) /\ Driver!ProcessUartRx(d, rx) = g[Len(rx)]
    <2>1. \E g : IsTrace(g, d, rx, Len(rx))
      BY TraceExists
    <2> QED
      BY <2>1, ProcessIsTrace, Zenon
  <1> DEFINE Good(n) == /\ DOMAIN g[n] = Fields
                        /\ g[n].sent = "NONE"
                        /\ g[n].clear_pending => d.clear_pending \/ \E i \in 1 .. Len(rx) : Asks(rx[i])
             T == {n \in Nat : n <= Len(rx) => Good(n)}
  <1>2. /\ g[0] = d
        /\ \A k \in 1 .. Len(rx) :
             g[k] = IF rx[k].kind = "BOOTSEL" THEN Driver!ResetState
                    ELSE IF g[k - 1].phase = "off" THEN g[k - 1]
                    ELSE Driver!HandlePayload(g[k - 1], rx[k])
    BY <1>1 DEF IsTrace
  <1>3. 0 \in T
    BY <1>2
  <1>4. ASSUME NEW n \in T PROVE n + 1 \in T
    <2>1. SUFFICES ASSUME n + 1 <= Len(rx) PROVE Good(n + 1)
      <3> HIDE DEF Good
      <3> QED
        OBVIOUS
    <2>2. n \in Nat /\ n + 1 \in 1 .. Len(rx) /\ (n + 1) - 1 = n /\ Good(n)
      BY <2>1
    <2>3. \/ g[n + 1] = Driver!ResetState
          \/ g[n + 1] = g[n]
          \/ g[n + 1] = Driver!HandlePayload(g[n], rx[n + 1])
      BY <1>2, <2>2
    <2>4. CASE g[n + 1] = Driver!ResetState
      BY <2>4, FieldsAre DEF Fields
    <2>5. CASE g[n + 1] = g[n]
      BY <2>2, <2>5
    <2>6. CASE g[n + 1] = Driver!HandlePayload(g[n], rx[n + 1])
      BY <2>2, <2>6, PayloadAsks
    <2> QED
      BY <2>3, <2>4, <2>5, <2>6
  <1>5. T = Nat
    <2> HIDE DEF T
    <2> QED
      BY <1>3, <1>4, NatSetInduction DEF T
  <1>6. Good(Len(rx))
    BY <1>5
  <1> QED
    BY <1>1, <1>6

-----------------------------------------------------------------------------
\* Replies under way after n alarms: one that reports an event says which.
Answers(n) ==
  {a \in [reply : Driver!Reply, about : 0 .. n] : a.reply.event => a.about # NoEvent}

OtherCommands == Driver!Commands \ {"CLEAR_EVENT"}

\* No clear is pending or under way before some alarm has been reported.
PromptInv ==
  /\ raised \in Nat
  /\ event \in {NoEvent, raised}
  /\ told \subseteq 1 .. raised
  /\ toBase \in Seq(Answers(raised))
  /\ DOMAIN drv = Fields
  /\ toNode \in Seq(Driver!Commands)
  /\ told = {} => ~drv.clear_pending /\ toNode \in Seq(OtherCommands)

LEMMA SentTyped ==
  ASSUME NEW S, NEW link \in Seq(S), NEW frame \in S
  PROVE  Sent(link, frame) \subseteq Seq(S)
  BY AppendProperties DEF Sent

LEMMA QuietKeeps ==
  ASSUME NEW d, DOMAIN d = Fields
  PROVE  /\ DOMAIN Driver!Quiet(d) = Fields
         /\ Driver!Quiet(d).clear_pending = d.clear_pending
         /\ Driver!Quiet(d).sent = "NONE"
         /\ Driver!Quiet(d).phase = d.phase
  BY FieldsAre DEF Driver!Quiet

\* The interrupt handler asks for a read, not for a clear.
LEMMA InterruptAsksNothing ==
  ASSUME DOMAIN drv = Fields, Interrupt
  PROVE  DOMAIN drv' = Fields /\ drv'.clear_pending = drv.clear_pending
  <1>1. CASE UNCHANGED drv
    BY <1>1
  <1>2. CASE Driver!SensorEventIsr
    <2> DEFINE q == Driver!Quiet(drv)
    <2>1. drv' = [q EXCEPT !.irq_pending = TRUE]
      BY <1>2 DEF Driver!SensorEventIsr
    <2>2. DOMAIN q = Fields /\ q.clear_pending = drv.clear_pending
      BY QuietKeeps
    <2> HIDE DEF q
    <2> QED
      BY <2>1, <2>2, FieldsAre
  <1> QED
    BY <1>1, <1>2 DEF Interrupt

\* What a pass sends is a clear only if one is pending.
LEMMA ChoiceClears ==
  ASSUME NEW d, DOMAIN d = Fields, d.sent = "NONE"
  PROVE  LET m == Driver!SendChoice(d)
         IN  /\ DOMAIN m = Fields
             /\ m.clear_pending = d.clear_pending
             /\ m.sent \in Driver!Commands \cup {"NONE"}
             /\ m.sent = "CLEAR_EVENT" => d.clear_pending
  <1> DEFINE c == Driver!Choice(d)
  <1>1. c \in {"CLEAR_EVENT", "READ_EVENT", "READ_ALL", "READ_FORCE", "NONE"}
        /\ (c = "CLEAR_EVENT" => d.clear_pending)
    BY DEF Driver!Choice
  <1> HIDE DEF c
  <1>2. CASE c = "NONE"
    <2>1. Driver!SendChoice(d) = [d EXCEPT !.phase = "sent"]
      BY <1>2 DEF Driver!SendChoice, c
    <2> QED
      BY <2>1, FieldsAre
  <1>3. CASE c # "NONE"
    <2>1. Driver!SendChoice(d) = [d EXCEPT !.send_age = 0, !.has_tx = TRUE, !.sent = c, !.phase = c]
      BY <1>3 DEF Driver!SendChoice, Driver!SendFrame, c
    <2> DEFINE m == [d EXCEPT !.send_age = 0, !.has_tx = TRUE, !.sent = c, !.phase = c]
    <2>2. DOMAIN m = Fields /\ m.clear_pending = d.clear_pending /\ m.sent = c
      BY FieldsAre
    <2> QED
      BY <1>1, <1>3, <2>1, <2>2 DEF Driver!Commands
  <1> QED
    BY <1>2, <1>3

\* The reply to a command is composed from the latch the command leaves.
LEMMA ExecuteKeeps ==
  ASSUME NEW cmd \in Driver!Commands, Execute(cmd)
  PROVE  event' \in {NoEvent, event}
  <1>1. CASE cmd = "CLEAR_EVENT"
    BY <1>1 DEF Execute, Latch!Clear
  <1>2. CASE cmd = "SERVICE_ON"
    BY <1>2 DEF Execute, Latch!EnterService, node
  <1>3. CASE cmd = "SERVICE_OFF"
    BY <1>3 DEF Execute, node
  <1>4. CASE cmd = "INTERRUPT_ON"
    BY <1>4 DEF Execute, Latch!EnableInterrupt
  <1>5. CASE cmd = "INTERRUPT_OFF"
    BY <1>5 DEF Execute, Latch!EnableInterrupt
  <1>6. CASE cmd \notin {"CLEAR_EVENT", "SERVICE_ON", "SERVICE_OFF", "INTERRUPT_ON", "INTERRUPT_OFF"}
    BY <1>6 DEF Execute, node
  <1> QED
    BY <1>1, <1>2, <1>3, <1>4, <1>5, <1>6

LEMMA AnswerTyped ==
  ASSUME NEW cmd \in Driver!Commands, NEW n \in Nat, event' \in {NoEvent, n}
  PROVE  Answer(cmd) \in Answers(n)
  <1> DEFINE kind == ReplyKind(cmd)
             r == [kind |-> kind, event |-> FALSE, service |-> FALSE, interrupt |-> FALSE]
             e == Driver!HasEvent(r) /\ event' # NoEvent
             s == Driver!HasService(r) /\ service_mode'
             i == Driver!HasInterrupt(r) /\ interrupt_enabled'
             about == IF Driver!HasEvent(r) THEN event' ELSE NoEvent
             reply == [r EXCEPT !.event = e, !.service = s, !.interrupt = i]
  <1>1. kind \in Driver!Kinds
    BY DEF ReplyKind, Driver!Commands, Driver!Kinds
  <1>2. e \in BOOLEAN /\ s \in BOOLEAN /\ i \in BOOLEAN
    OBVIOUS
  <1>3. about \in 0 .. n /\ (e => about # NoEvent)
    BY DEF NoEvent
  <1>4. Answer(cmd) = [reply |-> reply, about |-> about]
    BY DEF Answer
  <1> HIDE DEF kind, e, s, i, about
  <1>5. reply \in Driver!Reply /\ reply.event = e
    BY <1>1, <1>2 DEF Driver!Reply
  <1> HIDE DEF reply
  <1> QED
    BY <1>3, <1>4, <1>5 DEF Answers

\* The parts of the invariant that most steps leave alone.
LEMMA SameLinks ==
  ASSUME PromptInv, UNCHANGED <<raised, told, toBase, toNode>>, event' \in {NoEvent, event},
         DOMAIN drv' = Fields, drv'.clear_pending => drv.clear_pending
  PROVE  PromptInv'
  BY DEF PromptInv

LEMMA RaiseEventPrompt ==
  ASSUME PromptInv, RaiseEvent
  PROVE  PromptInv'
  <1>1. /\ event' = raised + 1 /\ raised' = raised + 1 /\ told' = told
        /\ toBase' = toBase /\ toNode' = toNode
    BY DEF RaiseEvent, Latch!Latch
  <1>2. DOMAIN drv' = Fields /\ drv'.clear_pending = drv.clear_pending
    BY InterruptAsksNothing DEF PromptInv, RaiseEvent
  <1>3. Answers(raised) \subseteq Answers(raised + 1)
    BY DEF Answers, PromptInv
  <1>4. toBase' \in Seq(Answers(raised'))
    BY <1>1, <1>3, SeqMonotonic DEF PromptInv
  <1> QED
    BY <1>1, <1>2, <1>4 DEF PromptInv

LEMMA GesturePrompt ==
  ASSUME PromptInv, Gesture
  PROVE  PromptInv'
  <1>1. event' = NoEvent /\ UNCHANGED <<raised, told, toBase, toNode>>
    BY DEF Gesture, Latch!EnterService, history
  <1>2. DOMAIN drv' = Fields /\ drv'.clear_pending = drv.clear_pending
    BY InterruptAsksNothing DEF PromptInv, Gesture
  <1> QED
    BY <1>1, <1>2, SameLinks

LEMMA HandleCommandPrompt ==
  ASSUME PromptInv, HandleCommand
  PROVE  PromptInv'
  <1> DEFINE cmd == Head(toNode)
  <1>1. /\ toNode # <<>> /\ Execute(cmd) /\ toNode' = Tail(toNode)
        /\ toBase' \in Sent(toBase, Answer(cmd)) /\ raised' = raised /\ told' = told
    BY DEF HandleCommand, history
  <1>2. cmd \in Driver!Commands /\ toNode' \in Seq(Driver!Commands)
    BY <1>1, HeadTailProperties DEF PromptInv
  <1>3. told = {} => toNode' \in Seq(OtherCommands)
    BY <1>1, HeadTailProperties DEF PromptInv
  <1>4. event' \in {NoEvent, event}
    BY <1>1, <1>2, ExecuteKeeps
  <1>5. Answer(cmd) \in Answers(raised)
    BY <1>2, <1>4, AnswerTyped DEF PromptInv
  <1>6. toBase' \in Seq(Answers(raised'))
    BY <1>1, <1>5, SentTyped DEF PromptInv
  <1>7. DOMAIN drv' = Fields /\ drv'.clear_pending = drv.clear_pending
    BY InterruptAsksNothing DEF PromptInv, HandleCommand
  <1> QED
    BY <1>1, <1>2, <1>3, <1>4, <1>6, <1>7 DEF PromptInv

\* Time, the start of the driver and the two ends of a pass.
LEMMA OtherDriverPrompt ==
  ASSUME PromptInv, Tick \/ StartDriver \/ BeginProcess \/ EndProcess
  PROVE  PromptInv'
  <1>1. UNCHANGED <<raised, told, toBase, toNode, event>>
    BY DEF Tick, StartDriver, BeginProcess, EndProcess, node, history
  <1> DEFINE q == Driver!Quiet(drv)
  <1>2. DOMAIN q = Fields /\ q.clear_pending = drv.clear_pending
    BY QuietKeeps DEF PromptInv
  <1>3. DOMAIN drv' = Fields /\ (drv'.clear_pending => drv.clear_pending)
    <2>1. CASE Tick
      <3>1. Driver!Tick
        BY <2>1 DEF Tick
      <3> HIDE DEF q
      <3>2. DOMAIN drv' = DOMAIN q /\ drv'.clear_pending = q.clear_pending
        BY <1>2, <3>1, FieldsAre DEF Driver!Tick, q
      <3> QED
        BY <1>2, <3>2
    <2>2. CASE StartDriver
      <3>1. Driver!Start
        BY <2>2 DEF StartDriver
      <3> HIDE DEF q
      <3>2. DOMAIN drv' = DOMAIN q /\ drv'.clear_pending = q.clear_pending
        BY <1>2, <3>1, FieldsAre DEF Driver!Start, q
      <3> QED
        BY <1>2, <3>2
    <2>3. CASE BeginProcess
      <3>1. Driver!BeginProcess
        BY <2>3 DEF BeginProcess
      <3> HIDE DEF q
      <3>2. DOMAIN drv' = DOMAIN q /\ drv'.clear_pending = q.clear_pending
        BY <1>2, <3>1, FieldsAre DEF Driver!BeginProcess, q
      <3> QED
        BY <1>2, <3>2
    <2>4. CASE EndProcess
      <3> DEFINE r == Driver!ResetRequest(q)
                 w == Driver!MaybeWarn(r)
      <3>1. drv' = [w EXCEPT !.phase = "idle", !.now_age = 0]
        BY <2>4 DEF EndProcess, Driver!EndProcess
      <3>2. DOMAIN r = Fields /\ (r.clear_pending => q.clear_pending)
        <4> HIDE DEF q
        <4> QED
          BY <1>2, FieldsAre DEF Driver!ResetRequest
      <3>3. DOMAIN w = Fields /\ w.clear_pending = r.clear_pending
        <4> HIDE DEF r
        <4> QED
          BY <3>2, FieldsAre DEF Driver!MaybeWarn
      <3> HIDE DEF w, r, q
      <3> QED
        BY <1>2, <3>1, <3>2, <3>3, FieldsAre
    <2> QED
      BY <2>1, <2>2, <2>3, <2>4
  <1> QED
    BY <1>1, <1>3, SameLinks

\* What a pass has read it has been told.
LEMMA ReceiveAndSendPrompt ==
  ASSUME PromptInv, NEW k \in 0 .. Len(toBase), ReceiveAndSend(k)
  PROVE  PromptInv'
  <1> DEFINE rx == [i \in 1 .. k |-> toBase[i].reply]
             reports == {j \in 1 .. k : rx[j].kind \in {"FORCE", "ALL", "EVENT"}}
             news == {toBase[i].about : i \in reports} \ {NoEvent}
             d == Driver!ProcessUartRx(Driver!Quiet(drv), rx)
             c == Driver!CheckLevel(d, irq_pin)
  <1>1. /\ Driver!ReceiveAndSend(rx, irq_pin)
        /\ Transmit
        /\ toBase' = SubSeq(toBase, k + 1, Len(toBase))
        /\ told' = told \cup news
        /\ raised' = raised /\ event' = event
    BY DEF ReceiveAndSend, node
  <1>2. drv' = IF d.phase = "off" THEN d ELSE Driver!SendChoice(c)
    BY <1>1 DEF Driver!ReceiveAndSend
  <1>3. /\ toBase \in Seq(Answers(raised)) /\ raised \in Nat
        /\ Len(toBase) \in Nat /\ k \in Nat /\ k <= Len(toBase)
        /\ \A i \in 1 .. Len(toBase) : toBase[i] \in Answers(raised)
    BY LenProperties, ElementOfSeq DEF PromptInv
  <1>4. Len(rx) = k /\ \A i \in 1 .. k : rx[i] = toBase[i].reply
    BY <1>3
  <1>5. news \subseteq 1 .. raised
    <2>1. ASSUME NEW i \in reports PROVE toBase[i].about \in 0 .. raised
      <3>1. toBase[i] \in Answers(raised)
        BY <1>3
      <3> QED
        BY <3>1 DEF Answers
    <2> HIDE DEF reports
    <2>2. ASSUME NEW x \in news PROVE x \in 1 .. raised
      BY <1>3, <2>1 DEF NoEvent
    <2> HIDE DEF news
    <2> QED
      BY <2>2
  <1>6. ASSUME NEW i \in 1 .. Len(rx), Asks(rx[i]) PROVE news # {}
    <2>1. toBase[i] \in Answers(raised) /\ rx[i] = toBase[i].reply
      BY <1>3, <1>4, <1>6
    <2>2. toBase[i].about # NoEvent
      BY <2>1, <1>6 DEF Answers, Asks
    <2>3. i \in reports
      BY <1>4, <1>6 DEF Asks
    <2> HIDE DEF rx
    <2> QED
      BY <2>2, <2>3
  <1>7. /\ DOMAIN d = Fields /\ d.sent = "NONE"
        /\ d.clear_pending => drv.clear_pending \/ news # {}
    <2> DEFINE q == Driver!Quiet(drv)
    <2>1. DOMAIN q = Fields /\ q.sent = "NONE" /\ q.clear_pending = drv.clear_pending
      BY QuietKeeps DEF PromptInv
    <2>2. Len(rx) \in Nat
      BY <1>3, <1>4
    <2> HIDE DEF q, rx, news
    <2>3. /\ DOMAIN Driver!ProcessUartRx(q, rx) = Fields
          /\ Driver!ProcessUartRx(q, rx).sent = "NONE"
          /\ Driver!ProcessUartRx(q, rx).clear_pending =>
               q.clear_pending \/ \E i \in 1 .. Len(rx) : Asks(rx[i])
      BY <2>1, <2>2, ProcessAsks
    <2> QED
      BY <1>6, <2>1, <2>3 DEF q
  <1> HIDE DEF rx, reports, news, d
  <1>8. DOMAIN c = Fields /\ c.sent = d.sent /\ c.clear_pending = d.clear_pending
    BY <1>7, FieldsAre DEF Driver!CheckLevel
  <1> HIDE DEF c
  <1>9. /\ DOMAIN drv' = Fields
        /\ drv'.clear_pending = d.clear_pending
        /\ drv'.sent \in Driver!Commands \cup {"NONE"}
        /\ drv'.sent = "CLEAR_EVENT" => d.clear_pending
    <2>1. CASE d.phase = "off"
      BY <1>2, <1>7, <2>1
    <2>2. CASE d.phase # "off"
      <3>1. drv' = Driver!SendChoice(c) /\ c.sent = "NONE" /\ DOMAIN c = Fields
        BY <1>2, <1>7, <1>8, <2>2
      <3> QED
        BY <1>8, <3>1, ChoiceClears
    <2> QED
      BY <2>1, <2>2
  <1>10. toNode' \in Seq(Driver!Commands)
    <2>1. toNode \in Seq(Driver!Commands)
      BY DEF PromptInv
    <2> QED
      BY <1>1, <1>9, <2>1, SentTyped DEF Transmit
  <1>11. ASSUME told' = {} PROVE ~drv'.clear_pending /\ toNode' \in Seq(OtherCommands)
    <2>1. told = {} /\ news = {}
      BY <1>1, <1>11
    <2>2. ~drv.clear_pending /\ toNode \in Seq(OtherCommands)
      BY <2>1 DEF PromptInv
    <2>3. ~drv'.clear_pending /\ drv'.sent \in OtherCommands \cup {"NONE"}
      BY <1>7, <1>9, <2>1, <2>2 DEF OtherCommands
    <2> QED
      BY <1>1, <2>2, <2>3, SentTyped DEF Transmit
  <1>12. toBase' \in Seq(Answers(raised))
    <2>1. k + 1 \in Int /\ Len(toBase) \in Int /\ \A i \in k + 1 .. Len(toBase) : toBase[i] \in Answers(raised)
      BY <1>3
    <2> QED
      BY <1>1, <2>1, SubSeqProperties
  <1>13. told' \subseteq 1 .. raised /\ event' \in {NoEvent, raised}
    BY <1>1, <1>5 DEF PromptInv
  <1> QED
    BY <1>1, <1>3, <1>9, <1>10, <1>11, <1>12, <1>13 DEF PromptInv

\* The operator asks for anything but a clear.
LEMMA HostRequestPrompt ==
  ASSUME PromptInv, NEW cmd \in HostCommands, cmd # "CLEAR_EVENT", HostRequest(cmd)
  PROVE  PromptInv'
  <1> DEFINE q == Driver!Quiet(drv)
  <1>1. /\ drv' = [q EXCEPT !.send_age = 0, !.has_tx = TRUE, !.sent = cmd]
        /\ Transmit /\ UNCHANGED <<raised, told, toBase, event>>
    BY DEF HostRequest, Driver!Request, Driver!SendFrame, node, history
  <1>2. DOMAIN q = Fields /\ q.clear_pending = drv.clear_pending
    BY QuietKeeps DEF PromptInv
  <1> HIDE DEF q
  <1>3. DOMAIN drv' = Fields /\ drv'.clear_pending = drv.clear_pending /\ drv'.sent = cmd
    BY <1>1, <1>2, FieldsAre
  <1>4. cmd \in Driver!Commands /\ cmd \in OtherCommands
    BY GuardianAssumption DEF OtherCommands
  <1>5. toNode' \in Seq(Driver!Commands)
    BY <1>1, <1>3, <1>4, SentTyped DEF Transmit, PromptInv
  <1>6. told = {} => toNode' \in Seq(OtherCommands)
    BY <1>1, <1>3, <1>4, SentTyped DEF Transmit, PromptInv
  <1> QED
    BY <1>1, <1>3, <1>5, <1>6 DEF PromptInv

\* Either side starts from scratch.
LEMMA ResetPrompt ==
  ASSUME PromptInv, ResetStep
  PROVE  PromptInv'
  <1>1. CASE ResetNode
    BY <1>1 DEF ResetNode, Latch!Restart, PromptInv
  <1>2. CASE ResetBase
    <2>1. drv' = Driver!ResetState /\ toBase' = <<>> /\ UNCHANGED <<raised, told, toNode, event>>
      BY <1>2 DEF ResetBase, Driver!Reboot, node
    <2>2. DOMAIN drv' = Fields /\ ~drv'.clear_pending
      BY <2>1, FieldsAre DEF Fields
    <2> HIDE DEF Fields
    <2> QED
      BY <2>1, <2>2 DEF PromptInv
  <1> QED
    BY <1>1, <1>2 DEF ResetStep

LEMMA InitPrompt ==
  ASSUME Init
  PROVE  PromptInv
  <1>1. /\ drv = Driver!ResetState /\ event = NoEvent /\ raised = 0 /\ told = {}
        /\ toNode = <<>> /\ toBase = <<>>
    BY DEF Init, Driver!Init, Latch!Init
  <1>2. DOMAIN drv = Fields /\ ~drv.clear_pending
    BY <1>1, FieldsAre DEF Fields
  <1> QED
    BY <1>1, <1>2 DEF PromptInv

LEMMA NextPrompt ==
  ASSUME PromptInv, "CLEAR_EVENT" \notin HostCommands, [Next]_vars
  PROVE  PromptInv'
  <1>1. CASE NodeStep
    BY <1>1, RaiseEventPrompt, GesturePrompt, HandleCommandPrompt DEF NodeStep
  <1>2. CASE Tick \/ StartDriver \/ BeginProcess \/ EndProcess
    BY <1>2, OtherDriverPrompt
  <1>3. ASSUME NEW k \in 0 .. Len(toBase), ReceiveAndSend(k) PROVE PromptInv'
    BY <1>3, ReceiveAndSendPrompt
  <1>4. ASSUME NEW cmd \in HostCommands, HostRequest(cmd) PROVE PromptInv'
    BY <1>4, HostRequestPrompt
  <1>5. CASE ResetStep
    BY <1>5, ResetPrompt
  <1>6. CASE UNCHANGED vars
    BY <1>6 DEF vars, node, history, PromptInv
  <1> QED
    BY <1>1, <1>2, <1>3, <1>4, <1>5, <1>6 DEF Next, BaseStep, Passing

\* The base station never clears on its own account: if the operator sends no
\* CLEAR_EVENT, the node executes one on an alarm only after a reply has
\* reported this alarm or one before it, whatever is lost or restarted.
THEOREM ClearPrompted ==
  ASSUME "CLEAR_EVENT" \notin HostCommands
  PROVE  Spec => ClearIsPrompted
  <1>1. Init => PromptInv
    BY InitPrompt
  <1>2. PromptInv /\ [Next]_vars => PromptInv'
    BY NextPrompt
  <1>3. PromptInv /\ [Next]_vars => [HandleCommand /\ Clears => \E e \in told : e <= event]_vars
    <2> SUFFICES ASSUME PromptInv, HandleCommand, Clears
                 PROVE  \E e \in told : e <= event
      OBVIOUS
    <2>1. toNode # <<>> /\ Head(toNode) = "CLEAR_EVENT" /\ event # NoEvent
      BY DEF Clears
    <2>2. told # {}
      <3>1. SUFFICES ASSUME toNode \in Seq(OtherCommands) PROVE FALSE
        BY DEF PromptInv
      <3>2. Head(toNode) \in OtherCommands
        BY <2>1, <3>1, HeadTailProperties
      <3> QED
        BY <2>1, <3>2 DEF OtherCommands
    <2>3. event = raised /\ told \subseteq 1 .. raised
      BY <2>1 DEF PromptInv
    <2>4. PICK e \in told : TRUE
      BY <2>2
    <2>5. e \in 1 .. raised /\ raised \in Nat
      BY <2>3 DEF PromptInv
    <2>6. e <= event
      BY <2>3, <2>5
    <2> QED
      BY <2>6
  <1> QED
    BY <1>1, <1>2, <1>3, PTL DEF Spec, ClearIsPrompted
-----------------------------------------------------------------------------
\* The driver alone.  Its clocks, and what a step does with its requests, do
\* not depend on which replies arrive: here a pass can find any of them.

Replies == Seq(Driver!Reply)

DriverSpec == Driver!Init /\ [][Driver!Step(Replies)]_drv

Phases == {"off", "idle", "began", "sent"} \cup Driver!Commands

\* No stamp but last_rx_ms is set between the reading of the clock and its
\* use, so the difference to it does not wrap.
Clocked(d) ==
  /\ DOMAIN d = Fields
  /\ d.phase \in Phases
  /\ d.sent \in Driver!Commands \cup {"NONE"}
  /\ d.now_age \in 0 .. MaxBusy
  /\ {d.send_age, d.rx_age, d.warn_age, d.check_age} \subseteq 0 .. AgeCap
  /\ d.phase \in {"off", "idle"} => d.now_age = 0
  /\ d.phase = "began" => d.now_age <= d.send_age /\ d.now_age <= d.check_age
  /\ d.now_age <= d.warn_age

GoodStep == Clocked(drv') /\ Driver!PollDue /\ Driver!WarningDue /\ Driver!RequestKept

LEMMA DriverFields ==
  /\ Fields = {"phase", "now_age", "sent", "warned", "irq_pending", "clear_pending",
               "read_all_next", "has_tx", "send_age", "rx_age", "warn_age", "check_age",
               "valid", "reading_event", "event_latched", "service_mode", "interrupt_enabled"}
  /\ Clocked(Driver!ResetState)
  /\ Driver!ResetState.phase = "off"
  /\ Driver!ResetState.sent = "NONE"
  /\ ~Driver!ResetState.warned
  <1>1. MaxBusy \in Nat /\ AgeCap \in Nat
    BY GuardianAssumption
  <1> QED
    BY <1>1 DEF Fields, Driver!ResetState, Clocked, Phases

LEMMA QuietClocked ==
  ASSUME NEW d, Clocked(d)
  PROVE  LET q == Driver!Quiet(d)
         IN  /\ Clocked(q) /\ q.sent = "NONE" /\ ~q.warned
             /\ \A f \in Fields \ {"sent", "warned"} : q[f] = d[f]
  BY DriverFields DEF Driver!Quiet, Clocked

\* Unless it has wrapped, the difference of the C code is the time elapsed.
LEMMA SinceElapsed ==
  ASSUME NEW d, d.now_age \in 0 .. MaxBusy, NEW age \in 0 .. AgeCap, d.now_age <= age
  PROVE  Driver!Since(d, age) = age - d.now_age
  <1>1. MaxBusy \in Nat /\ AgeCap \in Nat /\ TimeMod \in Nat /\ AgeCap < TimeMod
    BY GuardianAssumption
  <1>2. age - d.now_age \in 0 .. TimeMod - 1
    BY <1>1
  <1> QED
    BY <1>1, <1>2 DEF Driver!Since

LEMMA TickGood ==
  ASSUME Clocked(drv), Driver!Tick
  PROVE  GoodStep
  <1> DEFINE q == Driver!Quiet(drv)
             now == IF drv.phase \in {"off", "idle"} THEN 0 ELSE drv.now_age + 1
  <1>1. /\ Clocked(q) /\ q.sent = "NONE" /\ ~q.warned
        /\ \A f \in Fields \ {"sent", "warned"} : q[f] = drv[f]
    BY QuietClocked
  <1>2. drv' = [q EXCEPT !.now_age = IF drv.phase \in {"off", "idle"} THEN 0 ELSE @ + 1,
                  !.send_age = Driver!Up(@), !.rx_age = Driver!Up(@),
                  !.warn_age = Driver!Up(@), !.check_age = Driver!Up(@)]
        /\ (drv.phase \in {"off", "idle"} \/ drv.now_age < MaxBusy)
    BY DEF Driver!Tick
  <1> HIDE DEF q
  <1>3. /\ DOMAIN drv' = Fields /\ drv'.sent = "NONE" /\ ~drv'.warned
        /\ drv'.phase = drv.phase /\ drv'.now_age = now
        /\ drv'.clear_pending = drv.clear_pending /\ drv'.irq_pending = drv.irq_pending
        /\ drv'.send_age = Driver!Up(drv.send_age) /\ drv'.rx_age = Driver!Up(drv.rx_age)
        /\ drv'.warn_age = Driver!Up(drv.warn_age) /\ drv'.check_age = Driver!Up(drv.check_age)
    BY <1>1, <1>2, DriverFields DEF Clocked
  <1>4. MaxBusy \in Nat /\ AgeCap \in Nat /\ MaxBusy <= AgeCap
    BY GuardianAssumption
  <1>5. now \in 0 .. MaxBusy /\ (now = 0 \/ now = drv.now_age + 1)
    BY <1>2, <1>4 DEF Clocked
  <1>6. \A a \in 0 .. AgeCap : /\ Driver!Up(a) \in 0 .. AgeCap
                               /\ drv.now_age <= a => now <= Driver!Up(a)
    BY <1>4, <1>5 DEF Driver!Up, Clocked
  <1>7. Clocked(drv')
    <2> HIDE DEF now
    <2> QED
      BY <1>3, <1>5, <1>6 DEF Clocked, now
  <1> QED
    BY <1>3, <1>7 DEF GoodStep, Driver!PollDue, Driver!WarningDue, Driver!RequestKept

LEMMA StartGood ==
  ASSUME Clocked(drv), Driver!Start \/ Driver!BeginProcess
  PROVE  GoodStep
  <1> DEFINE q == Driver!Quiet(drv)
  <1>1. /\ Clocked(q) /\ q.sent = "NONE" /\ ~q.warned
        /\ \A f \in Fields \ {"sent", "warned"} : q[f] = drv[f]
    BY QuietClocked
  <1>2. MaxBusy \in Nat /\ AgeCap \in Nat
    BY GuardianAssumption
  <1>3. CASE Driver!Start
    <2>1. /\ drv.phase = "off"
          /\ drv' = [q EXCEPT !.phase = "idle", !.send_age = 0, !.rx_age = 0,
                              !.warn_age = 0, !.check_age = 0]
      BY <1>3 DEF Driver!Start
    <2> HIDE DEF q
    <2>2. /\ DOMAIN drv' = Fields /\ drv'.sent = "NONE" /\ ~drv'.warned
          /\ drv'.phase = "idle" /\ drv'.now_age = 0
          /\ drv'.clear_pending = drv.clear_pending /\ drv'.irq_pending = drv.irq_pending
          /\ drv'.send_age = 0 /\ drv'.rx_age = 0 /\ drv'.warn_age = 0 /\ drv'.check_age = 0
      BY <1>1, <2>1, DriverFields DEF Clocked
    <2>3. Clocked(drv')
      BY <1>2, <2>2 DEF Clocked, Phases
    <2> QED
      BY <2>1, <2>2, <2>3 DEF GoodStep, Driver!PollDue, Driver!WarningDue, Driver!RequestKept, Driver!Commands
  <1>4. CASE Driver!BeginProcess
    <2>1. /\ drv.phase = "idle"
          /\ drv' = [q EXCEPT !.phase = "began", !.now_age = 0]
      BY <1>4 DEF Driver!BeginProcess
    <2> HIDE DEF q
    <2>2. /\ DOMAIN drv' = Fields /\ drv'.sent = "NONE" /\ ~drv'.warned
          /\ drv'.phase = "began" /\ drv'.now_age = 0
          /\ drv'.clear_pending = drv.clear_pending /\ drv'.irq_pending = drv.irq_pending
          /\ drv'.send_age = drv.send_age /\ drv'.rx_age = drv.rx_age
          /\ drv'.warn_age = drv.warn_age /\ drv'.check_age = drv.check_age
      BY <1>1, <2>1, DriverFields DEF Clocked
    <2>3. Clocked(drv')
      BY <1>2, <2>2 DEF Clocked, Phases
    <2> QED
      BY <2>1, <2>2, <2>3 DEF GoodStep, Driver!PollDue, Driver!WarningDue, Driver!RequestKept, Driver!Commands
  <1> QED
    BY <1>3, <1>4

\* The interrupt handler, a request of the application, and a reset.
LEMMA OutsideGood ==
  ASSUME Clocked(drv),
         \/ Driver!SensorEventIsr
         \/ \E cmd \in Driver!Commands : Driver!Request(cmd)
         \/ Driver!Reboot
  PROVE  GoodStep
  <1> DEFINE q == Driver!Quiet(drv)
  <1>1. /\ Clocked(q) /\ q.sent = "NONE" /\ ~q.warned
        /\ \A f \in Fields \ {"sent", "warned"} : q[f] = drv[f]
    BY QuietClocked
  <1>2. CASE Driver!SensorEventIsr
    <2>1. drv' = [q EXCEPT !.irq_pending = TRUE]
      BY <1>2 DEF Driver!SensorEventIsr
    <2> HIDE DEF q
    <2>2. /\ drv'.irq_pending /\ \A f \in Fields \ {"irq_pending"} : drv'[f] = q[f]
          /\ DOMAIN drv' = Fields
      BY <1>1, <2>1, DriverFields DEF Clocked
    <2>3. Clocked(drv')
      BY <1>1, <2>2, DriverFields DEF Clocked
    <2> QED
      BY <1>1, <2>2, <2>3, DriverFields DEF GoodStep, Driver!PollDue, Driver!WarningDue, Driver!RequestKept
  <1>3. ASSUME NEW cmd \in Driver!Commands, Driver!Request(cmd) PROVE GoodStep
    <2>1. /\ drv.phase = "idle"
          /\ drv' = [q EXCEPT !.send_age = 0, !.has_tx = TRUE, !.sent = cmd]
      BY <1>3 DEF Driver!Request, Driver!SendFrame
    <2> HIDE DEF q
    <2>2. /\ drv'.sent = cmd /\ drv'.send_age = 0 /\ DOMAIN drv' = Fields
          /\ \A f \in Fields \ {"sent", "send_age", "has_tx"} : drv'[f] = q[f]
      BY <1>1, <2>1, DriverFields DEF Clocked
    <2>3. AgeCap \in Nat
      BY GuardianAssumption
    <2>4. Clocked(drv')
      BY <1>1, <2>1, <2>2, <2>3, DriverFields DEF Clocked
    <2> QED
      BY <1>1, <2>1, <2>2, <2>4, DriverFields DEF GoodStep, Driver!PollDue, Driver!WarningDue, Driver!RequestKept
  <1>4. CASE Driver!Reboot
    BY <1>4, DriverFields
       DEF Driver!Reboot, GoodStep, Driver!PollDue, Driver!WarningDue, Driver!RequestKept, Driver!Commands
  <1> QED
    BY <1>2, <1>3, <1>4

\* The end of a pass: the request that was sent is reset, and the silence is
\* judged by the clock the pass has read.
LEMMA EndProcessGood ==
  ASSUME Clocked(drv), Driver!EndProcess
  PROVE  GoodStep
  <1> DEFINE q == Driver!Quiet(drv)
             r == Driver!ResetRequest(q)
             w == Driver!MaybeWarn(r)
  <1>1. /\ Clocked(q) /\ q.sent = "NONE" /\ ~q.warned
        /\ \A f \in Fields \ {"sent", "warned"} : q[f] = drv[f]
    BY QuietClocked
  <1>2. drv' = [w EXCEPT !.phase = "idle", !.now_age = 0]
        /\ drv.phase \notin {"off", "idle", "began"}
    BY DEF Driver!EndProcess
  <1>3. /\ DOMAIN r = Fields
        /\ \A f \in Fields \ {"clear_pending", "irq_pending", "read_all_next"} : r[f] = q[f]
        /\ q.clear_pending /\ ~r.clear_pending => q.phase = "CLEAR_EVENT"
        /\ q.irq_pending /\ ~r.irq_pending => q.phase = "READ_EVENT"
    <2> HIDE DEF q
    <2> QED
      BY <1>1, DriverFields DEF Driver!ResetRequest, Clocked
  <1>4. /\ DOMAIN w = Fields
        /\ \A f \in Fields \ {"warned", "warn_age"} : w[f] = r[f]
        /\ \/ w.warned = r.warned /\ w.warn_age = r.warn_age
           \/ /\ w.warned /\ w.warn_age = r.now_age
              /\ r.has_tx
              /\ Driver!Since(r, r.rx_age) >= WarnMs
              /\ Driver!Since(r, r.warn_age) >= RepeatMs
    <2> HIDE DEF r
    <2>1. CASE w = r
      BY <1>3, <2>1
    <2>2. CASE w # r
      <3>1. /\ w = [r EXCEPT !.warn_age = r.now_age, !.warned = TRUE]
            /\ r.has_tx
            /\ Driver!Since(r, r.rx_age) >= WarnMs
            /\ Driver!Since(r, r.warn_age) >= RepeatMs
        BY <2>2 DEF Driver!MaybeWarn
      <3> HIDE DEF w
      <3> QED
        BY <1>3, <3>1, DriverFields
    <2> QED
      BY <2>1, <2>2
  <1> HIDE DEF q, r, w
  <1>5. /\ DOMAIN drv' = Fields /\ drv'.phase = "idle" /\ drv'.now_age = 0
        /\ \A f \in Fields \ {"phase", "now_age"} : drv'[f] = w[f]
    BY <1>2, <1>4, DriverFields
  <1>6. MaxBusy \in Nat /\ AgeCap \in Nat /\ MaxBusy <= AgeCap
        /\ WarnMs \in Nat /\ RepeatMs \in Nat /\ TimeMod \in Nat /\ AgeCap + MaxBusy < TimeMod
    BY GuardianAssumption
  <1>7. /\ r.now_age = drv.now_age /\ r.rx_age = drv.rx_age /\ r.warn_age = drv.warn_age
        /\ r.has_tx = drv.has_tx /\ r.send_age = drv.send_age /\ r.check_age = drv.check_age
        /\ ~r.warned /\ r.sent = "NONE"
    BY <1>1, <1>3, DriverFields
  <1>8. /\ drv'.send_age = drv.send_age /\ drv'.rx_age = drv.rx_age
        /\ drv'.check_age = drv.check_age /\ drv'.sent = "NONE"
        /\ drv'.warn_age \in {drv.warn_age, drv.now_age}
    BY <1>4, <1>5, <1>7, DriverFields
  <1>9. Clocked(drv')
    BY <1>5, <1>6, <1>8 DEF Clocked, Phases
  <1>10. Driver!WarningDue
    <2> SUFFICES ASSUME drv'.warned
                 PROVE  /\ drv.has_tx
                        /\ Driver!Elapsed(drv.rx_age) >= WarnMs \/ Driver!Elapsed(drv.rx_age) < 0
                        /\ Driver!Elapsed(drv.warn_age) >= RepeatMs
      BY DEF Driver!WarningDue
    <2>1. /\ drv.has_tx
          /\ Driver!Since(r, drv.rx_age) >= WarnMs
          /\ Driver!Since(r, drv.warn_age) >= RepeatMs
      BY <1>4, <1>5, <1>7, DriverFields
    <2>2. drv.now_age \in 0 .. MaxBusy /\ drv.warn_age \in 0 .. AgeCap /\ drv.rx_age \in 0 .. AgeCap
          /\ drv.now_age <= drv.warn_age
      BY DEF Clocked
    <2>3. Driver!Elapsed(drv.warn_age) >= RepeatMs
      BY <1>7, <2>1, <2>2, SinceElapsed DEF Driver!Elapsed
    <2>4. CASE drv.now_age <= drv.rx_age
      BY <1>7, <2>1, <2>2, <2>3, <2>4, SinceElapsed DEF Driver!Elapsed
    <2>5. CASE drv.rx_age < drv.now_age
      BY <1>6, <2>1, <2>2, <2>3, <2>5 DEF Driver!Elapsed
    <2> QED
      BY <1>6, <2>2, <2>4, <2>5
  <1>11. Driver!PollDue /\ Driver!RequestKept
    BY <1>1, <1>2, <1>3, <1>4, <1>5, DriverFields DEF Driver!PollDue, Driver!RequestKept, Driver!Commands
  <1> QED
    BY <1>9, <1>10, <1>11 DEF GoodStep

\* What the replies of a pass leave alone: everything but the caches, the
\* time since the last reply and, set but never reset, the pending clear.
Kept == {"phase", "now_age", "sent", "warned", "irq_pending", "read_all_next", "has_tx",
         "send_age", "warn_age", "check_age"}

Heard(p, d) ==
  /\ DOMAIN p = Fields
  /\ \A f \in Kept : p[f] = d[f]
  /\ d.clear_pending => p.clear_pending
  /\ p.rx_age \in {0, d.rx_age}

LEMMA PayloadHeard ==
  ASSUME NEW d, DOMAIN d = Fields, NEW r
  PROVE  Heard(Driver!HandlePayload(d, r), d)
  <1> DEFINE a == [d EXCEPT !.rx_age = 0]
             b == Driver!UpdateReading(a, r)
             m == Driver!UpdateConfig(b, r)
             u == Driver!UpdateEvent(m, r)
             h == Driver!HandlePayload(d, r)
  <1>1. Heard(a, d)
    BY DriverFields DEF Heard, Kept
  <1>2. Heard(b, d)
    <2> HIDE DEF a
    <2> QED
      BY <1>1, DriverFields DEF Heard, Kept, Driver!UpdateReading
  <1>3. Heard(m, d)
    <2> HIDE DEF b
    <2> QED
      BY <1>2, DriverFields DEF Heard, Kept, Driver!UpdateConfig
  <1>4. Heard(u, d)
    <2> HIDE DEF m
    <2> QED
      BY <1>3, DriverFields DEF Heard, Kept, Driver!UpdateEvent
  <1>5. \/ h = [u EXCEPT !.clear_pending = @ \/ r.event]
        \/ h = [m EXCEPT !.event_latched = FALSE, !.reading_event = FALSE]
        \/ h = [m EXCEPT !.clear_pending = @ \/ m.reading_event]
        \/ h = m
    BY DEF Driver!HandlePayload
  <1> SUFFICES Heard(h, d)
    OBVIOUS
  <1> HIDE DEF m, u, h
  <1>6. CASE h = [u EXCEPT !.clear_pending = @ \/ r.event]
    BY <1>4, <1>6, DriverFields DEF Heard, Kept
  <1>7. CASE h = [m EXCEPT !.event_latched = FALSE, !.reading_event = FALSE]
    BY <1>3, <1>7, DriverFields DEF Heard, Kept
  <1>8. CASE h = [m EXCEPT !.clear_pending = @ \/ m.reading_event]
    BY <1>3, <1>8, DriverFields DEF Heard, Kept
  <1>9. CASE h = m
    BY <1>3, <1>9
  <1> QED
    BY <1>5, <1>6, <1>7, <1>8, <1>9

\* A pass that was not told to reboot only hears.
LEMMA ProcessHeard ==
  ASSUME NEW d, DOMAIN d = Fields, d.phase # "off", NEW rx, Len(rx) \in Nat
  PROVE  LET p == Driver!ProcessUartRx(d, rx)
         IN  p = Driver!ResetState \/ Heard(p, d)
  <1>1. PICK g : IsTrace(g, d, rx, Len(rx)) /\ Driver!ProcessUartRx(d, rx) = g[Len(rx)]
    <2>1. \E g : IsTrace(g, d, rx, Len(rx))
      BY TraceExists
    <2> QED
      BY <2>1, ProcessIsTrace, Zenon
  <1> DEFINE Good(n) == g[n] = Driver!ResetState \/ Heard(g[n], d)
             T == {n \in Nat : n <= Len(rx) => Good(n)}
  <1>2. /\ g[0] = d
        /\ \A k \in 1 .. Len(rx) :
             g[k] = IF rx[k].kind = "BOOTSEL" THEN Driver!ResetState
                    ELSE IF g[k - 1].phase = "off" THEN g[k - 1]
                    ELSE Driver!HandlePayload(g[k - 1], rx[k])
    BY <1>1 DEF IsTrace
  <1>3. 0 \in T
    BY <1>2 DEF Heard
  <1>4. ASSUME NEW n \in T PROVE n + 1 \in T
    <2>1. SUFFICES ASSUME n + 1 <= Len(rx) PROVE Good(n + 1)
      <3> HIDE DEF Good
      <3> QED
        OBVIOUS
    <2>2. n \in Nat /\ n + 1 \in 1 .. Len(rx) /\ (n + 1) - 1 = n /\ Good(n)
      BY <2>1
    <2>3. \/ g[n + 1] = Driver!ResetState
          \/ g[n + 1] = g[n]
          \/ g[n].phase # "off" /\ g[n + 1] = Driver!HandlePayload(g[n], rx[n + 1])
      BY <1>2, <2>2
    <2>4. CASE g[n].phase # "off" /\ g[n + 1] = Driver!HandlePayload(g[n], rx[n + 1])
      <3>1. Heard(g[n], d)
        BY <2>2, <2>4, DriverFields
      <3>2. Heard(g[n + 1], g[n])
        BY <2>4, <3>1, PayloadHeard DEF Heard
      <3> QED
        BY <3>1, <3>2 DEF Heard
    <2> QED
      BY <2>2, <2>3, <2>4
  <1>5. T = Nat
    <2> HIDE DEF T
    <2> QED
      BY <1>3, <1>4, NatSetInduction DEF T
  <1>6. Good(Len(rx))
    BY <1>5
  <1> QED
    BY <1>1, <1>6

\* The middle of a pass.
LEMMA ReceiveGood ==
  ASSUME Clocked(drv), NEW rx \in Replies, NEW level \in BOOLEAN,
         Driver!ReceiveAndSend(rx, level)
  PROVE  GoodStep
  <1> DEFINE q == Driver!Quiet(drv)
             d == Driver!ProcessUartRx(q, rx)
             c == Driver!CheckLevel(d, level)
             e == Driver!Choice(c)
  <1>1. /\ Clocked(q) /\ q.sent = "NONE" /\ ~q.warned
        /\ \A f \in Fields \ {"sent", "warned"} : q[f] = drv[f]
    BY QuietClocked
  <1>2. /\ drv.phase = "began"
        /\ drv' = IF d.phase = "off" THEN d ELSE Driver!SendChoice(c)
    BY DEF Driver!ReceiveAndSend
  <1>3. d = Driver!ResetState \/ Heard(d, q)
    <2>1. DOMAIN q = Fields /\ q.phase # "off" /\ Len(rx) \in Nat
      BY <1>1, <1>2, DriverFields, LenProperties DEF Clocked, Replies
    <2> HIDE DEF q
    <2> QED
      BY <2>1, ProcessHeard
  <1>4. CASE d = Driver!ResetState
    <2> HIDE DEF d
    <2> QED
      BY <1>2, <1>4, DriverFields
         DEF GoodStep, Driver!PollDue, Driver!WarningDue, Driver!RequestKept, Driver!Commands
  <1>5. CASE Heard(d, q)
    <2> HIDE DEF d, q
    <2>1. /\ d.phase = "began" /\ d.sent = "NONE" /\ ~d.warned /\ DOMAIN d = Fields
          /\ d.now_age = drv.now_age /\ d.send_age = drv.send_age
          /\ d.warn_age = drv.warn_age /\ d.check_age = drv.check_age
          /\ d.rx_age \in {0, drv.rx_age} /\ d.irq_pending = drv.irq_pending
          /\ drv.clear_pending => d.clear_pending
      BY <1>1, <1>2, <1>5, DriverFields DEF Heard, Kept
    <2>2. MaxBusy \in Nat /\ AgeCap \in Nat /\ MaxBusy <= AgeCap
      BY GuardianAssumption
    <2>3. /\ DOMAIN c = Fields
          /\ \A f \in Fields \ {"check_age", "irq_pending"} : c[f] = d[f]
          /\ c.check_age \in {d.check_age, d.now_age}
          /\ d.irq_pending => c.irq_pending
      BY <2>1, DriverFields DEF Driver!CheckLevel
    <2> HIDE DEF c
    <2>4. /\ drv.clear_pending => c.clear_pending
          /\ drv.irq_pending => c.irq_pending
          /\ c.now_age = drv.now_age /\ c.send_age = drv.send_age
          /\ c.warn_age = drv.warn_age /\ c.rx_age \in {0, drv.rx_age}
          /\ c.check_age \in {drv.check_age, drv.now_age} /\ c.sent = "NONE" /\ ~c.warned
      BY <2>1, <2>3, DriverFields
    <2>5. drv' = Driver!SendChoice(c)
      BY <1>2, <2>1
    <2>6. /\ e \in {"CLEAR_EVENT", "READ_EVENT", "READ_ALL", "READ_FORCE", "NONE"}
          /\ e \in {"READ_ALL", "READ_FORCE"} => Driver!Since(c, c.send_age) >= PollMs
      BY DEF Driver!Choice
    <2> HIDE DEF e
    <2>7. /\ DOMAIN drv' = Fields
          /\ \A f \in Fields \ {"phase", "send_age", "has_tx", "sent"} : drv'[f] = c[f]
          /\ \/ e = "NONE" /\ drv'.phase = "sent" /\ drv'.sent = "NONE" /\ drv'.send_age = c.send_age
             \/ e # "NONE" /\ drv'.phase = e /\ drv'.sent = e /\ drv'.send_age = 0
      <3>1. CASE e = "NONE"
        <4>1. drv' = [c EXCEPT !.phase = "sent"]
          BY <2>5, <3>1 DEF Driver!SendChoice, e
        <4> QED
          BY <2>3, <2>4, <3>1, <4>1, DriverFields
      <3>2. CASE e # "NONE"
        <4>1. drv' = [c EXCEPT !.send_age = 0, !.has_tx = TRUE, !.sent = e, !.phase = e]
          BY <2>5, <3>2 DEF Driver!SendChoice, Driver!SendFrame, e
        <4> QED
          BY <2>3, <3>2, <4>1, DriverFields
      <3> QED
        BY <3>1, <3>2
    <2>8. /\ drv'.now_age = drv.now_age /\ drv'.warn_age = drv.warn_age
          /\ drv'.rx_age \in {0, drv.rx_age} /\ drv'.check_age \in {drv.check_age, drv.now_age}
          /\ drv'.send_age \in {0, drv.send_age} /\ ~drv'.warned
          /\ drv.clear_pending => drv'.clear_pending
          /\ drv.irq_pending => drv'.irq_pending
          /\ drv'.phase \in Phases \ {"off", "idle", "began"}
          /\ drv'.sent \in Driver!Commands \cup {"NONE"}
          /\ drv'.sent \in {e, "NONE"} /\ (drv'.phase \in Driver!Commands => drv'.sent = drv'.phase)
      BY <2>4, <2>6, <2>7, DriverFields DEF Phases, Driver!Commands
    <2>9. Clocked(drv')
      BY <2>2, <2>7, <2>8 DEF Clocked
    <2>10. Driver!PollDue
      <3> SUFFICES ASSUME drv'.sent \in {"READ_ALL", "READ_FORCE"}
                   PROVE  Driver!Elapsed(drv.send_age) >= PollMs
        BY DEF Driver!PollDue
      <3>1. Driver!Since(c, drv.send_age) >= PollMs
        BY <2>4, <2>6, <2>8
      <3>2. /\ c.now_age \in 0 .. MaxBusy /\ drv.send_age \in 0 .. AgeCap
            /\ c.now_age <= drv.send_age
        BY <1>2, <2>4 DEF Clocked
      <3> QED
        BY <2>4, <3>1, <3>2, SinceElapsed DEF Driver!Elapsed
    <2> QED
      BY <2>8, <2>9, <2>10 DEF GoodStep, Driver!WarningDue, Driver!RequestKept
  <1> QED
    BY <1>3, <1>4, <1>5

LEMMA StepGood ==
  ASSUME Clocked(drv), Driver!Step(Replies)
  PROVE  GoodStep
  BY TickGood, StartGood, ReceiveGood, EndProcessGood, OutsideGood DEF Driver!Step

LEMMA SameClocks ==
  ASSUME Clocked(drv), UNCHANGED drv
  PROVE  Clocked(drv')
  OBVIOUS

\* For every sequence of replies, any interrupts, requests and resets between
\* the steps of a pass, and any delay of a pass: a poll is sent NORMAL_POLL_MS
\* after the last send or later; the warning of maybe_warn_no_reply is given
\* when nothing has arrived for NO_REPLY_WARN_MS, and NO_REPLY_REPEAT_MS after
\* the last one, unless a reply of this very pass set last_rx_ms after the
\* clock was read; a pending clear or edge is forgotten only by the pass that
\* has sent the command for it, or by a reset.
THEOREM DriverSound == DriverSpec => Driver!StepsAreSound
  <1>1. Driver!Init => Clocked(drv)
    BY DriverFields DEF Driver!Init
  <1>2. Clocked(drv) /\ [Driver!Step(Replies)]_drv => Clocked(drv)'
    BY StepGood, SameClocks DEF GoodStep
  <1>3. Clocked(drv) /\ [Driver!Step(Replies)]_drv
          => [Driver!PollDue /\ Driver!WarningDue /\ Driver!RequestKept]_drv
    BY StepGood DEF GoodStep
  <1> QED
    BY <1>1, <1>2, <1>3, PTL DEF DriverSpec, Driver!StepsAreSound

-----------------------------------------------------------------------------
\* The driver inside the system.  Its replies are those of the node, whatever
\* is lost, so the system runs the driver above.

Reports == [reply : Driver!Reply, about : Nat]

UnderWay ==
  /\ Clocked(drv)
  /\ raised \in Nat /\ event \in Nat
  /\ toNode \in Seq(Driver!Commands)
  /\ toBase \in Seq(Reports)

\* A step that leaves the links alone.
LEMMA LinksAlone ==
  ASSUME UnderWay, UNCHANGED <<raised, toNode, toBase>>, event' \in {NoEvent, event},
         Clocked(drv')
  PROVE  UnderWay'
  BY DEF UnderWay, NoEvent

LEMMA InterruptDrives ==
  ASSUME UnderWay, Interrupt
  PROVE  [Driver!Step(Replies)]_drv /\ Clocked(drv')
  BY OutsideGood, SameClocks DEF Interrupt, Driver!Step, UnderWay, GoodStep

LEMMA NodeDrives ==
  ASSUME UnderWay, NodeStep
  PROVE  [Driver!Step(Replies)]_drv /\ UnderWay'
  <1>1. CASE RaiseEvent
    <2>1. /\ event' = raised + 1 /\ raised' = raised + 1 /\ toBase' = toBase /\ toNode' = toNode
          /\ Interrupt
      BY <1>1 DEF RaiseEvent, Latch!Latch
    <2> QED
      BY <2>1, InterruptDrives DEF UnderWay
  <1>2. CASE Gesture
    <2>1. event' = NoEvent /\ UNCHANGED <<raised, toNode, toBase>> /\ Interrupt
      BY <1>2 DEF Gesture, Latch!EnterService, history
    <2> QED
      BY <2>1, InterruptDrives, LinksAlone
  <1>3. CASE HandleCommand
    <2> DEFINE cmd == Head(toNode)
    <2>1. /\ toNode # <<>> /\ Execute(cmd) /\ toNode' = Tail(toNode)
          /\ toBase' \in Sent(toBase, Answer(cmd)) /\ raised' = raised /\ Interrupt
      BY <1>3 DEF HandleCommand, history
    <2>2. cmd \in Driver!Commands /\ toNode' \in Seq(Driver!Commands)
      BY <2>1, HeadTailProperties DEF UnderWay
    <2>3. event' \in {NoEvent, event}
      BY <2>1, <2>2, ExecuteKeeps
    <2>4. event' \in Nat
      BY <2>3 DEF UnderWay, NoEvent
    <2>5. Answer(cmd) \in Answers(event')
      BY <2>2, <2>4, AnswerTyped
    <2>6. Answer(cmd) \in Reports
      BY <2>4, <2>5 DEF Answers, Reports
    <2>7. toBase' \in Seq(Reports)
      BY <2>1, <2>6, SentTyped DEF UnderWay
    <2> QED
      BY <2>1, <2>2, <2>4, <2>7, InterruptDrives DEF UnderWay
  <1> QED
    BY <1>1, <1>2, <1>3 DEF NodeStep

LEMMA BaseDrives ==
  ASSUME UnderWay, Tick \/ StartDriver \/ BeginProcess \/ EndProcess
  PROVE  [Driver!Step(Replies)]_drv /\ UnderWay'
  <1>1. UNCHANGED <<raised, toNode, toBase, event>>
    BY DEF Tick, StartDriver, BeginProcess, EndProcess, node, history
  <1>2. Driver!Step(Replies)
    BY DEF Tick, StartDriver, BeginProcess, EndProcess, Driver!Step
  <1>3. Clocked(drv')
    BY <1>2, StepGood DEF UnderWay, GoodStep
  <1> QED
    BY <1>1, <1>2, <1>3, LinksAlone

\* What a step of the driver sends is a command.
LEMMA TransmitTyped ==
  ASSUME UnderWay, Clocked(drv'), Transmit
  PROVE  toNode' \in Seq(Driver!Commands)
  <1>1. toNode \in Seq(Driver!Commands) /\ drv'.sent \in Driver!Commands \cup {"NONE"}
    BY DEF UnderWay, Clocked
  <1> QED
    BY <1>1, SentTyped DEF Transmit

LEMMA ReceiveDrives ==
  ASSUME UnderWay, NEW k \in 0 .. Len(toBase), ReceiveAndSend(k), irq_pin \in BOOLEAN
  PROVE  [Driver!Step(Replies)]_drv /\ UnderWay'
  <1> DEFINE rx == [i \in 1 .. k |-> toBase[i].reply]
  <1>1. /\ Driver!ReceiveAndSend(rx, irq_pin) /\ Transmit
        /\ toBase' = SubSeq(toBase, k + 1, Len(toBase))
        /\ raised' = raised /\ event' = event
    BY DEF ReceiveAndSend, node
  <1>2. /\ Len(toBase) \in Nat /\ k \in Nat /\ k <= Len(toBase)
        /\ \A i \in 1 .. Len(toBase) : toBase[i] \in Reports
    BY LenProperties, ElementOfSeq DEF UnderWay
  <1>3. rx \in Replies
    <2>1. \A i \in 1 .. k : toBase[i].reply \in Driver!Reply
      BY <1>2 DEF Reports
    <2> QED
      BY <1>2, <2>1 DEF Replies
  <1> HIDE DEF rx
  <1>4. Driver!Step(Replies)
    BY <1>1, <1>3 DEF Driver!Step
  <1>5. Clocked(drv')
    BY <1>4, StepGood DEF UnderWay, GoodStep
  <1>6. toBase' \in Seq(Reports)
    <2>1. k + 1 \in Int /\ Len(toBase) \in Int /\ \A i \in k + 1 .. Len(toBase) : toBase[i] \in Reports
      BY <1>2
    <2> QED
      BY <1>1, <2>1, SubSeqProperties
  <1> QED
    BY <1>1, <1>4, <1>5, <1>6, TransmitTyped DEF UnderWay

LEMMA HostDrives ==
  ASSUME UnderWay, NEW cmd \in HostCommands, HostRequest(cmd)
  PROVE  [Driver!Step(Replies)]_drv /\ UnderWay'
  <1>1. Driver!Request(cmd) /\ Transmit /\ UNCHANGED <<raised, toBase, event>>
    BY DEF HostRequest, node, history
  <1>2. Driver!Step(Replies)
    BY <1>1, GuardianAssumption DEF Driver!Step
  <1>3. Clocked(drv')
    BY <1>2, StepGood DEF UnderWay, GoodStep
  <1> QED
    BY <1>1, <1>2, <1>3, TransmitTyped DEF UnderWay

LEMMA ResetDrives ==
  ASSUME UnderWay, ResetStep
  PROVE  [Driver!Step(Replies)]_drv /\ UnderWay'
  <1>1. CASE ResetNode
    BY <1>1 DEF ResetNode, Latch!Restart, UnderWay, NoEvent
  <1>2. CASE ResetBase
    <2>1. Driver!Reboot /\ toBase' = <<>> /\ UNCHANGED <<raised, toNode, event>>
      BY <1>2 DEF ResetBase, node
    <2>2. Clocked(drv')
      BY <2>1, DriverFields DEF Driver!Reboot
    <2> QED
      BY <2>1, <2>2 DEF UnderWay, Driver!Step
  <1> QED
    BY <1>1, <1>2 DEF ResetStep

\* The level of the line that a pass reads.
LEMMA LineTyped ==
  ASSUME interrupt_enabled \in BOOLEAN, irq_pin \in BOOLEAN, [Next]_vars
  PROVE  interrupt_enabled' \in BOOLEAN /\ irq_pin' \in BOOLEAN
  <1>1. CASE RaiseEvent \/ Gesture
    BY <1>1 DEF RaiseEvent, Gesture, Latch!Latch, Latch!EnterService, Latch!LeaveService
  <1>2. CASE HandleCommand
    BY <1>2 DEF HandleCommand, Execute, Latch!Clear, Latch!EnterService, Latch!LeaveService,
                Latch!EnableInterrupt, node
  <1>3. CASE ResetStep
    BY <1>3 DEF ResetStep, ResetNode, ResetBase, Latch!Restart, node
  <1>4. CASE Tick \/ BaseStep \/ UNCHANGED vars
    BY <1>4 DEF Tick, BaseStep, StartDriver, Passing, BeginProcess, ReceiveAndSend, EndProcess,
                HostRequest, vars, node
  <1> QED
    BY <1>1, <1>2, <1>3, <1>4 DEF Next, NodeStep

\* The system implements the driver alone: between the node, the operator and
\* the faults, the driver takes only steps of its own, so what is proved of it
\* for all replies holds in the system.
THEOREM DriverRuns == Spec => DriverSpec
  <1> DEFINE Inv == UnderWay /\ interrupt_enabled \in BOOLEAN /\ irq_pin \in BOOLEAN
  <1>1. Init => Inv /\ Driver!Init
    <2>1. ASSUME Init PROVE Inv /\ Driver!Init
      <3>1. /\ drv = Driver!ResetState /\ event = NoEvent /\ raised = 0
            /\ toNode = <<>> /\ toBase = <<>> /\ interrupt_enabled = TRUE /\ irq_pin = FALSE
        BY <2>1 DEF Init, Driver!Init, Latch!Init
      <3>2. Clocked(drv) /\ Driver!Init
        BY <3>1, DriverFields DEF Driver!Init
      <3>3. UnderWay
        BY <3>1, <3>2 DEF UnderWay, NoEvent
      <3> QED
        BY <3>1, <3>2, <3>3
    <2> QED
      BY <2>1
  <1>2. ASSUME Inv, [Next]_vars PROVE [Driver!Step(Replies)]_drv /\ UnderWay'
    <2>1. CASE NodeStep
      BY <1>2, <2>1, NodeDrives
    <2>2. CASE Tick \/ StartDriver \/ BeginProcess \/ EndProcess
      BY <1>2, <2>2, BaseDrives
    <2>3. ASSUME NEW k \in 0 .. Len(toBase), ReceiveAndSend(k)
          PROVE  [Driver!Step(Replies)]_drv /\ UnderWay'
      BY <1>2, <2>3, ReceiveDrives
    <2>4. ASSUME NEW cmd \in HostCommands, HostRequest(cmd)
          PROVE  [Driver!Step(Replies)]_drv /\ UnderWay'
      BY <1>2, <2>4, HostDrives
    <2>5. CASE ResetStep
      BY <1>2, <2>5, ResetDrives
    <2>6. CASE UNCHANGED vars
      BY <1>2, <2>6 DEF vars, node, history, UnderWay
    <2> QED
      BY <1>2, <2>1, <2>2, <2>3, <2>4, <2>5, <2>6 DEF Next, BaseStep, Passing
  <1>3. Inv /\ [Next]_vars => Inv' /\ [Driver!Step(Replies)]_drv
    BY <1>2, LineTyped
  <1> HIDE DEF Inv
  <1> QED
    BY <1>1, <1>3, PTL DEF Spec, DriverSpec

\* Hence in the whole system polls and warnings are due and requests are kept.
COROLLARY DriverInSystem == Spec => Driver!StepsAreSound
  BY DriverRuns, DriverSound

\* The timed protocol only removes behaviours: every step of it is a step of the
\* protocol or leaves the protocol's variables alone.
LEMMA TimedStep ==
  ASSUME [TimedNext]_timedVars
  PROVE  [Next]_vars
  <1>1. CASE TimedTick
    BY <1>1 DEF TimedTick, Next
  <1>2. CASE BeginSample \/ EndSample \/ BeginReadAll
    BY <1>2 DEF BeginSample, EndSample, BeginReadAll
  <1>3. CASE TimedHandle
    BY <1>3 DEF TimedHandle, Next, NodeStep
  <1>4. CASE TimedReceive
    BY <1>4 DEF TimedReceive, Next, BaseStep, Passing
  <1>5. CASE Untimed
    BY <1>5 DEF Untimed, Next, NodeStep, BaseStep, Passing
  <1>6. CASE TimedReset
    BY <1>6 DEF TimedReset, Next, ResetStep
  <1>7. CASE UNCHANGED timedVars
    BY <1>7 DEF timedVars
  <1> QED
    BY <1>1, <1>2, <1>3, <1>4, <1>5, <1>6, <1>7 DEF TimedNext

\* In time, too, an alarm is cleared only after one has been reported: what a
\* measurement makes the base repeat, and what its receiver loses, changes
\* nothing in that.
THEOREM TimedClears ==
  ASSUME "CLEAR_EVENT" \notin HostCommands
  PROVE  TimedSpec => ClearIsPrompted
  <1>1. TimedSpec => Spec
    BY TimedStep, PTL DEF TimedSpec, TimedInit, Spec
  <1> QED
    BY <1>1, ClearPrompted
=============================================================================
