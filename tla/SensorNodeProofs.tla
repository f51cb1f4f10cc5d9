-------------------------- MODULE SensorNodeProofs --------------------------
(***************************************************************************)
(* Proofs about SensorNode, for every scale of readings, every limit and   *)
(* every duration the assumptions on the constants allow: the invariant    *)
(* IInv, and the refinement of EventLatch.                                 *)
(*                                                                         *)
(* A handler is a composition of functions on records.  Each function has  *)
(* a lemma that says two things: it keeps Core, the part of the invariant  *)
(* that holds at every point of a handler, and what it does to the latch   *)
(* is Latches (one event is latched, or nothing is visible) or Moves (the  *)
(* same, or a change of mode).  Both compose, so a handler makes at most   *)
(* one visible step.                                                       *)
(***************************************************************************)
EXTENDS SensorNode, SequenceTheorems, TLAPS

Core(n) ==
  /\ n \in Nodes
  /\ n.service_mode => ~n.event_latched /\ \A s \in EnvSources : ~n.was_high[s]
  /\ n.irq_pin = (n.interrupt_enabled /\ n.event_latched /\ ~n.service_mode)
  /\ n.event_latched = (n.event_source # "NONE")

\* The part that holds of the pattern between two handlers.
Neat(n) ==
  /\ n.pattern \in ServicePrefixes \ {ServicePattern}
  /\ n.pending_force = (n.pattern # <<>>)

SamePattern(n, m) == m.pattern = n.pattern /\ m.pending_force = n.pending_force

\* Nothing another device can see has changed.
SameView(n, m) ==
  /\ m.service_mode = n.service_mode
  /\ m.interrupt_enabled = n.interrupt_enabled
  /\ m.event_latched = n.event_latched
  /\ m.event_source = n.event_source
  /\ m.event_value = n.event_value

Readable == ForceRaw \cup EnvRaw

Latches(n, m) ==
  \/ SameView(n, m)
  \/ /\ ~n.service_mode /\ ~m.service_mode
     /\ m.interrupt_enabled = n.interrupt_enabled
     /\ ~n.event_latched /\ m.event_latched
     /\ m.event_value \in Readable

Moves(n, m) ==
  \/ Latches(n, m)
  \/ ~n.service_mode /\ m.service_mode /\ ~m.interrupt_enabled
  \/ /\ n.service_mode /\ ~m.service_mode /\ m.interrupt_enabled
     /\ m.event_latched => m.event_value \in Readable

\* A function that leaves the visible state and the edge detectors of the
\* environment alone keeps Core.
LEMMA SameViewCore ==
  ASSUME NEW n, NEW m, Core(n), m \in Nodes, SameView(n, m),
         m.irq_pin = n.irq_pin, \A s \in EnvSources : m.was_high[s] = n.was_high[s]
  PROVE  Core(m)
  BY DEF Core, SameView

LEMMA IInvIsCoreNeat == IInv <=> Core(node) /\ Neat(node)
  BY DEF IInv, Core, Neat, TypeOK, ServiceModeSilent, IrqPinMirrors, PatternIsPrefix,
         SourceMirrors

\* How steps compose: one alarm at most, and one change of mode at most.
LEMMA LatchesCompose ==
  ASSUME NEW n, NEW m, NEW k, Core(n), Core(m), Core(k), Latches(n, m), Latches(m, k)
  PROVE  Latches(n, k)
  BY DEF Latches, SameView, Core

LEMMA MovesThenLatches ==
  ASSUME NEW n, NEW m, NEW k, Core(n), Core(m), Core(k), Moves(n, m), Latches(m, k)
  PROVE  Moves(n, k)
  BY LatchesCompose DEF Moves, Latches, SameView, Core

LEMMA LatchesThenMoves ==
  ASSUME NEW n, NEW m, NEW k, Core(n), Core(m), Core(k), Latches(n, m), Moves(m, k)
  PROVE  Moves(n, k)
  BY LatchesCompose DEF Moves, Latches, SameView, Core

-----------------------------------------------------------------------------
\* The functions on the latch.

LEMMA LatchEventCore ==
  ASSUME NEW n, Core(n), NEW s \in Sources, NEW v \in Readable
  PROVE  LET m == LatchEvent(n, s, v)
         IN  Core(m) /\ Latches(n, m) /\ SamePattern(n, m)
  <1>1. CASE n.service_mode \/ n.event_latched
    BY <1>1 DEF LatchEvent, Latches, SameView, SamePattern
  <1>2. CASE ~n.service_mode /\ ~n.event_latched
    <2> DEFINE m == LatchEvent(n, s, v)
    <2>1. m = [n EXCEPT !.event_latched = TRUE, !.event_source = s, !.event_value = v,
                        !.irq_pin = n.interrupt_enabled]
      BY <1>2 DEF LatchEvent, UpdatePin, Core, Nodes
    <2>2. m \in Nodes
      BY <2>1 DEF Core, Nodes, Readable
    <2>3. /\ m.event_latched = (m.event_source # "NONE")
          /\ ~m.service_mode
          /\ m.irq_pin = (m.interrupt_enabled /\ m.event_latched /\ ~m.service_mode)
      BY <2>1, <1>2 DEF Core, Nodes, Sources, EnvSources
    <2>4. SamePattern(n, m)
      BY <2>1 DEF Core, Nodes, SamePattern
    <2>5. m.event_latched /\ m.event_value = v /\ m.interrupt_enabled = n.interrupt_enabled
      BY <2>1 DEF Core, Nodes
    <2> QED
      BY <1>2, <2>2, <2>3, <2>4, <2>5 DEF Core, Latches
  <1> QED
    BY <1>1, <1>2

LEMMA ClearLatchCore ==
  ASSUME NEW n, Core(n)
  PROVE  LET m == ClearLatch(n)
         IN  /\ Core(m) /\ SamePattern(n, m) /\ ~m.event_latched
             /\ m.service_mode = n.service_mode /\ m.interrupt_enabled = n.interrupt_enabled
  BY DEF Core, ClearLatch, UpdatePin, Sources, EnvSources, Nodes, SamePattern

LEMMA EnableInterruptCore ==
  ASSUME NEW n, Core(n), NEW b \in BOOLEAN
  PROVE  LET m == UpdatePin([n EXCEPT !.interrupt_enabled = b])
         IN  /\ Core(m) /\ SamePattern(n, m)
             /\ m.service_mode = n.service_mode /\ m.interrupt_enabled = b
             /\ m.event_latched = n.event_latched /\ m.event_source = n.event_source
             /\ m.event_value = n.event_value
  BY DEF Core, UpdatePin, Nodes, SamePattern

LEMMA SetServiceModeCore ==
  ASSUME NEW n, Core(n), NEW b \in BOOLEAN
  PROVE  LET m == SetServiceMode(n, b)
         IN  Core(m) /\ Moves(n, m) /\ SamePattern(n, m) /\ m.service_mode = b
  <1> DEFINE m == SetServiceMode(n, b)
  <1>1. CASE n.service_mode = b
    BY <1>1 DEF SetServiceMode, Moves, Latches, SameView, SamePattern
  <1>2. CASE n.service_mode # b /\ b
    <2>1. Core(m)
      BY <1>2 DEF Core, SetServiceMode, ClearLatch, UpdatePin, Sources, EnvSources, Nodes
    <2>2. SamePattern(n, m) /\ ~n.service_mode /\ m.service_mode /\ ~m.interrupt_enabled
      BY <1>2 DEF Core, SetServiceMode, ClearLatch, UpdatePin, Nodes, SamePattern
    <2> QED
      BY <1>2, <2>1, <2>2 DEF Moves
  <1>3. CASE n.service_mode # b /\ ~b
    <2>1. Core(m)
      BY <1>3 DEF Core, SetServiceMode, UpdatePin, Nodes
    <2>2. /\ SamePattern(n, m) /\ n.service_mode /\ ~m.service_mode /\ m.interrupt_enabled
          /\ ~m.event_latched /\ m.service_mode = b
      BY <1>3 DEF Core, SetServiceMode, UpdatePin, Nodes, SamePattern
    <2> QED
      BY <1>3, <2>1, <2>2 DEF Moves
  <1> QED
    BY <1>1, <1>2, <1>3

-----------------------------------------------------------------------------
\* The functions on the gesture.

LEMMA ResetPatternCore ==
  ASSUME NEW n, Core(n)
  PROVE  LET m == ResetPattern(n)
         IN  Core(m) /\ Neat(m) /\ SameView(n, m) /\ m.pattern = <<>>
  <1> DEFINE m == ResetPattern(n)
  <1>1. m.pattern = <<>> /\ m.pending_force = FALSE
    BY DEF ResetPattern, Core, Nodes
  <1>2. <<>> \in Seq(Symbols) /\ 0 \in ForceRaw /\ 0 \in Ages
    BY RawAssumption, TimeAssumption DEF Ages
  <1>3. m \in Nodes
    BY <1>2 DEF ResetPattern, Core, Nodes
  <1>4. SameView(n, m)
    BY DEF ResetPattern, Core, Nodes, SameView
  <1>9. m.irq_pin = n.irq_pin /\ m.was_high = n.was_high
    BY DEF ResetPattern, Core, Nodes
  <1>5. <<>> \in ServicePrefixes \ {ServicePattern}
    BY DEF ServicePrefixes, ServicePattern
  <1>6. Core(m)
    BY <1>3, <1>4, <1>9, SameViewCore
  <1>8. Neat(m)
    BY <1>1, <1>5 DEF Neat
  <1> QED
    BY <1>1, <1>4, <1>6, <1>8

LEMMA LatchPendingPatternCore ==
  ASSUME NEW n, Core(n)
  PROVE  LET m == LatchPendingPattern(n)
         IN  Core(m) /\ Neat(m) /\ Latches(n, m) /\ m.pattern = <<>>
  <1> DEFINE k == IF n.pending_force /\ ~n.service_mode
                  THEN LatchEvent(n, "FORCE", n.pattern_peak)
                  ELSE n
  <1>1. n.pattern_peak \in Readable /\ "FORCE" \in Sources
    BY DEF Core, Nodes, Readable, Sources
  <1>2. Core(k) /\ Latches(n, k)
    BY <1>1, LatchEventCore DEF Latches, SameView
  <1>3. LatchPendingPattern(n) = ResetPattern(k)
    BY DEF LatchPendingPattern
  <1> QED
    BY <1>2, <1>3, ResetPatternCore, LatchesCompose DEF Latches

LEMMA FlushAfterGapCore ==
  ASSUME NEW n, Core(n)
  PROVE  LET m == FlushAfterGap(n)
         IN  Core(m) /\ Latches(n, m) /\ (Neat(n) => Neat(m))
  BY LatchPendingPatternCore DEF FlushAfterGap, Latches, SameView

LEMMA FlushIfFullCore ==
  ASSUME NEW n, Core(n)
  PROVE  LET m == FlushIfFull(n)
         IN  Core(m) /\ Latches(n, m)
  BY LatchPendingPatternCore DEF FlushIfFull, Latches, SameView

\* The gesture is complete.
LEMMA ToggleCore ==
  ASSUME NEW n, Core(n)
  PROVE  LET m == ResetPattern(SetServiceMode(n, ~n.service_mode))
         IN  Core(m) /\ Neat(m) /\ Moves(n, m)
  <1> DEFINE k == SetServiceMode(n, ~n.service_mode)
  <1>1. (~n.service_mode) \in BOOLEAN
    BY DEF Core, Nodes
  <1>2. Core(k) /\ Moves(n, k)
    BY <1>1, SetServiceModeCore
  <1> HIDE DEF k
  <1>3. Core(ResetPattern(k)) /\ Neat(ResetPattern(k)) /\ Latches(k, ResetPattern(k))
    BY <1>2, ResetPatternCore DEF Latches
  <1>4. Moves(n, ResetPattern(k))
    BY <1>2, <1>3, MovesThenLatches
  <1> QED
    BY <1>3, <1>4 DEF k

LEMMA AppendSymbolCore ==
  ASSUME NEW n, Core(n), Neat(n), NEW symbol \in Symbols, NEW peak \in ForceRaw
  PROVE  LET m == AppendSymbol(n, symbol, peak)
         IN  Core(m) /\ Neat(m) /\ Moves(n, m)
  <1> DEFINE k == FlushIfFull(FlushAfterGap(n))
             a == [k EXCEPT !.pattern = Append(@, symbol),
                            !.pattern_peak = Greater(@, peak),
                            !.symbol_age = 0,
                            !.pending_force = TRUE]
  <1>1. Core(k) /\ Latches(n, k)
    BY FlushAfterGapCore, FlushIfFullCore, LatchesCompose
  <1>2. a \in Nodes
    <2>1. Append(k.pattern, symbol) \in Seq(Symbols)
      BY <1>1 DEF Core, Nodes
    <2>2. Greater(k.pattern_peak, peak) \in ForceRaw
      BY <1>1 DEF Core, Nodes, Greater
    <2>3. 0 \in Ages
      BY TimeAssumption DEF Ages
    <2> QED
      BY <1>1, <2>1, <2>2, <2>3 DEF Core, Nodes
  <1>3. a.pending_force = TRUE /\ a.pattern # <<>>
    <2>1. a.pending_force = TRUE /\ a.pattern = Append(k.pattern, symbol)
      BY <1>1 DEF Core, Nodes
    <2>2. k.pattern \in Seq(Symbols)
      BY <1>1 DEF Core, Nodes
    <2>3. Append(k.pattern, symbol) # <<>>
      BY <2>2, AppendProperties
    <2> QED
      BY <2>1, <2>3
  <1>4. SameView(k, a)
    BY <1>1 DEF Core, Nodes, SameView
  <1>5. a.irq_pin = k.irq_pin /\ a.was_high = k.was_high
    BY <1>1 DEF Core, Nodes
  <1> HIDE DEF a, k
  <1>6. Core(a) /\ Latches(n, a)
    <2>1. Core(a)
      BY <1>1, <1>2, <1>4, <1>5, SameViewCore
    <2>2. Latches(k, a)
      BY <1>4 DEF Latches
    <2> QED
      BY <1>1, <2>1, <2>2, LatchesCompose
  <1>7. CASE a.pattern = ServicePattern
    <2>1. AppendSymbol(n, symbol, peak) = ResetPattern(SetServiceMode(a, ~a.service_mode))
      BY <1>7 DEF AppendSymbol, a, k
    <2> QED
      BY <1>6, <2>1, ToggleCore, LatchesThenMoves
  <1>8. CASE a.pattern # ServicePattern /\ a.pattern \in ServicePrefixes
    <2>1. AppendSymbol(n, symbol, peak) = a
      BY <1>8 DEF AppendSymbol, a, k
    <2>2. Neat(a)
      BY <1>3, <1>8 DEF Neat
    <2> QED
      BY <1>6, <2>1, <2>2 DEF Moves
  <1>9. CASE a.pattern # ServicePattern /\ a.pattern \notin ServicePrefixes
    <2>1. AppendSymbol(n, symbol, peak) = LatchPendingPattern(a)
      BY <1>9 DEF AppendSymbol, a, k
    <2> QED
      BY <1>6, <2>1, LatchPendingPatternCore, LatchesCompose DEF Moves
  <1> QED
    BY <1>7, <1>8, <1>9

LEMMA HoldPressCore ==
  ASSUME NEW n, Core(n), Neat(n), NEW raw \in ForceRaw
  PROVE  LET m == HoldPress(n, raw)
         IN  Core(m) /\ Neat(m) /\ Latches(n, m)
  <1> DEFINE k == IF n.is_pressed
                  THEN [n EXCEPT !.press_peak = Greater(@, raw)]
                  ELSE [n EXCEPT !.is_pressed = TRUE, !.press_age = 0, !.press_peak = raw]
             l == LatchEvent(k, "FORCE", k.press_peak)
             h == [l EXCEPT !.was_high["FORCE"] = TRUE]
  <1>1. k \in Nodes
    <2>1. 0 \in Ages /\ Greater(n.press_peak, raw) \in ForceRaw
      BY TimeAssumption DEF Ages, Greater, Core, Nodes
    <2> QED
      BY <2>1 DEF Core, Nodes
  <1>2. SameView(n, k) /\ SamePattern(n, k)
    BY DEF Core, Nodes, SameView, SamePattern
  <1>3. k.irq_pin = n.irq_pin /\ k.was_high = n.was_high
    BY DEF Core, Nodes
  <1> HIDE DEF k
  <1>4. Core(k) /\ Latches(n, k) /\ Neat(k)
    <2>1. Core(k)
      BY <1>1, <1>2, <1>3, SameViewCore
    <2> QED
      BY <2>1, <1>2 DEF Latches, Neat, SamePattern
  <1>5. Core(l) /\ Latches(k, l) /\ SamePattern(k, l)
    <2>1. k.press_peak \in Readable /\ "FORCE" \in Sources
      BY <1>1 DEF Nodes, Readable, Sources
    <2> QED
      BY <2>1, <1>4, LatchEventCore
  <1> HIDE DEF l
  <1>6. h \in Nodes /\ SameView(l, h) /\ h.irq_pin = l.irq_pin /\ SamePattern(l, h)
    BY <1>5 DEF Core, Nodes, SameView, SamePattern
  <1>7. \A s \in EnvSources : h.was_high[s] = l.was_high[s]
    BY <1>5 DEF Core, Nodes, EnvSources, Sources
  <1> HIDE DEF h
  <1>8. Core(h) /\ Neat(h) /\ Latches(n, h)
    <2>1. Core(h)
      BY <1>5, <1>6, <1>7, SameViewCore
    <2>2. Latches(k, h)
      BY <1>4, <1>5, <1>6, <2>1, LatchesCompose DEF Latches
    <2>3. Neat(h)
      BY <1>4, <1>5, <1>6 DEF Neat, SamePattern
    <2> QED
      BY <1>4, <2>1, <2>2, <2>3, LatchesCompose
  <1>9. HoldPress(n, raw) = h \/ HoldPress(n, raw) = k
    BY DEF HoldPress, h, l, k
  <1> QED
    BY <1>4, <1>8, <1>9

LEMMA EndPressCore ==
  ASSUME NEW n, Core(n), Neat(n)
  PROVE  LET m == EndPress(n)
         IN  Core(m) /\ Neat(m) /\ Moves(n, m)
  <1> DEFINE k == [n EXCEPT !.is_pressed = FALSE, !.press_age = 0, !.press_peak = 0]
             l == LatchEvent(k, "FORCE", n.press_peak)
  <1>1. k \in Nodes
    <2>1. 0 \in Ages /\ 0 \in ForceRaw
      BY TimeAssumption, RawAssumption DEF Ages
    <2> QED
      BY <2>1 DEF Core, Nodes
  <1>2. SameView(n, k) /\ SamePattern(n, k)
    BY DEF Core, Nodes, SameView, SamePattern
  <1>3. k.irq_pin = n.irq_pin /\ k.was_high = n.was_high
    BY DEF Core, Nodes
  <1> HIDE DEF k
  <1>4. Core(k) /\ Latches(n, k) /\ Neat(k)
    <2>1. Core(k)
      BY <1>1, <1>2, <1>3, SameViewCore
    <2> QED
      BY <2>1, <1>2 DEF Latches, Neat, SamePattern
  <1>5. n.press_peak \in ForceRaw /\ n.press_peak \in Readable /\ "FORCE" \in Sources
    BY DEF Core, Nodes, Readable, Sources
  <1>6. Core(l) /\ Latches(k, l)
    BY <1>4, <1>5, LatchEventCore
  <1> HIDE DEF l
  <1>7. Core(ResetPattern(l)) /\ Neat(ResetPattern(l)) /\ Moves(n, ResetPattern(l))
    <2>1. Core(ResetPattern(l)) /\ Neat(ResetPattern(l)) /\ Latches(l, ResetPattern(l))
      BY <1>6, ResetPatternCore DEF Latches
    <2>2. Latches(k, ResetPattern(l))
      BY <1>4, <1>6, <2>1, LatchesCompose
    <2> QED
      BY <1>4, <2>1, <2>2, LatchesCompose DEF Moves
  <1>8. \A x \in Symbols : LET m == AppendSymbol(k, x, n.press_peak)
                           IN  Core(m) /\ Neat(m) /\ Moves(n, m)
    BY <1>4, <1>5, AppendSymbolCore, LatchesThenMoves
  <1>9. \/ EndPress(n) = AppendSymbol(k, "S", n.press_peak)
        \/ EndPress(n) = AppendSymbol(k, "L", n.press_peak)
        \/ EndPress(n) = ResetPattern(l)
    BY DEF EndPress, k, l
  <1> QED
    BY <1>7, <1>8, <1>9 DEF Symbols

LEMMA UnloadCore ==
  ASSUME NEW n, Core(n), Neat(n), NEW raw \in ForceRaw
  PROVE  LET m == Unload(n, raw)
         IN  Core(m) /\ Neat(m) /\ Moves(n, m)
  <1> DEFINE b == n.was_high["FORCE"] /\ raw + Hysteresis["FORCE"] >= n.limit["FORCE"]
             k == [n EXCEPT !.was_high["FORCE"] = b]
  <1>1. b \in BOOLEAN
    OBVIOUS
  <1> HIDE DEF b
  <1>2. k \in Nodes /\ k.irq_pin = n.irq_pin
    BY <1>1 DEF Core, Nodes
  <1>3. SameView(n, k) /\ SamePattern(n, k)
    BY DEF Core, Nodes, SameView, SamePattern
  <1>4. \A s \in EnvSources : k.was_high[s] = n.was_high[s]
    BY DEF Core, Nodes, EnvSources, Sources
  <1>5. Unload(n, raw) = IF n.is_pressed THEN EndPress(k) ELSE k
    BY DEF Unload, b
  <1> HIDE DEF k
  <1>6. Core(k) /\ Latches(n, k) /\ Neat(k)
    <2>1. Core(k)
      BY <1>2, <1>3, <1>4, SameViewCore
    <2> QED
      BY <2>1, <1>3 DEF Latches, Neat, SamePattern
  <1>7. Core(EndPress(k)) /\ Neat(EndPress(k)) /\ Moves(n, EndPress(k))
    BY <1>6, EndPressCore, LatchesThenMoves
  <1> QED
    BY <1>5, <1>6, <1>7 DEF Moves

LEMMA UpdateForceCore ==
  ASSUME NEW n, Core(n), Neat(n), NEW raw \in ForceRaw
  PROVE  LET m == UpdateForce(n, raw)
         IN  Core(m) /\ Neat(m) /\ Moves(n, m)
  <1> DEFINE k == [n EXCEPT !.latest_force = raw]
             f == IF k.is_pressed THEN k ELSE FlushAfterGap(k)
  <1>1. k \in Nodes /\ k.irq_pin = n.irq_pin /\ k.was_high = n.was_high
    BY DEF Core, Nodes
  <1>2. SameView(n, k) /\ SamePattern(n, k)
    BY DEF Core, Nodes, SameView, SamePattern
  <1>3. UpdateForce(n, raw) = IF IsPressed(k, raw) THEN HoldPress(f, raw) ELSE Unload(f, raw)
    BY DEF UpdateForce, UpdateGesture
  <1> HIDE DEF k
  <1>4. Core(k) /\ Latches(n, k) /\ Neat(k)
    <2>1. Core(k)
      BY <1>1, <1>2, SameViewCore
    <2> QED
      BY <2>1, <1>2 DEF Latches, Neat, SamePattern
  <1>5. Core(f) /\ Neat(f) /\ Latches(n, f)
    <2>1. Core(f) /\ Neat(f) /\ Latches(k, f)
      BY <1>4, FlushAfterGapCore DEF Latches, SameView
    <2> QED
      BY <1>4, <2>1, LatchesCompose
  <1> HIDE DEF f
  <1>6. LET m == HoldPress(f, raw) IN Core(m) /\ Neat(m) /\ Moves(n, m)
    BY <1>5, HoldPressCore, LatchesCompose DEF Moves
  <1>7. LET m == Unload(f, raw) IN Core(m) /\ Neat(m) /\ Moves(n, m)
    BY <1>5, UnloadCore, LatchesThenMoves
  <1> QED
    BY <1>3, <1>6, <1>7

-----------------------------------------------------------------------------
\* The functions on the environment channels.

LEMMA UpdateChannelCore ==
  ASSUME NEW n, Core(n), ~n.service_mode, NEW s \in EnvSources, NEW v \in EnvRaw
  PROVE  LET m == UpdateChannel(n, s, v)
         IN  Core(m) /\ SamePattern(n, m) /\ Latches(n, m) /\ ~m.service_mode
  <1>1. ASSUME NEW b \in BOOLEAN
        PROVE  LET k == [n EXCEPT !.was_high[s] = b]
               IN  Core(k) /\ SameView(n, k) /\ SamePattern(n, k)
    <2> DEFINE k == [n EXCEPT !.was_high[s] = b]
    <2>1. k \in Nodes /\ k.irq_pin = n.irq_pin
      BY DEF Core, Nodes
    <2>2. SameView(n, k) /\ SamePattern(n, k)
      BY DEF Core, Nodes, SameView, SamePattern
    <2> HIDE DEF k
    <2>3. Core(k)
      BY <2>1, <2>2 DEF Core, SameView
    <2> QED
      BY <2>2, <2>3 DEF k
  <1> DEFINE up == [n EXCEPT !.was_high[s] = TRUE]
             down == [n EXCEPT !.was_high[s] = FALSE]
  <1>2. Core(up) /\ SameView(n, up) /\ SamePattern(n, up)
    BY <1>1
  <1>3. Core(down) /\ SameView(n, down) /\ SamePattern(n, down)
    BY <1>1
  <1>4. \/ UpdateChannel(n, s, v) = LatchEvent(up, s, v)
        \/ UpdateChannel(n, s, v) = down
        \/ UpdateChannel(n, s, v) = n
    BY DEF UpdateChannel
  <1> HIDE DEF up, down
  <1>5. s \in Sources /\ v \in Readable
    BY DEF Sources, Readable
  <1>6. CASE UpdateChannel(n, s, v) = LatchEvent(up, s, v)
    <2> DEFINE l == LatchEvent(up, s, v)
    <2>1. Core(l) /\ Latches(up, l) /\ SamePattern(up, l)
      BY <1>2, <1>5, LatchEventCore
    <2>2. SamePattern(n, l)
      BY <1>2, <2>1 DEF SamePattern
    <2>3. Latches(n, l)
      BY <1>2, <2>1, LatchesCompose DEF Latches
    <2>4. ~l.service_mode
      BY <2>3 DEF Latches, SameView
    <2> QED
      BY <1>6, <2>1, <2>2, <2>3, <2>4
  <1>7. CASE UpdateChannel(n, s, v) = down
    BY <1>3, <1>7 DEF Latches, SameView
  <1>8. CASE UpdateChannel(n, s, v) = n
    BY <1>8 DEF Latches, SameView, SamePattern
  <1> QED
    BY <1>4, <1>6, <1>7, <1>8

LEMMA UpdateIfReadCore ==
  ASSUME NEW n, Core(n), ~n.service_mode, NEW s \in EnvSources, NEW r \in Readings
  PROVE  LET m == UpdateIfRead(n, s, r)
         IN  Core(m) /\ SamePattern(n, m) /\ Latches(n, m) /\ ~m.service_mode
  <1>1. CASE r[s] = NoReading
    BY <1>1 DEF UpdateIfRead, SamePattern, Latches, SameView
  <1>2. CASE r[s] # NoReading
    <2>1. r[s] \in EnvRaw
      BY <1>2 DEF Readings
    <2> QED
      BY <1>2, <2>1, UpdateChannelCore DEF UpdateIfRead
  <1> QED
    BY <1>1, <1>2

LEMMA UpdateEnvironmentCore ==
  ASSUME NEW n, Core(n), Neat(n), NEW r \in Readings
  PROVE  LET m == UpdateEnvironment(n, r)
         IN  Core(m) /\ Neat(m) /\ Latches(n, m)
  <1>1. CASE n.service_mode
    BY <1>1 DEF UpdateEnvironment, Latches, SameView
  <1>2. CASE ~n.service_mode
    <2> DEFINE l == UpdateIfRead(n, "LIGHT", r)
               t == UpdateIfRead(l, "TEMP", r)
               h == UpdateIfRead(t, "HUMIDITY", r)
    <2>1. "LIGHT" \in EnvSources /\ "TEMP" \in EnvSources /\ "HUMIDITY" \in EnvSources
      BY DEF EnvSources
    <2>2. Core(l) /\ SamePattern(n, l) /\ Latches(n, l) /\ ~l.service_mode
      BY <1>2, <2>1, UpdateIfReadCore
    <2> HIDE DEF l
    <2>3. Core(t) /\ SamePattern(l, t) /\ Latches(l, t) /\ ~t.service_mode
      BY <2>1, <2>2, UpdateIfReadCore
    <2> HIDE DEF t
    <2>4. Core(h) /\ SamePattern(t, h) /\ Latches(t, h)
      BY <2>1, <2>3, UpdateIfReadCore
    <2> HIDE DEF h
    <2>5. Neat(h)
      BY <2>2, <2>3, <2>4 DEF SamePattern, Neat
    <2>6. Latches(n, h)
      BY <2>2, <2>3, <2>4, LatchesCompose
    <2>7. UpdateEnvironment(n, r) = h
      BY <1>2 DEF UpdateEnvironment, l, t, h
    <2> QED
      BY <2>4, <2>5, <2>6, <2>7
  <1> QED
    BY <1>1, <1>2

-----------------------------------------------------------------------------
\* The actions.  Each one keeps Core and Neat, and is one visible step.

StepOf(n, m) == Core(m) /\ Neat(m) /\ Moves(n, m)

\* An action that only writes fields the latch does not depend on.
LEMMA HiddenStep ==
  ASSUME NEW n, NEW m, Core(n), Neat(n), m \in Nodes, SameView(n, m), SamePattern(n, m),
         m.irq_pin = n.irq_pin,
         \A s \in EnvSources : m.was_high[s] => n.was_high[s]
  PROVE  StepOf(n, m)
  <1>1. Core(m)
    BY DEF Core, SameView, Nodes
  <1>2. Neat(m)
    BY DEF Neat, SamePattern
  <1>3. Moves(n, m)
    BY DEF Moves, Latches
  <1> QED
    BY <1>1, <1>2, <1>3 DEF StepOf

LEMMA TickStep ==
  ASSUME Core(node), Neat(node), Tick
  PROVE  StepOf(node, node')
  <1>1. \A a \in Ages : Lesser(a + 1, AgeCap) \in Ages
    BY TimeAssumption DEF Ages, Lesser
  <1>2. \A a \in 0 .. MaxSampling : Lesser(a + 1, MaxSampling) \in 0 .. MaxSampling
    BY TimeAssumption DEF Lesser
  <1>3. node' \in Nodes
    BY <1>1, <1>2 DEF Tick, Core, Nodes
  <1>4. SameView(node, node') /\ SamePattern(node, node')
    BY DEF Tick, Core, Nodes, SameView, SamePattern
  <1>5. node'.irq_pin = node.irq_pin /\ node'.was_high = node.was_high
    BY DEF Tick, Core, Nodes
  <1> QED
    BY <1>3, <1>4, <1>5, HiddenStep

LEMMA SampleForceStep ==
  ASSUME Core(node), Neat(node), NEW raw \in ForceRaw, SampleForce(raw)
  PROVE  StepOf(node, node')
  <1> DEFINE k == [node EXCEPT !.sample_age = 0]
  <1>1. k \in Nodes /\ k.irq_pin = node.irq_pin /\ k.was_high = node.was_high
    BY DEF Core, Nodes
  <1>2. SameView(node, k) /\ SamePattern(node, k)
    BY DEF Core, Nodes, SameView, SamePattern
  <1>3. node' = UpdateForce(k, raw)
    BY DEF SampleForce
  <1> HIDE DEF k
  <1>4. Core(k) /\ Neat(k) /\ Latches(node, k)
    BY <1>1, <1>2, HiddenStep DEF StepOf, Latches
  <1> QED
    BY <1>3, <1>4, UpdateForceCore, LatchesThenMoves DEF StepOf

LEMMA SampleSensorsStep ==
  ASSUME Core(node), Neat(node), NEW r \in Readings, SampleSensors(r)
  PROVE  StepOf(node, node')
  <1> DEFINE k == [node EXCEPT !.sensor_age = 0]
  <1>1. k \in Nodes /\ k.irq_pin = node.irq_pin /\ k.was_high = node.was_high
    <2>1. 0 \in 0 .. MaxSampling
      BY TimeAssumption
    <2> QED
      BY <2>1 DEF Core, Nodes
  <1>2. SameView(node, k) /\ SamePattern(node, k)
    BY DEF Core, Nodes, SameView, SamePattern
  <1>3. node' = UpdateEnvironment(k, r)
    BY DEF SampleSensors
  <1> HIDE DEF k
  <1>4. Core(k) /\ Neat(k) /\ Latches(node, k)
    BY <1>1, <1>2, HiddenStep DEF StepOf, Latches
  <1> QED
    BY <1>3, <1>4, UpdateEnvironmentCore, LatchesCompose DEF StepOf, Moves

LEMMA SetSamplingStep ==
  ASSUME Core(node), Neat(node), NEW v \in SamplingArgs, SetSampling(v)
  PROVE  StepOf(node, node')
  <1>1. Greater(v, MinSampling) \in MinSampling .. MaxSampling
    BY TimeAssumption DEF Greater
  <1>2. node' \in Nodes
    BY <1>1 DEF SetSampling, Core, Nodes
  <1>3. SameView(node, node') /\ SamePattern(node, node')
    BY DEF SetSampling, Core, Nodes, SameView, SamePattern
  <1>4. node'.irq_pin = node.irq_pin /\ node'.was_high = node.was_high
    BY DEF SetSampling, Core, Nodes
  <1> QED
    BY <1>2, <1>3, <1>4, HiddenStep

LEMMA ClampedIsInt ==
  ASSUME NEW s \in Sources, NEW v \in LimitArgs[s]
  PROVE  Clamped(s, v) \in Int
  BY LimitAssumption DEF Clamped, Greater, Lesser

LEMMA SetForceLimitStep ==
  ASSUME Core(node), Neat(node), NEW v \in LimitArgs["FORCE"], SetForceLimit(v)
  PROVE  StepOf(node, node')
  <1> DEFINE limit == Clamped("FORCE", v)
             b == node.latest_force >= limit
  <1>1. limit \in Int /\ b \in BOOLEAN
    BY ClampedIsInt DEF Sources
  <1> HIDE DEF limit
  <1>2. node' = [node EXCEPT !.limit["FORCE"] = limit, !.was_high["FORCE"] = b]
    BY DEF SetForceLimit, limit
  <1> HIDE DEF b
  <1>3. node' \in Nodes
    BY <1>1, <1>2 DEF Core, Nodes
  <1>4. SameView(node, node') /\ SamePattern(node, node')
    BY <1>2 DEF Core, Nodes, SameView, SamePattern
  <1>5. node'.irq_pin = node.irq_pin /\ \A s \in EnvSources : node'.was_high[s] = node.was_high[s]
    BY <1>2 DEF Core, Nodes, EnvSources, Sources
  <1> QED
    BY <1>3, <1>4, <1>5, HiddenStep

LEMMA SetEnvLimitStep ==
  ASSUME Core(node), Neat(node), NEW s \in EnvSources, NEW v \in LimitArgs[s], SetEnvLimit(s, v)
  PROVE  StepOf(node, node')
  <1> DEFINE limit == Clamped(s, v)
             high == [t \in Sources |-> t = "FORCE" /\ node.was_high["FORCE"]]
  <1>1. limit \in Int /\ high \in [Sources -> BOOLEAN]
    BY ClampedIsInt DEF Sources
  <1>2. \A t \in EnvSources : ~high[t]
    BY DEF EnvSources, Sources
  <1>3. node' = [node EXCEPT !.limit[s] = limit, !.was_high = high]
    BY DEF SetEnvLimit, Core, Nodes
  <1> HIDE DEF limit, high
  <1>4. node' \in Nodes
    BY <1>1, <1>3 DEF Core, Nodes
  <1>5. SameView(node, node') /\ SamePattern(node, node')
    BY <1>3 DEF Core, Nodes, SameView, SamePattern
  <1>6. node'.irq_pin = node.irq_pin /\ node'.was_high = high
    BY <1>3 DEF Core, Nodes
  <1> QED
    BY <1>2, <1>4, <1>5, <1>6, HiddenStep

\* The reads of the link are the functions proved above.
LEMMA ReadStep ==
  ASSUME Core(node), Neat(node), NEW raw \in ForceRaw, NEW r \in Readings,
         ReadForce(raw) \/ ReadAll(raw, r) \/ ReadEnvironment(r) \/ ReadLight(r)
  PROVE  StepOf(node, node')
  <1> DEFINE f == UpdateForce(node, raw)
  <1>1. Core(f) /\ Neat(f) /\ Moves(node, f)
    BY UpdateForceCore
  <1>2. CASE ReadForce(raw)
    BY <1>1, <1>2 DEF ReadForce, StepOf
  <1>3. CASE ReadAll(raw, r)
    <2>1. node' = UpdateEnvironment(f, r)
      BY <1>3 DEF ReadAll
    <2> HIDE DEF f
    <2> QED
      BY <1>1, <2>1, UpdateEnvironmentCore, MovesThenLatches DEF StepOf
  <1>4. CASE ReadEnvironment(r) \/ ReadLight(r)
    <2>1. node' = UpdateEnvironment(node, r)
      BY <1>4 DEF ReadEnvironment, ReadLight
    <2> QED
      BY <2>1, UpdateEnvironmentCore DEF StepOf, Moves
  <1> QED
    BY <1>2, <1>3, <1>4

LEMMA InitNodeCore == Core(InitNode) /\ Neat(InitNode)
  <1> DEFINE h == [s \in Sources |-> FALSE]
  <1>1. h \in [Sources -> BOOLEAN] /\ \A s \in EnvSources : ~h[s]
    BY DEF EnvSources, Sources
  <1>2. DefaultLimit \in [Sources -> Int] /\ DefaultSampling \in MinSampling .. MaxSampling
    BY LimitAssumption, TimeAssumption
  <1>3. 0 \in ForceRaw /\ 0 \in Ages /\ 0 \in 0 .. MaxSampling /\ <<>> \in Seq(Symbols)
    BY RawAssumption, TimeAssumption DEF Ages
  <1>4. InitNode \in Nodes
    BY <1>1, <1>2, <1>3 DEF InitNode, Nodes
  <1>5. InitNode.was_high = h
    BY DEF InitNode
  <1> HIDE DEF h
  <1>6. /\ InitNode.pattern = <<>> /\ InitNode.pending_force = FALSE
        /\ InitNode.service_mode = FALSE /\ InitNode.event_latched = FALSE
        /\ InitNode.irq_pin = FALSE /\ InitNode.event_source = "NONE"
    BY DEF InitNode
  <1>7. <<>> \in ServicePrefixes \ {ServicePattern}
    BY DEF ServicePrefixes, ServicePattern
  <1>8. Neat(InitNode)
    BY <1>6, <1>7 DEF Neat
  <1>9. Core(InitNode)
    BY <1>1, <1>4, <1>5, <1>6 DEF Core
  <1> QED
    BY <1>8, <1>9

-----------------------------------------------------------------------------
\* Every step of the invariant is also a step of the abstract latch.

Implements == Latch!Next \/ UNCHANGED Latch!vars

LEMMA HeldIsEvent ==
  ASSUME NEW n, Core(n), n.event_latched, n.event_value \in Readable
  PROVE  [source |-> n.event_source, value |-> n.event_value] \in
           [source : Sources, value : ForceRaw \cup EnvRaw]
  BY DEF Core, Nodes, Readable

\* A composition of functions on the latch is one step of EventLatch.
LEMMA MovesImplements ==
  ASSUME Core(node), Core(node'), Moves(node, node')
  PROVE  Implements
  <1>1. CASE SameView(node, node')
    <2>1. node'.irq_pin = node.irq_pin
      BY <1>1 DEF Core, SameView
    <2> QED
      BY <1>1, <2>1 DEF SameView, Implements, Latch!vars, Held
  <1>2. CASE /\ ~node.service_mode /\ ~node'.service_mode
             /\ node'.interrupt_enabled = node.interrupt_enabled
             /\ ~node.event_latched /\ node'.event_latched
             /\ node'.event_value \in Readable
    <2>1. Held = NoEvent /\ Held' \in [source : Sources, value : ForceRaw \cup EnvRaw]
      BY <1>2, HeldIsEvent DEF Held
    <2>2. node'.irq_pin = node.interrupt_enabled /\ node'.service_mode = node.service_mode
      BY <1>2 DEF Core, Nodes
    <2>3. Latch!Latch(Held')
      BY <1>2, <2>1, <2>2 DEF Latch!Latch
    <2> QED
      BY <2>1, <2>3 DEF Implements, Latch!Next
  <1>3. CASE ~node.service_mode /\ node'.service_mode /\ ~node'.interrupt_enabled
    <2>1. Held' = NoEvent /\ node'.irq_pin = FALSE
      BY <1>3 DEF Core, Held
    <2>2. node'.service_mode = TRUE /\ node'.interrupt_enabled = FALSE
      BY <1>3 DEF Core, Nodes
    <2>3. Latch!EnterService
      BY <1>3, <2>1, <2>2 DEF Latch!EnterService
    <2> QED
      BY <2>3 DEF Implements, Latch!Next
  <1>4. CASE /\ node.service_mode /\ ~node'.service_mode /\ node'.interrupt_enabled
             /\ node'.event_latched => node'.event_value \in Readable
    <2>1. node'.service_mode = FALSE /\ node'.interrupt_enabled = TRUE
      BY <1>4 DEF Core, Nodes
    <2>2. \/ Held' = NoEvent /\ node'.irq_pin = FALSE
          \/ /\ Held' \in [source : Sources, value : ForceRaw \cup EnvRaw]
             /\ node'.irq_pin = TRUE
      BY <1>4, HeldIsEvent DEF Core, Nodes, Held
    <2>3. Latch!LeaveService
      BY <1>4, <2>1, <2>2 DEF Latch!LeaveService
    <2> QED
      BY <2>3 DEF Implements, Latch!Next
  <1> QED
    BY <1>1, <1>2, <1>3, <1>4 DEF Moves, Latches

Kept == Core(node') /\ Neat(node') /\ Implements

LEMMA StepOfKept ==
  ASSUME Core(node), StepOf(node, node')
  PROVE  Kept
  BY MovesImplements DEF StepOf, Kept

LEMMA ClearEventKept ==
  ASSUME Core(node), Neat(node), ClearEvent
  PROVE  Kept
  <1>1. /\ Core(node') /\ SamePattern(node, node') /\ ~node'.event_latched
        /\ node'.service_mode = node.service_mode
        /\ node'.interrupt_enabled = node.interrupt_enabled
    BY ClearLatchCore DEF ClearEvent
  <1>2. Held' = NoEvent /\ node'.irq_pin = FALSE
    BY <1>1 DEF Held, Core
  <1>3. Latch!Clear
    BY <1>1, <1>2 DEF Latch!Clear
  <1>4. Neat(node')
    BY <1>1 DEF Neat, SamePattern
  <1> QED
    BY <1>1, <1>3, <1>4 DEF Kept, Implements, Latch!Next

LEMMA EnableInterruptKept ==
  ASSUME Core(node), Neat(node), NEW b \in BOOLEAN, EnableInterrupt(b)
  PROVE  Kept
  <1>1. /\ Core(node') /\ SamePattern(node, node')
        /\ node'.service_mode = node.service_mode /\ node'.interrupt_enabled = b
        /\ node'.event_latched = node.event_latched /\ node'.event_source = node.event_source
        /\ node'.event_value = node.event_value
    BY EnableInterruptCore DEF EnableInterrupt
  <1>2. Held' = Held /\ (Held # NoEvent <=> node.event_latched)
    BY <1>1, RawAssumption DEF Held, Core, Nodes
  <1>3. node'.irq_pin = (b /\ Held # NoEvent)
    BY <1>1, <1>2 DEF Core
  <1>4. Latch!EnableInterrupt(b)
    BY <1>1, <1>2, <1>3 DEF Latch!EnableInterrupt
  <1>5. Neat(node')
    BY <1>1 DEF Neat, SamePattern
  <1> QED
    BY <1>1, <1>4, <1>5 DEF Kept, Implements, Latch!Next

LEMMA ServiceModeKept ==
  ASSUME Core(node), Neat(node), NEW b \in BOOLEAN, ServiceMode(b)
  PROVE  Kept
  <1>1. Core(node') /\ Moves(node, node') /\ SamePattern(node, node')
    BY SetServiceModeCore DEF ServiceMode
  <1>2. Neat(node')
    BY <1>1 DEF Neat, SamePattern
  <1> QED
    BY <1>1, <1>2, StepOfKept DEF StepOf

LEMMA RestartKept ==
  ASSUME Core(node), Neat(node), Restart
  PROVE  Kept
  <1>1. Core(node') /\ Neat(node')
    BY InitNodeCore DEF Restart
  <1>2. /\ Held' = NoEvent /\ node'.irq_pin = FALSE
        /\ node'.service_mode = FALSE /\ node'.interrupt_enabled = TRUE
    BY DEF Restart, InitNode, Held
  <1>3. Latch!Restart
    BY <1>2 DEF Latch!Restart
  <1> QED
    BY <1>1, <1>3 DEF Kept, Implements, Latch!Next

LEMMA NextKept ==
  ASSUME Core(node), Neat(node), Next
  PROVE  Kept
  <1>1. CASE Tick
    BY <1>1, TickStep, StepOfKept
  <1>2. CASE Sample
    BY <1>2, SampleForceStep, SampleSensorsStep, StepOfKept DEF Sample
  <1>3. CASE UsbCommand
    <2>1. ASSUME NEW v \in SamplingArgs, SetSampling(v)
          PROVE  Kept
      BY <2>1, SetSamplingStep, StepOfKept
    <2>2. ASSUME NEW v \in LimitArgs["FORCE"], SetForceLimit(v)
          PROVE  Kept
      BY <2>2, SetForceLimitStep, StepOfKept
    <2>3. ASSUME NEW s \in EnvSources, NEW v \in LimitArgs[s], SetEnvLimit(s, v)
          PROVE  Kept
      BY <2>3, SetEnvLimitStep, StepOfKept
    <2>4. ASSUME NEW b \in BOOLEAN, EnableInterrupt(b) \/ ServiceMode(b)
          PROVE  Kept
      BY <2>4, EnableInterruptKept, ServiceModeKept
    <2> QED
      BY <1>3, <2>1, <2>2, <2>3, <2>4 DEF UsbCommand
  <1>4. CASE ClearEvent
    BY <1>4, ClearEventKept
  <1>5. ASSUME NEW raw \in ForceRaw, NEW r \in Readings,
               ReadForce(raw) \/ ReadAll(raw, r) \/ ReadEnvironment(r) \/ ReadLight(r)
        PROVE  Kept
    BY <1>5, ReadStep, StepOfKept
  <1>6. CASE LinkCommand
    <2>1. 0 \in ForceRaw
      BY RawAssumption
    <2>2. [s \in EnvSources |-> NoReading] \in Readings
      BY DEF Readings, EnvSources
    <2> QED
      BY <1>3, <1>4, <1>5, <1>6, <2>1, <2>2 DEF LinkCommand
  <1>7. CASE Restart
    BY <1>7, RestartKept
  <1> QED
    BY <1>1, <1>2, <1>6, <1>7 DEF Next, PoweredStep

-----------------------------------------------------------------------------
\* The invariant holds in every reachable state: the types, the silence of
\* service mode, the line, the bound on the pattern and the latch's source.
THEOREM Invariance == Spec => []IInv
  <1>1. Init => IInv
    BY InitNodeCore, IInvIsCoreNeat DEF Init
  <1>2. IInv /\ [Next]_node => IInv'
    <2> SUFFICES ASSUME IInv, [Next]_node
                 PROVE  IInv'
      OBVIOUS
    <2>1. Core(node) /\ Neat(node)
      BY IInvIsCoreNeat
    <2>2. CASE Next
      <3>1. Core(node') /\ Neat(node')
        BY <2>1, <2>2, NextKept DEF Kept
      <3> QED
        BY <3>1 DEF IInv, Core, Neat, TypeOK, ServiceModeSilent, IrqPinMirrors,
                    PatternIsPrefix, SourceMirrors
    <2>3. CASE UNCHANGED node
      BY <2>3 DEF IInv, TypeOK, ServiceModeSilent, IrqPinMirrors, PatternIsPrefix,
                  SourceMirrors
    <2> QED
      BY <2>2, <2>3
  <1> QED
    BY <1>1, <1>2, PTL DEF Spec

\* Types, for every scale and every duration.
THEOREM TypeCorrect == Spec => []TypeOK
  <1>1. IInv => TypeOK
    BY DEF IInv
  <1> QED
    BY <1>1, Invariance, PTL

\* No alarm is held and no channel is remembered as high in service mode.
THEOREM SilentInService == Spec => []ServiceModeSilent
  <1>1. IInv => ServiceModeSilent
    BY DEF IInv
  <1> QED
    BY <1>1, Invariance, PTL

\* The event line is never stale.
THEOREM PinIsCurrent == Spec => []IrqPinMirrors
  <1>1. IInv => IrqPinMirrors
    BY DEF IInv
  <1> QED
    BY <1>1, Invariance, PTL

\* service_pattern[4] never overflows and no touch is half forgotten.
THEOREM PatternBounded == Spec => []PatternIsPrefix
  <1>1. IInv => PatternIsPrefix
    BY DEF IInv
  <1> QED
    BY <1>1, Invariance, PTL

\* The firmware implements the abstract latch: every handler, however many
\* functions it calls, is one step of EventLatch or invisible.
THEOREM LatchRefinement == Spec => ImplementsLatch
  <1>1. Init => Latch!Init
    BY DEF Init, InitNode, Latch!Init, Held
  <1>2. IInv /\ [Next]_node => [Latch!Next]_(Latch!vars)
    <2> SUFFICES ASSUME IInv, [Next]_node
                 PROVE  Latch!Next \/ UNCHANGED Latch!vars
      OBVIOUS
    <2>1. CASE Next
      BY <2>1, IInvIsCoreNeat, NextKept DEF Kept, Implements
    <2>2. CASE UNCHANGED node
      BY <2>2 DEF Latch!vars, Held
    <2> QED
      BY <2>1, <2>2
  <1> QED
    BY <1>1, <1>2, Invariance, PTL DEF Spec, ImplementsLatch, Latch!Spec

-----------------------------------------------------------------------------
(***************************************************************************)
(* Alarms and the gesture.                                                 *)
(*                                                                         *)
(* AlarmHasEvidence is not inductive: a touch is reported long after the   *)
(* reading that reached the limit was taken.  EvidenceInv follows the      *)
(* reading on its way: a press in progress has a peak that is evidence, a  *)
(* pending touch has a pattern peak that is, and the limits in force are   *)
(* possible ones, so a reading that reaches one of them is evidence too.   *)
(* Evident states this of a record, and every function of the firmware     *)
(* has a lemma that says it keeps it.                                      *)
(*                                                                         *)
(* The mode changes only on a command, a reset or a complete gesture, and  *)
(* a touch recorded as part of a gesture is never dropped without an alarm.*)
(* One handler can give up an old gesture, latch its touch, start a new    *)
(* record and judge the environment, so neither follows from one function. *)
(* Each function has a lemma about what it does to the gesture; Flushed is *)
(* what giving up a record does, and Justified is what a whole handler     *)
(* does between the record before it and the record after it.              *)
(***************************************************************************)

Evident(n) ==
  /\ n \in Nodes
  /\ n.event_latched => Reached(n.event_source, n.event_value)
  /\ n.is_pressed => Reached("FORCE", n.press_peak)
  /\ n.pending_force => Reached("FORCE", n.pattern_peak)
  /\ \A s \in Sources : n.limit[s] \in PossibleLimits(s)

LEMMA EvidentIsEvidenceInv == Evident(node) <=> TypeOK /\ EvidenceInv
  BY DEF Evident, TypeOK, EvidenceInv, AlarmHasEvidence, PeakHasEvidence, LimitIsPossible

\* The fields Evident speaks of have not changed.
SameEvidence(n, m) ==
  /\ m.event_latched = n.event_latched
  /\ m.event_source = n.event_source
  /\ m.event_value = n.event_value
  /\ m.is_pressed = n.is_pressed
  /\ m.press_peak = n.press_peak
  /\ m.pending_force = n.pending_force
  /\ m.pattern_peak = n.pattern_peak
  /\ m.limit = n.limit

LEMMA SameEvidenceEvident ==
  ASSUME NEW n, NEW m, Evident(n), m \in Nodes, SameEvidence(n, m)
  PROVE  Evident(m)
  BY DEF Evident, SameEvidence

-----------------------------------------------------------------------------
\* Limits and readings.

LEMMA ClampedIsPossible ==
  ASSUME NEW s \in Sources, NEW v \in LimitArgs[s]
  PROVE  Clamped(s, v) \in Int /\ Clamped(s, v) \in PossibleLimits(s)
  BY LimitAssumption DEF Clamped, Greater, Lesser, PossibleLimits

LEMMA PossibleIsInt ==
  ASSUME NEW s \in Sources
  PROVE  PossibleLimits(s) \subseteq Int
  BY ClampedIsPossible, LimitAssumption DEF PossibleLimits

\* A higher reading is evidence as well.
LEMMA ReachedAbove ==
  ASSUME NEW s \in Sources, NEW v \in Int, NEW w \in Int, Reached(s, v), w >= v
  PROVE  Reached(s, w)
  <1>1. PICK l \in PossibleLimits(s) : v >= l
    BY DEF Reached
  <1>2. l \in Int /\ w >= l
    BY <1>1, PossibleIsInt
  <1> QED
    BY <1>2 DEF Reached

LEMMA GreaterReached ==
  ASSUME NEW p \in ForceRaw, NEW q \in ForceRaw, Reached("FORCE", p) \/ Reached("FORCE", q)
  PROVE  Greater(p, q) \in ForceRaw /\ Reached("FORCE", Greater(p, q))
  <1>1. p \in Int /\ q \in Int /\ "FORCE" \in Sources
    BY RawAssumption DEF Sources
  <1>2. Greater(p, q) \in ForceRaw /\ Greater(p, q) >= p /\ Greater(p, q) >= q
    BY <1>1 DEF Greater
  <1>3. Greater(p, q) \in Int
    BY <1>1 DEF Greater
  <1> QED
    BY <1>1, <1>2, <1>3, ReachedAbove

\* A reading that reaches the limit in force is evidence.
LEMMA LimitReached ==
  ASSUME NEW n, Evident(n), NEW s \in Sources, NEW v \in Int, v >= n.limit[s]
  PROVE  Reached(s, v)
  BY DEF Evident, Reached

-----------------------------------------------------------------------------
\* The functions on the latch.

LEMMA LatchEventEvident ==
  ASSUME NEW n, Evident(n), NEW s \in Sources, NEW v \in ForceRaw \cup EnvRaw, Reached(s, v)
  PROVE  Evident(LatchEvent(n, s, v))
  <1> DEFINE m == LatchEvent(n, s, v)
  <1>1. CASE n.service_mode \/ n.event_latched
    BY <1>1 DEF LatchEvent
  <1>2. CASE ~n.service_mode /\ ~n.event_latched
    <2>1. m = [n EXCEPT !.event_latched = TRUE, !.event_source = s, !.event_value = v,
                        !.irq_pin = n.interrupt_enabled]
      BY <1>2 DEF LatchEvent, UpdatePin, Evident, Nodes
    <2>2. m \in Nodes
      BY <2>1 DEF Evident, Nodes
    <2>3. /\ m.event_source = s /\ m.event_value = v
          /\ m.is_pressed = n.is_pressed /\ m.press_peak = n.press_peak
          /\ m.pending_force = n.pending_force /\ m.pattern_peak = n.pattern_peak
          /\ m.limit = n.limit
      BY <2>1 DEF Evident, Nodes
    <2> QED
      BY <2>2, <2>3 DEF Evident
  <1> QED
    BY <1>1, <1>2

LEMMA UpdatePinEvident ==
  ASSUME NEW n, Evident(n)
  PROVE  Evident(UpdatePin(n))
  <1> DEFINE b == n.interrupt_enabled /\ n.event_latched /\ ~n.service_mode
             m == [n EXCEPT !.irq_pin = b]
  <1>1. b \in BOOLEAN /\ UpdatePin(n) = m
    BY DEF UpdatePin
  <1> HIDE DEF b
  <1>2. m \in Nodes /\ SameEvidence(n, m)
    BY <1>1 DEF Evident, Nodes, SameEvidence
  <1> QED
    BY <1>1, <1>2, SameEvidenceEvident

LEMMA ClearLatchEvident ==
  ASSUME NEW n, Evident(n)
  PROVE  Evident(ClearLatch(n))
  <1> DEFINE k == [n EXCEPT !.event_latched = FALSE, !.event_source = "NONE", !.event_value = 0]
  <1>1. k \in Nodes
    BY DEF Evident, Nodes
  <1>2. /\ k.event_latched = FALSE
        /\ k.is_pressed = n.is_pressed /\ k.press_peak = n.press_peak
        /\ k.pending_force = n.pending_force /\ k.pattern_peak = n.pattern_peak
        /\ k.limit = n.limit
    BY DEF Evident, Nodes
  <1>3. ClearLatch(n) = UpdatePin(k)
    BY DEF ClearLatch
  <1> HIDE DEF k
  <1> QED
    BY <1>1, <1>2, <1>3, UpdatePinEvident DEF Evident

LEMMA SetServiceModeEvident ==
  ASSUME NEW n, Evident(n), NEW b \in BOOLEAN
  PROVE  Evident(SetServiceMode(n, b))
  <1> DEFINE k == [n EXCEPT !.service_mode = b, !.interrupt_enabled = ~b]
             h == [k EXCEPT !.was_high = [s \in Sources |-> FALSE]]
  <1>1. k \in Nodes /\ SameEvidence(n, k)
    BY DEF Evident, Nodes, SameEvidence
  <1>2. Evident(k)
    BY <1>1, SameEvidenceEvident
  <1>3. \/ SetServiceMode(n, b) = n
        \/ SetServiceMode(n, b) = ClearLatch(h)
        \/ SetServiceMode(n, b) = UpdatePin(k)
    BY DEF SetServiceMode
  <1> HIDE DEF k
  <1>4. h \in Nodes /\ SameEvidence(k, h)
    BY <1>2 DEF Evident, Nodes, SameEvidence
  <1>5. Evident(h)
    BY <1>2, <1>4, SameEvidenceEvident
  <1> QED
    BY <1>2, <1>3, <1>5, UpdatePinEvident, ClearLatchEvident

-----------------------------------------------------------------------------
\* The functions on the gesture.

LEMMA ResetPatternEvident ==
  ASSUME NEW n, Evident(n)
  PROVE  Evident(ResetPattern(n))
  <1> DEFINE m == ResetPattern(n)
  <1>1. <<>> \in Seq(Symbols) /\ 0 \in ForceRaw /\ 0 \in Ages
    BY RawAssumption, TimeAssumption DEF Ages
  <1>2. m \in Nodes
    BY <1>1 DEF ResetPattern, Evident, Nodes
  <1>3. /\ m.pending_force = FALSE
        /\ m.event_latched = n.event_latched /\ m.event_source = n.event_source
        /\ m.event_value = n.event_value
        /\ m.is_pressed = n.is_pressed /\ m.press_peak = n.press_peak
        /\ m.limit = n.limit
    BY DEF ResetPattern, Evident, Nodes
  <1> QED
    BY <1>2, <1>3 DEF Evident

LEMMA LatchPendingPatternEvident ==
  ASSUME NEW n, Evident(n)
  PROVE  Evident(LatchPendingPattern(n))
  <1>1. n.pattern_peak \in ForceRaw \cup EnvRaw /\ "FORCE" \in Sources
    BY DEF Evident, Nodes, Sources
  <1>2. n.pending_force => Evident(LatchEvent(n, "FORCE", n.pattern_peak))
    BY <1>1, LatchEventEvident DEF Evident
  <1> QED
    BY <1>2, ResetPatternEvident DEF LatchPendingPattern

LEMMA FlushEvident ==
  ASSUME NEW n, Evident(n)
  PROVE  Evident(FlushAfterGap(n)) /\ Evident(FlushIfFull(n))
  BY LatchPendingPatternEvident DEF FlushAfterGap, FlushIfFull

\* The peak of a pattern is the highest of its presses, so it is evidence as
\* soon as one of them was.
LEMMA AppendSymbolEvident ==
  ASSUME NEW n, Evident(n), NEW symbol \in Symbols, NEW peak \in ForceRaw, Reached("FORCE", peak)
  PROVE  Evident(AppendSymbol(n, symbol, peak))
  <1> DEFINE k == FlushIfFull(FlushAfterGap(n))
             top == Greater(k.pattern_peak, peak)
             a == [k EXCEPT !.pattern = Append(@, symbol),
                            !.pattern_peak = Greater(@, peak),
                            !.symbol_age = 0,
                            !.pending_force = TRUE]
  <1>1. Evident(k)
    BY FlushEvident
  <1>2. top \in ForceRaw /\ Reached("FORCE", top)
    BY <1>1, GreaterReached DEF Evident, Nodes
  <1>3. a = [k EXCEPT !.pattern = Append(@, symbol), !.pattern_peak = top,
                      !.symbol_age = 0, !.pending_force = TRUE]
    BY <1>1 DEF Evident, Nodes
  <1>4. \/ AppendSymbol(n, symbol, peak) = ResetPattern(SetServiceMode(a, ~a.service_mode))
        \/ AppendSymbol(n, symbol, peak) = a
        \/ AppendSymbol(n, symbol, peak) = LatchPendingPattern(a)
    BY DEF AppendSymbol
  <1> HIDE DEF k, top
  <1>5. Append(k.pattern, symbol) \in Seq(Symbols) /\ 0 \in Ages
    BY <1>1, TimeAssumption DEF Evident, Nodes, Ages
  <1>6. a \in Nodes
    BY <1>1, <1>2, <1>3, <1>5 DEF Evident, Nodes
  <1>7. /\ a.pattern_peak = top
        /\ a.event_latched = k.event_latched /\ a.event_source = k.event_source
        /\ a.event_value = k.event_value
        /\ a.is_pressed = k.is_pressed /\ a.press_peak = k.press_peak
        /\ a.limit = k.limit
    BY <1>1, <1>3 DEF Evident, Nodes
  <1> HIDE DEF a
  <1>8. Evident(a) /\ (~a.service_mode) \in BOOLEAN
    BY <1>1, <1>2, <1>6, <1>7 DEF Evident, Nodes
  <1> QED
    BY <1>4, <1>8, SetServiceModeEvident, ResetPatternEvident, LatchPendingPatternEvident

\* A press that starts has reached the limit; one that goes on keeps its peak.
LEMMA HoldPressEvident ==
  ASSUME NEW n, Evident(n), NEW raw \in ForceRaw, n.is_pressed \/ Reached("FORCE", raw)
  PROVE  Evident(HoldPress(n, raw))
  <1> DEFINE k == IF n.is_pressed
                  THEN [n EXCEPT !.press_peak = Greater(@, raw)]
                  ELSE [n EXCEPT !.is_pressed = TRUE, !.press_age = 0, !.press_peak = raw]
             l == LatchEvent(k, "FORCE", k.press_peak)
             h == [l EXCEPT !.was_high["FORCE"] = TRUE]
             top == IF n.is_pressed THEN Greater(n.press_peak, raw) ELSE raw
  <1>1. top \in ForceRaw /\ Reached("FORCE", top)
    BY GreaterReached DEF Evident, Nodes
  <1>2. k.press_peak = top /\ k.is_pressed = TRUE
    BY DEF Evident, Nodes
  <1>3. k \in Nodes
    <2>1. 0 \in Ages
      BY TimeAssumption DEF Ages
    <2>2. CASE n.is_pressed
      BY <1>1, <2>2 DEF Evident, Nodes
    <2>3. CASE ~n.is_pressed
      BY <2>1, <2>3 DEF Evident, Nodes
    <2> QED
      BY <2>2, <2>3
  <1>4. /\ k.event_latched = n.event_latched /\ k.event_source = n.event_source
        /\ k.event_value = n.event_value
        /\ k.pending_force = n.pending_force /\ k.pattern_peak = n.pattern_peak
        /\ k.limit = n.limit
    BY DEF Evident, Nodes
  <1>5. HoldPress(n, raw) = h \/ HoldPress(n, raw) = k
    BY DEF HoldPress
  <1> HIDE DEF k, top
  <1>6. Evident(k)
    BY <1>1, <1>2, <1>3, <1>4 DEF Evident
  <1>7. Evident(l)
    BY <1>1, <1>2, <1>6, LatchEventEvident DEF Sources
  <1> HIDE DEF l
  <1>8. h \in Nodes /\ SameEvidence(l, h)
    BY <1>7 DEF Evident, Nodes, SameEvidence
  <1> QED
    BY <1>5, <1>6, <1>7, <1>8, SameEvidenceEvident

\* The peak outlives the press: it is passed on before it is reset.
LEMMA EndPressEvident ==
  ASSUME NEW n, Evident(n), n.is_pressed
  PROVE  Evident(EndPress(n))
  <1> DEFINE k == [n EXCEPT !.is_pressed = FALSE, !.press_age = 0, !.press_peak = 0]
             l == LatchEvent(k, "FORCE", n.press_peak)
  <1>1. n.press_peak \in ForceRaw /\ Reached("FORCE", n.press_peak) /\ "FORCE" \in Sources
    BY DEF Evident, Nodes, Sources
  <1>2. k \in Nodes
    <2>1. 0 \in Ages /\ 0 \in ForceRaw
      BY TimeAssumption, RawAssumption DEF Ages
    <2> QED
      BY <2>1 DEF Evident, Nodes
  <1>3. /\ k.is_pressed = FALSE
        /\ k.event_latched = n.event_latched /\ k.event_source = n.event_source
        /\ k.event_value = n.event_value
        /\ k.pending_force = n.pending_force /\ k.pattern_peak = n.pattern_peak
        /\ k.limit = n.limit
    BY DEF Evident, Nodes
  <1>4. \/ EndPress(n) = AppendSymbol(k, "S", n.press_peak)
        \/ EndPress(n) = AppendSymbol(k, "L", n.press_peak)
        \/ EndPress(n) = ResetPattern(l)
    BY DEF EndPress
  <1> HIDE DEF k
  <1>5. Evident(k)
    BY <1>2, <1>3 DEF Evident
  <1>6. Evident(ResetPattern(l))
    BY <1>1, <1>5, LatchEventEvident, ResetPatternEvident
  <1> QED
    BY <1>1, <1>4, <1>5, <1>6, AppendSymbolEvident DEF Symbols

LEMMA UnloadEvident ==
  ASSUME NEW n, Evident(n), NEW raw \in ForceRaw
  PROVE  Evident(Unload(n, raw))
  <1> DEFINE b == n.was_high["FORCE"] /\ raw + Hysteresis["FORCE"] >= n.limit["FORCE"]
             k == [n EXCEPT !.was_high["FORCE"] = b]
  <1>1. b \in BOOLEAN
    OBVIOUS
  <1>2. Unload(n, raw) = IF n.is_pressed THEN EndPress(k) ELSE k
    BY DEF Unload
  <1> HIDE DEF b
  <1>3. k \in Nodes /\ SameEvidence(n, k)
    BY <1>1 DEF Evident, Nodes, SameEvidence
  <1> HIDE DEF k
  <1>4. Evident(k) /\ k.is_pressed = n.is_pressed
    BY <1>3, SameEvidenceEvident DEF SameEvidence
  <1> QED
    BY <1>2, <1>4, EndPressEvident

LEMMA UpdateForceEvident ==
  ASSUME NEW n, Evident(n), NEW raw \in ForceRaw
  PROVE  Evident(UpdateForce(n, raw))
  <1> DEFINE k == [n EXCEPT !.latest_force = raw]
             f == IF k.is_pressed THEN k ELSE FlushAfterGap(k)
  <1>1. k \in Nodes /\ SameEvidence(n, k)
    BY DEF Evident, Nodes, SameEvidence
  <1>2. UpdateForce(n, raw) = IF IsPressed(k, raw) THEN HoldPress(f, raw) ELSE Unload(f, raw)
    BY DEF UpdateForce, UpdateGesture
  <1> HIDE DEF k
  <1>3. Evident(k)
    BY <1>1, SameEvidenceEvident
  <1>4. Evident(f)
    BY <1>3, FlushEvident
  <1>5. IsPressed(k, raw) => f.is_pressed \/ Reached("FORCE", raw)
    BY <1>3, LimitReached, RawAssumption DEF IsPressed, Sources
  <1> HIDE DEF f
  <1> QED
    BY <1>2, <1>4, <1>5, HoldPressEvident, UnloadEvident

-----------------------------------------------------------------------------
\* The edge detectors.

LEMMA UpdateChannelEvident ==
  ASSUME NEW n, Evident(n), NEW s \in EnvSources, NEW v \in EnvRaw
  PROVE  Evident(UpdateChannel(n, s, v))
  <1>0. s \in Sources
    BY DEF Sources
  <1>1. \A b \in BOOLEAN : Evident([n EXCEPT !.was_high[s] = b])
    <2> SUFFICES ASSUME NEW b \in BOOLEAN
                 PROVE  Evident([n EXCEPT !.was_high[s] = b])
      OBVIOUS
    <2> DEFINE k == [n EXCEPT !.was_high[s] = b]
    <2>1. k \in Nodes /\ SameEvidence(n, k)
      BY <1>0 DEF Evident, Nodes, SameEvidence
    <2> QED
      BY <2>1, SameEvidenceEvident
  <1>2. CASE ~n.was_high[s] /\ v >= n.limit[s]
    <2> DEFINE k == [n EXCEPT !.was_high[s] = TRUE]
    <2>1. UpdateChannel(n, s, v) = LatchEvent(k, s, v)
      BY <1>2 DEF UpdateChannel
    <2>2. Evident(k)
      BY <1>1
    <2>3. Reached(s, v)
      BY <1>0, <1>2, LimitReached, RawAssumption
    <2> HIDE DEF k
    <2> QED
      BY <1>0, <2>1, <2>2, <2>3, LatchEventEvident
  <1>3. CASE ~(~n.was_high[s] /\ v >= n.limit[s])
    <2>1. UpdateChannel(n, s, v) = [n EXCEPT !.was_high[s] = FALSE] \/ UpdateChannel(n, s, v) = n
      BY <1>3 DEF UpdateChannel
    <2> QED
      BY <1>1, <2>1
  <1> QED
    BY <1>2, <1>3

LEMMA UpdateEnvironmentEvident ==
  ASSUME NEW n, Evident(n), NEW r \in Readings
  PROVE  Evident(UpdateEnvironment(n, r))
  <1>1. ASSUME NEW m, Evident(m), NEW s \in EnvSources
        PROVE  Evident(UpdateIfRead(m, s, r))
    <2>1. r[s] = NoReading \/ r[s] \in EnvRaw
      BY DEF Readings
    <2> QED
      BY <1>1, <2>1, UpdateChannelEvident DEF UpdateIfRead
  <1> DEFINE m1 == UpdateIfRead(n, "LIGHT", r)
             m2 == UpdateIfRead(m1, "TEMP", r)
             m3 == UpdateIfRead(m2, "HUMIDITY", r)
  <1>2. Evident(m1)
    BY <1>1 DEF EnvSources
  <1> HIDE DEF m1
  <1>3. Evident(m2)
    BY <1>1, <1>2 DEF EnvSources
  <1> HIDE DEF m2
  <1>4. Evident(m3)
    BY <1>1, <1>3 DEF EnvSources
  <1>5. UpdateEnvironment(n, r) = n \/ UpdateEnvironment(n, r) = m3
    BY DEF UpdateEnvironment, m1, m2
  <1> QED
    BY <1>4, <1>5

-----------------------------------------------------------------------------
LEMMA InitEvident == Evident(InitNode)
  <1> DEFINE h == [s \in Sources |-> FALSE]
  <1>1. h \in [Sources -> BOOLEAN]
    OBVIOUS
  <1>2. DefaultLimit \in [Sources -> Int] /\ DefaultSampling \in MinSampling .. MaxSampling
    BY LimitAssumption, TimeAssumption
  <1>3. 0 \in ForceRaw /\ 0 \in Ages /\ 0 \in 0 .. MaxSampling /\ <<>> \in Seq(Symbols)
    BY RawAssumption, TimeAssumption DEF Ages
  <1> HIDE DEF h
  <1>4. InitNode \in Nodes
    BY <1>1, <1>2, <1>3 DEF InitNode, Nodes, h
  <1>5. /\ InitNode.event_latched = FALSE /\ InitNode.is_pressed = FALSE
        /\ InitNode.pending_force = FALSE /\ InitNode.limit = DefaultLimit
    BY DEF InitNode
  <1> QED
    BY <1>4, <1>5 DEF Evident, PossibleLimits

-----------------------------------------------------------------------------
\* The actions.

LEMMA StepEvident ==
  ASSUME Evident(node), Next
  PROVE  Evident(node')
  <1>1. CASE Tick
    <2> DEFINE pa == IF node.is_pressed THEN Lesser(node.press_age + 1, AgeCap) ELSE node.press_age
               sa == IF node.pattern # <<>> THEN Lesser(node.symbol_age + 1, AgeCap) ELSE node.symbol_age
               se == Lesser(node.sensor_age + 1, MaxSampling)
    <2>1. pa \in Ages /\ sa \in Ages /\ se \in 0 .. MaxSampling
      BY TimeAssumption DEF Evident, Nodes, Ages, Lesser
    <2>2. node' = [node EXCEPT !.press_age = pa, !.symbol_age = sa, !.sample_age = 1,
                               !.sensor_age = se]
      BY <1>1 DEF Tick, Evident, Nodes
    <2> HIDE DEF pa, sa, se
    <2>3. node' \in Nodes /\ SameEvidence(node, node')
      BY <2>1, <2>2 DEF Evident, Nodes, SameEvidence
    <2> QED
      BY <2>3, SameEvidenceEvident
  <1>2. CASE Sample
    <2> DEFINE f == [node EXCEPT !.sample_age = 0]
               e == [node EXCEPT !.sensor_age = 0]
    <2>1. 0 \in 0 .. MaxSampling
      BY TimeAssumption
    <2>2. f \in Nodes /\ e \in Nodes /\ SameEvidence(node, f) /\ SameEvidence(node, e)
      BY <2>1 DEF Evident, Nodes, SameEvidence
    <2>3. Evident(f) /\ Evident(e)
      BY <2>2, SameEvidenceEvident
    <2>4. \/ \E raw \in ForceRaw : node' = UpdateForce(f, raw)
          \/ \E r \in Readings : node' = UpdateEnvironment(e, r)
      BY <1>2 DEF Sample, SampleForce, SampleSensors
    <2> HIDE DEF f, e
    <2> QED
      BY <2>3, <2>4, UpdateForceEvident, UpdateEnvironmentEvident
  <1>3. ASSUME NEW v \in SamplingArgs, SetSampling(v)
        PROVE  Evident(node')
    <2>1. Greater(v, MinSampling) \in MinSampling .. MaxSampling
      BY TimeAssumption DEF Greater
    <2>2. node' \in Nodes /\ SameEvidence(node, node')
      BY <1>3, <2>1 DEF SetSampling, Evident, Nodes, SameEvidence
    <2> QED
      BY <2>2, SameEvidenceEvident
  \* A command that sets a limit brings in a possible one.
  <1>4. ASSUME NEW s \in Sources, NEW v \in LimitArgs[s], NEW h \in [Sources -> BOOLEAN],
               node' = [node EXCEPT !.limit[s] = Clamped(s, v), !.was_high = h]
        PROVE  Evident(node')
    <2>1. Clamped(s, v) \in Int /\ Clamped(s, v) \in PossibleLimits(s)
      BY ClampedIsPossible
    <2>2. node' \in Nodes
      BY <1>4, <2>1 DEF Evident, Nodes
    <2>3. node'.limit = [node.limit EXCEPT ![s] = Clamped(s, v)]
      BY <1>4 DEF Evident, Nodes
    <2>4. \A t \in Sources : node'.limit[t] \in PossibleLimits(t)
      BY <2>1, <2>3 DEF Evident, Nodes
    <2>5. /\ node'.event_latched = node.event_latched /\ node'.event_source = node.event_source
          /\ node'.event_value = node.event_value
          /\ node'.is_pressed = node.is_pressed /\ node'.press_peak = node.press_peak
          /\ node'.pending_force = node.pending_force /\ node'.pattern_peak = node.pattern_peak
      BY <1>4 DEF Evident, Nodes
    <2> QED
      BY <2>2, <2>4, <2>5 DEF Evident
  <1>5. ASSUME NEW v \in LimitArgs["FORCE"], SetForceLimit(v)
        PROVE  Evident(node')
    <2> DEFINE b == node.latest_force >= Clamped("FORCE", v)
               h == [node.was_high EXCEPT !["FORCE"] = b]
    <2>1. b \in BOOLEAN
      OBVIOUS
    <2> HIDE DEF b
    <2>2. h \in [Sources -> BOOLEAN] /\ "FORCE" \in Sources
      BY <2>1 DEF Evident, Nodes, Sources
    <2>3. node' = [node EXCEPT !.limit["FORCE"] = Clamped("FORCE", v), !.was_high = h]
      BY <1>5 DEF SetForceLimit, Evident, Nodes, b
    <2> HIDE DEF h
    <2> QED
      BY <1>4, <2>2, <2>3
  <1>6. ASSUME NEW s \in EnvSources, NEW v \in LimitArgs[s], SetEnvLimit(s, v)
        PROVE  Evident(node')
    <2> DEFINE h == [t \in Sources |-> t = "FORCE" /\ node.was_high["FORCE"]]
    <2>1. h \in [Sources -> BOOLEAN] /\ s \in Sources
      BY DEF Sources
    <2>2. node' = [node EXCEPT !.limit[s] = Clamped(s, v), !.was_high = h]
      BY <1>6 DEF SetEnvLimit, Evident, Nodes
    <2> HIDE DEF h
    <2> QED
      BY <1>4, <2>1, <2>2
  <1>7. ASSUME NEW b \in BOOLEAN, EnableInterrupt(b)
        PROVE  Evident(node')
    <2> DEFINE k == [node EXCEPT !.interrupt_enabled = b]
    <2>1. k \in Nodes /\ SameEvidence(node, k)
      BY DEF Evident, Nodes, SameEvidence
    <2> QED
      BY <1>7, <2>1, SameEvidenceEvident, UpdatePinEvident DEF EnableInterrupt
  <1>8. ASSUME NEW b \in BOOLEAN, ServiceMode(b)
        PROVE  Evident(node')
    BY <1>8, SetServiceModeEvident DEF ServiceMode
  <1>9. CASE ClearEvent
    BY <1>9, ClearLatchEvident DEF ClearEvent
  <1>10. ASSUME NEW raw \in ForceRaw, NEW r \in Readings,
                ReadForce(raw) \/ ReadAll(raw, r) \/ ReadEnvironment(r) \/ ReadLight(r)
         PROVE  Evident(node')
    <2>1. \/ node' = UpdateForce(node, raw)
          \/ node' = UpdateEnvironment(UpdateForce(node, raw), r)
          \/ node' = UpdateEnvironment(node, r)
      BY <1>10 DEF ReadForce, ReadAll, ReadEnvironment, ReadLight
    <2> QED
      BY <2>1, UpdateForceEvident, UpdateEnvironmentEvident
  <1>11. CASE Restart
    BY <1>11, InitEvident DEF Restart
  <1> QED
    <2>1. CASE UsbCommand
      BY <2>1, <1>3, <1>5, <1>6, <1>7, <1>8 DEF UsbCommand
    <2>2. CASE LinkCommand
      <3>1. \E raw \in ForceRaw, r \in Readings : r["TEMP"] = NoReading
        <4>1. [s \in EnvSources |-> NoReading] \in Readings
          BY DEF Readings, EnvSources
        <4>2. [s \in EnvSources |-> NoReading]["TEMP"] = NoReading
          BY DEF EnvSources
        <4> QED
          BY <4>1, <4>2, RawAssumption
      <3> QED
        BY <2>1, <2>2, <3>1, <1>9, <1>10 DEF LinkCommand
    <2> QED
      BY <1>1, <1>2, <1>11, <2>2 DEF Next, PoweredStep

-----------------------------------------------------------------------------
\* What is stored with an alarm reached a limit its channel can have, also
\* when it is the peak of a press that ended long before.
THEOREM AlarmsHaveEvidence == Spec => []AlarmHasEvidence
  <1>1. Init => Evident(node)
    BY InitEvident DEF Init
  <1>2. Evident(node) /\ [Next]_node => Evident(node)'
    BY StepEvident
  <1>3. Evident(node) => AlarmHasEvidence
    BY DEF Evident, AlarmHasEvidence
  <1> QED
    BY <1>1, <1>2, <1>3, PTL DEF Spec

-----------------------------------------------------------------------------
\* The gesture is where it was, and no alarm is lost.
SameGesture(n, m) ==
  /\ m.service_mode = n.service_mode
  /\ m.is_pressed = n.is_pressed
  /\ m.press_age = n.press_age
  /\ m.pattern = n.pattern
  /\ m.symbol_age = n.symbol_age
  /\ m.pending_force = n.pending_force
  /\ n.event_latched => m.event_latched

\* The record is given up; a touch in it is an alarm, or one was held already.
Flushed(n, m) ==
  /\ m.service_mode = n.service_mode
  /\ m.is_pressed = n.is_pressed
  /\ m.pattern = <<>> /\ ~m.pending_force
  /\ n.event_latched => m.event_latched
  /\ n.pending_force => m.event_latched \/ n.service_mode

TwoTaps(n) == n.pattern = <<"S", "S">> /\ n.symbol_age <= GapMax

Completes(n, m) ==
  TwoTaps(n) /\ n.is_pressed /\ n.press_age >= LongMin /\ ~m.is_pressed

Justified(n, m) ==
  /\ m.service_mode # n.service_mode => Completes(n, m)
  /\ n.pending_force /\ ~m.pending_force =>
       m.event_latched \/ n.service_mode \/ Completes(n, m)

LEMMA SameGestureJustified ==
  ASSUME NEW n, NEW k, NEW m, SameGesture(n, k), Justified(k, m)
  PROVE  Justified(n, m)
  BY DEF SameGesture, Justified, Completes, TwoTaps

LEMMA JustifiedSameGesture ==
  ASSUME NEW n, NEW k, NEW m, Justified(n, k), SameGesture(k, m)
  PROVE  Justified(n, m)
  BY DEF SameGesture, Justified, Completes, TwoTaps

LEMMA FlushedSameGesture ==
  ASSUME NEW n, NEW k, NEW m, Flushed(n, k), SameGesture(k, m)
  PROVE  Justified(n, m)
  BY DEF SameGesture, Justified, Flushed

-----------------------------------------------------------------------------
\* The functions that give up a record.

LEMMA LatchEventGesture ==
  ASSUME NEW n \in Nodes, NEW s \in Sources, NEW v \in Readable
  PROVE  LET m == LatchEvent(n, s, v)
         IN  m \in Nodes /\ SameGesture(n, m) /\ (m.event_latched \/ n.service_mode)
  <1> DEFINE m == LatchEvent(n, s, v)
  <1>1. CASE n.service_mode \/ n.event_latched
    BY <1>1 DEF LatchEvent, SameGesture
  <1>2. CASE ~n.service_mode /\ ~n.event_latched
    <2>1. m = [n EXCEPT !.event_latched = TRUE, !.event_source = s, !.event_value = v,
                        !.irq_pin = n.interrupt_enabled]
      BY <1>2 DEF LatchEvent, UpdatePin, Nodes
    <2>2. m \in Nodes
      BY <2>1 DEF Nodes, Readable
    <2>3. SameGesture(n, m) /\ m.event_latched
      BY <2>1 DEF Nodes, SameGesture
    <2> QED
      BY <2>2, <2>3
  <1> QED
    BY <1>1, <1>2

LEMMA ResetPatternGesture ==
  ASSUME NEW n \in Nodes
  PROVE  LET m == ResetPattern(n)
         IN  /\ m \in Nodes
             /\ m.service_mode = n.service_mode /\ m.is_pressed = n.is_pressed
             /\ m.pattern = <<>> /\ ~m.pending_force
             /\ m.event_latched = n.event_latched
  <1>1. <<>> \in Seq(Symbols) /\ 0 \in ForceRaw /\ 0 \in Ages
    BY RawAssumption, TimeAssumption DEF Ages
  <1>2. ResetPattern(n) \in Nodes
    BY <1>1 DEF ResetPattern, Nodes
  <1> QED
    BY <1>2 DEF ResetPattern, Nodes

LEMMA LatchPendingPatternGesture ==
  ASSUME NEW n \in Nodes
  PROVE  LatchPendingPattern(n) \in Nodes /\ Flushed(n, LatchPendingPattern(n))
  <1> DEFINE k == IF n.pending_force /\ ~n.service_mode
                  THEN LatchEvent(n, "FORCE", n.pattern_peak)
                  ELSE n
  <1>1. n.pattern_peak \in Readable /\ "FORCE" \in Sources
    BY DEF Nodes, Readable, Sources
  <1>2. /\ k \in Nodes /\ SameGesture(n, k)
        /\ n.pending_force => k.event_latched \/ n.service_mode
    BY <1>1, LatchEventGesture DEF SameGesture
  <1>3. LatchPendingPattern(n) = ResetPattern(k)
    BY DEF LatchPendingPattern
  <1> HIDE DEF k
  <1> QED
    BY <1>2, <1>3, ResetPatternGesture DEF Flushed, SameGesture

\* A record that is not given up is empty or recent.
LEMMA FlushAfterGapGesture ==
  ASSUME NEW n \in Nodes
  PROVE  LET m == FlushAfterGap(n)
         IN  /\ m \in Nodes
             /\ \/ m = n /\ (n.pattern = <<>> \/ n.symbol_age <= GapMax)
                \/ Flushed(n, m)
  <1>1. n.symbol_age \in Int /\ GapMax \in Int
    BY TimeAssumption DEF Nodes, Ages
  <1> QED
    BY <1>1, LatchPendingPatternGesture DEF FlushAfterGap

LEMMA FlushBothGesture ==
  ASSUME NEW n \in Nodes
  PROVE  LET m == FlushIfFull(FlushAfterGap(n))
         IN  /\ m \in Nodes
             /\ \/ m = n /\ (n.pattern = <<>> \/ n.symbol_age <= GapMax)
                \/ Flushed(n, m)
  <1> DEFINE k == FlushAfterGap(n)
  <1>1. /\ k \in Nodes
        /\ \/ k = n /\ (n.pattern = <<>> \/ n.symbol_age <= GapMax)
           \/ Flushed(n, k)
    BY FlushAfterGapGesture
  <1>2. FlushIfFull(k) = k \/ FlushIfFull(k) = LatchPendingPattern(k)
    BY DEF FlushIfFull
  <1>3. LatchPendingPattern(k) \in Nodes /\ Flushed(k, LatchPendingPattern(k))
    BY <1>1, LatchPendingPatternGesture
  <1> HIDE DEF k
  <1>4. Flushed(n, k) => Flushed(n, LatchPendingPattern(k))
    BY <1>3 DEF Flushed
  <1> QED
    BY <1>1, <1>2, <1>3, <1>4 DEF k

-----------------------------------------------------------------------------
\* The gesture is completed by an L after two taps, and by nothing else.

LEMMA AppendCompletes ==
  ASSUME NEW p \in Seq(Symbols), NEW symbol \in Symbols, Append(p, symbol) = ServicePattern
  PROVE  p = <<"S", "S">> /\ symbol = "L"
  <1> DEFINE w == Append(p, symbol)
  <1>1. /\ Len(w) = Len(p) + 1 /\ Len(p) \in Nat
        /\ w[Len(p) + 1] = symbol
        /\ \A i \in 1 .. Len(p) : w[i] = p[i]
    BY AppendProperties
  <1>2. Len(w) = 3 /\ w[1] = "S" /\ w[2] = "S" /\ w[3] = "L"
    BY DEF ServicePattern
  <1> HIDE DEF w
  <1>3. Len(p) = 2
    <2> DEFINE l == Len(p)
    <2>1. l \in Nat /\ 3 = l + 1
      BY <1>1, <1>2
    <2> HIDE DEF l
    <2>2. l = 2
      BY <2>1
    <2> QED
      BY <2>2 DEF l
  <1>4. symbol = "L" /\ p[1] = "S" /\ p[2] = "S"
    BY <1>1, <1>2, <1>3
  <1> DEFINE q == <<"S", "S">>
  <1>5. q \in Seq(Symbols) /\ Len(q) = 2 /\ q[1] = "S" /\ q[2] = "S"
    BY DEF Symbols
  <1> HIDE DEF q
  <1>6. Len(p) = Len(q) /\ \A i \in 1 .. Len(p) : p[i] = q[i]
    BY <1>3, <1>4, <1>5
  <1>7. p = q
    BY <1>5, <1>6, SeqEqual
  <1> QED
    BY <1>4, <1>7 DEF q

LEMMA UpdatePinGesture ==
  ASSUME NEW n \in Nodes
  PROVE  LET m == UpdatePin(n)
         IN  /\ m \in Nodes
             /\ m.is_pressed = n.is_pressed /\ m.pending_force = n.pending_force
             /\ m.service_mode = n.service_mode
  <1> DEFINE b == n.interrupt_enabled /\ n.event_latched /\ ~n.service_mode
  <1>1. b \in BOOLEAN /\ UpdatePin(n) = [n EXCEPT !.irq_pin = b]
    BY DEF UpdatePin
  <1> HIDE DEF b
  <1> QED
    BY <1>1 DEF Nodes

LEMMA ClearLatchGesture ==
  ASSUME NEW n \in Nodes
  PROVE  LET m == ClearLatch(n)
         IN  /\ m \in Nodes
             /\ m.is_pressed = n.is_pressed /\ m.pending_force = n.pending_force
             /\ m.service_mode = n.service_mode
  <1> DEFINE k == [n EXCEPT !.event_latched = FALSE, !.event_source = "NONE", !.event_value = 0]
  <1>1. k \in Nodes
    BY DEF Nodes
  <1>2. /\ k.is_pressed = n.is_pressed /\ k.pending_force = n.pending_force
        /\ k.service_mode = n.service_mode
    BY DEF Nodes
  <1>3. ClearLatch(n) = UpdatePin(k)
    BY DEF ClearLatch
  <1> HIDE DEF k
  <1> QED
    BY <1>1, <1>2, <1>3, UpdatePinGesture

LEMMA ToggleTyped ==
  ASSUME NEW n \in Nodes
  PROVE  LET m == SetServiceMode(n, ~n.service_mode)
         IN  m \in Nodes /\ m.is_pressed = n.is_pressed
  <1> DEFINE b == ~n.service_mode
             h == [s \in Sources |-> FALSE]
             z == [n EXCEPT !.service_mode = b, !.interrupt_enabled = ~b, !.was_high = h]
             k == [n EXCEPT !.service_mode = b, !.interrupt_enabled = ~b]
  <1>1. b \in BOOLEAN /\ n.service_mode # b
    BY DEF Nodes
  <1>2. SetServiceMode(n, b) = IF b THEN ClearLatch(z) ELSE UpdatePin(k)
    BY <1>1 DEF SetServiceMode, Nodes
  <1> HIDE DEF b
  <1>3. h \in [Sources -> BOOLEAN]
    OBVIOUS
  <1> HIDE DEF h
  <1>4. z \in Nodes /\ z.is_pressed = n.is_pressed
    BY <1>1, <1>3 DEF Nodes
  <1>5. k \in Nodes /\ k.is_pressed = n.is_pressed
    BY <1>1 DEF Nodes
  <1> HIDE DEF z, k
  <1>6. UpdatePin(k) \in Nodes /\ UpdatePin(k).is_pressed = k.is_pressed
    BY <1>5, UpdatePinGesture
  <1>7. ClearLatch(z) \in Nodes /\ ClearLatch(z).is_pressed = z.is_pressed
    BY <1>4, ClearLatchGesture
  <1> QED
    BY <1>2, <1>4, <1>5, <1>6, <1>7 DEF b

LEMMA AppendSymbolGesture ==
  ASSUME NEW n \in Nodes, NEW symbol \in Symbols, NEW peak \in ForceRaw
  PROVE  LET m == AppendSymbol(n, symbol, peak)
         IN  /\ m.is_pressed = n.is_pressed
             /\ m.service_mode # n.service_mode => TwoTaps(n) /\ symbol = "L"
             /\ n.pending_force /\ ~m.pending_force =>
                  m.event_latched \/ n.service_mode \/ (TwoTaps(n) /\ symbol = "L")
  <1> DEFINE k == FlushIfFull(FlushAfterGap(n))
             a == [k EXCEPT !.pattern = Append(@, symbol),
                            !.pattern_peak = Greater(@, peak),
                            !.symbol_age = 0,
                            !.pending_force = TRUE]
             m == AppendSymbol(n, symbol, peak)
             t == SetServiceMode(a, ~a.service_mode)
  <1>1. /\ k \in Nodes
        /\ \/ k = n /\ (n.pattern = <<>> \/ n.symbol_age <= GapMax)
           \/ Flushed(n, k)
    BY FlushBothGesture
  <1>2. m = IF a.pattern = ServicePattern THEN ResetPattern(t)
            ELSE IF a.pattern \in ServicePrefixes THEN a
            ELSE LatchPendingPattern(a)
    BY DEF AppendSymbol
  <1> HIDE DEF k, m
  <1>3. a \in Nodes
    <2>1. Append(k.pattern, symbol) \in Seq(Symbols)
      BY <1>1 DEF Nodes
    <2>2. Greater(k.pattern_peak, peak) \in ForceRaw
      BY <1>1 DEF Nodes, Greater
    <2>3. 0 \in Ages
      BY TimeAssumption DEF Ages
    <2> QED
      BY <1>1, <2>1, <2>2, <2>3 DEF Nodes
  <1>4. /\ a.pattern = Append(k.pattern, symbol)
        /\ a.pending_force = TRUE
        /\ a.service_mode = k.service_mode /\ a.is_pressed = k.is_pressed
    BY <1>1 DEF Nodes
  <1>5. k.service_mode = n.service_mode /\ k.is_pressed = n.is_pressed
    BY <1>1 DEF Flushed
  <1> HIDE DEF a
  <1>6. CASE a.pattern = ServicePattern
    <2>1. k.pattern = <<"S", "S">> /\ symbol = "L"
      BY <1>1, <1>4, <1>6, AppendCompletes DEF Nodes
    <2>2. TwoTaps(n) /\ symbol = "L"
      BY <1>1, <2>1 DEF Flushed, TwoTaps
    <2>3. t \in Nodes /\ t.is_pressed = a.is_pressed
      BY <1>3, ToggleTyped
    <2>4. m.is_pressed = n.is_pressed
      BY <1>2, <1>4, <1>5, <1>6, <2>3, ResetPatternGesture
    <2> QED
      BY <2>2, <2>4 DEF m
  <1>7. CASE a.pattern # ServicePattern /\ a.pattern \in ServicePrefixes
    BY <1>2, <1>4, <1>5, <1>7 DEF m
  <1>8. CASE a.pattern # ServicePattern /\ a.pattern \notin ServicePrefixes
    <2>1. m = LatchPendingPattern(a) /\ Flushed(a, m)
      BY <1>2, <1>3, <1>8, LatchPendingPatternGesture
    <2> QED
      BY <1>4, <1>5, <2>1 DEF Flushed, m
  <1> QED
    BY <1>6, <1>7, <1>8

LEMMA HoldPressGesture ==
  ASSUME NEW n \in Nodes, NEW raw \in ForceRaw
  PROVE  LET m == HoldPress(n, raw)
         IN  /\ m.service_mode = n.service_mode
             /\ m.pending_force = n.pending_force
             /\ n.event_latched => m.event_latched
  <1> DEFINE k == IF n.is_pressed
                  THEN [n EXCEPT !.press_peak = Greater(@, raw)]
                  ELSE [n EXCEPT !.is_pressed = TRUE, !.press_age = 0, !.press_peak = raw]
             l == LatchEvent(k, "FORCE", k.press_peak)
             h == [l EXCEPT !.was_high["FORCE"] = TRUE]
  <1>1. k \in Nodes
    <2>1. 0 \in Ages /\ Greater(n.press_peak, raw) \in ForceRaw
      BY TimeAssumption DEF Ages, Greater, Nodes
    <2> QED
      BY <2>1 DEF Nodes
  <1>2. /\ k.service_mode = n.service_mode /\ k.pending_force = n.pending_force
        /\ k.event_latched = n.event_latched
    BY DEF Nodes
  <1>3. HoldPress(n, raw) = h \/ HoldPress(n, raw) = k
    BY DEF HoldPress
  <1> HIDE DEF k
  <1>4. l \in Nodes /\ SameGesture(k, l)
    <2>1. k.press_peak \in Readable /\ "FORCE" \in Sources
      BY <1>1 DEF Nodes, Readable, Sources
    <2> QED
      BY <1>1, <2>1, LatchEventGesture
  <1> HIDE DEF l
  <1>5. /\ h.service_mode = l.service_mode /\ h.pending_force = l.pending_force
        /\ h.event_latched = l.event_latched
    BY <1>4 DEF Nodes
  <1> QED
    BY <1>2, <1>3, <1>4, <1>5 DEF SameGesture

\* The end of a press completes the gesture only if the press was long.
LEMMA EndPressGesture ==
  ASSUME NEW n \in Nodes, n.is_pressed
  PROVE  Justified(n, EndPress(n))
  <1> DEFINE k == [n EXCEPT !.is_pressed = FALSE, !.press_age = 0, !.press_peak = 0]
             l == LatchEvent(k, "FORCE", n.press_peak)
  <1>1. n.press_peak \in ForceRaw /\ n.press_peak \in Readable /\ "FORCE" \in Sources
    BY DEF Nodes, Readable, Sources
  <1>2. k \in Nodes
    <2>1. 0 \in Ages /\ 0 \in ForceRaw
      BY TimeAssumption, RawAssumption DEF Ages
    <2> QED
      BY <2>1 DEF Nodes
  <1>3. /\ k.is_pressed = FALSE
        /\ k.service_mode = n.service_mode /\ k.pattern = n.pattern
        /\ k.symbol_age = n.symbol_age /\ k.pending_force = n.pending_force
    BY DEF Nodes
  <1>4. \/ EndPress(n) = AppendSymbol(k, "S", n.press_peak)
        \/ n.press_age >= LongMin /\ EndPress(n) = AppendSymbol(k, "L", n.press_peak)
        \/ EndPress(n) = ResetPattern(l)
    BY DEF EndPress
  <1> HIDE DEF k
  <1>5. CASE EndPress(n) = AppendSymbol(k, "S", n.press_peak)
    BY <1>1, <1>2, <1>3, <1>5, AppendSymbolGesture DEF Justified, Symbols
  <1>6. CASE n.press_age >= LongMin /\ EndPress(n) = AppendSymbol(k, "L", n.press_peak)
    BY <1>1, <1>2, <1>3, <1>6, AppendSymbolGesture
       DEF Justified, Completes, TwoTaps, Symbols
  <1>7. CASE EndPress(n) = ResetPattern(l)
    BY <1>1, <1>2, <1>3, <1>7, LatchEventGesture, ResetPatternGesture
       DEF Justified, SameGesture
  <1> QED
    BY <1>4, <1>5, <1>6, <1>7

LEMMA UnloadGesture ==
  ASSUME NEW n \in Nodes, NEW raw \in ForceRaw
  PROVE  /\ n.is_pressed => Justified(n, Unload(n, raw))
         /\ ~n.is_pressed => SameGesture(n, Unload(n, raw))
  <1> DEFINE b == n.was_high["FORCE"] /\ raw + Hysteresis["FORCE"] >= n.limit["FORCE"]
             k == [n EXCEPT !.was_high["FORCE"] = b]
  <1>1. b \in BOOLEAN
    OBVIOUS
  <1>2. Unload(n, raw) = IF n.is_pressed THEN EndPress(k) ELSE k
    BY DEF Unload
  <1> HIDE DEF b
  <1>3. k \in Nodes /\ SameGesture(n, k)
    BY <1>1 DEF Nodes, SameGesture
  <1> HIDE DEF k
  <1>4. n.is_pressed => Justified(k, EndPress(k))
    BY <1>3, EndPressGesture DEF SameGesture
  <1> QED
    BY <1>2, <1>3, <1>4, SameGestureJustified

LEMMA UpdateForceGesture ==
  ASSUME NEW n \in Nodes, NEW raw \in ForceRaw
  PROVE  Justified(n, UpdateForce(n, raw))
  <1> DEFINE k == [n EXCEPT !.latest_force = raw]
             f == FlushAfterGap(k)
  <1>1. k \in Nodes /\ SameGesture(n, k)
    BY DEF Nodes, SameGesture
  <1>2. \/ UpdateForce(n, raw) = HoldPress(k, raw)
        \/ k.is_pressed /\ UpdateForce(n, raw) = Unload(k, raw)
        \/ ~k.is_pressed /\ UpdateForce(n, raw) = HoldPress(f, raw)
        \/ ~k.is_pressed /\ UpdateForce(n, raw) = Unload(f, raw)
    BY DEF UpdateForce, UpdateGesture
  <1> HIDE DEF k
  <1>3. f \in Nodes /\ (f = k \/ Flushed(k, f))
    BY <1>1, FlushAfterGapGesture
  <1> HIDE DEF f
  <1>4. CASE UpdateForce(n, raw) = HoldPress(k, raw)
    BY <1>1, <1>4, HoldPressGesture, SameGestureJustified DEF Justified
  <1>5. CASE k.is_pressed /\ UpdateForce(n, raw) = Unload(k, raw)
    BY <1>1, <1>5, UnloadGesture, SameGestureJustified
  <1>6. CASE ~k.is_pressed /\ UpdateForce(n, raw) = HoldPress(f, raw)
    <2>1. Justified(k, HoldPress(f, raw))
      BY <1>3, HoldPressGesture DEF Justified, Flushed
    <2> QED
      BY <1>1, <1>6, <2>1, SameGestureJustified
  <1>7. CASE ~k.is_pressed /\ UpdateForce(n, raw) = Unload(f, raw)
    <2>1. ~f.is_pressed
      BY <1>3, <1>7 DEF Flushed
    <2>2. SameGesture(f, Unload(f, raw))
      BY <1>3, <2>1, UnloadGesture
    <2>3. Justified(k, Unload(f, raw))
      BY <1>3, <2>2, FlushedSameGesture DEF Justified, SameGesture
    <2> QED
      BY <1>1, <1>7, <2>3, SameGestureJustified
  <1> QED
    BY <1>2, <1>4, <1>5, <1>6, <1>7

-----------------------------------------------------------------------------
\* The edge detectors leave the gesture alone.

LEMMA UpdateIfReadGesture ==
  ASSUME NEW n \in Nodes, NEW s \in EnvSources, NEW r \in Readings
  PROVE  LET m == UpdateIfRead(n, s, r) IN m \in Nodes /\ SameGesture(n, m)
  <1> DEFINE up   == [n EXCEPT !.was_high[s] = TRUE]
             down == [n EXCEPT !.was_high[s] = FALSE]
  <1>1. s \in Sources /\ (r[s] = NoReading \/ r[s] \in Readable)
    BY DEF Sources, Readings, Readable
  <1>2. up \in Nodes /\ SameGesture(n, up) /\ down \in Nodes /\ SameGesture(n, down)
    BY <1>1 DEF Nodes, SameGesture
  <1>3. \/ UpdateIfRead(n, s, r) = n
        \/ UpdateIfRead(n, s, r) = down
        \/ r[s] # NoReading /\ UpdateIfRead(n, s, r) = LatchEvent(up, s, r[s])
    BY DEF UpdateIfRead, UpdateChannel
  <1> HIDE DEF up, down
  <1>4. r[s] # NoReading => /\ LatchEvent(up, s, r[s]) \in Nodes
                            /\ SameGesture(n, LatchEvent(up, s, r[s]))
    BY <1>1, <1>2, LatchEventGesture DEF SameGesture
  <1> QED
    BY <1>2, <1>3, <1>4 DEF SameGesture

LEMMA UpdateEnvironmentGesture ==
  ASSUME NEW n \in Nodes, NEW r \in Readings
  PROVE  SameGesture(n, UpdateEnvironment(n, r))
  <1> DEFINE m1 == UpdateIfRead(n, "LIGHT", r)
             m2 == UpdateIfRead(m1, "TEMP", r)
             m3 == UpdateIfRead(m2, "HUMIDITY", r)
  <1>1. UpdateEnvironment(n, r) = n \/ UpdateEnvironment(n, r) = m3
    BY DEF UpdateEnvironment
  <1>2. m1 \in Nodes /\ SameGesture(n, m1)
    BY UpdateIfReadGesture DEF EnvSources
  <1> HIDE DEF m1
  <1>3. m2 \in Nodes /\ SameGesture(m1, m2)
    BY <1>2, UpdateIfReadGesture DEF EnvSources
  <1> HIDE DEF m2
  <1>4. m3 \in Nodes /\ SameGesture(m2, m3)
    BY <1>3, UpdateIfReadGesture DEF EnvSources
  <1> QED
    BY <1>1, <1>2, <1>3, <1>4 DEF SameGesture
-----------------------------------------------------------------------------
\* The actions.

\* A command that changes neither the mode nor the record of touches.
Bystands(n, m) == m.service_mode = n.service_mode /\ m.pending_force = n.pending_force

LEMMA CommandGesture ==
  ASSUME node \in Nodes, UsbCommand \/ ClearEvent
  PROVE  Bystands(node, node') \/ (\E b \in BOOLEAN : ServiceMode(b))
  <1>1. ASSUME NEW v \in SamplingArgs, SetSampling(v)
        PROVE  Bystands(node, node')
    BY <1>1 DEF SetSampling, Nodes, Bystands
  <1>2. ASSUME NEW v \in LimitArgs["FORCE"], SetForceLimit(v)
        PROVE  Bystands(node, node')
    BY <1>2 DEF SetForceLimit, Nodes, Bystands
  <1>3. ASSUME NEW s \in EnvSources, NEW v \in LimitArgs[s], SetEnvLimit(s, v)
        PROVE  Bystands(node, node')
    BY <1>3 DEF SetEnvLimit, Nodes, Bystands
  <1>4. ASSUME NEW b \in BOOLEAN, EnableInterrupt(b)
        PROVE  Bystands(node, node')
    <2> DEFINE k == [node EXCEPT !.interrupt_enabled = b]
    <2>1. k \in Nodes /\ Bystands(node, k)
      BY DEF Nodes, Bystands
    <2>2. node' = UpdatePin(k)
      BY <1>4 DEF EnableInterrupt
    <2> HIDE DEF k
    <2> QED
      BY <2>1, <2>2, UpdatePinGesture DEF Bystands
  <1>5. CASE ClearEvent
    BY <1>5, ClearLatchGesture DEF ClearEvent, Bystands
  <1> QED
    BY <1>1, <1>2, <1>3, <1>4, <1>5 DEF UsbCommand

\* SERVICE_MODE keeps the record of touches.
LEMMA ServiceModePending ==
  ASSUME node \in Nodes, NEW b \in BOOLEAN, ServiceMode(b)
  PROVE  node'.pending_force = node.pending_force
  <1> DEFINE h == [s \in Sources |-> FALSE]
             z == [node EXCEPT !.service_mode = b, !.interrupt_enabled = ~b, !.was_high = h]
             k == [node EXCEPT !.service_mode = b, !.interrupt_enabled = ~b]
  <1>1. node' = node \/ node' = ClearLatch(z) \/ node' = UpdatePin(k)
    BY DEF ServiceMode, SetServiceMode, Nodes
  <1>2. z.pending_force = node.pending_force /\ k.pending_force = node.pending_force
    BY DEF Nodes
  <1>3. z \in Nodes /\ k \in Nodes
    <2>1. h \in [Sources -> BOOLEAN]
      OBVIOUS
    <2> HIDE DEF h
    <2> QED
      BY <2>1 DEF Nodes
  <1> HIDE DEF z, k
  <1> QED
    BY <1>1, <1>2, <1>3, UpdatePinGesture, ClearLatchGesture

LEMMA SampledGesture ==
  ASSUME node \in Nodes, Tick \/ Sample
  PROVE  Justified(node, node')
  <1> DEFINE f == [node EXCEPT !.sample_age = 0]
             e == [node EXCEPT !.sensor_age = 0]
  <1>1. CASE Tick
    BY <1>1 DEF Tick, Nodes, Justified
  <1>2. f \in Nodes /\ SameGesture(node, f) /\ e \in Nodes /\ SameGesture(node, e)
    <2>1. 0 \in 0 .. MaxSampling
      BY TimeAssumption
    <2> QED
      BY <2>1 DEF Nodes, SameGesture
  <1>3. CASE Sample
    <2>1. \/ \E raw \in ForceRaw : node' = UpdateForce(f, raw)
          \/ \E r \in Readings : node' = UpdateEnvironment(e, r)
      BY <1>3 DEF Sample, SampleForce, SampleSensors
    <2> HIDE DEF f, e
    <2>2. ASSUME NEW raw \in ForceRaw, node' = UpdateForce(f, raw)
          PROVE  Justified(node, node')
      BY <1>2, <2>2, UpdateForceGesture, SameGestureJustified
    <2>3. ASSUME NEW r \in Readings, node' = UpdateEnvironment(e, r)
          PROVE  Justified(node, node')
      BY <1>2, <2>3, UpdateEnvironmentGesture DEF SameGesture, Justified
    <2> QED
      BY <2>1, <2>2, <2>3
  <1> QED
    BY <1>1, <1>3

LEMMA ReadGesture ==
  ASSUME Core(node), Neat(node),
         \/ \E raw \in ForceRaw : ReadForce(raw)
         \/ \E raw \in ForceRaw, r \in Readings : ReadAll(raw, r)
         \/ \E r \in Readings : ReadEnvironment(r) \/ ReadLight(r)
  PROVE  Justified(node, node')
  <1>1. node \in Nodes
    BY DEF Core
  <1>2. ASSUME NEW raw \in ForceRaw, ReadForce(raw)
        PROVE  Justified(node, node')
    BY <1>1, <1>2, UpdateForceGesture DEF ReadForce
  <1>3. ASSUME NEW raw \in ForceRaw, NEW r \in Readings, ReadAll(raw, r)
        PROVE  Justified(node, node')
    <2> DEFINE f == UpdateForce(node, raw)
    <2>1. f \in Nodes
      BY UpdateForceCore DEF Core
    <2>2. Justified(node, f)
      BY <1>1, UpdateForceGesture
    <2>3. node' = UpdateEnvironment(f, r)
      BY <1>3 DEF ReadAll
    <2> HIDE DEF f
    <2> QED
      BY <2>1, <2>2, <2>3, UpdateEnvironmentGesture, JustifiedSameGesture
  <1>4. ASSUME NEW r \in Readings, ReadEnvironment(r) \/ ReadLight(r)
        PROVE  Justified(node, node')
    BY <1>1, <1>4, UpdateEnvironmentGesture
       DEF ReadEnvironment, ReadLight, SameGesture, Justified
  <1> QED
    BY <1>2, <1>3, <1>4

\* Every step is a change of mode by command, a reset, or justified.
LEMMA StepJustified ==
  ASSUME IInv, Next
  PROVE  \/ Justified(node, node')
         \/ \E b \in BOOLEAN : ServiceMode(b) /\ node'.pending_force = node.pending_force
         \/ Restart
  <1>1. Core(node) /\ Neat(node) /\ node \in Nodes
    BY IInvIsCoreNeat DEF Core
  <1>2. CASE Tick \/ Sample
    BY <1>1, <1>2, SampledGesture
  <1>3. CASE UsbCommand \/ ClearEvent
    BY <1>1, <1>3, CommandGesture, ServiceModePending DEF Bystands, Justified
  <1>4. CASE \/ \E raw \in ForceRaw : ReadForce(raw)
             \/ \E raw \in ForceRaw, r \in Readings : ReadAll(raw, r)
             \/ \E r \in Readings : ReadEnvironment(r) \/ ReadLight(r)
    BY <1>1, <1>4, ReadGesture
  <1> QED
    BY <1>2, <1>3, <1>4 DEF Next, PoweredStep, LinkCommand

-----------------------------------------------------------------------------
\* The mode changes only on a SERVICE_MODE command, by a reset, or by two
\* short presses and a long one without a pause that is too long.
THEOREM ModeIsJustified == Spec => ModeChangeJustified
  <1>1. IInv /\ [Next]_node =>
          [node'.service_mode # node.service_mode =>
             GestureCompletes \/ (\E b \in BOOLEAN : ServiceMode(b)) \/ Restart]_node
    <2> SUFFICES ASSUME IInv, Next, node'.service_mode # node.service_mode
                 PROVE  GestureCompletes \/ (\E b \in BOOLEAN : ServiceMode(b)) \/ Restart
      OBVIOUS
    <2> QED
      BY StepJustified DEF Justified, Completes, TwoTaps, GestureCompletes
  <1> QED
    BY <1>1, Invariance, PTL DEF Spec, ModeChangeJustified

\* A touch recorded as part of a gesture is not dropped: an alarm is held
\* when the record is given up, unless the node was in service mode, the
\* gesture is complete, or the node is reset.
THEOREM TouchIsNotDropped == Spec => TouchNeverDropped
  <1>1. IInv /\ [Next]_node =>
          [node.pending_force /\ ~node'.pending_force =>
             \/ node'.event_latched
             \/ node.service_mode
             \/ GestureCompletes
             \/ Restart]_node
    <2> SUFFICES ASSUME IInv, Next, node.pending_force, ~node'.pending_force
                 PROVE  \/ node'.event_latched
                        \/ node.service_mode
                        \/ GestureCompletes
                        \/ Restart
      OBVIOUS
    <2> QED
      BY StepJustified DEF Justified, Completes, TwoTaps, GestureCompletes
  <1> QED
    BY <1>1, Invariance, PTL DEF Spec, TouchNeverDropped
=============================================================================
