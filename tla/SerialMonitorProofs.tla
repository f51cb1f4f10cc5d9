-------------------------- MODULE SerialMonitorProofs --------------------------
(***************************************************************************)
(* Proofs about the threads of the host GUI server, for any number of      *)
(* request threads, readers, browsers and requests: the port commands are  *)
(* written to is open, the status is the truth when everything has         *)
(* settled, and a registered stream has missed nothing.                    *)
(*                                                                         *)
(* MonitorInv is the inductive invariant.  PortInv follows the port from   *)
(* its opening to the end of its reader; OwedInv says where a change that  *)
(* a stream has not got yet is: its list is not copied, or the stream is   *)
(* among the targets or among the stale.  OneByOne and Truthful are about  *)
(* requests that do not overlap: one thread owns the monitor, the reader   *)
(* that is alive is the one self.thread names, and a status that is not    *)
(* the truth has somebody who is about to report.                          *)
(***************************************************************************)
EXTENDS SerialMonitor, FiniteSetTheorems, SequenceTheorems, TLAPS

Active(r) == pc[r] \notin {"unborn", "done"}

Stopping(h) == pc[h] \in {"close", "join"}

Stopped(h) == pc[h] \in {"forget", "offline", "clear", "create"}

PortInv ==
  \A r \in Readers :
    /\ pc[r] = "attach" => r \in ports
    /\ serial = r => r \in ports /\ pc[r] \in {"report", "loop", "read", "finally"}

OneByOne ==
  /\ \A g, h \in Handlers : pc[g] # "free" /\ pc[h] # "free" => g = h
  /\ \A r \in Readers : Active(r) => thread = r
  /\ \A r \in Readers : pc[r] = "created" => \E h \in Handlers : pc[h] = "start"
  /\ \A h \in Handlers : Stopped(h) => \A r \in Readers : ~Active(r)
  /\ \A h \in Handlers : pc[h] = "create" => ~stop_event
  /\ \A h \in Handlers : pc[h] = "start" => thread \in Readers /\ pc[thread] = "created"
  /\ \A r \in Readers : stop_event /\ Active(r) => \E h \in Handlers : Stopping(h)

\* Somebody who has still to say that the port is gone.
WillReport ==
  \/ \E r \in Readers : pc[r] \in {"loop", "read", "finally", "check", "offline"}
  \/ \E h \in Handlers : pc[h] \in {"close", "join", "forget", "offline"}

Truthful ==
  /\ \A r \in Readers : pc[r] \in {"loop", "read"} => connected
  /\ connected => WillReport

StatusInv == ~raced => OneByOne /\ Truthful

OwedInv ==
  \A b \in subscribers : \A t \in owed[b] :
    ~Idle(t) /\ (~outbox[t].copied \/ b \in outbox[t].targets \/ b \in outbox[t].stale)

MonitorInv == TypeOK /\ PortInv /\ StatusInv /\ OwedInv

-----------------------------------------------------------------------------
\* The model and its streams, whichever thread changes it.

\* A change of the model hands a thread an event and owes it to every stream.
LEMMA SetConnectionKeeps ==
  ASSUME AppTypeOK, OwedInv, NEW t \in Publishers, NEW status \in BOOLEAN,
         SetConnection(t, status)
  PROVE  AppTypeOK' /\ OwedInv' /\ connected' = status
  <1> DEFINE e == [event |-> status, copied |-> FALSE, targets |-> {}, stale |-> {}]
  <1>1. e \in Events
    BY DEF Events
  <1>2. outbox' = [outbox EXCEPT ![t] = e]
    BY DEF SetConnection
  <1>3. outbox' \in [Publishers -> Events \cup {Nothing}] /\ outbox'[t] = e
    BY <1>1, <1>2 DEF AppTypeOK
  <1>4. \A u \in Publishers : u # t => outbox'[u] = outbox[u]
    BY <1>2 DEF AppTypeOK
  <1>5. owed' \in [Browsers -> SUBSET Publishers]
    BY DEF SetConnection, AppTypeOK
  <1>6. AppTypeOK'
    BY <1>3, <1>5 DEF SetConnection, AppTypeOK, streamVars, browserVars
  <1>7. e # Nothing /\ e.copied = FALSE
    BY <1>1, StreamAssumption
  <1>8. ASSUME NEW b \in subscribers', NEW u \in owed'[b]
        PROVE  ~Idle(u)' /\ (~outbox'[u].copied \/ b \in outbox'[u].targets \/ b \in outbox'[u].stale)
    <2>1. b \in subscribers /\ b \in Browsers
      BY <1>8 DEF SetConnection, AppTypeOK
    <2>2. u = t \/ u \in owed[b]
      BY <1>8, <2>1 DEF SetConnection, AppTypeOK
    <2>3. CASE u = t
      BY <2>3, <1>3, <1>7 DEF Idle
    <2>4. CASE u # t
      <3>1. u \in owed[b] /\ u \in Publishers
        BY <2>1, <2>2, <2>4 DEF AppTypeOK
      <3>2. outbox'[u] = outbox[u]
        BY <1>4, <3>1, <2>4
      <3> QED
        BY <2>1, <3>1, <3>2 DEF OwedInv, Idle
    <2> QED
      BY <2>3, <2>4
  <1> QED
    BY <1>6, <1>8 DEF OwedInv, SetConnection

LEMMA ApplyLineKeeps ==
  ASSUME AppTypeOK, OwedInv, NEW t \in Publishers, ApplyLine(t)
  PROVE  AppTypeOK' /\ OwedInv' /\ connected' = connected
  BY SetConnectionKeeps DEF ApplyLine, AppTypeOK

LEMMA AppStutterKeeps ==
  ASSUME AppTypeOK, OwedInv, UNCHANGED appVars
  PROVE  AppTypeOK' /\ OwedInv' /\ connected' = connected
  BY DEF AppTypeOK, OwedInv, Idle, appVars, modelVars, streamVars, browserVars

\* publish keeps track of whom it owes.
LEMMA PublishKeeps ==
  ASSUME AppTypeOK, OwedInv, NEW t \in Publishers, Publish(t)
  PROVE  AppTypeOK' /\ OwedInv' /\ connected' = connected
  <1>1. ~Idle(t) /\ outbox[t] \in Events
    BY DEF Publish, CopyTargets, PutNowait, DropStale, AppTypeOK, Idle
  <1>2. CASE CopyTargets(t)
    <2> DEFINE e == [outbox[t] EXCEPT !.copied = TRUE, !.targets = subscribers]
    <2>1. e \in Events
      BY <1>1 DEF Events, AppTypeOK
    <2>2. outbox' = [outbox EXCEPT ![t] = e]
      BY <1>2, <1>1 DEF CopyTargets, AppTypeOK, Events
    <2>3. outbox' \in [Publishers -> Events \cup {Nothing}] /\ outbox'[t] = e
      BY <2>1, <2>2 DEF AppTypeOK
    <2>4. AppTypeOK'
      BY <1>2, <2>3 DEF CopyTargets, AppTypeOK, streamVars, browserVars
    <2>5. e # Nothing /\ e.targets = subscribers
      BY <2>1, <1>1, StreamAssumption DEF Events
    <2>6. \A u \in Publishers : u # t => outbox'[u] = outbox[u]
      BY <2>2 DEF AppTypeOK
    <2> HIDE DEF e
    <2>7. ASSUME NEW b \in subscribers, NEW u \in owed[b]
          PROVE  outbox'[u] # Nothing
                 /\ (~outbox'[u].copied \/ b \in outbox'[u].targets \/ b \in outbox'[u].stale)
      <3>1. u \in Publishers
        BY <2>7 DEF AppTypeOK
      <3> QED
        BY <2>3, <2>5, <2>6, <2>7, <3>1 DEF OwedInv, Idle
    <2> QED
      BY <1>2, <2>4, <2>7 DEF OwedInv, Idle, CopyTargets, streamVars
  <1>3. ASSUME NEW c \in Browsers, PutNowait(t, c)
        PROVE  AppTypeOK' /\ OwedInv' /\ connected' = connected
    <2>1. c \in outbox[t].targets
      BY <1>3 DEF PutNowait
    <2>2. CASE Len(queue[c]) < QueueCap
      <3> DEFINE e == [outbox[t] EXCEPT !.targets = @ \ {c}]
      <3>1. e \in Events
        BY <1>1 DEF Events
      <3>2. outbox' = [outbox EXCEPT ![t] = e]
        BY <1>3, <1>1, <2>2 DEF PutNowait, AppTypeOK, Events
      <3>3. outbox' \in [Publishers -> Events \cup {Nothing}] /\ outbox'[t] = e
        BY <3>1, <3>2 DEF AppTypeOK
      <3>4. /\ queue' = [queue EXCEPT ![c] = Append(@, outbox[t].event)]
            /\ owed' = [owed EXCEPT ![c] = @ \ {t}]
        BY <1>3, <2>2 DEF PutNowait
      <3>5. outbox[t].event \in BOOLEAN /\ queue[c] \in Seq(BOOLEAN)
        BY <1>1 DEF Events, AppTypeOK
      <3>6. /\ queue' \in [Browsers -> Seq(BOOLEAN)]
            /\ \A b \in Browsers : Len(queue'[b]) <= QueueCap
        BY <3>4, <3>5, <2>2, StreamAssumption DEF AppTypeOK
      <3>7. owed' \in [Browsers -> SUBSET Publishers]
        BY <3>4 DEF AppTypeOK
      <3>8. AppTypeOK'
        BY <1>3, <3>3, <3>6, <3>7 DEF PutNowait, AppTypeOK, browserVars
      <3>9. /\ e # Nothing
            /\ e.copied = outbox[t].copied /\ e.stale = outbox[t].stale
            /\ e.targets = outbox[t].targets \ {c}
        BY <3>1, <1>1, StreamAssumption DEF Events
      <3>10. \A u \in Publishers : u # t => outbox'[u] = outbox[u]
        BY <3>2 DEF AppTypeOK
      <3> HIDE DEF e
      <3>11. ASSUME NEW b \in subscribers, NEW u \in owed'[b]
             PROVE  outbox'[u] # Nothing
                 /\ (~outbox'[u].copied \/ b \in outbox'[u].targets \/ b \in outbox'[u].stale)
        <4>1. b \in Browsers
          BY <3>11 DEF AppTypeOK
        <4>2. u \in owed[b] /\ u \in Publishers /\ (u = t => b # c)
          BY <3>4, <3>11, <4>1 DEF AppTypeOK
        <4> QED
          BY <3>3, <3>9, <3>10, <3>11, <4>2 DEF OwedInv, Idle
      <3> QED
        BY <1>3, <3>8, <3>11 DEF OwedInv, Idle, PutNowait
    <2>3. CASE ~(Len(queue[c]) < QueueCap)
      <3> DEFINE e == [outbox[t] EXCEPT !.targets = @ \ {c}, !.stale = @ \cup {c}]
      <3>1. e \in Events
        BY <1>1 DEF Events
      <3>2. outbox' = [outbox EXCEPT ![t] = e]
        BY <1>3, <1>1, <2>3 DEF PutNowait, AppTypeOK, Events
      <3>3. outbox' \in [Publishers -> Events \cup {Nothing}] /\ outbox'[t] = e
        BY <3>1, <3>2 DEF AppTypeOK
      <3>4. UNCHANGED <<queue, owed>>
        BY <1>3, <2>3 DEF PutNowait
      <3>5. AppTypeOK'
        BY <1>3, <3>3, <3>4 DEF PutNowait, AppTypeOK, browserVars
      <3>6. /\ e # Nothing
            /\ e.copied = outbox[t].copied /\ e.stale = outbox[t].stale \cup {c}
            /\ e.targets = outbox[t].targets \ {c}
        BY <3>1, <1>1, StreamAssumption DEF Events
      <3>7. \A u \in Publishers : u # t => outbox'[u] = outbox[u]
        BY <3>2 DEF AppTypeOK
      <3> HIDE DEF e
      <3>8. ASSUME NEW b \in subscribers, NEW u \in owed[b]
            PROVE  outbox'[u] # Nothing
                 /\ (~outbox'[u].copied \/ b \in outbox'[u].targets \/ b \in outbox'[u].stale)
        <4>1. u \in Publishers
          BY <3>8 DEF AppTypeOK
        <4> QED
          BY <3>3, <3>6, <3>7, <3>8, <4>1 DEF OwedInv, Idle
      <3> QED
        BY <1>3, <3>4, <3>5, <3>8 DEF OwedInv, Idle, PutNowait
    <2> QED
      BY <2>2, <2>3
  <1>4. CASE DropStale(t)
    <2>1. AppTypeOK'
      BY <1>4 DEF DropStale, AppTypeOK, browserVars
    <2>2. ASSUME NEW b \in subscribers', NEW u \in owed[b]
          PROVE  outbox'[u] # Nothing
                 /\ (~outbox'[u].copied \/ b \in outbox'[u].targets \/ b \in outbox'[u].stale)
      <3>1. b \in subscribers /\ b \notin outbox[t].stale
        BY <1>4, <2>2 DEF DropStale
      <3>2. u \in Publishers
        BY <2>2, <3>1 DEF AppTypeOK
      <3>3. u # t
        BY <1>4, <2>2, <3>1 DEF DropStale, OwedInv
      <3>4. outbox'[u] = outbox[u]
        BY <1>4, <3>2, <3>3 DEF DropStale, AppTypeOK
      <3> QED
        BY <2>2, <3>1, <3>4 DEF OwedInv, Idle
    <2> QED
      BY <1>4, <2>1, <2>2 DEF OwedInv, Idle, DropStale
  <1> QED
    BY <1>2, <1>3, <1>4 DEF Publish

\* What is left of a queue fits into it.
LEMMA TailFits ==
  ASSUME NEW q \in Seq(BOOLEAN), q # <<>>
  PROVE  /\ Head(q) \in BOOLEAN /\ Tail(q) \in Seq(BOOLEAN)
         /\ Len(Tail(q)) <= Len(q) /\ Len(Tail(q)) \in Nat /\ Len(q) \in Nat
  <1>1. Len(q) \in Nat /\ Len(q) # 0
    OBVIOUS
  <1>2. Head(q) \in BOOLEAN /\ Tail(q) \in Seq(BOOLEAN)
    BY HeadTailProperties
  <1>3. Len(Tail(q)) = Len(q) - 1
    BY HeadTailProperties
  <1> QED
    BY <1>1, <1>2, <1>3

\* A queue that is made new is empty.
LEMMA EmptiedQueue ==
  ASSUME AppTypeOK, NEW b \in Browsers, queue' = [queue EXCEPT ![b] = <<>>]
  PROVE  /\ queue' \in [Browsers -> Seq(BOOLEAN)]
         /\ \A c \in Browsers : Len(queue'[c]) <= QueueCap
  <1>1. <<>> \in Seq(BOOLEAN) /\ Len(<<>>) = 0
    BY EmptySeq
  <1> QED
    BY <1>1, StreamAssumption DEF AppTypeOK

\* A stream that begins is owed nothing, one that ends is no subscriber.
LEMMA BrowserStepKeeps ==
  ASSUME AppTypeOK, OwedInv, NEW b \in Browsers, BrowserStep(b)
  PROVE  AppTypeOK' /\ OwedInv' /\ connected' = connected
  <1>1. CASE Subscribe(b)
    <2>1. AppTypeOK'
      BY <1>1, EmptiedQueue DEF Subscribe, AppTypeOK, modelVars, browserVars
    <2>2. \A c \in subscribers' : c \in Browsers /\ (c = b \/ c \in subscribers)
      BY <1>1 DEF Subscribe, AppTypeOK
    <2>3. owed'[b] = {} /\ \A c \in Browsers : c # b => owed'[c] = owed[c]
      BY <1>1 DEF Subscribe, AppTypeOK
    <2> QED
      BY <1>1, <2>1, <2>2, <2>3 DEF OwedInv, Idle, Subscribe, modelVars
  <1>2. CASE PutSnapshot(b)
    <2>1. queue[b] \in Seq(BOOLEAN) /\ joined[b] \in BOOLEAN
      BY DEF AppTypeOK
    <2>2. /\ queue' \in [Browsers -> Seq(BOOLEAN)]
          /\ \A c \in Browsers : Len(queue'[c]) <= QueueCap
      BY <1>2, <2>1, StreamAssumption DEF PutSnapshot, AppTypeOK
    <2>3. AppTypeOK'
      BY <1>2, <2>2 DEF PutSnapshot, AppTypeOK, modelVars, browserVars
    <2> QED
      BY <1>2, <2>3 DEF PutSnapshot, OwedInv, Idle, modelVars
  <1>3. CASE Deliver(b)
    <2>1. queue[b] \in Seq(BOOLEAN) /\ queue[b] # <<>>
      BY <1>3 DEF Deliver, AppTypeOK
    <2>2. /\ Head(queue[b]) \in BOOLEAN
          /\ Tail(queue[b]) \in Seq(BOOLEAN) /\ Len(Tail(queue[b])) <= Len(queue[b])
          /\ Len(queue[b]) \in Nat /\ Len(Tail(queue[b])) \in Nat
      BY <2>1, TailFits
    <2>3. Len(queue[b]) <= QueueCap
      BY DEF AppTypeOK
    <2>4. /\ queue' \in [Browsers -> Seq(BOOLEAN)]
          /\ \A c \in Browsers : Len(queue'[c]) <= QueueCap
      BY <1>3, <2>2, <2>3, StreamAssumption DEF Deliver, AppTypeOK
    <2>5. AppTypeOK'
      BY <1>3, <2>2, <2>4 DEF Deliver, AppTypeOK, modelVars
    <2> QED
      BY <1>3, <2>5 DEF Deliver, OwedInv, Idle, modelVars
  <1>4. CASE CloseStream(b)
    <2> DEFINE Left(e) == [e EXCEPT !.targets = @ \ {b}, !.stale = @ \ {b}]
    <2>1. ASSUME NEW e \in Events
          PROVE  /\ Left(e) \in Events /\ Left(e) # Nothing
                 /\ Left(e).copied = e.copied
                 /\ Left(e).targets = e.targets \ {b} /\ Left(e).stale = e.stale \ {b}
      BY StreamAssumption DEF Events
    <2>2. outbox' = [t \in Publishers |-> IF Idle(t) THEN Nothing ELSE Left(outbox[t])]
      BY <1>4 DEF CloseStream
    <2> HIDE DEF Left
    <2>3. outbox' \in [Publishers -> Events \cup {Nothing}]
      BY <2>1, <2>2 DEF AppTypeOK, Idle
    <2>4. AppTypeOK'
      BY <1>4, <2>3, EmptiedQueue DEF CloseStream, AppTypeOK, browserVars
    <2>5. ASSUME NEW c \in subscribers', NEW u \in owed'[c]
          PROVE  outbox'[u] # Nothing
                 /\ (~outbox'[u].copied \/ c \in outbox'[u].targets \/ c \in outbox'[u].stale)
      <3>1. c \in subscribers /\ c \in Browsers /\ c # b
        BY <1>4, <2>5 DEF CloseStream, AppTypeOK
      <3>2. u \in owed[c] /\ u \in Publishers
        BY <1>4, <2>5, <3>1 DEF CloseStream, AppTypeOK
      <3>3. outbox[u] \in Events /\ outbox'[u] = Left(outbox[u])
        BY <2>2, <3>1, <3>2 DEF OwedInv, Idle, AppTypeOK
      <3> QED
        BY <2>1, <3>1, <3>2, <3>3 DEF OwedInv, Idle
    <2> QED
      BY <1>4, <2>4, <2>5 DEF OwedInv, Idle, CloseStream
  <1>5. CASE Poll(b)
    BY <1>5 DEF Poll, AppTypeOK, OwedInv, Idle, modelVars, streamVars
  <1>6. CASE ShowPolled(b)
    <2>1. polled[b] \in {<<TRUE>>, <<FALSE>>}
      BY <1>6 DEF ShowPolled, AppTypeOK
    <2>2. <<TRUE>>[1] \in BOOLEAN /\ <<FALSE>>[1] \in BOOLEAN
      OBVIOUS
    <2>3. polled[b][1] \in BOOLEAN
      BY <2>1, <2>2, Zenon
    <2>4. AppTypeOK'
      BY <1>6, <2>3 DEF ShowPolled, AppTypeOK, modelVars, streamVars
    <2> QED
      BY <1>6, <2>4 DEF ShowPolled, OwedInv, Idle, modelVars, streamVars
  <1> QED
    BY <1>1, <1>2, <1>3, <1>4, <1>5, <1>6 DEF BrowserStep

-----------------------------------------------------------------------------
\* One thread moves, the others stay where they are.

LEMMA HandlerMoves ==
  ASSUME TypeOK, NEW h \in Handlers, NEW place \in HandlerPlaces, Goto(h, place)
  PROVE  /\ DOMAIN pc' = Publishers
         /\ pc'[h] = place /\ \A g \in Handlers : g # h => pc'[g] = pc[g]
         /\ \A r \in Readers : pc'[r] = pc[r]
         /\ \A g \in Handlers : pc'[g] \in HandlerPlaces
         /\ \A r \in Readers : pc'[r] \in ReaderPlaces
  BY ThreadAssumption DEF TypeOK, Goto

LEMMA ReaderMoves ==
  ASSUME TypeOK, NEW r \in Readers, NEW place \in ReaderPlaces, Goto(r, place)
  PROVE  /\ DOMAIN pc' = Publishers
         /\ pc'[r] = place /\ \A q \in Readers : q # r => pc'[q] = pc[q]
         /\ \A g \in Handlers : pc'[g] = pc[g]
         /\ \A g \in Handlers : pc'[g] \in HandlerPlaces
         /\ \A q \in Readers : pc'[q] \in ReaderPlaces
  BY ThreadAssumption DEF TypeOK, Goto

\* Requests come and stop what runs.
LEMMA RequestKeeps ==
  ASSUME MonitorInv, NEW h \in Handlers, NEW p \in {"connect", "disconnect"}, Request(h, p)
  PROVE  MonitorInv'
  <1> USE DEF MonitorInv
  <1>1. AppTypeOK' /\ OwedInv' /\ connected' = connected
    BY AppStutterKeeps DEF Request, TypeOK
  <1>2. /\ DOMAIN pc' = Publishers
        /\ pc'[h] = "stop" /\ \A g \in Handlers : g # h => pc'[g] = pc[g]
        /\ \A r \in Readers : pc'[r] = pc[r]
        /\ \A g \in Handlers : pc'[g] \in HandlerPlaces
        /\ \A r \in Readers : pc'[r] \in ReaderPlaces
    BY HandlerMoves DEF Request, HandlerPlaces
  <1>3. TypeOK'
    BY <1>1, <1>2, ThreadAssumption DEF TypeOK, Request, shared
  <1>4. PortInv'
    BY <1>2 DEF PortInv, Request, shared
  <1>5. StatusInv'
    <2>1. ~raced' => ~raced /\ \A g \in Handlers : pc[g] = "free"
      BY DEF Request
    <2> QED
      BY <1>1, <1>2, <2>1 DEF StatusInv, OneByOne, Truthful, WillReport, Active, Stopped, Stopping,
           Request, shared, At
  <1> QED
    BY <1>1, <1>3, <1>4, <1>5

LEMMA SetStopKeeps ==
  ASSUME MonitorInv, NEW h \in Handlers, SetStop(h)
  PROVE  MonitorInv'
  <1> USE DEF MonitorInv
  <1>1. AppTypeOK' /\ OwedInv' /\ connected' = connected
    BY AppStutterKeeps DEF SetStop, TypeOK
  <1>2. /\ DOMAIN pc' = Publishers
        /\ pc'[h] = "close" /\ \A g \in Handlers : g # h => pc'[g] = pc[g]
        /\ \A r \in Readers : pc'[r] = pc[r]
        /\ \A g \in Handlers : pc'[g] \in HandlerPlaces
        /\ \A r \in Readers : pc'[r] \in ReaderPlaces
    BY HandlerMoves DEF SetStop, HandlerPlaces
  <1>3. TypeOK'
    BY <1>1, <1>2 DEF TypeOK, SetStop, outside
  <1>4. PortInv'
    BY <1>2 DEF PortInv, SetStop
  <1>5. StatusInv'
    BY <1>1, <1>2 DEF StatusInv, OneByOne, Truthful, WillReport, Active, Stopped, Stopping,
         SetStop, outside, At
  <1> QED
    BY <1>1, <1>3, <1>4, <1>5

LEMMA CloseSerialKeeps ==
  ASSUME MonitorInv, NEW h \in Handlers, CloseSerial(h)
  PROVE  MonitorInv'
  <1> USE DEF MonitorInv
  <1>1. AppTypeOK' /\ OwedInv' /\ connected' = connected
    BY AppStutterKeeps DEF CloseSerial, TypeOK
  <1>2. /\ DOMAIN pc' = Publishers
        /\ pc'[h] = "join" /\ \A g \in Handlers : g # h => pc'[g] = pc[g]
        /\ \A r \in Readers : pc'[r] = pc[r]
        /\ \A g \in Handlers : pc'[g] \in HandlerPlaces
        /\ \A r \in Readers : pc'[r] \in ReaderPlaces
    BY HandlerMoves DEF CloseSerial, HandlerPlaces
  <1>3. TypeOK'
    BY <1>1, <1>2 DEF TypeOK, CloseSerial, outside
  <1>4. PortInv'
    BY <1>2, ThreadAssumption DEF PortInv, CloseSerial
  <1>5. StatusInv'
    BY <1>1, <1>2 DEF StatusInv, OneByOne, Truthful, WillReport, Active, Stopped, Stopping,
         CloseSerial, outside, At
  <1> QED
    BY <1>1, <1>3, <1>4, <1>5

\* Unless it gives up, join leaves no reader that is alive; one that is made
\* and not started belongs to a request that is about to start it.
LEMMA JoinKeeps ==
  ASSUME MonitorInv, NEW h \in Handlers, Join(h)
  PROVE  MonitorInv'
  <1> USE DEF MonitorInv
  <1>1. AppTypeOK' /\ OwedInv' /\ connected' = connected
    BY AppStutterKeeps DEF Join, TypeOK
  <1>2. /\ DOMAIN pc' = Publishers
        /\ pc'[h] = "forget" /\ \A g \in Handlers : g # h => pc'[g] = pc[g]
        /\ \A r \in Readers : pc'[r] = pc[r]
        /\ \A g \in Handlers : pc'[g] \in HandlerPlaces
        /\ \A r \in Readers : pc'[r] \in ReaderPlaces
    BY HandlerMoves DEF Join, HandlerPlaces
  <1>3. TypeOK'
    BY <1>1, <1>2 DEF TypeOK, Join, shared
  <1>4. PortInv'
    BY <1>2 DEF PortInv, Join, shared
  <1>5. StatusInv'
    <2> SUFFICES ASSUME ~raced' PROVE (OneByOne /\ Truthful)'
      BY DEF StatusInv
    <2>1. ~raced /\ thread \notin {r \in Readers : Alive(r)}
      BY DEF Join, TypeOK
    <2>2. OneByOne /\ Truthful
      BY <2>1 DEF StatusInv
    <2>3. \A r \in Readers : ~Active(r)
      BY <2>1, <2>2 DEF OneByOne, Active, Alive, Join, At
    <2>4. OneByOne'
      BY <1>2, <2>2, <2>3 DEF OneByOne, Active, Stopped, Stopping, Join, shared, At
    <2>5. Truthful'
      BY <1>1, <1>2, <2>2, <2>3 DEF Truthful, WillReport
    <2> QED
      BY <2>4, <2>5
  <1> QED
    BY <1>1, <1>3, <1>4, <1>5

LEMMA ForgetThreadKeeps ==
  ASSUME MonitorInv, NEW h \in Handlers, ForgetThread(h)
  PROVE  MonitorInv'
  <1> USE DEF MonitorInv
  <1>1. AppTypeOK' /\ OwedInv' /\ connected' = connected
    BY AppStutterKeeps DEF ForgetThread, TypeOK
  <1>2. /\ DOMAIN pc' = Publishers
        /\ pc'[h] = "offline" /\ \A g \in Handlers : g # h => pc'[g] = pc[g]
        /\ \A r \in Readers : pc'[r] = pc[r]
        /\ \A g \in Handlers : pc'[g] \in HandlerPlaces
        /\ \A r \in Readers : pc'[r] \in ReaderPlaces
    BY HandlerMoves DEF ForgetThread, HandlerPlaces
  <1>3. TypeOK'
    BY <1>1, <1>2 DEF TypeOK, ForgetThread, outside
  <1>4. PortInv'
    BY <1>2 DEF PortInv, ForgetThread
  <1>5. StatusInv'
    BY <1>1, <1>2 DEF StatusInv, OneByOne, Truthful, WillReport, Active, Stopped, Stopping,
         ForgetThread, outside, At
  <1> QED
    BY <1>1, <1>3, <1>4, <1>5

LEMMA ReportOfflineKeeps ==
  ASSUME MonitorInv, NEW h \in Handlers, ReportOffline(h)
  PROVE  MonitorInv'
  <1> USE DEF MonitorInv
  <1>1. AppTypeOK' /\ OwedInv' /\ connected' = FALSE
    BY SetConnectionKeeps, ThreadAssumption DEF ReportOffline, TypeOK
  <1>2. /\ DOMAIN pc' = Publishers
        /\ pc'[h] \in {"clear", "free"} /\ \A g \in Handlers : g # h => pc'[g] = pc[g]
        /\ \A r \in Readers : pc'[r] = pc[r]
        /\ \A g \in Handlers : pc'[g] \in HandlerPlaces
        /\ \A r \in Readers : pc'[r] \in ReaderPlaces
    BY HandlerMoves DEF ReportOffline, HandlerPlaces
  <1>3. TypeOK'
    BY <1>1, <1>2 DEF TypeOK, ReportOffline, shared, outside
  <1>4. PortInv'
    BY <1>2 DEF PortInv, ReportOffline, shared
  <1>5. StatusInv'
    BY <1>1, <1>2 DEF StatusInv, OneByOne, Truthful, WillReport, Active, Stopped, Stopping,
         ReportOffline, shared, outside, At
  <1> QED
    BY <1>1, <1>3, <1>4, <1>5

LEMMA ClearStopKeeps ==
  ASSUME MonitorInv, NEW h \in Handlers, ClearStop(h)
  PROVE  MonitorInv'
  <1> USE DEF MonitorInv
  <1>1. AppTypeOK' /\ OwedInv' /\ connected' = connected
    BY AppStutterKeeps DEF ClearStop, TypeOK
  <1>2. /\ DOMAIN pc' = Publishers
        /\ pc'[h] = "create" /\ \A g \in Handlers : g # h => pc'[g] = pc[g]
        /\ \A r \in Readers : pc'[r] = pc[r]
        /\ \A g \in Handlers : pc'[g] \in HandlerPlaces
        /\ \A r \in Readers : pc'[r] \in ReaderPlaces
    BY HandlerMoves DEF ClearStop, HandlerPlaces
  <1>3. TypeOK'
    BY <1>1, <1>2 DEF TypeOK, ClearStop, outside
  <1>4. PortInv'
    BY <1>2 DEF PortInv, ClearStop
  <1>5. StatusInv'
    BY <1>1, <1>2 DEF StatusInv, OneByOne, Truthful, WillReport, Active, Stopped, Stopping,
         ClearStop, outside, At
  <1> QED
    BY <1>1, <1>3, <1>4, <1>5

\* The thread that is made is the only one, and self.thread names it.
LEMMA CreateThreadKeeps ==
  ASSUME MonitorInv, NEW h \in Handlers, NEW r \in Readers, CreateThread(h, r)
  PROVE  MonitorInv'
  <1> USE DEF MonitorInv
  <1>1. AppTypeOK' /\ OwedInv' /\ connected' = connected
    BY AppStutterKeeps DEF CreateThread, TypeOK
  <1>2. /\ DOMAIN pc' = Publishers
        /\ pc'[h] = "start" /\ \A g \in Handlers : g # h => pc'[g] = pc[g]
        /\ pc'[r] = "created" /\ \A q \in Readers : q # r => pc'[q] = pc[q]
        /\ \A g \in Handlers : pc'[g] \in HandlerPlaces
        /\ \A q \in Readers : pc'[q] \in ReaderPlaces
    BY ThreadAssumption DEF CreateThread, TypeOK, HandlerPlaces, ReaderPlaces
  <1>3. TypeOK'
    BY <1>1, <1>2 DEF TypeOK, CreateThread, outside
  <1>4. PortInv'
    BY <1>2 DEF PortInv, CreateThread
  <1>5. StatusInv'
    BY <1>1, <1>2 DEF StatusInv, OneByOne, Truthful, WillReport, Active, Stopped, Stopping,
         CreateThread, outside, At
  <1> QED
    BY <1>1, <1>3, <1>4, <1>5

LEMMA StartThreadKeeps ==
  ASSUME MonitorInv, NEW h \in Handlers, StartThread(h)
  PROVE  MonitorInv'
  <1> USE DEF MonitorInv
  <1>1. AppTypeOK' /\ OwedInv' /\ connected' = connected
    BY AppStutterKeeps DEF StartThread, TypeOK
  <1>2. CASE thread \in Readers /\ pc[thread] = "created"
    <2>1. /\ DOMAIN pc' = Publishers
          /\ pc'[h] = "free" /\ \A g \in Handlers : g # h => pc'[g] = pc[g]
          /\ pc'[thread] = "opening" /\ \A q \in Readers : q # thread => pc'[q] = pc[q]
          /\ \A g \in Handlers : pc'[g] \in HandlerPlaces
          /\ \A q \in Readers : pc'[q] \in ReaderPlaces
      BY <1>2, ThreadAssumption DEF StartThread, TypeOK, HandlerPlaces, ReaderPlaces
    <2>2. TypeOK'
      BY <1>1, <2>1 DEF TypeOK, StartThread, shared, outside
    <2>3. PortInv'
      BY <1>2, <2>1 DEF PortInv, StartThread, shared
    <2>4. StatusInv'
      BY <1>1, <1>2, <2>1 DEF StatusInv, OneByOne, Truthful, WillReport, Active, Stopped, Stopping,
           StartThread, shared, outside, At
    <2> QED
      BY <1>1, <2>2, <2>3, <2>4
  <1>3. CASE ~(thread \in Readers /\ pc[thread] = "created")
    <2>1. /\ DOMAIN pc' = Publishers
          /\ pc'[h] = "free" /\ \A g \in Handlers : g # h => pc'[g] = pc[g]
          /\ \A q \in Readers : pc'[q] = pc[q]
          /\ \A g \in Handlers : pc'[g] \in HandlerPlaces
          /\ \A q \in Readers : pc'[q] \in ReaderPlaces
      BY <1>3, ThreadAssumption DEF StartThread, TypeOK, HandlerPlaces, ReaderPlaces
    <2>2. TypeOK'
      BY <1>1, <2>1 DEF TypeOK, StartThread, shared, outside
    <2>3. PortInv'
      BY <2>1 DEF PortInv, StartThread, shared
    <2>4. StatusInv'
      BY <1>3 DEF StatusInv, OneByOne, StartThread, outside, At
    <2> QED
      BY <1>1, <2>2, <2>3, <2>4
  <1> QED
    BY <1>2, <1>3

LEMMA WriteCommandKeeps ==
  ASSUME MonitorInv, NEW h \in Handlers, WriteCommand(h)
  PROVE  MonitorInv'
  <1> USE DEF MonitorInv
  <1>1. AppTypeOK' /\ OwedInv' /\ connected' = connected
    BY ApplyLineKeeps, ThreadAssumption DEF WriteCommand, TypeOK
  <1>2. TypeOK'
    BY <1>1, ThreadAssumption DEF TypeOK, WriteCommand, shared
  <1>3. PortInv'
    BY DEF PortInv, WriteCommand, shared
  <1>4. StatusInv'
    BY <1>1 DEF StatusInv, OneByOne, Truthful, WillReport, Active, Stopped, Stopping,
         WriteCommand, shared
  <1> QED
    BY <1>1, <1>2, <1>3, <1>4

-----------------------------------------------------------------------------
\* A port is open before it is attached, and until its reader ends or stop
\* takes it away.
LEMMA OpenPortKeeps ==
  ASSUME MonitorInv, NEW r \in Readers, OpenPort(r)
  PROVE  MonitorInv'
  <1> USE DEF MonitorInv
  <1>1. AppTypeOK' /\ OwedInv' /\ connected' = connected
    BY AppStutterKeeps DEF OpenPort, TypeOK
  <1>2. /\ DOMAIN pc' = Publishers
        /\ pc'[r] = "attach" /\ \A q \in Readers : q # r => pc'[q] = pc[q]
        /\ \A g \in Handlers : pc'[g] = pc[g]
        /\ \A g \in Handlers : pc'[g] \in HandlerPlaces
        /\ \A q \in Readers : pc'[q] \in ReaderPlaces
    BY ReaderMoves DEF OpenPort, ReaderPlaces
  <1>3. TypeOK'
    BY <1>1, <1>2 DEF TypeOK, OpenPort, shared, outside
  <1>4. PortInv'
    BY <1>2 DEF PortInv, OpenPort, shared, At
  <1>5. StatusInv'
    BY <1>1, <1>2 DEF StatusInv, OneByOne, Truthful, WillReport, Active, Stopped, Stopping,
         OpenPort, shared, outside, At
  <1> QED
    BY <1>1, <1>3, <1>4, <1>5

LEMMA OpenFailsKeeps ==
  ASSUME MonitorInv, NEW r \in Readers, OpenFails(r)
  PROVE  MonitorInv'
  <1> USE DEF MonitorInv
  <1>1. AppTypeOK' /\ OwedInv' /\ connected' = FALSE
    BY SetConnectionKeeps, ThreadAssumption DEF OpenFails, TypeOK
  <1>2. /\ DOMAIN pc' = Publishers
        /\ pc'[r] = "done" /\ \A q \in Readers : q # r => pc'[q] = pc[q]
        /\ \A g \in Handlers : pc'[g] = pc[g]
        /\ \A g \in Handlers : pc'[g] \in HandlerPlaces
        /\ \A q \in Readers : pc'[q] \in ReaderPlaces
    BY ReaderMoves DEF OpenFails, ReaderPlaces
  <1>3. TypeOK'
    BY <1>1, <1>2 DEF TypeOK, OpenFails, shared, outside
  <1>4. PortInv'
    BY <1>2 DEF PortInv, OpenFails, shared, At
  <1>5. StatusInv'
    BY <1>1, <1>2 DEF StatusInv, OneByOne, Truthful, WillReport, Active, Stopped, Stopping,
         OpenFails, shared, outside, At
  <1> QED
    BY <1>1, <1>3, <1>4, <1>5

LEMMA AttachKeeps ==
  ASSUME MonitorInv, NEW r \in Readers, Attach(r)
  PROVE  MonitorInv'
  <1> USE DEF MonitorInv
  <1>1. AppTypeOK' /\ OwedInv' /\ connected' = connected
    BY AppStutterKeeps DEF Attach, TypeOK
  <1>2. /\ DOMAIN pc' = Publishers
        /\ pc'[r] = "report" /\ \A q \in Readers : q # r => pc'[q] = pc[q]
        /\ \A g \in Handlers : pc'[g] = pc[g]
        /\ \A g \in Handlers : pc'[g] \in HandlerPlaces
        /\ \A q \in Readers : pc'[q] \in ReaderPlaces
    BY ReaderMoves DEF Attach, ReaderPlaces
  <1>3. TypeOK'
    BY <1>1, <1>2 DEF TypeOK, Attach, shared, outside
  <1>4. PortInv'
    BY <1>2 DEF PortInv, Attach, shared, At
  <1>5. StatusInv'
    BY <1>1, <1>2 DEF StatusInv, OneByOne, Truthful, WillReport, Active, Stopped, Stopping,
         Attach, shared, outside, At
  <1> QED
    BY <1>1, <1>3, <1>4, <1>5

\* Of requests that do not overlap only one reader is alive, so what it
\* reports is what holds.
LEMMA ReportConnectedKeeps ==
  ASSUME MonitorInv, NEW r \in Readers, ReportConnected(r)
  PROVE  MonitorInv'
  <1> USE DEF MonitorInv
  <1>1. AppTypeOK' /\ OwedInv' /\ connected' = TRUE
    BY SetConnectionKeeps, ThreadAssumption DEF ReportConnected, TypeOK
  <1>2. /\ DOMAIN pc' = Publishers
        /\ pc'[r] = "loop" /\ \A q \in Readers : q # r => pc'[q] = pc[q]
        /\ \A g \in Handlers : pc'[g] = pc[g]
        /\ \A g \in Handlers : pc'[g] \in HandlerPlaces
        /\ \A q \in Readers : pc'[q] \in ReaderPlaces
    BY ReaderMoves DEF ReportConnected, ReaderPlaces
  <1>3. TypeOK'
    BY <1>1, <1>2 DEF TypeOK, ReportConnected, shared, outside
  <1>4. PortInv'
    BY <1>2 DEF PortInv, ReportConnected, shared, At
  <1>5. StatusInv'
    BY <1>1, <1>2 DEF StatusInv, OneByOne, Truthful, WillReport, Active, Stopped, Stopping,
         ReportConnected, shared, outside, At
  <1> QED
    BY <1>1, <1>3, <1>4, <1>5

LEMMA CheckStopKeeps ==
  ASSUME MonitorInv, NEW r \in Readers, CheckStop(r)
  PROVE  MonitorInv'
  <1> USE DEF MonitorInv
  <1>1. AppTypeOK' /\ OwedInv' /\ connected' = connected
    BY AppStutterKeeps DEF CheckStop, TypeOK
  <1>2. /\ DOMAIN pc' = Publishers
        /\ pc'[r] \in {"finally", "read"} /\ \A q \in Readers : q # r => pc'[q] = pc[q]
        /\ \A g \in Handlers : pc'[g] = pc[g]
        /\ \A g \in Handlers : pc'[g] \in HandlerPlaces
        /\ \A q \in Readers : pc'[q] \in ReaderPlaces
    BY ReaderMoves DEF CheckStop, ReaderPlaces
  <1>3. TypeOK'
    BY <1>1, <1>2 DEF TypeOK, CheckStop, shared, outside
  <1>4. PortInv'
    BY <1>2 DEF PortInv, CheckStop, shared, At
  <1>5. StatusInv'
    BY <1>1, <1>2 DEF StatusInv, OneByOne, Truthful, WillReport, Active, Stopped, Stopping,
         CheckStop, shared, outside, At
  <1> QED
    BY <1>1, <1>3, <1>4, <1>5

LEMMA ReadNothingKeeps ==
  ASSUME MonitorInv, NEW r \in Readers, ReadNothing(r)
  PROVE  MonitorInv'
  <1> USE DEF MonitorInv
  <1>1. AppTypeOK' /\ OwedInv' /\ connected' = connected
    BY AppStutterKeeps DEF ReadNothing, TypeOK
  <1>2. /\ DOMAIN pc' = Publishers
        /\ pc'[r] = "loop" /\ \A q \in Readers : q # r => pc'[q] = pc[q]
        /\ \A g \in Handlers : pc'[g] = pc[g]
        /\ \A g \in Handlers : pc'[g] \in HandlerPlaces
        /\ \A q \in Readers : pc'[q] \in ReaderPlaces
    BY ReaderMoves DEF ReadNothing, ReaderPlaces
  <1>3. TypeOK'
    BY <1>1, <1>2 DEF TypeOK, ReadNothing, shared, outside
  <1>4. PortInv'
    BY <1>2 DEF PortInv, ReadNothing, shared, At
  <1>5. StatusInv'
    BY <1>1, <1>2 DEF StatusInv, OneByOne, Truthful, WillReport, Active, Stopped, Stopping,
         ReadNothing, shared, outside, At
  <1> QED
    BY <1>1, <1>3, <1>4, <1>5

LEMMA ReadLineKeeps ==
  ASSUME MonitorInv, NEW r \in Readers, ReadLine(r)
  PROVE  MonitorInv'
  <1> USE DEF MonitorInv
  <1>1. AppTypeOK' /\ OwedInv' /\ connected' = connected
    BY ApplyLineKeeps, ThreadAssumption DEF ReadLine, TypeOK
  <1>2. /\ DOMAIN pc' = Publishers
        /\ pc'[r] = "loop" /\ \A q \in Readers : q # r => pc'[q] = pc[q]
        /\ \A g \in Handlers : pc'[g] = pc[g]
        /\ \A g \in Handlers : pc'[g] \in HandlerPlaces
        /\ \A q \in Readers : pc'[q] \in ReaderPlaces
    BY ReaderMoves DEF ReadLine, ReaderPlaces
  <1>3. TypeOK'
    BY <1>1, <1>2, ThreadAssumption DEF TypeOK, ReadLine, shared, outside
  <1>4. PortInv'
    BY <1>2 DEF PortInv, ReadLine, shared, At
  <1>5. StatusInv'
    BY <1>1, <1>2 DEF StatusInv, OneByOne, Truthful, WillReport, Active, Stopped, Stopping,
         ReadLine, shared, outside, At
  <1> QED
    BY <1>1, <1>3, <1>4, <1>5

LEMMA ReadFailsKeeps ==
  ASSUME MonitorInv, NEW r \in Readers, ReadFails(r)
  PROVE  MonitorInv'
  <1> USE DEF MonitorInv
  <1>1. AppTypeOK' /\ OwedInv' /\ connected' \in {FALSE, connected}
    BY SetConnectionKeeps, AppStutterKeeps, ThreadAssumption DEF ReadFails, TypeOK
  <1>2. /\ DOMAIN pc' = Publishers
        /\ pc'[r] = "finally" /\ \A q \in Readers : q # r => pc'[q] = pc[q]
        /\ \A g \in Handlers : pc'[g] = pc[g]
        /\ \A g \in Handlers : pc'[g] \in HandlerPlaces
        /\ \A q \in Readers : pc'[q] \in ReaderPlaces
    BY ReaderMoves DEF ReadFails, ReaderPlaces
  <1>3. TypeOK'
    BY <1>1, <1>2 DEF TypeOK, ReadFails, shared, outside
  <1>4. PortInv'
    BY <1>2 DEF PortInv, ReadFails, shared, At
  <1>5. StatusInv'
    BY <1>1, <1>2 DEF StatusInv, OneByOne, Truthful, WillReport, Active, Stopped, Stopping,
         ReadFails, shared, outside, At
  <1> QED
    BY <1>1, <1>3, <1>4, <1>5

LEMMA FinallyKeeps ==
  ASSUME MonitorInv, NEW r \in Readers, Finally(r)
  PROVE  MonitorInv'
  <1> USE DEF MonitorInv
  <1>1. AppTypeOK' /\ OwedInv' /\ connected' = connected
    BY AppStutterKeeps DEF Finally, TypeOK
  <1>2. /\ DOMAIN pc' = Publishers
        /\ pc'[r] = "check" /\ \A q \in Readers : q # r => pc'[q] = pc[q]
        /\ \A g \in Handlers : pc'[g] = pc[g]
        /\ \A g \in Handlers : pc'[g] \in HandlerPlaces
        /\ \A q \in Readers : pc'[q] \in ReaderPlaces
    BY ReaderMoves DEF Finally, ReaderPlaces
  <1>3. TypeOK'
    BY <1>1, <1>2 DEF TypeOK, Finally, shared, outside
  <1>4. PortInv'
    BY <1>2, ThreadAssumption DEF PortInv, Finally, shared, At
  <1>5. StatusInv'
    BY <1>1, <1>2 DEF StatusInv, OneByOne, Truthful, WillReport, Active, Stopped, Stopping,
         Finally, shared, outside, At
  <1> QED
    BY <1>1, <1>3, <1>4, <1>5

\* A reader that has been told to stop leaves the report to the request that
\* told it, which is still waiting in join.
LEMMA CheckStoppedKeeps ==
  ASSUME MonitorInv, NEW r \in Readers, CheckStopped(r)
  PROVE  MonitorInv'
  <1> USE DEF MonitorInv
  <1>1. AppTypeOK' /\ OwedInv' /\ connected' = connected
    BY AppStutterKeeps DEF CheckStopped, TypeOK
  <1>2. /\ DOMAIN pc' = Publishers
        /\ pc'[r] \in {"done", "offline"} /\ \A q \in Readers : q # r => pc'[q] = pc[q]
        /\ \A g \in Handlers : pc'[g] = pc[g]
        /\ \A g \in Handlers : pc'[g] \in HandlerPlaces
        /\ \A q \in Readers : pc'[q] \in ReaderPlaces
    BY ReaderMoves DEF CheckStopped, ReaderPlaces
  <1>3. TypeOK'
    BY <1>1, <1>2 DEF TypeOK, CheckStopped, shared, outside
  <1>4. PortInv'
    BY <1>2 DEF PortInv, CheckStopped, shared, At
  <1>5. (stop_event => pc'[r] = "done") /\ (~stop_event => pc'[r] = "offline")
    BY ReaderMoves DEF CheckStopped, ReaderPlaces
  <1>6. StatusInv'
    BY <1>1, <1>2, <1>5 DEF StatusInv, OneByOne, Truthful, WillReport, Active, Stopped, Stopping,
         CheckStopped, shared, outside, At
  <1> QED
    BY <1>1, <1>3, <1>4, <1>6

LEMMA ReaderOfflineKeeps ==
  ASSUME MonitorInv, NEW r \in Readers, ReaderOffline(r)
  PROVE  MonitorInv'
  <1> USE DEF MonitorInv
  <1>1. AppTypeOK' /\ OwedInv' /\ connected' = FALSE
    BY SetConnectionKeeps, ThreadAssumption DEF ReaderOffline, TypeOK
  <1>2. /\ DOMAIN pc' = Publishers
        /\ pc'[r] = "done" /\ \A q \in Readers : q # r => pc'[q] = pc[q]
        /\ \A g \in Handlers : pc'[g] = pc[g]
        /\ \A g \in Handlers : pc'[g] \in HandlerPlaces
        /\ \A q \in Readers : pc'[q] \in ReaderPlaces
    BY ReaderMoves DEF ReaderOffline, ReaderPlaces
  <1>3. TypeOK'
    BY <1>1, <1>2 DEF TypeOK, ReaderOffline, shared, outside
  <1>4. PortInv'
    BY <1>2 DEF PortInv, ReaderOffline, shared, At
  <1>5. StatusInv'
    BY <1>1, <1>2 DEF StatusInv, OneByOne, Truthful, WillReport, Active, Stopped, Stopping,
         ReaderOffline, shared, outside, At
  <1> QED
    BY <1>1, <1>3, <1>4, <1>5

-----------------------------------------------------------------------------
\* A thread that publishes and a browser move no thread of the monitor.
LEMMA OthersKeep ==
  ASSUME MonitorInv, AppTypeOK', OwedInv', connected' = connected,
         UNCHANGED <<shared, pc, purpose, ports, requests, lines, raced>>, plugged' \in BOOLEAN
  PROVE  MonitorInv'
  BY DEF MonitorInv, TypeOK, PortInv, StatusInv, OneByOne, Truthful, WillReport, Active,
         Stopped, Stopping, shared

LEMMA MonitorStep ==
  ASSUME MonitorInv, [Next]_vars
  PROVE  MonitorInv'
  <1>1. CASE \E h \in Handlers : HandlerStep(h)
    <2>1. PICK h \in Handlers : HandlerStep(h)
      BY <1>1
    <2>2. CASE \E p \in {"connect", "disconnect"} : Request(h, p)
      BY <2>2, RequestKeeps
    <2>3. CASE StopAndStart(h)
      BY <2>3, SetStopKeeps, CloseSerialKeeps, JoinKeeps, ForgetThreadKeeps, ReportOfflineKeeps,
         ClearStopKeeps, CreateThreadKeeps, StartThreadKeeps DEF StopAndStart
    <2>4. CASE WriteCommand(h)
      BY <2>4, WriteCommandKeeps
    <2> QED
      BY <2>1, <2>2, <2>3, <2>4 DEF HandlerStep
  <1>2. CASE \E r \in Readers : Run(r)
    BY <1>2, OpenPortKeeps, OpenFailsKeeps, AttachKeeps, ReportConnectedKeeps, CheckStopKeeps,
       ReadNothingKeeps, ReadLineKeeps, ReadFailsKeeps, FinallyKeeps, CheckStoppedKeeps,
       ReaderOfflineKeeps DEF Run
  <1>3. CASE AppStep /\ UNCHANGED monitorVars
    <2>1. AppTypeOK' /\ OwedInv' /\ connected' = connected
      BY <1>3, PublishKeeps, BrowserStepKeeps DEF AppStep, MonitorInv, TypeOK
    <2> QED
      BY <1>3, <2>1, OthersKeep DEF monitorVars, outside, MonitorInv, TypeOK
  <1>4. CASE Unplug
    <2>1. AppTypeOK' /\ OwedInv' /\ connected' = connected
      BY <1>4, AppStutterKeeps DEF Unplug, MonitorInv, TypeOK
    <2> QED
      BY <1>4, <2>1, OthersKeep DEF Unplug, MonitorInv
  <1>5. CASE UNCHANGED vars
    <2>1. AppTypeOK' /\ OwedInv' /\ connected' = connected
      BY <1>5, AppStutterKeeps DEF vars, MonitorInv, TypeOK
    <2> QED
      BY <1>5, <2>1, OthersKeep DEF vars, monitorVars, outside, MonitorInv, TypeOK
  <1> QED
    BY <1>1, <1>2, <1>3, <1>4, <1>5 DEF Next

LEMMA MonitorInit ==
  ASSUME Init
  PROVE  MonitorInv
  <1>1. <<>> \in Seq(BOOLEAN) /\ Len(<<>>) = 0
    BY EmptySeq
  <1>2. AppTypeOK
    <2>1. /\ queue \in [Browsers -> Seq(BOOLEAN)]
          /\ \A b \in Browsers : Len(queue[b]) <= QueueCap
      BY <1>1, StreamAssumption DEF Init, AppInit
    <2>2. stream \in [Browsers -> {"away", "closed", "joining", "open"}]
      BY DEF Init, AppInit
    <2> QED
      BY <2>1, <2>2 DEF Init, AppInit, AppTypeOK
  <1>3. /\ \A h \in Handlers : pc[h] = "free"
        /\ \A r \in Readers : pc[r] = "unborn"
        /\ DOMAIN pc = Publishers
    BY ThreadAssumption DEF Init
  <1>4. TypeOK
    BY <1>2, <1>3, ThreadAssumption DEF Init, TypeOK, HandlerPlaces, ReaderPlaces
  <1>5. PortInv /\ StatusInv /\ OwedInv
    BY <1>3, ThreadAssumption DEF Init, AppInit, PortInv, StatusInv, OneByOne, Truthful, WillReport,
         Active, Stopped, Stopping, OwedInv
  <1> QED
    BY <1>4, <1>5 DEF MonitorInv

\* Types, ports, threads and what the streams are owed, in every state.
THEOREM MonitorInvariance == Spec => []MonitorInv
  <1>1. Init => MonitorInv
    BY MonitorInit
  <1>2. MonitorInv /\ [Next]_vars => MonitorInv'
    BY MonitorStep
  <1> QED
    BY <1>1, <1>2, PTL DEF Spec

-----------------------------------------------------------------------------
\* However requests overlap and whichever port fails, commands are written to
\* an open port of a living reader; and when nothing is under way, and no
\* requests have overlapped, the status says exactly whether a thread reads.
THEOREM StatusIsTheTruth == Spec => []StatusIsTrue
  <1>1. ASSUME MonitorInv PROVE StatusIsTrue
    <2> USE <1>1 DEF MonitorInv
    <2>1. TypeOK
      OBVIOUS
    <2>2. AttachedIsOpen
      BY DEF AttachedIsOpen, TypeOK, PortInv, Alive
    <2>3. ASSUME Settled, ~raced
          PROVE  /\ connected = (Reading # {})
                 /\ Cardinality(Reading) <= 1
                 /\ serial # None => Reading = {serial}
      <3>1. OneByOne /\ Truthful
        BY <2>3 DEF StatusInv
      <3>2. Reading \subseteq {thread}
        BY <3>1 DEF OneByOne, Active, Reading
      <3>3. Cardinality(Reading) <= 1
        <4>1. IsFiniteSet({thread}) /\ Cardinality({thread}) = 1
          BY FS_Singleton
        <4> QED
          BY <3>2, <4>1, FS_Subset
      <3>4. connected => Reading # {}
        BY <2>3, <3>1 DEF Truthful, WillReport, Settled, Reading
      <3>5. Reading # {} => connected
        BY <3>1 DEF Truthful, Reading
      <3>6. connected = (Reading # {})
        BY <3>4, <3>5 DEF TypeOK, AppTypeOK
      <3>7. serial # None => serial \in Reading
        BY <2>3 DEF TypeOK, PortInv, Settled, Reading
      <3> QED
        BY <3>2, <3>3, <3>6, <3>7
    <2> QED
      BY <2>1, <2>2, <2>3 DEF StatusIsTrue
  <1> QED
    BY <1>1, MonitorInvariance, PTL

\* A stream that is still registered has missed nothing, whatever the threads
\* publish at the same time, whoever joins meanwhile and whoever falls behind.
THEOREM NoChangeIsMissed == Spec => []NothingMissed
  <1>1. MonitorInv => NothingMissed
    BY DEF MonitorInv, OwedInv, NothingMissed
  <1> QED
    BY <1>1, MonitorInvariance, PTL
=============================================================================
