----------------------------- MODULE EventStream -----------------------------
(***************************************************************************)
(* AppModel of the host GUI server (host-gui/app.py) as far as threads     *)
(* share it: the connection status, the bounded queues of the browsers'    *)
(* event streams, and publish, which copies the list of subscribers under  *)
(* the lock and fills their queues after it has let go of it.  A browser   *)
(* shows what its stream or its periodic poll of /api/state brought last.  *)
(* Of a snapshot of the model, the status is kept.                         *)
(***************************************************************************)
EXTENDS Naturals, Sequences

CONSTANTS
  Publishers,  \* threads that change the model: request handlers and readers
  Browsers,
  QueueCap,    \* events a subscriber's queue holds (32)
  Nothing      \* nothing to publish, no answer under way

\* What a thread has to publish: the status, whether it has copied the list
\* of subscribers, whose queues are still to fill, and whose were full.
Events == [event : BOOLEAN, copied : BOOLEAN,
           targets : SUBSET Browsers, stale : SUBSET Browsers]

ASSUME StreamAssumption == QueueCap \in Nat \ {0} /\ Nothing \notin Events

VARIABLES
  connected,    \* state.connected
  outbox,       \* [Publishers -> the event a thread is publishing, or Nothing]
  subscribers,  \* the browsers whose queues are in self.subscribers
  queue,        \* [Browsers -> snapshots in the queue of its stream]
  stream,       \* [Browsers -> state of the thread that serves /events to it]
  joined,       \* [Browsers -> the snapshot its stream began with]
  owed,         \* [Browsers -> threads whose last change since that snapshot
                \*  has not been put into its queue], history
  polled,       \* [Browsers -> an answer of /api/state under way, or Nothing]
  view          \* [Browsers -> the status it shows]

modelVars == <<connected, outbox>>
streamVars == <<subscribers, queue, stream, joined, owed>>
browserVars == <<polled, view>>
appVars == <<modelVars, streamVars, browserVars>>

AppInit ==
  /\ connected = FALSE
  /\ outbox = [t \in Publishers |-> Nothing]
  /\ subscribers = {}
  /\ queue = [b \in Browsers |-> <<>>]
  /\ stream \in [Browsers -> {"away", "closed"}]
  /\ joined = [b \in Browsers |-> FALSE]
  /\ owed = [b \in Browsers |-> {}]
  /\ polled = [b \in Browsers |-> Nothing]
  /\ view = [b \in Browsers |-> FALSE]

-----------------------------------------------------------------------------
\* Changes of the model.  Each hands the thread an event to publish.

SetConnection(t, status) ==
  /\ connected' = status
  /\ outbox' = [outbox EXCEPT ![t] =
       [event |-> status, copied |-> FALSE, targets |-> {}, stale |-> {}]]
  /\ owed' = [b \in Browsers |->
       IF stream[b] \in {"away", "closed"} THEN {} ELSE owed[b] \cup {t}]
  /\ UNCHANGED <<subscribers, queue, stream, joined, browserVars>>

\* A line changes what the dashboard shows, never the status.
ApplyLine(t) == SetConnection(t, connected)

\* A thread does nothing else until its event is published.
Idle(t) == outbox[t] = Nothing

-----------------------------------------------------------------------------
\* publish: copy the subscribers, fill the queues, unsubscribe the full ones.

CopyTargets(t) ==
  /\ ~Idle(t) /\ ~outbox[t].copied
  /\ outbox' = [outbox EXCEPT ![t].copied = TRUE, ![t].targets = subscribers]
  /\ UNCHANGED <<connected, streamVars, browserVars>>

\* Mutant: the queues have no limit.
PutNowaitUnbounded(t, b) ==
  /\ ~Idle(t) /\ b \in outbox[t].targets
  /\ queue' = [queue EXCEPT ![b] = Append(@, outbox[t].event)]
  /\ owed' = [owed EXCEPT ![b] = @ \ {t}]
  /\ outbox' = [outbox EXCEPT ![t].targets = @ \ {b}]
  /\ UNCHANGED <<connected, subscribers, stream, joined, browserVars>>

PutNowait(t, b) ==
  /\ ~Idle(t) /\ b \in outbox[t].targets
  /\ IF Len(queue[b]) < QueueCap
     THEN /\ queue' = [queue EXCEPT ![b] = Append(@, outbox[t].event)]
          /\ owed' = [owed EXCEPT ![b] = @ \ {t}]
          /\ outbox' = [outbox EXCEPT ![t].targets = @ \ {b}]
     ELSE /\ outbox' = [outbox EXCEPT ![t].targets = @ \ {b}, ![t].stale = @ \cup {b}]
          /\ UNCHANGED <<queue, owed>>
  /\ UNCHANGED <<connected, subscribers, stream, joined, browserVars>>

\* Mutant: a full queue is not taken off the list.
DropStaleKeeps(t) ==
  /\ ~Idle(t) /\ outbox[t].copied /\ outbox[t].targets = {}
  /\ outbox' = [outbox EXCEPT ![t] = Nothing]
  /\ UNCHANGED <<connected, streamVars, browserVars>>

DropStale(t) ==
  /\ ~Idle(t) /\ outbox[t].copied /\ outbox[t].targets = {}
  /\ subscribers' = subscribers \ outbox[t].stale
  /\ outbox' = [outbox EXCEPT ![t] = Nothing]
  /\ UNCHANGED <<connected, queue, stream, joined, owed, browserVars>>

Publish(t) == CopyTargets(t) \/ (\E b \in Browsers : PutNowait(t, b)) \/ DropStale(t)

-----------------------------------------------------------------------------
\* The thread that serves /events to a browser.

\* Mutant: the snapshot is taken first and the queue registered later.
SubscribeLate(b) ==
  /\ b \notin subscribers
  /\ \/ /\ stream[b] = "closed"
        /\ stream' = [stream EXCEPT ![b] = "early"]
        /\ joined' = [joined EXCEPT ![b] = connected]
        /\ owed' = [owed EXCEPT ![b] = {}]
        /\ UNCHANGED <<subscribers, queue>>
     \/ /\ stream[b] = "early"
        /\ stream' = [stream EXCEPT ![b] = "joining"]
        /\ subscribers' = subscribers \cup {b}
        /\ queue' = [queue EXCEPT ![b] = <<>>]
        /\ UNCHANGED <<joined, owed>>
  /\ UNCHANGED <<modelVars, browserVars>>

\* A new queue is registered and the snapshot taken under one lock ...
Subscribe(b) ==
  /\ stream[b] = "closed"
  /\ stream' = [stream EXCEPT ![b] = "joining"]
  /\ subscribers' = subscribers \cup {b}
  /\ joined' = [joined EXCEPT ![b] = connected]
  /\ queue' = [queue EXCEPT ![b] = <<>>]
  /\ owed' = [owed EXCEPT ![b] = {}]
  /\ UNCHANGED <<modelVars, browserVars>>

\* ... and the snapshot is put after it, behind what was published meanwhile.
PutSnapshot(b) ==
  /\ stream[b] = "joining"
  /\ Len(queue[b]) < QueueCap
  /\ queue' = [queue EXCEPT ![b] = Append(@, joined[b])]
  /\ stream' = [stream EXCEPT ![b] = "open"]
  /\ UNCHANGED <<modelVars, subscribers, joined, owed, browserVars>>

\* The next event is written and the browser shows it.
Deliver(b) ==
  /\ stream[b] = "open" /\ queue[b] # <<>>
  /\ view' = [view EXCEPT ![b] = Head(queue[b])]
  /\ queue' = [queue EXCEPT ![b] = Tail(@)]
  /\ UNCHANGED <<modelVars, subscribers, stream, joined, owed, polled>>

\* The browser has gone: the write fails and the queue is taken off the list.
\* A thread that has copied it goes on filling a queue that nobody reads; the
\* browser's next stream has a queue of its own.
CloseStream(b) ==
  /\ stream[b] = "open"
  /\ stream' = [stream EXCEPT ![b] = "closed"]
  /\ subscribers' = subscribers \ {b}
  /\ queue' = [queue EXCEPT ![b] = <<>>]
  /\ owed' = [owed EXCEPT ![b] = {}]
  /\ outbox' = [t \in Publishers |->
       IF Idle(t) THEN Nothing
       ELSE [outbox[t] EXCEPT !.targets = @ \ {b}, !.stale = @ \ {b}]]
  /\ UNCHANGED <<connected, joined, browserVars>>

-----------------------------------------------------------------------------
\* A browser polls /api/state every 2.5 s (app.js); the answer and the events
\* of the stream come over different connections, in any order.  One that is
\* away never opens the page.

\* Mutant: the page polls only while it has no stream.
PollUntilStreamed(b) ==
  /\ stream[b] = "closed" /\ polled[b] = Nothing
  /\ polled' = [polled EXCEPT ![b] = <<connected>>]
  /\ UNCHANGED <<modelVars, streamVars, view>>

Poll(b) ==
  /\ stream[b] # "away" /\ polled[b] = Nothing
  /\ polled' = [polled EXCEPT ![b] = <<connected>>]
  /\ UNCHANGED <<modelVars, streamVars, view>>

ShowPolled(b) ==
  /\ polled[b] # Nothing
  /\ view' = [view EXCEPT ![b] = polled[b][1]]
  /\ polled' = [polled EXCEPT ![b] = Nothing]
  /\ UNCHANGED <<modelVars, streamVars>>

BrowserStep(b) ==
  Subscribe(b) \/ PutSnapshot(b) \/ Deliver(b) \/ CloseStream(b) \/ Poll(b) \/ ShowPolled(b)

AppStep == (\E t \in Publishers : Publish(t)) \/ (\E b \in Browsers : BrowserStep(b))

-----------------------------------------------------------------------------
AppTypeOK ==
  /\ connected \in BOOLEAN
  /\ outbox \in [Publishers -> Events \cup {Nothing}]
  /\ subscribers \subseteq Browsers
  /\ queue \in [Browsers -> Seq(BOOLEAN)]
  /\ \A b \in Browsers : Len(queue[b]) <= QueueCap
  /\ stream \in [Browsers -> {"away", "closed", "joining", "open"}]
  /\ joined \in [Browsers -> BOOLEAN]
  /\ owed \in [Browsers -> SUBSET Publishers]
  /\ polled \in [Browsers -> {Nothing, <<TRUE>>, <<FALSE>>}]
  /\ view \in [Browsers -> BOOLEAN]

\* A stream that is still registered has missed nothing: every change since
\* its snapshot has been put into its queue or is still being published.  A
\* browser that falls behind is taken off the list, never silently skipped,
\* and one that joins while a thread is publishing loses nothing either.
NothingMissed == \A b \in subscribers : \A t \in owed[b] : ~Idle(t)

\* Whatever order the threads publish in and whatever its stream has lost, a
\* browser ends up showing the status the server has settled on.
ViewsConverge ==
  \A b \in Browsers : stream[b] # "away" =>
    /\ <>[]connected => <>[]view[b]
    /\ <>[](~connected) => <>[](~view[b])
=============================================================================
