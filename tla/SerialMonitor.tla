---------------------------- MODULE SerialMonitor ----------------------------
(***************************************************************************)
(* SerialMonitor of host-gui/app.py: request threads start and stop the    *)
(* thread that reads the serial port, and write commands to it, while the  *)
(* reader runs.  The threads share stop_event, self.serial (guarded by     *)
(* write_lock), self.thread (not guarded) and the model.  A step is what   *)
(* one thread does between two points at which another can see it.         *)
(***************************************************************************)
EXTENDS EventStream, FiniteSets

CONSTANTS
  Handlers,     \* threads that serve requests
  Readers,      \* reader threads, one for each start
  None,         \* no thread, no port
  MaxRequests,  \* bound: connect and disconnect requests
  MaxLines      \* bound: lines read and commands written

ASSUME ThreadAssumption ==
  /\ Handlers \cap Readers = {} /\ None \notin Readers
  /\ Publishers = Handlers \cup Readers
  /\ {MaxRequests, MaxLines} \subseteq Nat

VARIABLES
  stop_event,  \* the event that tells readers to end
  serial,      \* self.serial: the reader that owns the port, or None
  thread,      \* self.thread
  pc,          \* [Publishers -> what the thread does next]
  purpose,     \* [Handlers -> the request it serves]
  ports,       \* the readers whose port is open
  plugged,     \* the device is there
  requests,    \* requests still to come
  lines,       \* lines and commands still to come
  raced        \* two requests overlapped, or a join gave up; history

shared == <<stop_event, serial, thread>>
outside == <<plugged, requests, lines, raced>>
monitorVars == <<shared, pc, purpose, ports, outside>>
vars == <<appVars, monitorVars>>

Goto(t, place) == pc' = [pc EXCEPT ![t] = place]

At(t, place) == pc[t] = place /\ Idle(t)

Alive(r) == pc[r] \notin {"unborn", "created", "done"}

Init ==
  /\ AppInit
  /\ stop_event = FALSE
  /\ serial = None /\ thread = None
  /\ pc = [t \in Publishers |-> IF t \in Handlers THEN "free" ELSE "unborn"]
  /\ purpose = [h \in Handlers |-> "disconnect"]
  /\ ports = {}
  /\ plugged = TRUE
  /\ requests \in 0 .. MaxRequests /\ lines \in 0 .. MaxLines
  /\ raced = FALSE

-----------------------------------------------------------------------------
\* POST /api/connect and /api/disconnect: start is stop, then a new thread.

Request(h, p) ==
  /\ At(h, "free") /\ requests > 0
  /\ requests' = requests - 1
  /\ raced' = (raced \/ \E g \in Handlers : pc[g] # "free")
  /\ purpose' = [purpose EXCEPT ![h] = p]
  /\ Goto(h, "stop")
  /\ UNCHANGED <<appVars, shared, ports, plugged, lines>>

SetStop(h) ==
  /\ At(h, "stop")
  /\ stop_event' = TRUE
  /\ Goto(h, "close")
  /\ UNCHANGED <<appVars, serial, thread, purpose, ports, outside>>

CloseSerial(h) ==
  /\ At(h, "close")
  /\ ports' = ports \ {serial}
  /\ serial' = None
  /\ Goto(h, "join")
  /\ UNCHANGED <<appVars, stop_event, thread, purpose, outside>>

\* Mutant: stop does not wait for the reader.
JoinSkipped(h) ==
  /\ At(h, "join")
  /\ Goto(h, "forget")
  /\ UNCHANGED <<appVars, shared, purpose, ports, outside>>

\* join waits 1.5 s.  A reader that is opening its port may take longer; any
\* other reader sees stop_event or a closed port sooner.
Join(h) ==
  /\ At(h, "join")
  /\ \/ thread \notin {r \in Readers : Alive(r)} /\ UNCHANGED raced
     \/ thread \in {r \in Readers : pc[r] = "opening"} /\ raced' = TRUE
  /\ Goto(h, "forget")
  /\ UNCHANGED <<appVars, shared, purpose, ports, plugged, requests, lines>>

ForgetThread(h) ==
  /\ At(h, "forget")
  /\ thread' = None
  /\ Goto(h, "offline")
  /\ UNCHANGED <<appVars, stop_event, serial, purpose, ports, outside>>

ReportOffline(h) ==
  /\ At(h, "offline")
  /\ SetConnection(h, FALSE)
  /\ Goto(h, IF purpose[h] = "connect" THEN "clear" ELSE "free")
  /\ UNCHANGED <<shared, purpose, ports, outside>>

ClearStop(h) ==
  /\ At(h, "clear")
  /\ stop_event' = FALSE
  /\ Goto(h, "create")
  /\ UNCHANGED <<appVars, serial, thread, purpose, ports, outside>>

CreateThread(h, r) ==
  /\ At(h, "create") /\ pc[r] = "unborn"
  /\ thread' = r
  /\ pc' = [pc EXCEPT ![h] = "start", ![r] = "created"]
  /\ UNCHANGED <<appVars, stop_event, serial, purpose, ports, outside>>

\* self.thread.start(): whatever self.thread names by now.  None, or a thread
\* that was started already, raises an exception, which ends the request.
StartThread(h) ==
  /\ At(h, "start")
  /\ pc' = IF thread \in {r \in Readers : pc[r] = "created"}
           THEN [pc EXCEPT ![h] = "free", ![thread] = "opening"]
           ELSE [pc EXCEPT ![h] = "free"]
  /\ UNCHANGED <<appVars, shared, purpose, ports, outside>>

StopAndStart(h) ==
  \/ SetStop(h) \/ CloseSerial(h) \/ Join(h) \/ ForgetThread(h) \/ ReportOffline(h)
  \/ ClearStop(h) \/ (\E r \in Readers : CreateThread(h, r)) \/ StartThread(h)

\* write_command: refused without an open port, written under the lock.
WriteCommand(h) ==
  /\ At(h, "free") /\ lines > 0
  /\ serial \in ports /\ plugged
  /\ lines' = lines - 1
  /\ ApplyLine(h)
  /\ UNCHANGED <<shared, pc, purpose, ports, plugged, requests, raced>>

-----------------------------------------------------------------------------
\* The reader thread (_run).

\* Opening takes any time and may fail.
OpenPort(r) ==
  /\ At(r, "opening") /\ plugged
  /\ ports' = ports \cup {r}
  /\ Goto(r, "attach")
  /\ UNCHANGED <<appVars, shared, purpose, outside>>

OpenFails(r) ==
  /\ At(r, "opening")
  /\ SetConnection(r, FALSE)
  /\ Goto(r, "done")
  /\ UNCHANGED <<shared, purpose, ports, outside>>

Attach(r) ==
  /\ At(r, "attach")
  /\ serial' = r
  /\ Goto(r, "report")
  /\ UNCHANGED <<appVars, stop_event, thread, purpose, ports, outside>>

ReportConnected(r) ==
  /\ At(r, "report")
  /\ SetConnection(r, TRUE)
  /\ Goto(r, "loop")
  /\ UNCHANGED <<shared, purpose, ports, outside>>

\* Mutant: the reader looks at stop_event only before its first read.
CheckStopOnce(r) ==
  /\ At(r, "loop")
  /\ Goto(r, "read")
  /\ UNCHANGED <<appVars, shared, purpose, ports, outside>>

CheckStop(r) ==
  /\ At(r, "loop")
  /\ Goto(r, IF stop_event THEN "finally" ELSE "read")
  /\ UNCHANGED <<appVars, shared, purpose, ports, outside>>

\* read returns within 0.2 s, with or without a line ...
ReadNothing(r) ==
  /\ At(r, "read") /\ r \in ports /\ plugged
  /\ Goto(r, "loop")
  /\ UNCHANGED <<appVars, shared, purpose, ports, outside>>

ReadLine(r) ==
  /\ At(r, "read") /\ r \in ports /\ plugged
  /\ lines > 0 /\ lines' = lines - 1
  /\ ApplyLine(r)
  /\ Goto(r, "loop")
  /\ UNCHANGED <<shared, purpose, ports, plugged, requests, raced>>

\* ... or fails, because the device is gone or stop has closed the port.  A
\* port closed inside read may also raise an exception that is not caught.
ReadFails(r) ==
  /\ At(r, "read") /\ (r \notin ports \/ ~plugged)
  /\ \/ SetConnection(r, FALSE)
     \/ r \notin ports /\ UNCHANGED appVars
  /\ Goto(r, "finally")
  /\ UNCHANGED <<shared, purpose, ports, outside>>

\* Mutant: the port is closed and stays attached.
FinallyKeepsAttached(r) ==
  /\ At(r, "finally")
  /\ ports' = ports \ {r}
  /\ Goto(r, "check")
  /\ UNCHANGED <<appVars, shared, purpose, outside>>

Finally(r) ==
  /\ At(r, "finally")
  /\ ports' = ports \ {r}
  /\ serial' = IF serial = r THEN None ELSE serial
  /\ Goto(r, "check")
  /\ UNCHANGED <<appVars, stop_event, thread, purpose, outside>>

CheckStopped(r) ==
  /\ At(r, "check")
  /\ Goto(r, IF stop_event THEN "done" ELSE "offline")
  /\ UNCHANGED <<appVars, shared, purpose, ports, outside>>

ReaderOffline(r) ==
  /\ At(r, "offline")
  /\ SetConnection(r, FALSE)
  /\ Goto(r, "done")
  /\ UNCHANGED <<shared, purpose, ports, outside>>

Run(r) ==
  \/ OpenPort(r) \/ OpenFails(r) \/ Attach(r) \/ ReportConnected(r) \/ CheckStop(r)
  \/ ReadNothing(r) \/ ReadLine(r) \/ ReadFails(r)
  \/ Finally(r) \/ CheckStopped(r) \/ ReaderOffline(r)

-----------------------------------------------------------------------------
\* The device is pulled out.
Unplug ==
  /\ plugged /\ plugged' = FALSE
  /\ UNCHANGED <<appVars, shared, pc, purpose, ports, requests, lines, raced>>

HandlerStep(h) ==
  (\E p \in {"connect", "disconnect"} : Request(h, p)) \/ StopAndStart(h) \/ WriteCommand(h)

Next ==
  \/ (\E h \in Handlers : HandlerStep(h))
  \/ (\E r \in Readers : Run(r))
  \/ AppStep /\ UNCHANGED monitorVars
  \/ Unplug

Spec == Init /\ [][Next]_vars

\* Threads run; opening a port may last for ever, and requests need not come.
Fairness ==
  /\ \A h \in Handlers : WF_vars(StopAndStart(h))
  /\ \A r \in Readers : WF_vars(Run(r) /\ pc[r] # "opening")
  /\ \A t \in Publishers : WF_vars(Publish(t) /\ UNCHANGED monitorVars)
  /\ \A b \in Browsers : /\ WF_vars(Poll(b) /\ UNCHANGED monitorVars)
                         /\ WF_vars(ShowPolled(b) /\ UNCHANGED monitorVars)

LiveSpec == Spec /\ Fairness

-----------------------------------------------------------------------------
HandlerPlaces == {"free", "stop", "close", "join", "forget", "offline", "clear", "create", "start"}

ReaderPlaces ==
  {"unborn", "created", "opening", "attach", "report", "loop", "read",
   "finally", "check", "offline", "done"}

TypeOK ==
  /\ AppTypeOK
  /\ stop_event \in BOOLEAN
  /\ {serial, thread} \subseteq Readers \cup {None}
  /\ DOMAIN pc = Publishers
  /\ \A h \in Handlers : pc[h] \in HandlerPlaces
  /\ \A r \in Readers : pc[r] \in ReaderPlaces
  /\ purpose \in [Handlers -> {"connect", "disconnect"}]
  /\ ports \subseteq Readers
  /\ plugged \in BOOLEAN /\ raced \in BOOLEAN
  /\ requests \in 0 .. MaxRequests /\ lines \in 0 .. MaxLines

\* Nobody is between two steps of a request or of a reader's life.
Settled ==
  /\ \A h \in Handlers : pc[h] = "free" /\ Idle(h)
  /\ \A r \in Readers : pc[r] \in {"unborn", "done", "loop", "read"} /\ Idle(r)

Reading == {r \in Readers : pc[r] \in {"loop", "read"}}

\* Commands never go astray: the port a command is written to is open and its
\* reader has not ended, however requests overlap; two locked sections, of
\* stop and of the reader's end, take the port away.
AttachedIsOpen == serial # None => serial \in ports /\ Alive(serial)

\* The status is the truth: when everything has settled, the server says
\* `connected' exactly if a thread reads the port, there is one such thread,
\* and commands go to the port it reads.  Reader and requests report in any
\* order, and the reader reports once more after it has been told to stop.
\* It holds as long as requests come one at a time and a port opens within
\* the time that stop waits.  AttachedIsOpen holds at all times.
StatusIsTrue ==
  /\ TypeOK /\ AttachedIsOpen
  /\ Settled /\ ~raced =>
       /\ connected = (Reading # {})
       /\ Cardinality(Reading) <= 1
       /\ serial # None => Reading = {serial}

\* Every port is released: once stop_event stays set, all readers end and
\* close their ports, also those self.thread and self.serial no longer name.
PortsAreReleased == <>[]stop_event => <>[](ports = {})
=============================================================================
