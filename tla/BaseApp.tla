------------------------------- MODULE BaseApp -------------------------------
(***************************************************************************)
(* The application of the base station (base-station/src/main.c): it       *)
(* starts the driver, sends the sensor node its settings, tries again each *)
(* second if that fails, and in its main loop runs the commands the host   *)
(* types.  An interrupt handler puts the characters into a queue; the main *)
(* loop is the only one that takes them out, and it does not run while the *)
(* node is being configured, which takes two seconds.                      *)
(*                                                                         *)
(* A character is a line and a place in it.  Every line changes one        *)
(* setting.  The node may start, restart and be set by its own user at any *)
(* time; its defaults are the values the base sends.                       *)
(***************************************************************************)
EXTENDS Naturals, Sequences, SequencesExt

CONSTANTS
  LineLen,    \* the lengths of the lines the host types, without the LF
  QueueCap,   \* characters in host_rx_msgq (256)
  CmdMax,     \* characters a command can have (79)
  MaxResets   \* bound: resets of the base and of the node

ASSUME AppAssumption ==
  /\ LineLen \in Seq(Nat \ {0})
  /\ QueueCap \in Nat \ {0} /\ CmdMax \in Nat \ {0} /\ MaxResets \in Nat

VARIABLES
  phase,           \* "boot", "start", "configure" or "loop"
  step,            \* the setting configure_sensor_node sends next
  uart_dev,        \* the driver has found its UART
  hardware_ready,  \* configure_hardware has succeeded
  driver_started,
  typed,           \* the next character the host types
  queue,           \* host_rx_msgq
  cmd,             \* the command being collected
  executed,        \* commands run so far, history
  dropped,         \* characters that never reached cmd, history
  node_up,         \* the node listens
  node_set,        \* settings in which the node differs from the base's values
  changed,         \* settings some user has sent since the base started, history
  lost,            \* settings that differ because the base's frame was lost, history
  resets

driver == <<uart_dev, hardware_ready, driver_started>>
app == <<phase, step, driver>>
console == <<typed, queue, cmd, executed, dropped>>
settings == <<node_set, changed, lost>>
vars == <<app, console, node_up, settings, resets>>

Settings ==
  <<"FORCE_THRESHOLD", "SAMPLING_RATE", "LIGHT_HIGH", "TEMP_HIGH", "HUMIDITY_HIGH",
    "SERVICE_MODE", "INTERRUPT">>

Lines == DOMAIN LineLen

\* The setting a line changes: the lines go through the settings in turn.
Setting(l) == Settings[((l - 1) % Len(Settings)) + 1]

Char(l, p) == [line |-> l, pos |-> p]

\* The characters of a line; the LF is the one after them.
Text(l) == [p \in 1 .. LineLen[l] |-> Char(l, p)]

IsLF(ch) == ch.pos = LineLen[ch.line] + 1

Init ==
  /\ phase = "boot" /\ step = 1
  /\ uart_dev = FALSE /\ hardware_ready = FALSE /\ driver_started = FALSE
  /\ typed = Char(1, 1)
  /\ queue = <<>> /\ cmd = <<>> /\ executed = <<>> /\ dropped = {}
  /\ node_up \in BOOLEAN
  /\ node_set \in IF node_up THEN {{}, {Settings[1]}} ELSE {{}}
  /\ changed = {} /\ lost = {}
  /\ resets = 0

-----------------------------------------------------------------------------
\* Starting the driver.

\* main sleeps for a second.
Boot ==
  /\ phase = "boot"
  /\ phase' = "start"
  /\ UNCHANGED <<step, driver, console, node_up, settings, resets>>

\* sensor_node_driver_start: the UART, the GPIO and its interrupt are set up
\* in turn; what has been found stays found when a later part fails.
StartSucceeds ==
  /\ phase = "start"
  /\ uart_dev' = TRUE /\ hardware_ready' = TRUE
  /\ phase' = "configure" /\ step' = 1
  /\ UNCHANGED <<driver_started, console, node_up, settings, resets>>

StartFails ==
  /\ phase = "start" /\ ~hardware_ready
  /\ uart_dev' \in {uart_dev, TRUE}
  /\ phase' = "loop"
  /\ UNCHANGED <<step, hardware_ready, driver_started, console, node_up, settings, resets>>

\* A node that listens takes a setting.
Sets(s, differs) ==
  node_set' = IF ~node_up THEN node_set
              ELSE IF differs THEN node_set \cup {s} ELSE node_set \ {s}

\* The base sends a setting and does not look at the reply: the frame may be
\* lost, damaged or in a receiver the node does not empty while it measures.
Sends(s, differs) ==
  \/ Sets(s, differs) /\ lost' = lost \ {s}
  \/ /\ UNCHANGED node_set
     /\ lost' = IF differs THEN lost ELSE lost \cup ({s} \cap node_set)

\* Mutant: the first setting is taken for sent.
ConfigureStepSkips ==
  /\ phase = "configure" /\ step <= Len(Settings)
  /\ IF step = 1 THEN UNCHANGED <<node_set, lost>> ELSE Sends(Settings[step], FALSE)
  /\ step' = step + 1
  /\ UNCHANGED <<phase, driver, console, node_up, changed, resets>>

\* configure_sensor_node: a setting is sent and the driver serviced for 250 ms.
ConfigureStep ==
  /\ phase = "configure" /\ step <= Len(Settings)
  /\ Sends(Settings[step], FALSE)
  /\ step' = step + 1
  /\ UNCHANGED <<phase, driver, console, node_up, changed, resets>>

\* READ_CONFIG comes last.
Configured ==
  /\ phase = "configure" /\ step > Len(Settings)
  /\ driver_started' = TRUE
  /\ phase' = "loop"
  /\ UNCHANGED <<step, uart_dev, hardware_ready, console, node_up, settings, resets>>

\* Mutant: only the start made at boot is ever tried.
RetryNever ==
  /\ phase = "loop" /\ ~driver_started /\ hardware_ready
  /\ phase' = "start"
  /\ UNCHANGED <<step, driver, console, node_up, settings, resets>>

\* The main loop tries again, at most once a second.
Retry ==
  /\ phase = "loop" /\ ~driver_started
  /\ phase' = "start"
  /\ UNCHANGED <<step, driver, console, node_up, settings, resets>>

-----------------------------------------------------------------------------
\* The host console.

\* Mutant: when the queue is full the oldest character makes room.
ReceiveCharPurges ==
  /\ typed.line \in Lines
  /\ typed' = IF IsLF(typed) THEN Char(typed.line + 1, 1) ELSE Char(typed.line, typed.pos + 1)
  /\ queue' = IF Len(queue) < QueueCap THEN Append(queue, typed) ELSE Append(Tail(queue), typed)
  /\ UNCHANGED <<app, cmd, executed, dropped, node_up, settings, resets>>

\* host_console_uart_isr: put without waiting.
ReceiveChar ==
  /\ typed.line \in Lines
  /\ typed' = IF IsLF(typed) THEN Char(typed.line + 1, 1) ELSE Char(typed.line, typed.pos + 1)
  /\ IF Len(queue) < QueueCap
     THEN queue' = Append(queue, typed) /\ UNCHANGED dropped
     ELSE dropped' = dropped \cup {typed} /\ UNCHANGED queue
  /\ UNCHANGED <<app, cmd, executed, node_up, settings, resets>>

\* Mutant: the command is still in the buffer after it has been run.
HandleHostCommandKeeps ==
  /\ executed' = Append(executed, cmd)
  /\ UNCHANGED <<cmd, settings>>

\* handle_host_command: of a line that came whole, the setting goes out if the
\* driver has a UART; anything else is an unknown command.
HandleHostCommand ==
  /\ executed' = Append(executed, cmd)
  /\ cmd' = <<>>
  /\ LET sent == {Setting(l) : l \in {k \in Lines : uart_dev /\ cmd = Text(k)}}
     IN  IF sent = {} THEN UNCHANGED settings
         ELSE /\ Sends(CHOOSE s \in sent : TRUE, TRUE)
              /\ changed' = changed \cup sent

\* Mutant: the limit is tested one character too late.
CollectTooFar(ch) == cmd' = IF Len(cmd) < CmdMax + 1 THEN Append(cmd, ch) ELSE <<>>

\* A character too many throws away what has been collected; the rest of the
\* line is then taken for a command of its own.
Collect(ch) == cmd' = IF Len(cmd) < CmdMax THEN Append(cmd, ch) ELSE <<>>

\* Mutant: commands wait until the driver has been started.
ProcessHostConsoleLate ==
  /\ phase = "loop" /\ queue # <<>> /\ driver_started
  /\ queue' = Tail(queue)
  /\ IF IsLF(Head(queue))
     THEN HandleHostCommand
     ELSE Collect(Head(queue)) /\ UNCHANGED <<executed, settings>>
  /\ UNCHANGED <<app, typed, dropped, node_up, resets>>

\* process_host_console takes one character; CR is skipped and not modelled.
ProcessHostConsole ==
  /\ phase = "loop" /\ queue # <<>>
  /\ queue' = Tail(queue)
  /\ IF IsLF(Head(queue))
     THEN HandleHostCommand
     ELSE Collect(Head(queue)) /\ UNCHANGED <<executed, settings>>
  /\ UNCHANGED <<app, typed, dropped, node_up, resets>>

-----------------------------------------------------------------------------
\* The node and resets.

NodeUserSets ==
  /\ node_up
  /\ Sets(Settings[1], TRUE)
  /\ changed' = changed \cup {Settings[1]}
  /\ UNCHANGED <<app, console, node_up, lost, resets>>

\* Mutant: the node starts with values of its own.
NodeStartsDiffering ==
  /\ ~node_up /\ node_up' = TRUE
  /\ node_set' = {Settings[2]}
  /\ UNCHANGED <<app, console, changed, lost, resets>>

\* The node sleeps two seconds before it opens its UART.
NodeStarts ==
  /\ ~node_up /\ node_up' = TRUE
  /\ node_set' = {}
  /\ UNCHANGED <<app, console, changed, lost, resets>>

NodeResets ==
  /\ node_up /\ resets < MaxResets
  /\ node_up' = FALSE /\ node_set' = {} /\ lost' = {}
  /\ resets' = resets + 1
  /\ UNCHANGED <<app, console, changed>>

\* What had been typed and not run is lost.
BaseResets ==
  /\ resets < MaxResets /\ resets' = resets + 1
  /\ phase' = "boot" /\ step' = 1
  /\ uart_dev' = FALSE /\ hardware_ready' = FALSE /\ driver_started' = FALSE
  /\ queue' = <<>> /\ cmd' = <<>>
  /\ dropped' = dropped \cup ToSet(queue) \cup ToSet(cmd)
  /\ changed' = {} /\ lost' = {}
  /\ UNCHANGED <<typed, executed, node_up, node_set>>

-----------------------------------------------------------------------------
Next ==
  \/ Boot \/ StartSucceeds \/ StartFails \/ ConfigureStep \/ Configured \/ Retry
  \/ ReceiveChar \/ ProcessHostConsole
  \/ NodeUserSets \/ NodeStarts \/ NodeResets \/ BaseResets

Spec == Init /\ [][Next]_vars

\* The base runs, and every pass of its main loop looks at the console and at
\* the time for a retry.  Hardware that fails may fail for ever.
LiveSpec ==
  /\ Spec
  /\ WF_vars(Boot) /\ WF_vars(StartSucceeds \/ StartFails)
  /\ WF_vars(ConfigureStep \/ Configured)
  /\ WF_vars(Retry) /\ SF_vars(ProcessHostConsole)

-----------------------------------------------------------------------------
Chars == UNION {{Char(l, p) : p \in 1 .. LineLen[l] + 1} : l \in Lines}

TypeOK ==
  /\ phase \in {"boot", "start", "configure", "loop"}
  /\ step \in 1 .. Len(Settings) + 1
  /\ uart_dev \in BOOLEAN /\ hardware_ready \in BOOLEAN
  /\ driver_started \in BOOLEAN /\ node_up \in BOOLEAN
  /\ typed \in Chars \cup {Char(Len(LineLen) + 1, 1)}
  /\ queue \in Seq(Chars) /\ Len(queue) <= QueueCap
  /\ cmd \in Seq(Chars) /\ Len(cmd) <= CmdMax
  /\ executed \in Seq(Seq(Chars))
  /\ dropped \subseteq Chars
  /\ node_set \subseteq ToSet(Settings) /\ changed \subseteq ToSet(Settings)
  /\ lost \subseteq ToSet(Settings)
  /\ resets \in 0 .. MaxResets

\* Once the driver has been started, the node differs from the base's settings
\* only in what a user has sent since, and in what it had been set to before
\* and a lost frame has not set back, whoever started or restarted last.
\* Settings sent before the node listens need no exception: a node that starts
\* later starts with the same values.
NodeIsConfigured == driver_started /\ node_up => node_set \subseteq changed \cup lost

Damaged(l) == l \in Lines /\ (LineLen[l] > CmdMax \/ \E ch \in dropped : ch.line = l)

\* What is run is what was typed: one line from its first to its last
\* character.  The exceptions are lines that are too long, lines of which the
\* queue or a reset has lost a character, and the line after one of these,
\* with which it may have been joined.  The buffers are never overrun.
CommandsAreWhole ==
  /\ TypeOK
  /\ \A i \in DOMAIN executed :
       \/ executed[i] = <<>>
       \/ \E l \in Lines : executed[i] = Text(l)
       \/ \E ch \in ToSet(executed[i]) : Damaged(ch.line) \/ Damaged(ch.line - 1)

\* Damage goes no further: a line that arrived whole behind another that did
\* has been run once its LF has been taken, once, and in the order typed.
Waiting == ToSet(queue) \cup ToSet(cmd)

Ran(l) == {i \in DOMAIN executed : executed[i] = Text(l)}

IntactLinesRun ==
  /\ \A l \in Lines :
       (l < typed.line /\ ~Damaged(l) /\ ~Damaged(l - 1) /\ \A ch \in Waiting : ch.line # l)
         => \E i \in DOMAIN executed : Ran(l) = {i}
  /\ \A l, m \in Lines : l < m => \A i \in Ran(l), j \in Ran(m) : i < j

\* The base never gives up: it runs in the end, unless it is reset or its
\* hardware fails again and again.
BaseStarts ==
  <>[]driver_started \/ []<><<StartFails>>_vars \/ []<>(phase = "boot")

\* Commands are served also while the driver fails to start, and after the
\* seconds in which the node is configured.
ConsoleIsServed == []<>(queue = <<>>)
=============================================================================
