----------------------------- MODULE BaseAppProofs -----------------------------
(***************************************************************************)
(* Proofs about the application of the base station: the node is           *)
(* configured once the driver has been started, and the host's commands    *)
(* are run whole, once and in order, for any lines, any lengths of the     *)
(* queue and of the command buffer, and any number of resets.              *)
(*                                                                         *)
(* Characters are ordered by the time they are typed.  OrderInv says that  *)
(* what has been run, what is collected, what is queued and what comes     *)
(* next follow one another in this order.  A character that was typed is   *)
(* dropped, waits, or is gone; GapInv says that of those after the first   *)
(* that waits none is gone.  From this follows what the buffer holds       *)
(* (CmdInv) and that a line neither damaged nor behind a damaged one is    *)
(* either untouched or gone as a whole, by being run once (LineInv).       *)
(***************************************************************************)
EXTENDS BaseApp, SequenceTheorems, TLAPS

\* Typed earlier.
Earlier(a, b) == a.line < b.line \/ (a.line = b.line /\ a.pos < b.pos)

Intact(l) == l \in Lines /\ ~Damaged(l) /\ ~Damaged(l - 1)

Gone(ch) == Earlier(ch, typed) /\ ch \notin dropped /\ ch \notin Waiting

OrderInv ==
  /\ \A i, j \in DOMAIN executed : i < j =>
       \A a \in ToSet(executed[i]), b \in ToSet(executed[j]) : Earlier(a, b)
  /\ \A i \in DOMAIN executed : \A a \in ToSet(executed[i]) :
       Earlier(a, typed) /\ \A b \in Waiting : Earlier(a, b)
  /\ \A a \in ToSet(cmd), b \in ToSet(queue) : Earlier(a, b)
  /\ \A i, j \in DOMAIN queue : i < j => Earlier(queue[i], queue[j])
  /\ \A a \in Waiting \cup dropped : Earlier(a, typed)

GapInv == \A a \in Waiting, ch \in Chars : Gone(ch) => Earlier(ch, a)

CmdInv ==
  \A i \in DOMAIN cmd : ~IsLF(cmd[i]) /\ (Intact(cmd[i].line) => cmd[i].pos = i)

LineInv ==
  \A l \in Lines : Intact(l) =>
    \/ \A ch \in Chars : ch.line = l => ~Gone(ch)
    \/ /\ \A ch \in Chars : ch.line = l => Gone(ch)
       /\ \E i \in DOMAIN executed : Ran(l) = {i}

Whole(c) ==
  \/ c = <<>>
  \/ \E l \in Lines : c = Text(l)
  \/ \E ch \in ToSet(c) : Damaged(ch.line) \/ Damaged(ch.line - 1)

RunInv == \A i \in DOMAIN executed : Whole(executed[i])

ConsoleInv == OrderInv /\ GapInv /\ CmdInv /\ LineInv /\ RunInv

\* What the base has configured so far differs only where a user changed it or
\* its frame was lost.
NodeInv ==
  /\ node_up \/ (node_set = {} /\ lost = {})
  /\ phase = "configure" =>
       \A i \in 1 .. step - 1 : Settings[i] \in node_set => Settings[i] \in changed \cup lost
  /\ driver_started => node_set \subseteq changed \cup lost

-----------------------------------------------------------------------------
\* Characters and the order in which they are typed.

\* What `typed' can be: a character, or the end of all lines.
Places == Chars \cup {Char(Len(LineLen) + 1, 1)}

LEMMA LineFacts ==
  /\ Lines = 1 .. Len(LineLen) /\ Len(LineLen) \in Nat
  /\ \A l \in Lines : LineLen[l] \in Nat \ {0}
  BY AppAssumption DEF Lines

LEMMA CharFacts ==
  /\ \A l \in Lines : \A p \in 1 .. LineLen[l] + 1 :
       Char(l, p) \in Chars /\ Char(l, p).line = l /\ Char(l, p).pos = p
  /\ \A c \in Chars : /\ c.line \in Lines /\ c.pos \in 1 .. LineLen[c.line] + 1
                       /\ c = Char(c.line, c.pos)
  <1>1. \A l \in Lines : \A p \in 1 .. LineLen[l] + 1 :
          Char(l, p) \in Chars /\ Char(l, p).line = l /\ Char(l, p).pos = p
    BY DEF Chars, Char
  <1>2. ASSUME NEW c \in Chars
        PROVE  /\ c.line \in Lines /\ c.pos \in 1 .. LineLen[c.line] + 1
               /\ c = Char(c.line, c.pos)
    BY DEF Chars, Char
  <1> QED
    BY <1>1, <1>2

LEMMA PlaceFacts ==
  /\ Chars \subseteq Places
  /\ \A c \in Places : c.line \in Nat /\ c.pos \in Nat
  /\ \A a, b \in Places : a.line = b.line /\ a.pos = b.pos => a = b
  <1>1. /\ Char(Len(LineLen) + 1, 1).line = Len(LineLen) + 1
        /\ Char(Len(LineLen) + 1, 1).pos = 1
    BY DEF Char
  <1>2. \A c \in Places : c.line \in Nat /\ c.pos \in Nat /\ c = Char(c.line, c.pos)
    BY <1>1, CharFacts, LineFacts DEF Places
  <1> QED
    BY <1>2 DEF Places

LEMMA EarlierOrders ==
  /\ \A a \in Places : ~Earlier(a, a)
  /\ \A a, b, c \in Places : Earlier(a, b) /\ Earlier(b, c) => Earlier(a, c)
  /\ \A a, b \in Places : a = b \/ Earlier(a, b) \/ Earlier(b, a)
  BY PlaceFacts DEF Earlier

Following(c) == IF IsLF(c) THEN Char(c.line + 1, 1) ELSE Char(c.line, c.pos + 1)

LEMMA FollowingIsNext ==
  ASSUME NEW c \in Chars
  PROVE  /\ Following(c) \in Places
         /\ Earlier(c, Following(c))
         /\ \A a \in Chars : Earlier(a, Following(c)) => a = c \/ Earlier(a, c)
  <1>1. c.line \in Lines /\ c.pos \in 1 .. LineLen[c.line] + 1 /\ c.line \in Nat /\ c.pos \in Nat
    BY CharFacts, LineFacts
  <1>2. CASE IsLF(c)
    <2>1. Following(c) = Char(c.line + 1, 1) /\ c.pos = LineLen[c.line] + 1
      BY <1>2 DEF Following, IsLF
    <2>2. Char(c.line + 1, 1).line = c.line + 1 /\ Char(c.line + 1, 1).pos = 1
      BY DEF Char
    <2>3. Following(c) \in Places
      <3>1. CASE c.line = Len(LineLen)
        BY <3>1, <2>1 DEF Places
      <3>2. CASE c.line # Len(LineLen)
        <4>1. c.line + 1 \in Lines
          BY <1>1, <3>2, LineFacts
        <4>2. 1 \in 1 .. LineLen[c.line + 1] + 1
          BY <4>1, LineFacts
        <4> QED
          BY <2>1, <4>1, <4>2, CharFacts DEF Places
      <3> QED
        BY <3>1, <3>2
    <2>4. Earlier(c, Following(c))
      BY <1>1, <2>1, <2>2 DEF Earlier
    <2>5. ASSUME NEW a \in Chars, Earlier(a, Following(c)) PROVE a = c \/ Earlier(a, c)
      <3>1. a.line \in Nat /\ a.pos \in 1 .. LineLen[a.line] + 1 /\ a.line \in Lines
        BY CharFacts, LineFacts
      <3>2. a.line < c.line + 1
        BY <2>1, <2>2, <2>5, <3>1 DEF Earlier
      <3>3. a.line < c.line \/ (a.line = c.line /\ (a.pos < c.pos \/ a.pos = c.pos))
        BY <1>1, <2>1, <3>1, <3>2, LineFacts
      <3> QED
        BY <3>3, PlaceFacts DEF Earlier
    <2> QED
      BY <2>3, <2>4, <2>5
  <1>3. CASE ~IsLF(c)
    <2>1. Following(c) = Char(c.line, c.pos + 1) /\ c.pos # LineLen[c.line] + 1
      BY <1>3 DEF Following, IsLF
    <2>2. c.pos + 1 \in 1 .. LineLen[c.line] + 1
      BY <1>1, <2>1, LineFacts
    <2>3. /\ Following(c) \in Chars
          /\ Following(c).line = c.line /\ Following(c).pos = c.pos + 1
      BY <1>1, <2>1, <2>2, CharFacts
    <2>4. Earlier(c, Following(c))
      BY <1>1, <2>3 DEF Earlier
    <2>5. ASSUME NEW a \in Chars, Earlier(a, Following(c)) PROVE a = c \/ Earlier(a, c)
      <3>1. a.line \in Nat /\ a.pos \in Nat
        BY PlaceFacts
      <3>2. a.line < c.line \/ (a.line = c.line /\ (a.pos < c.pos \/ a.pos = c.pos))
        BY <1>1, <2>3, <2>5, <3>1 DEF Earlier
      <3> QED
        BY <3>2, PlaceFacts DEF Earlier
    <2> QED
      BY <2>3, <2>4, <2>5 DEF Places
  <1> QED
    BY <1>2, <1>3

\* What a sequence holds.

LEMMA ToSetOfAppend ==
  ASSUME NEW S, NEW s \in Seq(S), NEW e \in S
  PROVE  ToSet(Append(s, e)) = ToSet(s) \cup {e}
  <1>1. /\ Len(Append(s, e)) = Len(s) + 1 /\ Append(s, e)[Len(s) + 1] = e
        /\ \A i \in 1 .. Len(s) : Append(s, e)[i] = s[i]
    BY AppendProperties
  <1>2. /\ DOMAIN Append(s, e) = 1 .. Len(s) + 1 /\ DOMAIN s = 1 .. Len(s)
        /\ Len(s) \in Nat
    BY <1>1, AppendProperties
  <1> QED
    BY <1>1, <1>2 DEF ToSet

LEMMA ToSetOfTail ==
  ASSUME NEW S, NEW s \in Seq(S), s # <<>>
  PROVE  /\ Head(s) \in S /\ Tail(s) \in Seq(S) /\ Len(Tail(s)) = Len(s) - 1
         /\ Len(s) \in Nat \ {0}
         /\ ToSet(s) = {Head(s)} \cup ToSet(Tail(s))
         /\ \A i \in DOMAIN Tail(s) : i + 1 \in DOMAIN s /\ Tail(s)[i] = s[i + 1]
         /\ 1 \in DOMAIN s /\ s[1] = Head(s)
  <1>1. /\ Head(s) \in S /\ Tail(s) \in Seq(S) /\ Len(Tail(s)) = Len(s) - 1
        /\ \A i \in 1 .. Len(Tail(s)) : Tail(s)[i] = s[i + 1]
    BY HeadTailProperties
  <1>2. Len(s) \in Nat \ {0} /\ s[1] = Head(s)
    BY EmptySeq
  <1>3. DOMAIN s = 1 .. Len(s) /\ DOMAIN Tail(s) = 1 .. Len(s) - 1
    BY <1>1
  <1>4. \A i \in 1 .. Len(s) : i = 1 \/ (i - 1 \in DOMAIN Tail(s) /\ s[i] = Tail(s)[i - 1])
    BY <1>1, <1>2, <1>3
  <1>5. ToSet(s) = {Head(s)} \cup ToSet(Tail(s))
    <2>1. \A i \in DOMAIN s : s[i] \in {Head(s)} \cup ToSet(Tail(s))
      BY <1>2, <1>3, <1>4 DEF ToSet
    <2>2. \A i \in DOMAIN Tail(s) : Tail(s)[i] \in ToSet(s)
      BY <1>1, <1>2, <1>3 DEF ToSet
    <2>3. Head(s) \in ToSet(s)
      BY <1>2, <1>3 DEF ToSet
    <2> QED
      BY <2>1, <2>2, <2>3 DEF ToSet
  <1> QED
    BY <1>1, <1>2, <1>3, <1>5

LEMMA ToSetOfEmpty == ToSet(<<>>) = {}
  BY DEF ToSet

LEMMA ToSetIn ==
  ASSUME NEW S, NEW s \in Seq(S)
  PROVE  ToSet(s) \subseteq S
  BY DEF ToSet

-----------------------------------------------------------------------------
\* Types.

LEMMA SettingFacts ==
  /\ Len(Settings) = 7
  /\ \A i \in 1 .. 7 : Settings[i] \in ToSet(Settings)
  /\ \A s \in ToSet(Settings) : \E i \in 1 .. 7 : s = Settings[i]
  /\ \A l \in Lines : Setting(l) \in ToSet(Settings)
  <1>1. Len(Settings) = 7 /\ DOMAIN Settings = 1 .. 7
    BY DEF Settings
  <1>2. /\ \A i \in 1 .. 7 : Settings[i] \in ToSet(Settings)
        /\ \A s \in ToSet(Settings) : \E i \in 1 .. 7 : s = Settings[i]
    BY <1>1 DEF ToSet
  <1>3. ASSUME NEW l \in Lines PROVE Setting(l) \in ToSet(Settings)
    <2>1. ((l - 1) % 7) + 1 \in 1 .. 7
      BY LineFacts
    <2> QED
      BY <1>1, <1>2, <2>1 DEF Setting
  <1> QED
    BY <1>1, <1>2, <1>3

LEMMA SetsTypes ==
  ASSUME TypeOK, NEW s \in ToSet(Settings), NEW differs \in BOOLEAN, Sets(s, differs)
  PROVE  node_set' \subseteq ToSet(Settings)
  BY DEF TypeOK, Sets

LEMMA SendsTypes ==
  ASSUME TypeOK, NEW s \in ToSet(Settings), NEW differs \in BOOLEAN, Sends(s, differs)
  PROVE  node_set' \subseteq ToSet(Settings) /\ lost' \subseteq ToSet(Settings)
  BY SetsTypes DEF TypeOK, Sends

\* A command changes at most one setting, and remembers which.
LEMMA CommandIsRun ==
  ASSUME TypeOK, HandleHostCommand
  PROVE  /\ executed' = Append(executed, cmd) /\ cmd' = <<>>
         /\ node_set' \subseteq ToSet(Settings) /\ changed' \subseteq ToSet(Settings)
         /\ changed \subseteq changed' /\ lost' \subseteq lost
         /\ \A s \in node_set' : s \in node_set \/ (node_up /\ s \in changed')
         /\ \A s \in lost : s \in lost' \cup changed'
  <1> DEFINE sent == {Setting(l) : l \in {k \in Lines : uart_dev /\ cmd = Text(k)}}
  <1>1. executed' = Append(executed, cmd) /\ cmd' = <<>>
    BY DEF HandleHostCommand
  <1>2. sent \subseteq ToSet(Settings)
    BY SettingFacts
  <1>3. /\ sent = {} => UNCHANGED <<node_set, changed, lost>>
        /\ sent # {} => Sends(CHOOSE s \in sent : TRUE, TRUE) /\ changed' = changed \cup sent
    BY DEF HandleHostCommand, settings
  <1> HIDE DEF sent
  <1>4. sent # {} => (CHOOSE s \in sent : TRUE) \in sent
    OBVIOUS
  <1> QED
    BY <1>1, <1>2, <1>3, <1>4 DEF Sends, Sets, TypeOK

LEMMA TypeInit ==
  ASSUME Init
  PROVE  TypeOK
  <1>1. /\ <<>> \in Seq(Chars) /\ <<>> \in Seq(Seq(Chars)) /\ Len(<<>>) = 0
    BY EmptySeq
  <1>2. typed \in Places
    <2>1. CASE Len(LineLen) = 0
      BY <2>1 DEF Init, Places
    <2>2. CASE Len(LineLen) # 0
      BY <2>2, LineFacts, CharFacts DEF Init, Places
    <2> QED
      BY <2>1, <2>2
  <1>3. node_set \subseteq ToSet(Settings) /\ 1 \in 1 .. Len(Settings) + 1
    BY SettingFacts DEF Init
  <1> QED
    <2>1. Len(queue) <= QueueCap /\ Len(cmd) <= CmdMax /\ resets \in 0 .. MaxResets
      BY <1>1, AppAssumption DEF Init
    <2> QED
      BY <1>1, <1>2, <1>3, <2>1 DEF Init, TypeOK, Places

LEMMA TypeStep ==
  ASSUME TypeOK, [Next]_vars
  PROVE  TypeOK'
  <1> USE DEF app, driver, console, settings
  <1>1. CASE Boot
    BY <1>1 DEF TypeOK, Boot
  <1>2. CASE StartSucceeds
    BY <1>2, SettingFacts DEF TypeOK, StartSucceeds
  <1>3. CASE StartFails
    BY <1>3 DEF TypeOK, StartFails
  <1>4. CASE ConfigureStep
    <2>1. step \in 1 .. 7
      BY <1>4, SettingFacts DEF TypeOK, ConfigureStep
    <2>2. node_set' \subseteq ToSet(Settings) /\ lost' \subseteq ToSet(Settings)
      BY <1>4, <2>1, SettingFacts, SendsTypes DEF ConfigureStep
    <2>3. step' \in 1 .. Len(Settings) + 1
      BY <1>4, <2>1, SettingFacts DEF ConfigureStep
    <2> QED
      BY <1>4, <2>2, <2>3 DEF TypeOK, ConfigureStep
  <1>5. CASE Configured
    BY <1>5 DEF TypeOK, Configured
  <1>6. CASE Retry
    BY <1>6 DEF TypeOK, Retry
  <1>7. CASE ReceiveChar
    <2>1. typed \in Chars
      BY <1>7, LineFacts DEF ReceiveChar, TypeOK, Char
    <2>2. typed' = Following(typed)
      BY <1>7 DEF ReceiveChar, Following
    <2>3. typed' \in Places
      BY <2>1, <2>2, FollowingIsNext
    <2>4. CASE Len(queue) < QueueCap
      <3>1. queue' = Append(queue, typed) /\ dropped' = dropped
        BY <1>7, <2>4 DEF ReceiveChar
      <3>2. queue' \in Seq(Chars) /\ Len(queue') <= QueueCap
        BY <2>1, <2>4, <3>1, AppAssumption DEF TypeOK
      <3> QED
        BY <1>7, <2>3, <3>1, <3>2 DEF TypeOK, ReceiveChar, Places
    <2>5. CASE ~(Len(queue) < QueueCap)
      <3>1. queue' = queue /\ dropped' \subseteq Chars
        BY <1>7, <2>1, <2>5 DEF ReceiveChar, TypeOK
      <3> QED
        BY <1>7, <2>3, <3>1 DEF TypeOK, ReceiveChar, Places
    <2> QED
      BY <2>4, <2>5
  <1>8. CASE ProcessHostConsole
    <2>1. /\ Head(queue) \in Chars
          /\ queue' \in Seq(Chars) /\ Len(queue') = Len(queue) - 1 /\ Len(queue) \in Nat
      BY <1>8, ToSetOfTail DEF ProcessHostConsole, TypeOK
    <2>2. queue' \in Seq(Chars) /\ Len(queue') <= QueueCap
      BY <2>1, AppAssumption DEF TypeOK
    <2>3. <<>> \in Seq(Chars) /\ Len(<<>>) = 0
      BY EmptySeq
    <2>4. CASE IsLF(Head(queue))
      <3>1. HandleHostCommand
        BY <1>8, <2>4 DEF ProcessHostConsole
      <3>2. executed' = Append(executed, cmd) /\ cmd' = <<>>
        BY <3>1 DEF HandleHostCommand
      <3>3. executed' \in Seq(Seq(Chars))
        BY <3>2 DEF TypeOK
      <3>4. cmd' \in Seq(Chars) /\ Len(cmd') <= CmdMax
        BY <2>3, <3>2, AppAssumption
      <3>5. /\ node_set' \subseteq ToSet(Settings) /\ changed' \subseteq ToSet(Settings)
            /\ lost' \subseteq ToSet(Settings)
        BY <3>1, CommandIsRun DEF TypeOK
      <3> QED
        BY <1>8, <2>2, <3>3, <3>4, <3>5 DEF TypeOK, ProcessHostConsole
    <2>5. CASE ~IsLF(Head(queue))
      <3>1. Collect(Head(queue)) /\ UNCHANGED <<executed, settings>>
        BY <1>8, <2>5 DEF ProcessHostConsole
      <3>2. cmd' \in Seq(Chars) /\ Len(cmd') <= CmdMax
        BY <2>1, <2>3, <3>1, AppAssumption DEF TypeOK, Collect
      <3> QED
        BY <1>8, <2>2, <3>1, <3>2 DEF TypeOK, ProcessHostConsole
    <2> QED
      BY <2>4, <2>5
  <1>9. CASE NodeUserSets
    <2>1. Settings[1] \in ToSet(Settings)
      BY SettingFacts
    <2>2. node_set' \subseteq ToSet(Settings)
      BY <1>9, <2>1, SetsTypes DEF NodeUserSets
    <2> QED
      BY <1>9, <2>1, <2>2 DEF TypeOK, NodeUserSets
  <1>10. CASE NodeStarts
    BY <1>10 DEF TypeOK, NodeStarts
  <1>11. CASE NodeResets
    <2>1. resets' \in 0 .. MaxResets
      BY <1>11, AppAssumption DEF TypeOK, NodeResets
    <2> QED
      BY <1>11, <2>1 DEF TypeOK, NodeResets
  <1>12. CASE BaseResets
    <2>1. <<>> \in Seq(Chars) /\ Len(<<>>) = 0
      BY EmptySeq
    <2>2. dropped' \subseteq Chars
      BY <1>12, ToSetIn DEF BaseResets, TypeOK
    <2>3. step' \in 1 .. Len(Settings) + 1
      BY <1>12, SettingFacts DEF BaseResets
    <2>4. resets' \in 0 .. MaxResets
      BY <1>12, AppAssumption DEF TypeOK, BaseResets
    <2>5. Len(queue') <= QueueCap /\ Len(cmd') <= CmdMax
      BY <1>12, <2>1, AppAssumption DEF BaseResets
    <2> QED
      BY <1>12, <2>1, <2>2, <2>3, <2>4, <2>5 DEF TypeOK, BaseResets
  <1>13. CASE UNCHANGED vars
    BY <1>13 DEF TypeOK, vars
  <1> QED
    BY <1>1, <1>2, <1>3, <1>4, <1>5, <1>6, <1>7, <1>8, <1>9, <1>10, <1>11, <1>12, <1>13 DEF Next

-----------------------------------------------------------------------------
\* The node's settings.

LEMMA NodeStep ==
  ASSUME TypeOK, NodeInv, [Next]_vars
  PROVE  NodeInv'
  <1> USE DEF app, driver, console, settings
  <1>1. CASE Boot
    BY <1>1 DEF NodeInv, Boot
  <1>11. CASE StartFails
    BY <1>11 DEF NodeInv, StartFails
  <1>12. CASE Retry
    BY <1>12 DEF NodeInv, Retry
  <1>2. CASE StartSucceeds
    BY <1>2 DEF NodeInv, StartSucceeds
  <1>3. CASE ConfigureStep
    <2>1. /\ \A s \in node_set' : s \in node_set /\ (s \in lost' \/ s # Settings[step])
          /\ \A s \in node_set' \cap lost : s \in lost'
          /\ ~node_up => lost' = {} /\ node_set' = {}
      BY <1>3 DEF NodeInv, ConfigureStep, Sends, Sets
    <2>2. step \in Nat /\ step' = step + 1 /\ phase' = phase /\ changed' = changed
          /\ driver_started' = driver_started /\ node_up' = node_up
      BY <1>3, SettingFacts DEF ConfigureStep, TypeOK
    <2>3. \A i \in 1 .. step' - 1 : i = step \/ i \in 1 .. step - 1
      BY <2>2
    <2> QED
      BY <1>3, <2>1, <2>2, <2>3 DEF NodeInv, ConfigureStep
  <1>4. CASE Configured
    <2>1. step - 1 = 7
      BY <1>4, SettingFacts DEF Configured, TypeOK
    <2>2. node_set \subseteq changed \cup lost
      BY <1>4, <2>1, SettingFacts DEF Configured, NodeInv, TypeOK
    <2> QED
      BY <1>4, <2>2 DEF NodeInv, Configured
  <1>5. CASE ReceiveChar
    BY <1>5 DEF NodeInv, ReceiveChar
  <1>6. CASE ProcessHostConsole
    BY <1>6, CommandIsRun DEF NodeInv, ProcessHostConsole
  <1>7. CASE NodeUserSets
    BY <1>7 DEF NodeInv, NodeUserSets, Sets
  <1>8. CASE NodeStarts \/ NodeResets
    BY <1>8 DEF NodeInv, NodeStarts, NodeResets
  <1>9. CASE BaseResets
    BY <1>9 DEF NodeInv, BaseResets
  <1>10. CASE UNCHANGED vars
    BY <1>10 DEF NodeInv, vars
  <1> QED
    BY <1>1, <1>2, <1>3, <1>4, <1>5, <1>6, <1>7, <1>8, <1>9, <1>10, <1>11, <1>12
    DEF Next

\* Once the driver has been started, a node that listens differs from the
\* base's settings only where a user has changed one since, or where it
\* differed before and the frame that sets it back was lost, whoever was reset
\* in between and whichever settings were sent to a node that did not listen.
THEOREM SettingsAreInForce == Spec => []NodeIsConfigured
  <1>1. Init => TypeOK /\ NodeInv
    BY TypeInit DEF Init, NodeInv
  <1>2. TypeOK /\ NodeInv /\ [Next]_vars => (TypeOK /\ NodeInv)'
    BY TypeStep, NodeStep
  <1>3. NodeInv => NodeIsConfigured
    BY DEF NodeInv, NodeIsConfigured
  <1> QED
    BY <1>1, <1>2, <1>3, PTL DEF Spec

-----------------------------------------------------------------------------
\* The console: what a step that runs nothing leaves as it was.

LEMMA DamageGrows ==
  ASSUME dropped \subseteq dropped'
  PROVE  /\ \A l : Damaged(l) => Damaged(l)'
         /\ \A l : Intact(l)' => Intact(l)
         /\ \A c : Whole(c) => Whole(c)'
  <1>1. \A l : Damaged(l) => Damaged(l)'
    BY DEF Damaged
  <1>2. \A l : Intact(l)' => Intact(l)
    BY <1>1 DEF Intact
  <1>3. \A c : Whole(c) => Whole(c)'
    BY <1>1 DEF Whole
  <1> QED
    BY <1>1, <1>2, <1>3

LEMMA LinesKeep ==
  ASSUME LineInv, RunInv, dropped \subseteq dropped', executed' = executed,
         \A c \in Chars : Gone(c)' <=> Gone(c)
  PROVE  LineInv' /\ RunInv'
  <1>1. RunInv'
    BY DamageGrows DEF RunInv
  <1>2. \A l : Ran(l)' = Ran(l)
    BY DEF Ran
  <1>3. LineInv'
    BY <1>2, DamageGrows DEF LineInv
  <1> QED
    BY <1>1, <1>3

LEMMA CharIsReceived ==
  ASSUME TypeOK, ConsoleInv, ReceiveChar
  PROVE  ConsoleInv'
  <1> USE DEF ConsoleInv
  <1>1. typed \in Chars /\ typed' = Following(typed) /\ executed' = executed /\ cmd' = cmd
    BY LineFacts DEF ReceiveChar, TypeOK, Char, Following
  <1>2. /\ typed' \in Places /\ Earlier(typed, typed')
        /\ \A a \in Chars : Earlier(a, typed') => a = typed \/ Earlier(a, typed)
    BY <1>1, FollowingIsNext
  <1>3. \A a \in Chars : Earlier(a, typed) => Earlier(a, typed')
    BY <1>1, <1>2, EarlierOrders, PlaceFacts
  <1>4. /\ ToSet(queue) \subseteq Chars /\ ToSet(cmd) \subseteq Chars /\ dropped \subseteq Chars
        /\ \A i \in DOMAIN executed : ToSet(executed[i]) \subseteq Chars
    BY ToSetIn DEF TypeOK
  <1>5. ~Earlier(typed, typed)
    BY <1>1, EarlierOrders, PlaceFacts
  <1>6. CASE Len(queue) < QueueCap
    <2>1. queue' = Append(queue, typed) /\ dropped' = dropped
      BY <1>6 DEF ReceiveChar
    <2>2. ToSet(queue') = ToSet(queue) \cup {typed}
      BY <1>1, <2>1, ToSetOfAppend DEF TypeOK
    <2>3. Waiting' = Waiting \cup {typed}
      BY <1>1, <2>2 DEF Waiting
    <2>4. \A c \in Chars : Gone(c)' <=> Gone(c)
      BY <1>1, <1>2, <1>3, <1>5, <2>1, <2>3 DEF Gone
    <2>5. LineInv' /\ RunInv'
      BY <1>1, <2>1, <2>4, LinesKeep
    <2>6. CmdInv'
      BY <1>1, <2>1, DamageGrows DEF CmdInv
    <2>7. GapInv'
      BY <2>3, <2>4 DEF GapInv, Gone
    <2>8. \A i, j \in DOMAIN queue' : i < j => Earlier(queue'[i], queue'[j])
      <3>1. /\ DOMAIN queue' = 1 .. Len(queue) + 1 /\ DOMAIN queue = 1 .. Len(queue)
            /\ Len(queue) \in Nat
            /\ queue'[Len(queue) + 1] = typed
            /\ \A i \in 1 .. Len(queue) : queue'[i] = queue[i]
        BY <1>1, <2>1, AppendProperties DEF TypeOK
      <3>2. \A i \in 1 .. Len(queue) : Earlier(queue[i], typed)
        BY <3>1 DEF OrderInv, Waiting, ToSet
      <3> QED
        BY <3>1, <3>2 DEF OrderInv
    <2>9. OrderInv'
      BY <1>1, <1>2, <1>3, <1>4, <2>1, <2>2, <2>3, <2>8 DEF OrderInv, Waiting
    <2> QED
      BY <2>5, <2>6, <2>7, <2>9
  <1>7. CASE ~(Len(queue) < QueueCap)
    <2>1. queue' = queue /\ dropped' = dropped \cup {typed} /\ Waiting' = Waiting
      BY <1>1, <1>7 DEF ReceiveChar, Waiting
    <2>2. \A c \in Chars : Gone(c)' <=> Gone(c)
      BY <1>1, <1>2, <1>3, <1>5, <2>1 DEF Gone
    <2>3. LineInv' /\ RunInv'
      BY <1>1, <2>1, <2>2, LinesKeep
    <2>4. CmdInv'
      BY <1>1, <2>1, DamageGrows DEF CmdInv
    <2>5. GapInv'
      BY <2>1, <2>2 DEF GapInv
    <2>6. OrderInv'
      BY <1>1, <1>2, <1>3, <1>4, <2>1 DEF OrderInv, Waiting
    <2> QED
      BY <2>3, <2>4, <2>5, <2>6
  <1> QED
    BY <1>6, <1>7

\* A reset drops what waits: nothing is gone that was not gone before.
LEMMA BaseIsReset ==
  ASSUME TypeOK, ConsoleInv, BaseResets
  PROVE  ConsoleInv'
  <1> USE DEF ConsoleInv
  <1>1. /\ queue' = <<>> /\ cmd' = <<>> /\ typed' = typed /\ executed' = executed
        /\ dropped' = dropped \cup Waiting
    BY DEF BaseResets, Waiting
  <1>2. Waiting' = {}
    BY <1>1, ToSetOfEmpty DEF Waiting
  <1>3. \A c \in Chars : Gone(c)' <=> Gone(c)
    BY <1>1, <1>2 DEF Gone
  <1>4. LineInv' /\ RunInv'
    BY <1>1, <1>3, LinesKeep
  <1>5. CmdInv' /\ GapInv'
    BY <1>1, <1>2 DEF CmdInv, GapInv
  <1>6. OrderInv'
    BY <1>1, <1>2, ToSetOfEmpty DEF OrderInv
  <1> QED
    BY <1>4, <1>5, <1>6

LEMMA ConsoleIsIdle ==
  ASSUME ConsoleInv, UNCHANGED console
  PROVE  ConsoleInv'
  BY DEF ConsoleInv, console, OrderInv, GapInv, CmdInv, LineInv, RunInv, Whole, Intact, Damaged,
         Gone, Waiting, Ran

-----------------------------------------------------------------------------
\* The console: a character is taken out of the queue.

LEMMA HeadIsFirst ==
  ASSUME TypeOK, ConsoleInv, queue # <<>>
  PROVE  /\ Head(queue) \in Chars /\ Head(queue) \in Waiting /\ Earlier(Head(queue), typed)
         /\ ToSet(cmd) \subseteq Chars /\ ToSet(Tail(queue)) \subseteq Chars
         /\ Waiting = ToSet(cmd) \cup {Head(queue)} \cup ToSet(Tail(queue))
         /\ \A a \in ToSet(cmd) :
              Earlier(a, Head(queue)) /\ \A b \in ToSet(Tail(queue)) : Earlier(a, b)
         /\ \A b \in ToSet(Tail(queue)) : Earlier(Head(queue), b)
         /\ \A i, j \in DOMAIN Tail(queue) : i < j => Earlier(Tail(queue)[i], Tail(queue)[j])
  <1> USE DEF ConsoleInv
  <1>1. /\ Head(queue) \in Chars /\ Tail(queue) \in Seq(Chars)
        /\ ToSet(queue) = {Head(queue)} \cup ToSet(Tail(queue))
        /\ \A i \in DOMAIN Tail(queue) : i + 1 \in DOMAIN queue /\ Tail(queue)[i] = queue[i + 1]
        /\ 1 \in DOMAIN queue /\ queue[1] = Head(queue)
    BY ToSetOfTail DEF TypeOK
  <1>2. DOMAIN Tail(queue) = 1 .. Len(Tail(queue)) /\ Len(Tail(queue)) \in Nat
    BY <1>1
  <1>3. \A i, j \in DOMAIN Tail(queue) : i < j => Earlier(Tail(queue)[i], Tail(queue)[j])
    BY <1>1, <1>2 DEF OrderInv
  <1>4. \A i \in DOMAIN Tail(queue) : Earlier(Head(queue), Tail(queue)[i])
    BY <1>1, <1>2 DEF OrderInv
  <1>5. \A b \in ToSet(Tail(queue)) : Earlier(Head(queue), b)
    BY <1>4 DEF ToSet
  <1>6. Waiting = ToSet(cmd) \cup {Head(queue)} \cup ToSet(Tail(queue))
    BY <1>1 DEF Waiting
  <1>7. ToSet(cmd) \subseteq Chars /\ ToSet(Tail(queue)) \subseteq Chars
    BY <1>1, ToSetIn DEF TypeOK
  <1> QED
    BY <1>1, <1>3, <1>5, <1>6, <1>7 DEF OrderInv

\* A command that holds a character of an earlier line has lost the LF of
\* every line up to the one that comes next.
LEMMA JoinedAreDamaged ==
  ASSUME TypeOK, ConsoleInv, queue # <<>>, NEW a \in ToSet(cmd)
  PROVE  /\ a.line = Head(queue).line \/ a.line < Head(queue).line
         /\ a.line < Head(queue).line => Damaged(a.line) /\ Damaged(Head(queue).line - 1)
  <1> USE DEF ConsoleInv
  <1> DEFINE h == Head(queue)
  <1>1. /\ a \in Chars /\ h \in Chars /\ Earlier(a, h) /\ Earlier(h, typed)
        /\ Waiting = ToSet(cmd) \cup {h} \cup ToSet(Tail(queue))
        /\ \A b \in ToSet(Tail(queue)) : Earlier(h, b)
        /\ ToSet(cmd) \subseteq Chars /\ ToSet(Tail(queue)) \subseteq Chars
    BY HeadIsFirst
  <1> HIDE DEF h
  <1>2. /\ a.line \in Lines /\ a.pos \in 1 .. LineLen[a.line] + 1
        /\ h.line \in Lines /\ h.pos \in 1 .. LineLen[h.line] + 1
        /\ a.line \in Nat /\ h.line \in Nat
    BY <1>1, CharFacts, LineFacts
  <1>3. a.line = h.line \/ a.line < h.line
    BY <1>1, <1>2 DEF Earlier
  <1>4. \A e \in ToSet(cmd) : ~IsLF(e)
    BY DEF CmdInv, ToSet
  <1>5. ASSUME NEW k \in Lines, a.line <= k, k < h.line
        PROVE  Damaged(k)
    <2> DEFINE lf == Char(k, LineLen[k] + 1)
    <2>1. k \in Nat /\ LineLen[k] \in Nat
      BY <1>5, LineFacts
    <2>2. lf \in Chars /\ lf.line = k /\ lf.pos = LineLen[k] + 1 /\ IsLF(lf)
      BY <2>1, CharFacts DEF IsLF
    <2> HIDE DEF lf
    <2>3. a.pos # LineLen[a.line] + 1
      BY <1>4 DEF IsLF
    <2>4. Earlier(a, lf) /\ Earlier(lf, h)
      BY <1>2, <1>5, <2>1, <2>2, <2>3, LineFacts DEF Earlier
    <2>5. typed \in Places
      BY DEF TypeOK, Places
    <2>6. Earlier(lf, typed)
      BY <1>1, <2>2, <2>4, <2>5, EarlierOrders, PlaceFacts
    <2>7. lf \notin ToSet(cmd)
      BY <1>4, <2>2
    <2>8. lf # h /\ lf \notin ToSet(Tail(queue))
      BY <1>1, <2>2, <2>4, EarlierOrders, PlaceFacts
    <2>9. ~Gone(lf)
      <3>1. a \in Waiting
        BY <1>1
      <3> QED
        BY <1>1, <2>2, <2>4, <3>1, EarlierOrders, PlaceFacts DEF GapInv
    <2>10. lf \in dropped
      BY <1>1, <2>6, <2>7, <2>8, <2>9 DEF Gone
    <2> QED
      BY <1>5, <2>2, <2>10 DEF Damaged
  <1>6. a.line < h.line => Damaged(a.line)
    BY <1>2, <1>5
  <1>7. a.line < h.line => Damaged(h.line - 1)
    <2>1. a.line < h.line => h.line - 1 \in Lines
      BY <1>2, LineFacts
    <2> QED
      BY <1>2, <1>5, <2>1
  <1> QED
    BY <1>3, <1>6, <1>7 DEF h

\* In front of a character of an intact line, the command holds the
\* characters of this line that come before it, and nothing else.
LEMMA IntactIsCollected ==
  ASSUME TypeOK, ConsoleInv, queue # <<>>, Intact(Head(queue).line)
  PROVE  /\ Len(cmd) = Head(queue).pos - 1
         /\ \A i \in DOMAIN cmd : cmd[i] = Char(Head(queue).line, i)
         /\ \A c \in Chars : c.line = Head(queue).line => ~Gone(c)
  <1> USE DEF ConsoleInv
  <1> DEFINE h == Head(queue)
  <1>1. /\ h \in Chars /\ Earlier(h, typed) /\ h \in Waiting
        /\ Waiting = ToSet(cmd) \cup {h} \cup ToSet(Tail(queue))
        /\ \A a \in ToSet(cmd) : Earlier(a, h)
        /\ \A b \in ToSet(Tail(queue)) : Earlier(h, b)
        /\ ToSet(cmd) \subseteq Chars /\ ToSet(Tail(queue)) \subseteq Chars
    BY HeadIsFirst
  <1>2. \A a \in ToSet(cmd) : a.line = h.line
    BY JoinedAreDamaged DEF Intact
  <1>3. Intact(h.line)
    OBVIOUS
  <1> HIDE DEF h
  <1>4. /\ h.line \in Lines /\ h.pos \in 1 .. LineLen[h.line] + 1 /\ h = Char(h.line, h.pos)
        /\ LineLen[h.line] \in Nat /\ h.line \in Nat
    BY <1>1, CharFacts, LineFacts
  <1>5. cmd \in Seq(Chars) /\ Len(cmd) \in Nat /\ DOMAIN cmd = 1 .. Len(cmd)
    BY DEF TypeOK
  <1>6. ASSUME NEW i \in DOMAIN cmd PROVE cmd[i] = Char(h.line, i)
    <2>1. cmd[i] \in ToSet(cmd) /\ cmd[i] \in Chars
      BY <1>1 DEF ToSet
    <2>2. cmd[i].line = h.line /\ cmd[i].pos = i
      BY <1>2, <1>3, <2>1 DEF CmdInv
    <2> QED
      BY <2>1, <2>2, CharFacts
  <1>7. \A c \in Chars : c.line = h.line => ~Gone(c)
    <2>1. ~Gone(h)
      BY <1>1 DEF Gone
    <2> QED
      BY <1>1, <1>3, <1>4, <2>1 DEF LineInv
  <1>8. Len(cmd) <= h.pos - 1
    <2> SUFFICES ASSUME h.pos \in DOMAIN cmd PROVE FALSE
      BY <1>4, <1>5
    <2>1. cmd[h.pos] = h
      BY <1>4, <1>6
    <2>2. h \in ToSet(cmd)
      BY <2>1 DEF ToSet
    <2> QED
      BY <1>1, <2>2, EarlierOrders, PlaceFacts
  <1>9. h.pos - 1 <= Len(cmd)
    <2> SUFFICES ASSUME h.pos # 1 PROVE h.pos - 1 \in DOMAIN cmd
      BY <1>4, <1>5
    <2> DEFINE c == Char(h.line, h.pos - 1)
    <2>1. c \in Chars /\ c.line = h.line /\ c.pos = h.pos - 1
      BY <1>4, CharFacts
    <2> HIDE DEF c
    <2>2. Earlier(c, h)
      BY <1>4, <2>1 DEF Earlier
    <2>3. typed \in Places
      BY DEF TypeOK, Places
    <2>4. Earlier(c, typed)
      BY <1>1, <2>1, <2>2, <2>3, EarlierOrders, PlaceFacts
    <2>5. c \notin dropped
      BY <1>3, <2>1 DEF Intact, Damaged
    <2>6. c \in Waiting
      BY <1>7, <2>1, <2>4, <2>5 DEF Gone
    <2>7. c # h /\ c \notin ToSet(Tail(queue))
      BY <1>1, <2>1, <2>2, EarlierOrders, PlaceFacts
    <2>8. c \in ToSet(cmd)
      BY <1>1, <2>6, <2>7
    <2>9. PICK i \in DOMAIN cmd : c = cmd[i]
      BY <2>8 DEF ToSet
    <2>10. cmd[i].pos = i
      BY <1>2, <1>3, <2>1, <2>9 DEF CmdInv
    <2> QED
      BY <2>1, <2>9, <2>10
  <1>10. Len(cmd) = h.pos - 1
    BY <1>4, <1>5, <1>8, <1>9
  <1> QED
    BY <1>6, <1>7, <1>10 DEF h

\* The command and the character in front of which it stands go.
LEMMA CommandGoes ==
  ASSUME TypeOK, ConsoleInv, queue # <<>>, queue' = Tail(queue), cmd' = <<>>,
         typed' = typed, dropped' = dropped
  PROVE  /\ Waiting' = ToSet(Tail(queue))
         /\ \A c \in Chars : Gone(c)' =>
              Gone(c) \/ c \in ToSet(cmd) \/ c = Head(queue)
         /\ \A c \in Chars : Gone(c) => Gone(c)'
         /\ \A c \in ToSet(cmd) \cup {Head(queue)} : c \notin dropped => Gone(c)'
         /\ GapInv'
  <1> USE DEF ConsoleInv
  <1> DEFINE h == Head(queue)
  <1>1. /\ h \in Chars /\ h \in Waiting /\ Earlier(h, typed)
        /\ ToSet(cmd) \subseteq Chars /\ ToSet(Tail(queue)) \subseteq Chars
        /\ Waiting = ToSet(cmd) \cup {h} \cup ToSet(Tail(queue))
        /\ \A a \in ToSet(cmd) : Earlier(a, h) /\ \A b \in ToSet(Tail(queue)) : Earlier(a, b)
        /\ \A b \in ToSet(Tail(queue)) : Earlier(h, b)
    BY HeadIsFirst
  <1>2. Waiting' = ToSet(Tail(queue))
    BY ToSetOfEmpty DEF Waiting
  <1> HIDE DEF h
  <1>3. \A c \in Chars : Gone(c)' => Gone(c) \/ c \in ToSet(cmd) \/ c = h
    BY <1>1, <1>2 DEF Gone
  <1>4. \A c \in Chars : Gone(c) => Gone(c)'
    BY <1>1, <1>2 DEF Gone
  <1>5. ASSUME NEW c \in ToSet(cmd) \cup {h}, c \notin dropped PROVE Gone(c)'
    <2>1. c \in Chars /\ Earlier(c, typed)
      BY <1>1 DEF OrderInv
    <2>2. c \notin ToSet(Tail(queue))
      BY <1>1, <2>1, EarlierOrders, PlaceFacts
    <2> QED
      BY <1>2, <1>5, <2>1, <2>2 DEF Gone
  <1>6. GapInv'
    BY <1>1, <1>2, <1>3 DEF GapInv
  <1> QED
    BY <1>2, <1>3, <1>4, <1>5, <1>6 DEF h

\* A line that is damaged by nothing is run as it was typed.
LEMMA IntactIsText ==
  ASSUME TypeOK, ConsoleInv, queue # <<>>, IsLF(Head(queue)), Intact(Head(queue).line)
  PROVE  /\ cmd = Text(Head(queue).line)
         /\ \A c \in Chars : c.line = Head(queue).line => c \in ToSet(cmd) \/ c = Head(queue)
  <1> DEFINE h == Head(queue)
  <1>1. /\ Len(cmd) = h.pos - 1
        /\ \A i \in DOMAIN cmd : cmd[i] = Char(h.line, i)
    BY IntactIsCollected
  <1>2. h \in Chars
    BY HeadIsFirst
  <1>3. h.pos = LineLen[h.line] + 1
    BY DEF IsLF
  <1> HIDE DEF h
  <1>4. h.line \in Lines /\ LineLen[h.line] \in Nat /\ h = Char(h.line, h.pos)
    BY <1>2, CharFacts, LineFacts
  <1>5. cmd \in Seq(Chars) /\ DOMAIN cmd = 1 .. LineLen[h.line]
    BY <1>1, <1>3, <1>4 DEF TypeOK
  <1>6. cmd = Text(h.line)
    BY <1>1, <1>5 DEF Text
  <1>7. ASSUME NEW c \in Chars, c.line = h.line PROVE c \in ToSet(cmd) \/ c = h
    <2>1. c.pos \in 1 .. LineLen[h.line] + 1 /\ c = Char(h.line, c.pos)
      BY <1>7, CharFacts
    <2>2. CASE c.pos = LineLen[h.line] + 1
      BY <1>3, <1>4, <2>1, <2>2
    <2>3. CASE c.pos # LineLen[h.line] + 1
      <3>1. c.pos \in DOMAIN cmd /\ cmd[c.pos] = c
        BY <1>1, <1>4, <1>5, <2>1, <2>3
      <3> QED
        BY <3>1 DEF ToSet
    <2> QED
      BY <2>2, <2>3
  <1> QED
    BY <1>6, <1>7 DEF h

LEMMA CommandIsWhole ==
  ASSUME TypeOK, ConsoleInv, queue # <<>>, IsLF(Head(queue))
  PROVE  Whole(cmd)
  <1>1. CASE cmd = <<>>
    BY <1>1 DEF Whole
  <1>2. CASE cmd # <<>>
    <2> SUFFICES ASSUME \A a \in ToSet(cmd) : ~Damaged(a.line) /\ ~Damaged(a.line - 1)
                 PROVE  \E l \in Lines : cmd = Text(l)
      BY DEF Whole
    <2>1. PICK a \in ToSet(cmd) : TRUE
      <3>1. cmd \in Seq(Chars)
        BY DEF TypeOK
      <3>2. 1 \in DOMAIN cmd
        BY <1>2, <3>1, ToSetOfTail
      <3> QED
        BY <3>2 DEF ToSet
    <2>2. a.line = Head(queue).line
      BY <2>1, JoinedAreDamaged
    <2>3. a.line \in Lines
      BY <2>1, HeadIsFirst, CharFacts
    <2>4. Intact(Head(queue).line)
      BY <2>1, <2>2, <2>3 DEF Intact
    <2> QED
      BY <2>2, <2>3, <2>4, IntactIsText
  <1> QED
    BY <1>1, <1>2

\* A line is run once: until its LF comes it has not been run, and a command
\* with characters of another line is not its text.
LEMMA RunOnce ==
  ASSUME TypeOK, ConsoleInv, queue # <<>>, IsLF(Head(queue)),
         executed' = Append(executed, cmd), NEW l \in Lines, Intact(l)
  PROVE  /\ l # Head(queue).line => Ran(l)' = Ran(l)
         /\ l = Head(queue).line => Ran(l)' = {Len(executed) + 1}
  <1> USE DEF ConsoleInv
  <1>1. /\ DOMAIN executed' = 1 .. Len(executed) + 1 /\ DOMAIN executed = 1 .. Len(executed)
        /\ Len(executed) \in Nat
        /\ executed'[Len(executed) + 1] = cmd
        /\ \A i \in 1 .. Len(executed) : executed'[i] = executed[i]
    <2>1. executed \in Seq(Seq(Chars)) /\ cmd \in Seq(Chars)
      BY DEF TypeOK
    <2> QED
      BY <2>1, AppendProperties
  <1>2. Char(l, 1) \in Chars /\ Char(l, 1).line = l /\ LineLen[l] \in Nat \ {0}
    BY LineFacts, CharFacts
  <1>3. DOMAIN Text(l) = 1 .. LineLen[l] /\ Text(l)[1] = Char(l, 1)
    BY <1>2 DEF Text
  <1>4. Char(l, 1) \in ToSet(Text(l))
    BY <1>2, <1>3 DEF ToSet
  <1>5. CASE l # Head(queue).line
    <2>1. cmd # Text(l)
      <3> SUFFICES ASSUME cmd = Text(l) PROVE FALSE
        OBVIOUS
      <3>1. Damaged(l)
        BY <1>2, <1>4, <1>5, JoinedAreDamaged
      <3> QED
        BY <3>1 DEF Intact
    <2> QED
      BY <1>1, <1>5, <2>1 DEF Ran
  <1>6. CASE l = Head(queue).line
    <2>1. cmd = Text(l)
      BY <1>6, IntactIsText
    <2>2. Char(l, 1) \in Waiting
      BY <1>4, <2>1 DEF Waiting
    <2>3. ASSUME NEW i \in DOMAIN executed, executed[i] = Text(l) PROVE FALSE
      <3>1. Char(l, 1) \in ToSet(executed[i])
        BY <1>4, <2>3
      <3>2. Earlier(Char(l, 1), Char(l, 1))
        BY <2>2, <3>1 DEF OrderInv
      <3> QED
        BY <1>2, <3>2, EarlierOrders, PlaceFacts
    <2> QED
      BY <1>1, <1>6, <2>1, <2>3 DEF Ran
  <1> QED
    BY <1>5, <1>6

\* The LF: the command is run.
LEMMA LineIsRun ==
  ASSUME TypeOK, ConsoleInv, queue # <<>>, IsLF(Head(queue)), queue' = Tail(queue),
         executed' = Append(executed, cmd), cmd' = <<>>, typed' = typed, dropped' = dropped
  PROVE  ConsoleInv'
  <1> USE DEF ConsoleInv
  <1> DEFINE h == Head(queue)
  <1>1. /\ DOMAIN executed' = 1 .. Len(executed) + 1 /\ DOMAIN executed = 1 .. Len(executed)
        /\ Len(executed) \in Nat
        /\ executed'[Len(executed) + 1] = cmd
        /\ \A i \in 1 .. Len(executed) : executed'[i] = executed[i]
    <2>1. executed \in Seq(Seq(Chars)) /\ cmd \in Seq(Chars)
      BY DEF TypeOK
    <2> QED
      BY <2>1, AppendProperties
  <1>2. /\ Waiting' = ToSet(Tail(queue))
        /\ \A c \in Chars : Gone(c)' => Gone(c) \/ c \in ToSet(cmd) \/ c = h
        /\ \A c \in Chars : Gone(c) => Gone(c)'
        /\ \A c \in ToSet(cmd) \cup {h} : c \notin dropped => Gone(c)'
        /\ GapInv'
    BY CommandGoes
  <1>3. /\ h \in Chars /\ h \in Waiting
        /\ ToSet(cmd) \subseteq Chars /\ ToSet(Tail(queue)) \subseteq Chars
        /\ Waiting = ToSet(cmd) \cup {h} \cup ToSet(Tail(queue))
        /\ \A a \in ToSet(cmd) : \A b \in ToSet(Tail(queue)) : Earlier(a, b)
        /\ \A i, j \in DOMAIN Tail(queue) : i < j => Earlier(Tail(queue)[i], Tail(queue)[j])
    BY HeadIsFirst
  <1>4. \A l : (Damaged(l)' <=> Damaged(l)) /\ (Intact(l)' <=> Intact(l))
    BY DEF Damaged, Intact
  <1>5. CmdInv'
    BY DEF CmdInv
  <1>6. RunInv'
    <2>1. Whole(cmd)
      BY CommandIsWhole
    <2>2. \A c : Whole(c)' <=> Whole(c)
      BY <1>4 DEF Whole
    <2> QED
      BY <1>1, <2>1, <2>2 DEF RunInv
  <1>7. OrderInv'
    <2>1. \A i \in DOMAIN executed : \A a \in ToSet(executed[i]), b \in ToSet(cmd) : Earlier(a, b)
      BY <1>3 DEF OrderInv
    <2>2. \A i, j \in DOMAIN executed' : i < j =>
            \A a \in ToSet(executed'[i]), b \in ToSet(executed'[j]) : Earlier(a, b)
      BY <1>1, <2>1 DEF OrderInv
    <2>3. \A a \in ToSet(cmd) : Earlier(a, typed)
      BY <1>3 DEF OrderInv
    <2>4. \A i \in DOMAIN executed' : \A a \in ToSet(executed'[i]) :
            Earlier(a, typed) /\ \A b \in ToSet(Tail(queue)) : Earlier(a, b)
      BY <1>1, <1>3, <2>3 DEF OrderInv
    <2>5. \A a \in Waiting' \cup dropped : Earlier(a, typed)
      BY <1>2, <1>3 DEF OrderInv
    <2> QED
      BY <1>2, <1>3, <2>2, <2>4, <2>5, ToSetOfEmpty DEF OrderInv
  <1>8. LineInv'
    <2> SUFFICES ASSUME NEW l \in Lines, Intact(l)
                 PROVE  \/ \A c \in Chars : c.line = l => ~Gone(c)'
                        \/ /\ \A c \in Chars : c.line = l => Gone(c)'
                           /\ \E i \in DOMAIN executed' : Ran(l)' = {i}
      BY <1>4 DEF LineInv
    <2>1. CASE l # h.line
      <3>1. \A c \in Chars : c.line = l => (Gone(c)' <=> Gone(c))
        <4>1. \A c \in ToSet(cmd) : c.line # l
          BY <2>1, JoinedAreDamaged DEF Intact
        <4> QED
          BY <1>2, <2>1, <4>1
      <3>2. Ran(l)' = Ran(l)
        BY <2>1, RunOnce
      <3>3. \A i \in DOMAIN executed : i \in DOMAIN executed'
        BY <1>1
      <3> QED
        BY <3>1, <3>2, <3>3 DEF LineInv
    <2>2. CASE l = h.line
      <3>1. \A c \in Chars : c.line = l => c \in ToSet(cmd) \/ c = h
        BY <2>2, IntactIsText
      <3>2. \A c \in Chars : c.line = l => c \notin dropped
        BY DEF Intact, Damaged
      <3>3. \A c \in Chars : c.line = l => Gone(c)'
        BY <1>2, <3>1, <3>2
      <3>4. Ran(l)' = {Len(executed) + 1}
        BY <2>2, RunOnce
      <3>5. Len(executed) + 1 \in DOMAIN executed'
        BY <1>1
      <3> QED
        BY <3>3, <3>4, <3>5
    <2> QED
      BY <2>1, <2>2
  <1> QED
    BY <1>2, <1>5, <1>6, <1>7, <1>8

\* A character too many: what was collected is thrown away, and with it no
\* character of a line that is not damaged.
LEMMA TooLongIsThrownAway ==
  ASSUME TypeOK, ConsoleInv, queue # <<>>, ~IsLF(Head(queue)), ~(Len(cmd) < CmdMax),
         queue' = Tail(queue), executed' = executed, cmd' = <<>>, typed' = typed,
         dropped' = dropped
  PROVE  ConsoleInv'
  <1> USE DEF ConsoleInv
  <1> DEFINE h == Head(queue)
  <1>1. /\ Waiting' = ToSet(Tail(queue))
        /\ \A c \in Chars : Gone(c)' => Gone(c) \/ c \in ToSet(cmd) \/ c = h
        /\ \A c \in Chars : Gone(c) => Gone(c)'
        /\ GapInv'
    BY CommandGoes
  <1>2. /\ h \in Chars /\ h.line \in Lines
        /\ ToSet(cmd) \subseteq Chars /\ ToSet(Tail(queue)) \subseteq Chars
        /\ Waiting = ToSet(cmd) \cup {h} \cup ToSet(Tail(queue))
        /\ \A i, j \in DOMAIN Tail(queue) : i < j => Earlier(Tail(queue)[i], Tail(queue)[j])
    BY HeadIsFirst, CharFacts
  <1>3. \A l : (Damaged(l)' <=> Damaged(l)) /\ (Intact(l)' <=> Intact(l))
    BY DEF Damaged, Intact
  <1>4. CmdInv'
    BY DEF CmdInv
  <1>5. RunInv'
    BY DamageGrows DEF RunInv
  <1>6. OrderInv'
    <2>1. Waiting' \subseteq Waiting
      BY <1>1, <1>2
    <2> QED
      BY <1>1, <1>2, <2>1, ToSetOfEmpty DEF OrderInv
  <1>7. ~Intact(h.line)
    <2> SUFFICES ASSUME Intact(h.line) PROVE FALSE
      OBVIOUS
    <2>1. Len(cmd) = h.pos - 1
      BY IntactIsCollected
    <2>2. h.pos \in 1 .. LineLen[h.line] + 1 /\ LineLen[h.line] \in Nat
      BY <1>2, CharFacts, LineFacts
    <2>3. h.pos # LineLen[h.line] + 1
      BY DEF IsLF
    <2>4. Len(cmd) \in Nat /\ Len(cmd) <= CmdMax /\ CmdMax \in Nat
      BY AppAssumption DEF TypeOK
    <2>5. LineLen[h.line] > CmdMax
      <3> HIDE DEF h
      <3> QED
        BY <2>1, <2>2, <2>3, <2>4
    <2> QED
      BY <1>2, <2>5 DEF Intact, Damaged
  <1>8. LineInv'
    <2> SUFFICES ASSUME NEW l \in Lines, Intact(l)
                 PROVE  \/ \A c \in Chars : c.line = l => ~Gone(c)'
                        \/ /\ \A c \in Chars : c.line = l => Gone(c)'
                           /\ \E i \in DOMAIN executed : Ran(l)' = {i}
      BY <1>3 DEF LineInv
    <2>1. l # h.line
      BY <1>7
    <2>2. \A c \in ToSet(cmd) : c.line # l
      BY <2>1, JoinedAreDamaged DEF Intact
    <2>3. \A c \in Chars : c.line = l => (Gone(c)' <=> Gone(c))
      BY <1>1, <2>1, <2>2
    <2>4. Ran(l)' = Ran(l)
      BY DEF Ran
    <2> QED
      BY <2>3, <2>4 DEF LineInv
  <1> QED
    BY <1>1, <1>4, <1>5, <1>6, <1>8

LEMMA CharIsCollected ==
  ASSUME TypeOK, ConsoleInv, queue # <<>>, ~IsLF(Head(queue)),
         queue' = Tail(queue), executed' = executed, cmd' = Append(cmd, Head(queue)),
         typed' = typed, dropped' = dropped
  PROVE  ConsoleInv'
  <1> USE DEF ConsoleInv
  <1> DEFINE h == Head(queue)
  <1>1. /\ h \in Chars /\ ToSet(cmd) \subseteq Chars /\ ToSet(Tail(queue)) \subseteq Chars
        /\ Waiting = ToSet(cmd) \cup {h} \cup ToSet(Tail(queue))
        /\ \A a \in ToSet(cmd) : \A b \in ToSet(Tail(queue)) : Earlier(a, b)
        /\ \A b \in ToSet(Tail(queue)) : Earlier(h, b)
        /\ \A i, j \in DOMAIN Tail(queue) : i < j => Earlier(Tail(queue)[i], Tail(queue)[j])
    BY HeadIsFirst
  <1>2. ToSet(cmd') = ToSet(cmd) \cup {h}
    BY <1>1, ToSetOfAppend DEF TypeOK
  <1>3. Waiting' = Waiting
    BY <1>1, <1>2 DEF Waiting
  <1>4. \A c \in Chars : Gone(c)' <=> Gone(c)
    BY <1>3 DEF Gone
  <1>5. LineInv' /\ RunInv'
    BY <1>4, LinesKeep
  <1>6. GapInv'
    BY <1>3, <1>4 DEF GapInv
  <1>7. OrderInv'
    <2>1. \A a \in ToSet(cmd'), b \in ToSet(Tail(queue)) : Earlier(a, b)
      BY <1>1, <1>2
    <2> QED
      BY <1>1, <1>3, <2>1 DEF OrderInv
  <1>8. CmdInv'
    <2>1. /\ DOMAIN cmd' = 1 .. Len(cmd) + 1 /\ DOMAIN cmd = 1 .. Len(cmd) /\ Len(cmd) \in Nat
          /\ cmd'[Len(cmd) + 1] = h /\ \A i \in 1 .. Len(cmd) : cmd'[i] = cmd[i]
      BY <1>1, AppendProperties DEF TypeOK
    <2>2. \A l : Intact(l)' <=> Intact(l)
      BY DEF Damaged, Intact
    <2>3. Intact(h.line) => h.pos = Len(cmd) + 1
      <3>1. h.pos \in Nat
        BY <1>1, PlaceFacts
      <3> QED
        BY <2>1, <3>1, IntactIsCollected
    <2>4. \A i \in 1 .. Len(cmd) : ~IsLF(cmd[i]) /\ (Intact(cmd[i].line) => cmd[i].pos = i)
      BY <2>1 DEF CmdInv
    <2> HIDE DEF h
    <2>5. ~IsLF(h)
      BY DEF h
    <2> QED
      BY <2>1, <2>2, <2>3, <2>4, <2>5 DEF CmdInv
  <1> QED
    BY <1>5, <1>6, <1>7, <1>8

LEMMA CharIsTaken ==
  ASSUME TypeOK, ConsoleInv, ProcessHostConsole
  PROVE  ConsoleInv'
  <1>1. queue # <<>> /\ queue' = Tail(queue) /\ typed' = typed /\ dropped' = dropped
    BY DEF ProcessHostConsole
  <1>2. CASE IsLF(Head(queue))
    BY <1>1, <1>2, LineIsRun DEF ProcessHostConsole, HandleHostCommand
  <1>3. CASE ~IsLF(Head(queue))
    <2>1. Collect(Head(queue)) /\ executed' = executed
      BY <1>3 DEF ProcessHostConsole
    <2> QED
      BY <1>1, <1>3, <2>1, CharIsCollected, TooLongIsThrownAway DEF Collect
  <1> QED
    BY <1>2, <1>3

LEMMA ConsoleStep ==
  ASSUME TypeOK, ConsoleInv, [Next]_vars
  PROVE  ConsoleInv'
  <1>1. CASE ReceiveChar
    BY <1>1, CharIsReceived
  <1>2. CASE ProcessHostConsole
    BY <1>2, CharIsTaken
  <1>3. CASE BaseResets
    BY <1>3, BaseIsReset
  <1>4. CASE UNCHANGED console
    BY <1>4, ConsoleIsIdle
  <1>5. Boot \/ StartSucceeds \/ StartFails \/ ConfigureStep \/ Configured \/ Retry
          => UNCHANGED console
    BY DEF Boot, StartSucceeds, StartFails, ConfigureStep, Configured, Retry
  <1>6. NodeUserSets \/ NodeStarts \/ NodeResets \/ UNCHANGED vars => UNCHANGED console
    BY DEF NodeUserSets, NodeStarts, NodeResets, vars
  <1> QED
    BY <1>1, <1>2, <1>3, <1>4, <1>5, <1>6 DEF Next

LEMMA ConsoleInit ==
  ASSUME Init
  PROVE  ConsoleInv
  <1>1. queue = <<>> /\ cmd = <<>> /\ executed = <<>> /\ dropped = {} /\ typed = Char(1, 1)
    BY DEF Init
  <1>2. Waiting = {}
    BY <1>1, ToSetOfEmpty DEF Waiting
  <1>3. \A c \in Chars : ~Gone(c)
    <2>1. typed.line = 1 /\ typed.pos = 1
      BY <1>1 DEF Char
    <2>2. \A c \in Chars : c.line \in Nat \ {0} /\ c.pos \in Nat \ {0}
      BY CharFacts, LineFacts
    <2> QED
      BY <2>1, <2>2 DEF Gone, Earlier
  <1> QED
    BY <1>1, <1>2, <1>3, ToSetOfEmpty DEF ConsoleInv, OrderInv, GapInv, CmdInv, LineInv, RunInv

THEOREM ConsoleInvariance == Spec => [](TypeOK /\ ConsoleInv)
  <1>1. Init => TypeOK /\ ConsoleInv
    BY TypeInit, ConsoleInit
  <1>2. TypeOK /\ ConsoleInv /\ [Next]_vars => (TypeOK /\ ConsoleInv)'
    BY TypeStep, ConsoleStep
  <1> QED
    BY <1>1, <1>2, PTL DEF Spec

\* Whatever the interrupt handler drops and whenever the base is reset, what
\* is run is empty, a line as it was typed, or holds a character of a damaged
\* line or of the line behind one; and the buffers are never overrun.
THEOREM CommandsRunWhole == Spec => []CommandsAreWhole
  <1>1. TypeOK /\ ConsoleInv => CommandsAreWhole
    BY DEF ConsoleInv, RunInv, Whole, CommandsAreWhole
  <1> QED
    BY <1>1, ConsoleInvariance, PTL

\* A line that arrived whole behind another that did is run exactly once, and
\* the lines that are run are run in the order in which they were typed.
THEOREM IntactLinesRunOnce == Spec => []IntactLinesRun
  <1>1. ASSUME TypeOK, ConsoleInv PROVE IntactLinesRun
    <2> USE <1>1 DEF ConsoleInv
    <2>1. ASSUME NEW l \in Lines, l < typed.line, ~Damaged(l), ~Damaged(l - 1),
                 \A ch \in Waiting : ch.line # l
          PROVE  \E i \in DOMAIN executed : Ran(l) = {i}
      <3> DEFINE lf == Char(l, LineLen[l] + 1)
      <3>1. lf \in Chars /\ lf.line = l
        BY CharFacts, LineFacts
      <3>2. Earlier(lf, typed)
        BY <2>1, <3>1 DEF Earlier
      <3>3. Gone(lf)
        BY <2>1, <3>1, <3>2 DEF Gone, Damaged
      <3> QED
        BY <2>1, <3>1, <3>3 DEF LineInv, Intact
    <2>2. ASSUME NEW l \in Lines, NEW m \in Lines, l < m, NEW i \in Ran(l), NEW j \in Ran(m)
          PROVE  i < j
      <3>1. i \in DOMAIN executed /\ j \in DOMAIN executed
            /\ executed[i] = Text(l) /\ executed[j] = Text(m)
        BY DEF Ran
      <3>2. \A k \in Lines : Char(k, 1) \in ToSet(Text(k)) /\ Char(k, 1).line = k /\ k \in Nat
        BY LineFacts, CharFacts DEF Text, ToSet
      <3>3. i # j
        <4> SUFFICES ASSUME Text(l) = Text(m) PROVE FALSE
          BY <3>1
        <4>1. Text(l)[1] = Char(l, 1) /\ Text(m)[1] = Char(m, 1)
          BY LineFacts DEF Text
        <4> QED
          BY <2>2, <3>2, <4>1
      <3>4. ~(j < i)
        <4> SUFFICES ASSUME j < i PROVE FALSE
          OBVIOUS
        <4>1. Earlier(Char(m, 1), Char(l, 1))
          BY <3>1, <3>2 DEF OrderInv
        <4> QED
          BY <2>2, <3>2, <4>1 DEF Earlier
      <3>5. i \in Nat /\ j \in Nat
        <4>1. executed \in Seq(Seq(Chars))
          BY DEF TypeOK
        <4> QED
          BY <3>1, <4>1
      <3> QED
        BY <3>3, <3>4, <3>5
    <2> QED
      BY <2>1, <2>2 DEF IntactLinesRun
  <1> QED
    BY <1>1, ConsoleInvariance, PTL
=============================================================================
