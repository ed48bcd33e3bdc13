-------------------------- MODULE GuiBackendProofs --------------------------
(***************************************************************************)
(* Proofs about the desktop application's three threads, for any number of *)
(* panels, Clients and reports: that "the active server" is the one a task *)
(* was started for, that it is the one whose Client the Controller has, and*)
(* that a Disconnect stops the Client it was meant for.  All depend on what*)
(* is in the channel from the GUI.                                         *)
(***************************************************************************)
EXTENDS GuiBackend, TLAPS

\* The task has still to say that its panel is Disconnected.
Reports(r) == task[r] \in {"connecting", "up", "handling", "over"}

IsConnect(i) == gui_rx[i].type = "Connect"
Unread == 1..Len(gui_rx)
NoConnect == \A i \in Unread : ~IsConnect(i)

\* The Controller reads no more, and nobody sends, once it has panicked.
DeadChannel == controller = "panicked" => gui_rx = <<>>

\* Two panels are never active.
OneActive == \A p, q \in Active : p = q

\* Nor do two tasks report.
OneReports == \A r, q \in Run : Reports(r) /\ Reports(q) => r = q

\* A Connect that is queued is the only one; its panel is active, and the
\* task before has said its last word.
ConnectAlone ==
  \A i \in Unread : IsConnect(i) =>
    /\ Active = {gui_rx[i].panel}
    /\ \A r \in Run : ~Reports(r)
    /\ \A j \in Unread : IsConnect(j) => j = i

\* A Disconnect that is queued is for the Client of the Connect before it, and
\* when that has been read already, for the Client that the Controller has.
DisconnectAfterOwn ==
  \A i \in Unread : ~IsConnect(i) =>
    \/ \E j \in Unread : j < i /\ IsConnect(j) /\ gui_rx[j].panel = gui_rx[i].panel
    \/ /\ \A j \in Unread : j < i => ~IsConnect(j)
       /\ control_tx \in Run /\ gui_rx[i].panel = owner[control_tx]

\* An active panel whose Connect has been read is that of the Client the
\* Controller has.
ActiveIsControlled ==
  (controller = "running" /\ Active # {} /\ NoConnect)
    => control_tx \in Run /\ Active = {owner[control_tx]}

GuiInv ==
  /\ DeadChannel /\ OneActive /\ OneReports /\ ActiveIsOwn
  /\ ConnectAlone /\ DisconnectAfterOwn /\ ActiveIsControlled

-----------------------------------------------------------------------------
(* Types *)

\* What is read from a queue, and put into it, is of its type.
LEMMA QueueTypes ==
  ASSUME NEW S, NEW q \in Seq(S)
  PROVE  /\ q # <<>> => Head(q) \in S /\ Tail(q) \in Seq(S)
         /\ \A e \in S : Append(q, e) \in Seq(S)
OBVIOUS

LEMMA InitTypes == Init => TypeOK
<1> SUFFICES ASSUME Init PROVE TypeOK
  OBVIOUS
<1>1. (CHOOSE p \in Panel : TRUE) \in Panel
  BY GuiConstants
<1>2. gui_rx \in Seq(Event) /\ stats_rx \in Seq(0..MaxPlayers)
  BY DEF Init
<1>3. 0 \in 0..MaxRuns /\ 0 \in 0..MaxPlayers
  BY GuiConstants
<1>4. owner \in [Run -> Panel]
  BY <1>1 DEF Init
<1> QED BY <1>2, <1>3, <1>4 DEF Init, TypeOK

LEMMA SetActiveTypes ==
  ASSUME TypeOK, NEW to \in {"Disconnected", "Connecting", "Connected", "Disconnecting"},
         NEW n \in 0..MaxPlayers, SetActive(to, n)
  PROVE  /\ state' \in [Panel -> {"Disconnected", "Connecting", "Connected", "Disconnecting"}]
         /\ connected' \in [Panel -> 0..MaxPlayers]
BY DEF TypeOK, SetActive, Active

\* What is said of the active server is said of a panel.
LEMMA ActiveTypes ==
  ASSUME TypeOK, Active # {}
  PROVE  /\ ActiveState \in {"Connecting", "Connected", "Disconnecting"}
         /\ ActiveCount \in 0..MaxPlayers
<1>1. (CHOOSE p \in Active : TRUE) \in Active
  OBVIOUS
<1> QED BY <1>1 DEF Active, ActiveState, ActiveCount, TypeOK

LEMMA ClickTypes ==
  ASSUME TypeOK, NEW p \in Panel, ClickConnect(p) \/ ClickDisconnect(p)
  PROVE  TypeOK'
<1>1. ASSUME NEW to \in {"Connecting", "Disconnecting"}, NEW type \in {"Connect", "Disconnect"},
             Click(p, to, type)
      PROVE  TypeOK'
  <2>1. [type |-> type, panel |-> p] \in Event
    BY DEF Event
  <2>2. gui_rx' \in Seq(Event)
    <3>1. gui_rx \in Seq(Event)
      BY DEF TypeOK
    <3>2. Append(gui_rx, [type |-> type, panel |-> p]) \in Seq(Event)
      BY <2>1, <3>1, QueueTypes
    <3> QED BY <1>1, <3>1, <3>2 DEF Click
  <2> QED BY <1>1, <2>2 DEF Click, TypeOK
<1> QED BY <1>1 DEF ClickConnect, ClickDisconnect

LEMMA ControllerTypes ==
  ASSUME TypeOK,
         HandleConnect \/ HandleDisconnect \/ DisconnectPanics \/ HandleStats \/ StatsPanic
  PROVE  TypeOK'
<1>1. <<>> \in Seq(Event) /\ <<>> \in Seq(0..MaxPlayers) /\ 0 \in 0..MaxRuns
  BY GuiConstants
<1>2. gui_rx # <<>> => Head(gui_rx) \in Event /\ Tail(gui_rx) \in Seq(Event)
  BY DEF TypeOK
<1>3. CASE HandleConnect
  <2>1. Head(gui_rx).panel \in Panel
    BY <1>2, <1>3 DEF HandleConnect, Event
  <2> QED BY <1>2, <1>3, <2>1, GuiConstants DEF HandleConnect, TypeOK, Run, panels
<1>4. CASE HandleDisconnect
  BY <1>2, <1>4 DEF HandleDisconnect, ReadsDisconnect, TypeOK, panels
<1>5. CASE DisconnectPanics
  BY <1>1, <1>5 DEF DisconnectPanics, ControllerPanics, TypeOK, panels
<1>6. CASE HandleStats
  <2>1. Head(stats_rx) \in 0..MaxPlayers /\ Tail(stats_rx) \in Seq(0..MaxPlayers)
    <3>1. stats_rx \in Seq(0..MaxPlayers) /\ stats_rx # <<>>
      BY <1>6 DEF HandleStats, TypeOK
    <3> QED BY <3>1, QueueTypes
  <2>2. SetActive(ActiveState, Head(stats_rx)) /\ Active # {}
    BY <1>6 DEF HandleStats, CanReport
  <2> QED BY <1>6, <2>1, <2>2, ActiveTypes, SetActiveTypes DEF HandleStats, TypeOK
<1>7. CASE StatsPanic
  BY <1>1, <1>7 DEF StatsPanic, PanicInReport, ControllerPanics, TypeOK, panels
<1> QED BY <1>3, <1>4, <1>5, <1>6, <1>7

LEMMA TaskTypes ==
  ASSUME TypeOK, NEW r \in Run, TaskStep(r)
  PROVE  TypeOK'
<1>1. CASE ConnectOk(r) \/ ConnectFails(r) \/ HandleEnds(r) \/ HandlePanics(r) \/ DropClient(r)
  BY <1>1 DEF ConnectOk, ConnectFails, HandleEnds, HandlePanics, DropClient, Goes, panels, rest, TypeOK
<1>2. CASE SetConnected(r)
  <2>1. 0 \in 0..MaxPlayers
    BY GuiConstants
  <2> QED BY <1>2, <2>1, SetActiveTypes DEF SetConnected, Goes, PanicInReport, panels, rest, TypeOK
<1>3. CASE SetDisconnected(r)
  <2>1. CanReport => ActiveCount \in 0..MaxPlayers
    BY ActiveTypes DEF CanReport
  <2> QED BY <1>3, <2>1, SetActiveTypes DEF SetDisconnected, Goes, PanicInReport, panels, rest, TypeOK
<1>4. CASE PlayersChange(r)
  <2>1. ASSUME NEW n \in 0..MaxPlayers PROVE Append(stats_rx, n) \in Seq(0..MaxPlayers)
    BY DEF TypeOK
  <2> QED BY <1>4, <2>1 DEF PlayersChange, Goes, panels, TypeOK
<1> QED BY <1>1, <1>2, <1>3, <1>4 DEF TaskStep

LEMMA NextTypes == TypeOK /\ [Next]_vars => TypeOK'
<1> SUFFICES ASSUME TypeOK, [Next]_vars PROVE TypeOK'
  OBVIOUS
<1>1. CASE FramePanics
  BY <1>1 DEF FramePanics, panels, TypeOK
<1>2. CASE UNCHANGED vars
  BY <1>2 DEF vars, TypeOK
<1> QED BY <1>1, <1>2, ClickTypes, ControllerTypes, TaskTypes DEF Next

\* Type correctness: among others, no report below zero, and no task outside
\* its order of phases.
THEOREM GuiTypeCorrect == Spec => []TypeOK
BY InitTypes, NextTypes, PTL DEF Spec

-----------------------------------------------------------------------------
(* The invariant *)

LEMMA InitGui == Init => GuiInv
BY DEF Init, GuiInv, DeadChannel, OneActive, OneReports, ActiveIsOwn, ConnectAlone,
   DisconnectAfterOwn, ActiveIsControlled, Active, Reports, Unread

\* A report to the one active panel leaves it active, or leaves none.
LEMMA ActiveAfter ==
  ASSUME TypeOK, OneActive, NEW to, NEW n, SetActive(to, n)
  PROVE  Active' = IF to = "Disconnected" THEN {} ELSE Active
<1>1. PICK p \in Active : state' = [state EXCEPT ![p] = to]
  BY DEF SetActive
<1>2. Active = {p} /\ p \in Panel
  BY <1>1 DEF OneActive, Active
<1>3. state'[p] = to /\ \A q \in Panel \ {p} : state'[q] = "Disconnected"
  BY <1>1, <1>2 DEF TypeOK, Active
<1> QED BY <1>2, <1>3 DEF Active

\* Steps after which the same panel is active, the same clicks are unread, and
\* no more tasks have to report than before.
LEMMA QuietGui ==
  ASSUME GuiInv, UNCHANGED <<gui_rx, control_tx, controller, owner>>, Active' = Active,
         \A r \in Run : Reports(r)' => Reports(r)
  PROVE  GuiInv'
<1>1. DeadChannel' /\ OneActive' /\ OneReports'
  BY DEF GuiInv, DeadChannel, OneActive, OneReports
<1>2. ActiveIsOwn'
  BY DEF GuiInv, ActiveIsOwn, Reports
<1>3. ConnectAlone'
  BY DEF GuiInv, ConnectAlone, Unread, IsConnect
<1>4. DisconnectAfterOwn'
  BY DEF GuiInv, DisconnectAfterOwn, Unread, IsConnect
<1>5. ActiveIsControlled'
  BY DEF GuiInv, ActiveIsControlled, NoConnect, Unread, IsConnect
<1> QED BY <1>1, <1>2, <1>3, <1>4, <1>5 DEF GuiInv

\* A click is read after all the others.
LEMMA UnreadAppend ==
  ASSUME TypeOK, NEW e, gui_rx' = Append(gui_rx, e)
  PROVE  /\ Len(gui_rx) \in Nat /\ Len(gui_rx') = Len(gui_rx) + 1
         /\ gui_rx'[Len(gui_rx) + 1] = e
         /\ \A i \in Unread : gui_rx'[i] = gui_rx[i]
BY DEF TypeOK, Unread

LEMMA UnreadTail ==
  ASSUME TypeOK, gui_rx # <<>>, gui_rx' = Tail(gui_rx)
  PROVE  /\ Len(gui_rx) \in Nat /\ Len(gui_rx) >= 1 /\ Len(gui_rx') = Len(gui_rx) - 1
         /\ Head(gui_rx) = gui_rx[1]
         /\ \A i \in Unread' : gui_rx'[i] = gui_rx[i + 1] /\ i + 1 \in Unread
BY DEF TypeOK, Unread

\* No panel is active, so no Connect is unread and no task reports.
LEMMA ClickConnectGui ==
  ASSUME TypeOK, GuiInv, NEW p \in Panel, ClickConnect(p)
  PROVE  GuiInv'
<1>1. Active = {} /\ Click(p, "Connecting", "Connect") /\ state' = [state EXCEPT ![p] = "Connecting"]
      /\ UNCHANGED <<control_tx, controller, task, owner>>
  BY DEF ClickConnect, Click
<1>2. NoConnect /\ \A r \in Run : ~Reports(r)
  BY <1>1 DEF GuiInv, ConnectAlone, ActiveIsOwn, Reports, NoConnect
<1>3. Active' = {p}
  BY <1>1 DEF TypeOK, Active
<1>4. \A r \in Run : ~Reports(r)'
  BY <1>1, <1>2 DEF Reports
<1>5. OneActive' /\ OneReports' /\ ActiveIsOwn'
  BY <1>3, <1>4 DEF OneActive, OneReports, ActiveIsOwn, Reports
<1>6. CASE controller # "running"
  <2>1. gui_rx' = <<>> /\ controller' # "running"
    BY <1>1, <1>6 DEF Click, GuiInv, DeadChannel, TypeOK
  <2> QED BY <1>5, <2>1 DEF GuiInv, DeadChannel, ConnectAlone, DisconnectAfterOwn,
               ActiveIsControlled, Unread
<1>7. CASE controller = "running"
  <2> DEFINE e == [type |-> "Connect", panel |-> p]
  <2>1. gui_rx' = Append(gui_rx, e) /\ controller' = "running"
    BY <1>1, <1>7 DEF Click
  <2>2. e.type = "Connect" /\ e.panel = p
    OBVIOUS
  <2> HIDE DEF e
  <2>3. /\ Len(gui_rx) \in Nat /\ Len(gui_rx') = Len(gui_rx) + 1
        /\ gui_rx'[Len(gui_rx) + 1] = e
        /\ \A i \in Unread : gui_rx'[i] = gui_rx[i]
    BY <2>1, UnreadAppend
  <2>4. \A i \in Unread' : IsConnect(i)' <=> i = Len(gui_rx) + 1
    BY <1>2, <2>2, <2>3 DEF NoConnect, IsConnect, Unread
  <2>5. DeadChannel'
    BY <2>1 DEF DeadChannel
  <2>6. ConnectAlone'
    BY <1>3, <1>4, <2>2, <2>3, <2>4 DEF ConnectAlone
  <2>7. DisconnectAfterOwn'
    <3>1. ASSUME NEW i \in Unread', ~IsConnect(i)'
          PROVE  /\ \A j \in Unread' : j < i => ~IsConnect(j)'
                 /\ control_tx' \in Run /\ gui_rx'[i].panel = owner'[control_tx']
      <4>1. i \in Unread /\ ~IsConnect(i) /\ gui_rx'[i] = gui_rx[i]
        BY <2>3, <2>4, <3>1 DEF Unread, IsConnect
      <4>2. control_tx \in Run /\ gui_rx[i].panel = owner[control_tx]
        BY <1>2, <4>1 DEF GuiInv, DisconnectAfterOwn, NoConnect
      <4>3. \A j \in Unread' : j < i => ~IsConnect(j)'
        BY <2>3, <2>4, <4>1 DEF Unread
      <4> QED BY <1>1, <4>1, <4>2, <4>3
    <3> QED BY <3>1 DEF DisconnectAfterOwn
  <2>8. ActiveIsControlled'
    <3>1. Len(gui_rx) + 1 \in Unread'
      BY <2>3 DEF Unread
    <3> QED BY <2>4, <3>1 DEF ActiveIsControlled, NoConnect
  <2> QED BY <1>5, <2>5, <2>6, <2>7, <2>8 DEF GuiInv
<1> QED BY <1>6, <1>7

\* The panel is the one of the Connect that is unread, or else of the Client
\* that the Controller has.
LEMMA ClickDisconnectGui ==
  ASSUME TypeOK, GuiInv, NEW p \in Panel, ClickDisconnect(p)
  PROVE  GuiInv'
<1>1. state[p] \in {"Connected", "Connecting"} /\ Click(p, "Disconnecting", "Disconnect")
      /\ state' = [state EXCEPT ![p] = "Disconnecting"]
      /\ UNCHANGED <<control_tx, controller, task, owner>>
  BY DEF ClickDisconnect, Click
<1>2. p \in Active /\ Active' = Active
  BY <1>1 DEF TypeOK, Active
<1>3. \A r \in Run : Reports(r)' <=> Reports(r)
  BY <1>1 DEF Reports
<1>4. CASE controller # "running"
  <2>1. gui_rx' = gui_rx
    BY <1>1, <1>4 DEF Click
  <2> QED BY <1>1, <1>2, <1>3, <2>1, QuietGui
<1>5. CASE controller = "running"
  <2> DEFINE e == [type |-> "Disconnect", panel |-> p]
  <2>1. gui_rx' = Append(gui_rx, e) /\ controller' = "running"
    BY <1>1, <1>5 DEF Click
  <2>2. e.type = "Disconnect" /\ e.panel = p
    OBVIOUS
  <2> HIDE DEF e
  <2>3. /\ Len(gui_rx) \in Nat /\ Len(gui_rx') = Len(gui_rx) + 1
        /\ gui_rx'[Len(gui_rx) + 1] = e
        /\ \A i \in Unread : gui_rx'[i] = gui_rx[i]
    BY <2>1, UnreadAppend
  <2>4. \A i \in Unread' : IsConnect(i)' <=> i \in Unread /\ IsConnect(i)
    BY <2>2, <2>3 DEF IsConnect, Unread
  <2>5. Unread \subseteq Unread'
    BY <2>3 DEF Unread
  <2>6. DeadChannel' /\ OneActive' /\ OneReports' /\ ActiveIsOwn'
    BY <1>1, <1>2, <1>3, <2>1 DEF GuiInv, DeadChannel, OneActive, OneReports, ActiveIsOwn
  <2>7. ConnectAlone'
    BY <1>2, <1>3, <2>3, <2>4 DEF GuiInv, ConnectAlone
  <2>8. ActiveIsControlled'
    BY <1>1, <1>2, <2>4, <2>5 DEF GuiInv, ActiveIsControlled, NoConnect
  <2>9. DisconnectAfterOwn'
    <3>1. ASSUME NEW i \in Unread, ~IsConnect(i)'
          PROVE  \/ \E j \in Unread' : j < i /\ IsConnect(j)' /\ gui_rx'[j].panel = gui_rx'[i].panel
                 \/ /\ \A j \in Unread' : j < i => ~IsConnect(j)'
                    /\ control_tx' \in Run /\ gui_rx'[i].panel = owner'[control_tx']
      <4>1. ~IsConnect(i)
        BY <2>4, <2>5, <3>1
      <4> QED BY <1>1, <2>3, <2>4, <2>5, <4>1 DEF GuiInv, DisconnectAfterOwn
    <3> DEFINE n == Len(gui_rx) + 1
    <3>2. CASE NoConnect
      <4>1. control_tx \in Run /\ p = owner[control_tx]
        BY <1>2, <1>5, <3>2 DEF GuiInv, ActiveIsControlled
      <4> QED BY <1>1, <2>2, <2>3, <2>4, <3>1, <3>2, <4>1 DEF DisconnectAfterOwn, NoConnect, Unread
    <3>3. CASE ~NoConnect
      <4>1. PICK j \in Unread : IsConnect(j)
        BY <3>3 DEF NoConnect
      <4>2. gui_rx[j].panel = p
        BY <1>2, <4>1 DEF GuiInv, ConnectAlone
      <4>3. j \in Unread' /\ j < n /\ IsConnect(j)' /\ gui_rx'[j].panel = gui_rx'[n].panel
        BY <2>2, <2>3, <2>4, <2>5, <4>1, <4>2 DEF Unread
      <4>4. \A i \in Unread' : i \in Unread \/ i = n
        BY <2>3 DEF Unread
      <4> QED BY <3>1, <4>3, <4>4 DEF DisconnectAfterOwn
    <3> QED BY <3>2, <3>3
  <2> QED BY <2>6, <2>7, <2>8, <2>9 DEF GuiInv
<1> QED BY <1>4, <1>5

\* The Client becomes the one that the Controller has and that every
\* Disconnect after the Connect is for.
LEMMA HandleConnectGui ==
  ASSUME TypeOK, GuiInv, HandleConnect
  PROVE  GuiInv'
<1>1. PICK r \in Run : /\ task[r] = "idle" /\ task' = [task EXCEPT ![r] = "connecting"]
                       /\ owner' = [owner EXCEPT ![r] = Head(gui_rx).panel]
                       /\ control_tx' = r
  BY DEF HandleConnect
<1>2. /\ controller = "running" /\ controller' = controller
      /\ gui_rx # <<>> /\ Head(gui_rx).type = "Connect" /\ gui_rx' = Tail(gui_rx)
      /\ UNCHANGED state
  BY DEF HandleConnect, panels
<1>3. /\ Len(gui_rx) \in Nat /\ Len(gui_rx) >= 1 /\ Len(gui_rx') = Len(gui_rx) - 1
      /\ Head(gui_rx) = gui_rx[1]
      /\ \A i \in Unread' : gui_rx'[i] = gui_rx[i + 1] /\ i + 1 \in Unread
  BY <1>2, UnreadTail
<1> DEFINE p == gui_rx[1].panel
<1>4. 1 \in Unread /\ IsConnect(1)
  BY <1>2, <1>3 DEF Unread, IsConnect
<1>5. Active = {p} /\ (\A q \in Run : ~Reports(q)) /\ \A j \in Unread : IsConnect(j) => j = 1
  BY <1>4 DEF GuiInv, ConnectAlone
<1>6. Active' = {p}
  BY <1>2, <1>5 DEF Active
<1>7. owner'[r] = p /\ task'[r] = "connecting" /\ \A q \in Run \ {r} : task'[q] = task[q]
  BY <1>1, <1>3 DEF TypeOK
<1>8. \A q \in Run : Reports(q)' => q = r
  BY <1>5, <1>7 DEF Reports
<1>9. \A i \in Unread' : ~IsConnect(i)'
  BY <1>3, <1>5 DEF IsConnect, Unread
<1>10. DeadChannel' /\ OneActive' /\ OneReports' /\ ActiveIsOwn' /\ ConnectAlone'
  BY <1>2, <1>6, <1>7, <1>8, <1>9
  DEF DeadChannel, OneActive, OneReports, ActiveIsOwn, ConnectAlone, Reports
<1>11. ActiveIsControlled'
  BY <1>1, <1>6, <1>7 DEF ActiveIsControlled
<1>12. DisconnectAfterOwn'
  <2>1. ASSUME NEW i \in Unread' PROVE gui_rx'[i].panel = p
    <3>1. i + 1 \in Unread /\ ~IsConnect(i + 1) /\ 1 < i + 1
      BY <1>3, <1>5, <2>1 DEF Unread
    <3>2. gui_rx[i + 1].panel = p
      BY <1>4, <1>5, <3>1 DEF GuiInv, DisconnectAfterOwn
    <3> QED BY <1>3, <3>2
  <2> QED BY <1>1, <1>7, <1>9, <2>1 DEF DisconnectAfterOwn
<1> QED BY <1>10, <1>11, <1>12 DEF GuiInv

LEMMA HandleDisconnectGui ==
  ASSUME TypeOK, GuiInv, HandleDisconnect
  PROVE  GuiInv'
<1>1. /\ controller = "running" /\ UNCHANGED <<controller, control_tx, state, task, owner>>
      /\ gui_rx # <<>> /\ Head(gui_rx).type = "Disconnect" /\ gui_rx' = Tail(gui_rx)
  BY DEF HandleDisconnect, ReadsDisconnect, panels
<1>2. /\ Len(gui_rx) \in Nat /\ Len(gui_rx) >= 1 /\ Len(gui_rx') = Len(gui_rx) - 1
      /\ Head(gui_rx) = gui_rx[1]
      /\ \A i \in Unread' : gui_rx'[i] = gui_rx[i + 1] /\ i + 1 \in Unread
  BY <1>1, UnreadTail
<1>3. ~IsConnect(1)
  BY <1>1, <1>2 DEF IsConnect
<1>4. Active' = Active /\ \A r \in Run : Reports(r)' <=> Reports(r)
  BY <1>1 DEF Active, Reports
<1>5. \A i \in Unread' : IsConnect(i)' <=> IsConnect(i + 1)
  BY <1>2 DEF IsConnect
<1>6. \A j \in Unread : j # 1 => j - 1 \in Unread' /\ (j - 1) + 1 = j
  BY <1>2 DEF Unread
<1>7. DeadChannel' /\ OneActive' /\ OneReports' /\ ActiveIsOwn'
  BY <1>1, <1>4 DEF GuiInv, DeadChannel, OneActive, OneReports, ActiveIsOwn
<1>8. ConnectAlone'
  <2>1. ASSUME NEW i \in Unread', IsConnect(i)'
        PROVE  /\ Active' = {gui_rx'[i].panel}
               /\ \A r \in Run : ~Reports(r)'
               /\ \A j \in Unread' : IsConnect(j)' => j = i
    <3>1. i + 1 \in Unread /\ IsConnect(i + 1) /\ gui_rx'[i] = gui_rx[i + 1]
      BY <1>2, <1>5, <2>1
    <3>2. /\ Active = {gui_rx[i + 1].panel} /\ \A r \in Run : ~Reports(r)
          /\ \A j \in Unread : IsConnect(j) => j = i + 1
      BY <3>1 DEF GuiInv, ConnectAlone
    <3>3. \A j \in Unread' : IsConnect(j)' => j = i
      BY <1>2, <1>5, <3>2 DEF Unread
    <3> QED BY <1>4, <3>1, <3>2, <3>3
  <2> QED BY <2>1 DEF ConnectAlone
<1>9. ActiveIsControlled'
  <2>1. NoConnect' => NoConnect
    BY <1>3, <1>5, <1>6 DEF NoConnect
  <2> QED BY <1>1, <1>4, <2>1 DEF GuiInv, ActiveIsControlled
<1>10. DisconnectAfterOwn'
  <2>1. ASSUME NEW i \in Unread', ~IsConnect(i)'
        PROVE  \/ \E j \in Unread' : j < i /\ IsConnect(j)' /\ gui_rx'[j].panel = gui_rx'[i].panel
               \/ /\ \A j \in Unread' : j < i => ~IsConnect(j)'
                  /\ control_tx' \in Run /\ gui_rx'[i].panel = owner'[control_tx']
    <3>1. i + 1 \in Unread /\ ~IsConnect(i + 1) /\ gui_rx'[i] = gui_rx[i + 1]
      BY <1>2, <1>5, <2>1
    <3>2. CASE \E j \in Unread : j < i + 1 /\ IsConnect(j) /\ gui_rx[j].panel = gui_rx[i + 1].panel
      <4>1. PICK j \in Unread : j < i + 1 /\ IsConnect(j) /\ gui_rx[j].panel = gui_rx[i + 1].panel
        BY <3>2
      <4>2. j # 1
        BY <1>3, <4>1
      <4>3. j - 1 \in Unread' /\ j - 1 < i /\ IsConnect(j - 1)' /\ gui_rx'[j - 1] = gui_rx[j]
        BY <1>2, <1>5, <1>6, <4>1, <4>2 DEF Unread
      <4> QED BY <3>1, <4>1, <4>3
    <3>3. CASE /\ \A j \in Unread : j < i + 1 => ~IsConnect(j)
               /\ control_tx \in Run /\ gui_rx[i + 1].panel = owner[control_tx]
      <4>1. \A j \in Unread' : j < i => ~IsConnect(j)'
        BY <1>2, <1>5, <3>3 DEF Unread
      <4> QED BY <1>1, <3>1, <3>3, <4>1
    <3> QED BY <3>1, <3>2, <3>3 DEF GuiInv, DisconnectAfterOwn
  <2> QED BY <2>1 DEF DisconnectAfterOwn
<1> QED BY <1>7, <1>8, <1>9, <1>10 DEF GuiInv

\* The channel is gone with the Controller.
LEMMA PanicGui ==
  ASSUME TypeOK, GuiInv, ControllerPanics, UNCHANGED <<state, task, owner>>
  PROVE  GuiInv'
<1>1. gui_rx' = <<>> /\ controller' = "panicked" /\ Len(gui_rx') = 0 /\ Active' = Active
      /\ \A r \in Run : Reports(r)' <=> Reports(r)
  BY DEF ControllerPanics, Active, Reports
<1> QED
  BY <1>1 DEF GuiInv, DeadChannel, OneActive, OneReports, ActiveIsOwn, ConnectAlone,
    DisconnectAfterOwn, ActiveIsControlled, Unread

LEMMA ControllerGui ==
  ASSUME TypeOK, GuiInv,
         HandleConnect \/ HandleDisconnect \/ DisconnectPanics \/ HandleStats \/ StatsPanic
  PROVE  GuiInv'
<1>1. CASE HandleStats
  <2>1. SetActive(ActiveState, Head(stats_rx)) /\ Active # {}
        /\ UNCHANGED <<gui_rx, control_tx, controller, owner, task>>
    BY <1>1 DEF HandleStats, CanReport
  <2>2. ActiveState # "Disconnected"
    BY <2>1, ActiveTypes
  <2>3. Active' = Active
    BY <2>1, <2>2, ActiveAfter DEF GuiInv
  <2> QED BY <2>1, <2>3, QuietGui DEF Reports
<1>2. CASE DisconnectPanics
  BY <1>2, PanicGui DEF DisconnectPanics, panels
<1>3. CASE StatsPanic
  BY <1>3, PanicGui DEF StatsPanic, PanicInReport, panels
<1> QED BY <1>1, <1>2, <1>3, HandleConnectGui, HandleDisconnectGui

\* The only step of a task after which another panel, or none, is active: no
\* Connect is unread, because the task has still reported.
LEMMA SetDisconnectedGui ==
  ASSUME TypeOK, GuiInv, NEW r \in Run, SetDisconnected(r)
  PROVE  GuiInv'
<1>1. task[r] = "over" /\ UNCHANGED <<gui_rx, control_tx, controller, owner>> /\ Reports(r)
  BY DEF SetDisconnected, rest, Reports
<1>2. CASE ~CanReport
  <2>1. UNCHANGED state /\ task' = [task EXCEPT ![r] = "panicked"]
    BY <1>2 DEF SetDisconnected, PanicInReport, Goes, panels
  <2>2. Active' = Active /\ \A q \in Run : Reports(q)' => Reports(q)
    BY <2>1 DEF Active, Reports, TypeOK
  <2> QED BY <1>1, <2>2, QuietGui
<1>3. CASE CanReport
  <2>1. SetActive("Disconnected", ActiveCount) /\ task' = [task EXCEPT ![r] = "finished"]
    BY <1>3 DEF SetDisconnected, Goes
  <2>2. Active' = {}
    BY <2>1, ActiveAfter DEF GuiInv
  <2>3. \A q \in Run : ~Reports(q)'
    BY <1>1, <2>1 DEF GuiInv, OneReports, Reports, TypeOK
  <2>4. NoConnect
    BY <1>1 DEF GuiInv, ConnectAlone, NoConnect
  <2>5. Unread' = Unread /\ \A i \in Unread : IsConnect(i)' <=> IsConnect(i)
    BY <1>1 DEF Unread, IsConnect
  <2>6. DeadChannel' /\ OneActive' /\ OneReports' /\ ActiveIsOwn' /\ ActiveIsControlled'
    BY <1>1, <2>2, <2>3
    DEF GuiInv, DeadChannel, OneActive, OneReports, ActiveIsOwn, ActiveIsControlled, Reports
  <2>7. ConnectAlone'
    BY <2>4, <2>5 DEF ConnectAlone, NoConnect
  <2>8. DisconnectAfterOwn'
    BY <1>1, <2>5 DEF GuiInv, DisconnectAfterOwn
  <2> QED BY <2>6, <2>7, <2>8 DEF GuiInv
<1> QED BY <1>2, <1>3

LEMMA TaskGui ==
  ASSUME TypeOK, GuiInv, NEW r \in Run, TaskStep(r)
  PROVE  GuiInv'
<1>1. CASE ConnectOk(r) \/ ConnectFails(r) \/ HandleEnds(r) \/ HandlePanics(r) \/ DropClient(r)
  <2>1. /\ UNCHANGED <<state, gui_rx, control_tx, controller, owner>>
        /\ \A q \in Run : Reports(q)' => Reports(q)
    BY <1>1 DEF ConnectOk, ConnectFails, HandleEnds, HandlePanics, DropClient, Goes, panels, rest, Reports, TypeOK
  <2> QED BY <2>1, QuietGui DEF Active
<1>2. CASE SetConnected(r)
  <2>1. /\ UNCHANGED <<gui_rx, control_tx, controller, owner>>
        /\ \A q \in Run : Reports(q)' => Reports(q)
    BY <1>2 DEF SetConnected, Goes, rest, Reports, TypeOK
  <2>2. SetActive("Connected", 0) \/ UNCHANGED state
    BY <1>2 DEF SetConnected, PanicInReport, panels
  <2>3. Active' = Active
    BY <2>2, ActiveAfter DEF GuiInv, Active
  <2> QED BY <2>1, <2>3, QuietGui
<1>3. CASE PlayersChange(r)
  <2>1. /\ UNCHANGED <<state, gui_rx, control_tx, controller, owner>>
        /\ \A q \in Run : Reports(q)' => Reports(q)
    BY <1>3 DEF PlayersChange, Goes, panels, Reports, TypeOK
  <2> QED BY <2>1, QuietGui DEF Active
<1> QED BY <1>1, <1>2, <1>3, SetDisconnectedGui DEF TaskStep

LEMMA NextGui == TypeOK /\ GuiInv /\ [Next]_vars => GuiInv'
<1> SUFFICES ASSUME TypeOK, GuiInv, [Next]_vars PROVE GuiInv'
  OBVIOUS
<1>1. CASE FramePanics \/ UNCHANGED vars
  <2>1. UNCHANGED <<state, task, gui_rx, control_tx, controller, owner>>
    BY <1>1 DEF FramePanics, vars, panels
  <2> QED BY <2>1, QuietGui DEF Active, Reports
<1> QED BY <1>1, ClickConnectGui, ClickDisconnectGui, ControllerGui, TaskGui DEF Next

LEMMA GuiAlways == Spec => [](TypeOK /\ GuiInv)
<1>1. TypeOK /\ GuiInv /\ [Next]_vars => (TypeOK /\ GuiInv)'
  BY NextTypes, NextGui
<1> QED BY <1>1, InitTypes, InitGui, PTL DEF Spec

\* As long as a task still reports, "the active server" is the panel it was
\* started for, however many panels are clicked and Clients started.
THEOREM TheActiveIsTheOwn == Spec => []ActiveIsOwn
<1>1. GuiInv => ActiveIsOwn
  BY DEF GuiInv
<1> QED BY <1>1, GuiAlways, PTL

\* Once the Controller has read every Connect, the Client it would disconnect
\* is the one that was started for the active panel.
THEOREM TheActiveIsControlled == Spec => []ActiveIsControlled
<1>1. GuiInv => ActiveIsControlled
  BY DEF GuiInv
<1> QED BY <1>1, GuiAlways, PTL

\* The panel of the Disconnect that is read is that of the Client it stops.
LEMMA DisconnectReachesOwn ==
  ASSUME TypeOK, GuiInv, [Next]_vars, NEW r \in Run, ~control_rx[r], control_rx'[r]
  PROVE  Head(gui_rx).panel = owner[r]
<1>1. HandleDisconnect
  <2>1. CASE \E p \in Panel : ClickConnect(p) \/ ClickDisconnect(p)
    BY <2>1 DEF ClickConnect, ClickDisconnect, Click
  <2>2. CASE FramePanics \/ UNCHANGED vars
    BY <2>2 DEF FramePanics, vars
  <2>3. CASE HandleConnect \/ DisconnectPanics \/ HandleStats \/ StatsPanic
    BY <2>3 DEF HandleConnect, DisconnectPanics, HandleStats, StatsPanic
  <2>4. CASE \E q \in Run : TaskStep(q)
    BY <2>4 DEF TaskStep, ConnectOk, ConnectFails, HandleEnds, HandlePanics, DropClient, SetConnected,
      SetDisconnected, PlayersChange, rest
  <2> QED BY <2>1, <2>2, <2>3, <2>4 DEF Next
<1>2. control_tx = r
  BY <1>1 DEF HandleDisconnect, TypeOK
<1>3. gui_rx # <<>> /\ Head(gui_rx).type = "Disconnect"
  BY <1>1 DEF HandleDisconnect, ReadsDisconnect
<1>4. 1 \in Unread /\ Head(gui_rx) = gui_rx[1] /\ ~IsConnect(1)
  BY <1>3 DEF TypeOK, Unread, IsConnect
<1>5. ~\E j \in Unread : j < 1
  BY DEF Unread
<1> QED BY <1>2, <1>4, <1>5 DEF GuiInv, DisconnectAfterOwn

\* A Disconnect never stops the Client of another panel.
THEOREM DisconnectNeverStray == Spec => DisconnectHitsOwn
<1>1. (TypeOK /\ GuiInv) /\ [Next]_vars
        => [\A r \in Run : (~control_rx[r] /\ control_rx'[r]) => Head(gui_rx).panel = owner[r]]_vars
  BY DisconnectReachesOwn
<1> QED BY <1>1, GuiAlways, PTL DEF Spec, DisconnectHitsOwn
=============================================================================
