----------------------------- MODULE GuiBackend -----------------------------
(***************************************************************************)
(* The desktop application (client-gui): the GUI thread draws one panel    *)
(* per server and sends clicks to the Controller, the Controller starts a  *)
(* task with a Client per Connect and passes Disconnect on, and the task   *)
(* and the Controller report to the panels behind the GUI's mutex.  They   *)
(* report to "the active server", the one panel that is not Disconnected,  *)
(* and unwrap when there is none.                                          *)
(*                                                                         *)
(* A panic under the mutex poisons it and so ends the GUI at its next      *)
(* frame, and with it the program.                                         *)
(***************************************************************************)
EXTENDS Integers, Sequences, FiniteSets, Functions

CONSTANTS
  Panel,
  MaxRuns,      \* bound: Clients that are started
  MaxPlayers,   \* bound: players a Client reports
  MaxStats      \* bound: reports not yet read

ASSUME GuiConstants ==
  Panel # {} /\ MaxRuns \in Nat /\ MaxPlayers \in Nat /\ MaxStats \in Nat

VARIABLES
  state,       \* ServerPanel.state
  connected,   \* ServerPanel.connected
  gui_rx,      \* clicks not yet read; with Disconnect, the panel (history)
  control_tx,  \* Client the Controller can disconnect, 0 for None
  stats_rx,    \* reports not yet read
  controller,  \* "running" or "panicked"
  poisoned,    \* the mutex
  gui,         \* "running" or "panicked"
  task,        \* of each Client
  owner,       \* panel that Client was started for
  control_rx   \* Disconnect is queued for that Client

vars == <<state, connected, gui_rx, control_tx, stats_rx, controller, poisoned, gui,
          task, owner, control_rx>>
panels == <<state, connected>>

Run == 1..MaxRuns
Event == [type: {"Connect", "Disconnect"}, panel: Panel]

TypeOK ==
  /\ state \in [Panel -> {"Disconnected", "Connecting", "Connected", "Disconnecting"}]
  /\ connected \in [Panel -> 0..MaxPlayers]
  /\ gui_rx \in Seq(Event)
  /\ control_tx \in 0..MaxRuns
  /\ stats_rx \in Seq(0..MaxPlayers)
  /\ {controller, gui} \subseteq {"running", "panicked"} /\ poisoned \in BOOLEAN
  /\ task \in [Run -> {"idle", "connecting", "up", "handling", "over", "finished", "done",
                  "panicked"}]
  /\ owner \in [Run -> Panel]
  /\ control_rx \in [Run -> BOOLEAN]

Init ==
  /\ state = [p \in Panel |-> "Disconnected"]
  /\ connected = [p \in Panel |-> 0]
  /\ gui_rx = <<>> /\ control_tx = 0 /\ stats_rx = <<>>
  /\ controller = "running" /\ poisoned = FALSE /\ gui = "running"
  /\ task = [r \in Run |-> "idle"]
  /\ owner = [r \in Run |-> CHOOSE p \in Panel : TRUE]
  /\ control_rx = [r \in Run |-> FALSE]

-----------------------------------------------------------------------------
(* The active server *)

Active == {p \in Panel : state[p] # "Disconnected"}

\* set_active_server(|s| s.state = to, s.connected = n); the first one found.
SetActive(to, n) ==
  \E p \in Active :
    /\ state' = [state EXCEPT ![p] = to]
    /\ connected' = [connected EXCEPT ![p] = n]
ActiveState == state[CHOOSE p \in Active : TRUE]
ActiveCount == connected[CHOOSE p \in Active : TRUE]

\* `lock().unwrap()` and set_active_server's `unwrap()`: both may panic, the
\* second one with the mutex held.
CanReport == ~poisoned /\ Active # {}
PanicInReport == poisoned' = TRUE /\ UNCHANGED panels

-----------------------------------------------------------------------------
(* The GUI thread: MyApp::update and ServerPanel::render *)

\* A click sets the state and then sends; `expect` fails when the Controller
\* is gone, under the mutex.
Click(p, to, type) ==
  /\ gui = "running" /\ ~poisoned
  /\ state' = [state EXCEPT ![p] = to]
  /\ IF controller = "running"
       THEN /\ gui_rx' = Append(gui_rx, [type |-> type, panel |-> p])
            /\ UNCHANGED <<gui, poisoned>>
       ELSE gui' = "panicked" /\ poisoned' = TRUE /\ UNCHANGED gui_rx
  /\ UNCHANGED <<connected, control_tx, stats_rx, controller, task, owner, control_rx>>

\* Mutant: every panel's button is enabled.
ClickConnectAnytime(p) ==
  /\ state[p] = "Disconnected" /\ \E r \in Run : task[r] = "idle"
  /\ Click(p, "Connecting", "Connect")

\* Only while no panel is active.
ClickConnect(p) ==
  /\ Active = {} /\ \E r \in Run : task[r] = "idle"
  /\ Click(p, "Connecting", "Connect")

ClickDisconnect(p) ==
  /\ state[p] \in {"Connected", "Connecting"}
  /\ Click(p, "Disconnecting", "Disconnect")

\* The next frame finds the mutex poisoned.
FramePanics ==
  /\ gui = "running" /\ poisoned
  /\ gui' = "panicked"
  /\ UNCHANGED <<panels, gui_rx, control_tx, stats_rx, controller, poisoned, task, owner, control_rx>>

-----------------------------------------------------------------------------
(* Controller::update *)

\* Its channels and the sender of the control channel are dropped.
ControllerPanics ==
  /\ controller' = "panicked"
  /\ gui_rx' = <<>> /\ stats_rx' = <<>> /\ control_tx' = 0

\* Mutant: the sender of the first Client is kept.
ConnectKeepingFirst ==
  /\ controller = "running" /\ gui_rx # <<>> /\ Head(gui_rx).type = "Connect"
  /\ \E r \in Run :
       /\ task[r] = "idle" /\ \A q \in 1..r - 1 : task[q] # "idle"
       /\ task' = [task EXCEPT ![r] = "connecting"]
       /\ owner' = [owner EXCEPT ![r] = Head(gui_rx).panel]
       /\ control_tx' = IF control_tx = 0 THEN r ELSE control_tx
  /\ gui_rx' = Tail(gui_rx)
  /\ UNCHANGED <<panels, stats_rx, controller, poisoned, gui, control_rx>>

\* A new Client and its task; the sender to the one before is dropped.
HandleConnect ==
  /\ controller = "running" /\ gui_rx # <<>> /\ Head(gui_rx).type = "Connect"
  /\ \E r \in Run :
       /\ task[r] = "idle" /\ \A q \in 1..r - 1 : task[q] # "idle"
       /\ task' = [task EXCEPT ![r] = "connecting"]
       /\ owner' = [owner EXCEPT ![r] = Head(gui_rx).panel]
       /\ control_tx' = r
  /\ gui_rx' = Tail(gui_rx)
  /\ UNCHANGED <<panels, stats_rx, controller, poisoned, gui, control_rx>>

\* The Client is gone, and with it the receiver of its control channel.
Dropped(r) == task[r] \in {"done", "panicked"}

ReadsDisconnect == controller = "running" /\ gui_rx # <<>> /\ Head(gui_rx).type = "Disconnect"

HandleDisconnect ==
  /\ ReadsDisconnect
  /\ IF control_tx = 0
       THEN UNCHANGED control_rx
       ELSE ~Dropped(control_tx) /\ control_rx' = [control_rx EXCEPT ![control_tx] = TRUE]
  /\ gui_rx' = Tail(gui_rx)
  /\ UNCHANGED <<panels, control_tx, stats_rx, controller, poisoned, gui, task, owner>>

\* `control_tx.send(..).unwrap()`: the Client has been dropped.
DisconnectPanics ==
  /\ ReadsDisconnect
  /\ control_tx # 0 /\ Dropped(control_tx)
  /\ ControllerPanics
  /\ UNCHANGED <<panels, poisoned, gui, task, owner, control_rx>>

HandleStats ==
  /\ controller = "running" /\ stats_rx # <<>> /\ CanReport
  /\ SetActive(ActiveState, Head(stats_rx))
  /\ stats_rx' = Tail(stats_rx)
  /\ UNCHANGED <<gui_rx, control_tx, controller, poisoned, gui, task, owner, control_rx>>

StatsPanic ==
  /\ controller = "running" /\ stats_rx # <<>> /\ ~CanReport
  /\ PanicInReport
  /\ ControllerPanics
  /\ UNCHANGED <<gui, task, owner, control_rx>>

-----------------------------------------------------------------------------
(* The task of a Client *)

Goes(r, to) == task' = [task EXCEPT ![r] = to]
rest == <<gui_rx, control_tx, stats_rx, controller, gui, owner, control_rx>>

\* The Client reads Disconnect, or that its control channel is closed.
Stopped(r) == control_rx[r] \/ control_tx # r

\* connect returns, or handle does: the server, the network, or Stopped.
ConnectOk(r) == task[r] = "connecting" /\ Goes(r, "up") /\ UNCHANGED <<panels, poisoned, rest>>
ConnectFails(r) == task[r] = "connecting" /\ Goes(r, "over") /\ UNCHANGED <<panels, poisoned, rest>>
HandleEnds(r) == task[r] = "handling" /\ Goes(r, "over") /\ UNCHANGED <<panels, poisoned, rest>>

\* `unimplemented!` in handle: the Client is dropped and no panel is told.
HandlePanics(r) ==
  task[r] = "handling" /\ Goes(r, "panicked") /\ UNCHANGED <<panels, poisoned, rest>>

SetConnected(r) ==
  /\ task[r] = "up"
  /\ IF CanReport
       THEN SetActive("Connected", 0) /\ Goes(r, "handling") /\ UNCHANGED poisoned
       ELSE PanicInReport /\ Goes(r, "panicked")
  /\ UNCHANGED rest

\* Mutant: the panel is told only when the Client ended on its own.
SetDisconnectedUnlessStopped(r) ==
  /\ task[r] = "over" /\ CanReport
  /\ IF Stopped(r) THEN UNCHANGED panels ELSE SetActive("Disconnected", ActiveCount)
  /\ Goes(r, "finished")
  /\ UNCHANGED <<poisoned, rest>>

SetDisconnected(r) ==
  /\ task[r] = "over"
  /\ IF CanReport
       THEN SetActive("Disconnected", ActiveCount) /\ Goes(r, "finished") /\ UNCHANGED poisoned
       ELSE PanicInReport /\ Goes(r, "panicked")
  /\ UNCHANGED rest

\* The task returns and drops the Client, with the receiver of its control.
DropClient(r) == task[r] = "finished" /\ Goes(r, "done") /\ UNCHANGED <<panels, poisoned, rest>>

\* Mutant: a counter in place of the table's length, which remove_connection
\* of an unknown identifier takes below zero.
PlayersCounted(r) ==
  /\ task[r] = "handling" /\ Len(stats_rx) < MaxStats
  /\ \E n \in -1..MaxPlayers : stats_rx' = Append(stats_rx, n)
  /\ UNCHANGED <<panels, poisoned, gui_rx, control_tx, controller, gui, task, owner, control_rx>>

\* add_connection or remove_connection, `unwrap` when the Controller is gone.
\* (Stats::Connected and Stats::Ping change nothing.)
PlayersChange(r) ==
  /\ task[r] = "handling" /\ Len(stats_rx) < MaxStats
  /\ IF controller = "running"
       THEN (\E n \in 0..MaxPlayers : stats_rx' = Append(stats_rx, n)) /\ UNCHANGED task
       ELSE Goes(r, "panicked") /\ UNCHANGED stats_rx
  /\ UNCHANGED <<panels, poisoned, gui_rx, control_tx, controller, gui, owner, control_rx>>

-----------------------------------------------------------------------------

TaskStep(r) ==
  \/ ConnectOk(r) \/ ConnectFails(r) \/ HandleEnds(r) \/ HandlePanics(r) \/ SetConnected(r)
  \/ SetDisconnected(r) \/ DropClient(r) \/ PlayersChange(r)

\* The process ends with its GUI thread.
Next ==
  \/ \E p \in Panel : ClickConnect(p) \/ ClickDisconnect(p)
  \/ FramePanics
  \/ /\ gui = "running"
     /\ \/ HandleConnect \/ HandleDisconnect \/ DisconnectPanics \/ HandleStats \/ StatsPanic
        \/ \E r \in Run : TaskStep(r)

Spec == Init /\ [][Next]_vars

\* tokio polls the Controller, whose select! is random, and the tasks.  A
\* Client that is told to end does so for certain only in connect, which has
\* timeouts up to the select! that reads the control channel: handle reads it
\* in every round, but may sit in a send for ever (see Link).
Fairness ==
  /\ WF_vars(gui = "running" /\ (HandleConnect \/ HandleDisconnect \/ DisconnectPanics))
  /\ WF_vars(gui = "running" /\ (HandleStats \/ StatsPanic))
  /\ \A r \in Run :
       /\ WF_vars(gui = "running" /\ (SetConnected(r) \/ SetDisconnected(r) \/ DropClient(r)))
       /\ WF_vars(gui = "running" /\ Stopped(r) /\ (ConnectOk(r) \/ ConnectFails(r)))

FairSpec == Spec /\ Fairness

-----------------------------------------------------------------------------
(* Properties *)

\* "The active server" is the panel the task was started for: as long as a
\* task still reports, its panel is active and no other one is, although
\* panels change in three threads and a new Connect may be clicked while the
\* task before is still there.
ActiveIsOwn ==
  \A r \in Run :
    task[r] \in {"connecting", "up", "handling", "over"} => Active = {owner[r]}

\* A Disconnect stops the Client of the panel it was clicked on, never the one
\* that was started after or before it.
DisconnectHitsOwn ==
  [][\A r \in Run : (~control_rx[r] /\ control_rx'[r]) => Head(gui_rx).panel = owner[r]]_vars

\* A panel that shows Disconnecting, where its button is disabled, becomes
\* Disconnected.  Four things keep it there: its Client is told to end but is
\* inside a send, or has panicked; the program is over; or the Controller has
\* panicked and with it the Connect of the panel was lost.
DisconnectEnds ==
  \A p \in Panel :
    state[p] = "Disconnecting" ~>
      \/ state[p] = "Disconnected"
      \/ \E r \in Run : /\ owner[r] = p
                        /\ (task[r] = "handling" /\ Stopped(r)) \/ task[r] = "panicked"
      \/ gui = "panicked"
      \/ controller = "panicked" /\ \A r \in Run : owner[r] = p => task[r] \in {"idle", "done"}
=============================================================================
