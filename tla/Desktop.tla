------------------------------- MODULE Desktop -------------------------------
(***************************************************************************)
(* The desktop application over several starts: what MyApp (client-gui/    *)
(* src/main.rs) keeps of a server in memory and in eframe's storage, and   *)
(* the updater (updater.rs), a thread that may replace the executable and  *)
(* then the whole process, at any moment of what the user is doing.  There *)
(* is one server: the one made at the first start.  What happens inside a  *)
(* start, between the panel, the Controller and the Client, is GuiBackend. *)
(***************************************************************************)
EXTENDS Integers

CONSTANTS
  Text,      \* what can be written in the field `local`
  Port,      \* the texts that are a port number
  Address,   \* the texts with a colon
  Default,   \* the port a new server has
  None,      \* no key, no text, no Server, nothing stored
  MaxStarts, \* bound: starts of the program, also the keys it can make
  MaxVersion \* bound: versions of the program

ASSUME DesktopAssumption ==
  /\ Port \subseteq Text /\ Address \subseteq Text /\ Port \cap Address = {}
  /\ Default \in Port /\ None \notin Text
  /\ MaxStarts \in Nat \ {0} /\ MaxVersion \in Nat \ {0}

VARIABLES
  starts,   \* number of starts
  process,  \* down, or running
  key,      \* of the server in memory, and so its address
  local,    \* ServerPanel.local
  edit,     \* ServerPanel.edit_local, or None
  state,    \* ServerPanel.state
  client,   \* the Server that the Client was given at Connect
  stored,   \* the servers in eframe's storage on the disk, or None
  exe,      \* version of the executable on the disk
  version,  \* of the program that is running
  latest,   \* version that the update server offers
  updater,  \* how far the thread is: check, update, restart, over
  release   \* Updater.release, the version of it

panel == <<key, local, edit, state, client>>
update == <<exe, version, updater, release>>
vars == <<starts, process, panel, stored, latest, update>>

Key == 1..MaxStarts
Version == 1..MaxVersion

\* The hostname is the hash of the key, or one that nobody has; the local
\* server is a port of this machine or what the user wrote; and whether
\* connect() has returned.
Asked == [server: Key \cup {None}, host: {"localhost", "written"}, local: Text, met: BOOLEAN]

TypeOK ==
  /\ starts \in 0..MaxStarts
  /\ process \in {"down", "running"}
  /\ key \in Key \cup {None}
  /\ local \in Text
  /\ edit \in Text \cup {None}
  /\ state \in {"Disconnected", "Connecting", "Connected", "Disconnecting"}
  /\ client \in Asked \cup {None}
  /\ stored \in [key: Key, local: Text] \cup {None}
  /\ {exe, version, latest, release} \subseteq Version
  /\ updater \in {"check", "update", "restart", "over"}

Init ==
  /\ starts = 0 /\ process = "down"
  /\ key = None /\ local = Default /\ edit = None
  /\ state = "Disconnected" /\ client = None
  /\ stored = None
  /\ exe = 1 /\ version = 1 /\ latest = 1
  /\ updater = "over" /\ release = 1

-----------------------------------------------------------------------------
(* The process *)

\* Mutant: the servers in the storage are not read.
NewAlways(k) == key' = k /\ local' = Default

\* MyApp::new: a first start makes a key.
Load(k) ==
  IF stored = None THEN key' = k /\ local' = Default
  ELSE key' = stored.key /\ local' = stored.local

\* main, by the user or by exec: the executable that is on the disk by now.
Begin ==
  /\ starts < MaxStarts
  /\ starts' = starts + 1
  /\ process' = "running"
  /\ Load(starts + 1)
  /\ edit' = None /\ state' = "Disconnected" /\ client' = None
  /\ version' = exe /\ updater' = "check"
  /\ UNCHANGED <<stored, latest, exe, release>>

Start == process = "down" /\ Begin

Ends ==
  /\ process' = "down" /\ updater' = "over"
  /\ UNCHANGED <<starts, panel, latest, exe, version, release>>

\* set_string, and eframe's write of its memory to the disk behind it, which is
\* taken for one step that happens at once and as a whole.
Saved == stored' = [key |-> key, local |-> local]

\* MyApp::save: eframe calls it every 30 seconds and when the window closes.
Save ==
  /\ process = "running"
  /\ Saved
  /\ UNCHANGED <<starts, process, panel, latest, update>>

Close == process = "running" /\ Saved /\ Ends

\* Without a save: a panic of the GUI thread, the end of the machine.
Crash == process = "running" /\ UNCHANGED stored /\ Ends

-----------------------------------------------------------------------------
(* The panel *)

around == <<starts, process, stored, latest, update>>

\* The pencil is enabled while the panel is Disconnected.
EditBegins ==
  /\ process = "running" /\ edit = None /\ state = "Disconnected"
  /\ edit' = local
  /\ UNCHANGED <<key, local, state, client, around>>

\* The check mark, after any typing; the cross.
EditOk ==
  /\ process = "running" /\ edit # None
  /\ local' \in Text
  /\ edit' = None
  /\ UNCHANGED <<key, state, client, around>>

EditCancel ==
  /\ process = "running" /\ edit # None
  /\ edit' = None
  /\ UNCHANGED <<key, local, state, client, around>>

\* To the server's name the Controller appends a text that has no colon.
NameFor(text) == IF text \in Port \cup Address THEN key ELSE None

\* The Server a Client gets: a port becomes an address of this machine.
ServerOf(text) ==
  [server |-> NameFor(text), host |-> IF text \in Port THEN "localhost" ELSE "written",
   local |-> text, met |-> FALSE]

\* Mutant: of the text in the open field.
ServerOfField == ServerOf(edit)

Server == ServerOf(local)

\* Mutant: the button does not mind the open field.
ConnectWhileEditing ==
  /\ process = "running" /\ state = "Disconnected"
  /\ state' = "Connecting" /\ client' = Server
  /\ UNCHANGED <<key, local, edit, around>>

ClickConnect ==
  /\ process = "running" /\ state = "Disconnected" /\ edit = None
  /\ state' = "Connecting" /\ client' = Server
  /\ UNCHANGED <<key, local, edit, around>>

ClickDisconnect ==
  /\ process = "running" /\ state \in {"Connecting", "Connected"}
  /\ state' = "Disconnecting"
  /\ UNCHANGED <<key, local, edit, client, around>>

\* connect() returns, also after a Disconnect: a text without a colon is no
\* address, neither of the local server nor, in its name, of the other.
ClientConnects ==
  /\ process = "running" /\ state \in {"Connecting", "Disconnecting"}
  /\ ~client.met /\ client.server # None
  /\ state' = "Connected" /\ client' = [client EXCEPT !.met = TRUE]
  /\ UNCHANGED <<key, local, edit, around>>

ClientEnds ==
  /\ process = "running" /\ state # "Disconnected"
  /\ state' = "Disconnected"
  /\ UNCHANGED <<key, local, edit, client, around>>

-----------------------------------------------------------------------------
(* The updater *)

\* A release is published, or withdrawn (external).
Publish ==
  /\ latest' \in Version \ {latest}
  /\ UNCHANGED <<starts, process, panel, stored, update>>

\* Mutant: any other version is new.
IsOther(v) == v # version

\* bump_is_greater
IsGreater(v) == v > version

CheckForUpdate ==
  /\ process = "running" /\ updater = "check"
  /\ release' = latest
  /\ updater' = IF IsGreater(latest) THEN "update" ELSE "over"
  /\ UNCHANGED <<starts, process, panel, stored, latest, exe, version>>

\* self_replace is the last thing update does.
Update ==
  /\ process = "running" /\ updater = "update"
  /\ exe' = release
  /\ updater' = "restart"
  /\ UNCHANGED <<starts, process, panel, stored, latest, version, release>>

\* exec: nothing is saved, nobody is asked.
Restart == process = "running" /\ updater = "restart" /\ Begin

\* An error of any of the three steps, before it has changed anything, ends
\* the thread only; that of exec is ignored.
UpdaterFails ==
  /\ process = "running" /\ updater # "over"
  /\ updater' = "over"
  /\ UNCHANGED <<starts, process, panel, stored, latest, exe, version, release>>

Next ==
  \/ Start \/ Save \/ Close \/ Crash
  \/ EditBegins \/ EditOk \/ EditCancel \/ ClickConnect \/ ClickDisconnect
  \/ ClientConnects \/ ClientEnds
  \/ Publish \/ CheckForUpdate \/ Update \/ Restart \/ UpdaterFails

Spec == Init /\ [][Next]_vars

-----------------------------------------------------------------------------
\* A panel that is Connected shows the address and the local server that its
\* Client really has, although the field can be edited and the Client was
\* given a copy at Connect.
ShownIsUsed == state = "Connected" => client.server = key /\ client.local = local

\* Once an address is stored it is the address of every start after it,
\* whatever is closed, crashes, or is updated.  (Before the first save a
\* crash or the updater's exec loses the key, and with it the address that the
\* window asks to "Share with your friends".)
AddressKept ==
  [][stored # None => /\ stored'.key = stored.key
                      /\ process' = "running" => key' = stored.key]_vars

\* No start runs an older version than the one before: neither a release that
\* is withdrawn while the thread is at work nor an exec that failed leads back.
NeverDowngrades == [][version' >= version /\ exe' >= exe]_vars
=============================================================================
