# A TLA+ model of CraftIP

CraftIP lets a player host a Minecraft server at home without opening a port. A
*proxy client* runs next to the local Minecraft server and keeps one TCP
connection open to the public CraftIP *server*. Players connect to the public
server under a hostname; the server multiplexes their connections over the one
connection of the proxy client of that hostname, and the proxy client opens one
local connection per player. A desktop application starts and stops proxy clients.

The modules here model the server, the client, what travels between them down to the
byte, and the desktop application with its updater, check them with TLC, and prove with TLAPS,
for every value of the constants, what TLC checks on small instances of the server, the tunnel, the
link with time and the desktop application. Paths below are relative to `src/`.

## The system

| Part | Code | State | Operations | Interacts with | Modelled in |
|---|---|---|---|---|---|
| Table of players | `server/src/proxy_handler.rs` `Distribiutor` | two hash maps: address → (identifier, channel), identifier → address | `insert`, `remove_by_addr`, `remove_by_id`, `get_by_*` | owned by one session | `Distributor`, `DistributorSpec`, `ClientTable` |
| Accept loop and handshake | `server/src/main.rs`, `process_socket.rs`, `ProxyClient::authenticate` | how far a task is | first packet, challenge, answer, timeout | register, link | `ProxyServer` |
| Register | `shared/src/addressing.rs`, `shared/src/proxy.rs` | hostname → sender of a session's channel, behind a mutex | `insert`, `get`, `remove` | all tasks of the server | `ProxyServer` (`register`) |
| Session of a proxy client | `ProxyClient::handle`, `close_connection` | table, channel, link | one `select!` over the players' messages and the client's packets | register, players' tasks, client | `ProxyServer`, `Link` |
| Task of a player | `server/src/client_handler.rs` `MCClient` | two channels, socket | `new`, `handle`, `Drop` | register (once), session | `ProxyServer` |
| Proxy client | `client/src/client.rs` `Client`, `State` | identifier → channel, link | `connect`, one `select!` in `handle` | server, local connections, controller | `TunnelClient`, `Tunnel`, `Link` |
| Local connection | `client/src/connection_handler.rs` | channel, socket, `need_for_close` | `handle_client`, `set_death`, `Drop` | proxy client, local server | `TunnelClient`, `Tunnel` |
| Desktop application | `client-gui/src/backend.rs`, `main.rs` | a state per panel behind a mutex, event, control and statistics channels; servers on the disk | clicks, edits, events, reports, save, load | proxy client | `GuiBackend`, `Desktop` |
| Updater | `client-gui/src/updater.rs` | the release it found | check, replace the executable, `exec` | the whole process | `Desktop` |
| Packets and codec | `shared/src/packet_codec.rs`, `socket_packet.rs`, `proxy.rs` | buffer, protocol of the connection | encode, decode | every link | `SocketPacket`, `PacketCodec` |
| Hello parser | `shared/src/minecraft.rs`, `datatypes.rs`, `cursor.rs` | – | parse a first packet | codec | `HelloParser` |
| Keys | `shared/src/crypto.rs` | – | sign, verify, hostname of a key | handshake | an answer is valid or not |
| Build, packaging | `build/`, `Dockerfile`, … | – | – | – | no behaviour at run time |

What is hard about it: every connection is a task of its own and tasks only share
channels, one mutex and links, so the order in which messages of different tasks
arrive is free; the identifier of a player is given out by the server, used by
both ends, and freed by either of them without the other's consent; channels
close when their last sender is dropped, wherever that is; and a task can end on
a dozen paths, each of which has to leave the shared state in order.

What makes each part correct:

- *Table*: the two maps mirror each other; no identifier has two owners.
- *Register*: no entry of a session that is over.
- *Session*: an entry belongs to a player of this session who is there, or whose
  removal is on its way; no address is inserted twice; data of a player goes out
  under the player's own identifier; a session that ends releases its players.
- *Tunnel*: the stream a local connection gets is one player's, whole and in
  order; both ends agree once everything sent has arrived; one player's end is not
  the end of all; the end of a client ends everything it stood for.
- *Link*: nobody alive is timed out, nobody dead is kept; when the two loops wait
  for each other is known.
- *Codec*: whatever pieces a stream arrives in, the packets that were sent come out.
- *Desktop application*: reports and clicks reach the panel and the client they
  are meant for; a panel does not hang; what is shown is what is used; the address stays.

## The modules

`Distributor` has the operations of the table as constant-level operators.
`DistributorSpec` makes a state machine of one table, with every call the session
can make and every identifier a client can name. `ClientTable` is the abstract
specification: a plain set of players. `DistributorSpec` implements it under a
refinement mapping that reads the set off `clients_addr`.

`ProxyServer` is the server. `Session` is a set of connections of proxy clients and
`Conn` a set of connections of players, each used once: a reconnect is another
element. `phase[s]` says where the task of a proxy client is
(`process_socket_connection`, then `handle`), `mc[c]` where the task of a player is.
The channels are sequences: `rxq[s]` is the channel `tx/rx` of `handle`, `mrx[c]` the
one of `MCClient`. Who holds a sender is not a variable but read off the state:
`HasSender(s)` (the register, the players' tasks) and `TxHeld(c)` (a table, an
`AddMinecraftClient` nobody has read), since a receiver returns `None` exactly when
nobody does. The proxy client is anybody: it sends any packet with any identifier.

`TunnelClient` is the proxy client with its local connections, `Tunnel` the composition:
`ProxyServer` with `TunnelClient` at the other end of its links in place of a peer that
sends anything.

`GuiBackend` is the desktop application: the panels behind the mutex, the event channel,
the Controller, and the tasks that run one `Client` each. A panic is a state of its own:
of the Controller, of a task, of the GUI thread, and the poisoned mutex.

`Link` is the two `select!` loops once more, seen from the sockets: what the packets do is
left to `ProxyServer` and `TunnelClient`, but a direction of the connection holds only
`Capacity` of them, a send waits inside its arm (`ssending`, `csending`), and time passes in
ticks for the timers that each round of a loop creates anew (`stimer`, `ctimer`).

`HelloParser` and `SocketPacket` are operators on sequences of bytes: what each packet looks
like on the wire, and what a receiver makes of the bytes at the front of its buffer, with the
same errors. `PacketCodec` is the state machine around them: a sender writes the packets of one of
several streams (`Write`), what has been written is read in pieces (`Read`), and the codec decides for
a protocol and hands out packets.

`Desktop` is one server of the desktop application over several starts: in memory
(`key`, `local`, `edit`, `state`), given to a Client (`client`), on the disk (`stored`), and the
versions of the executable, of the process and of the release on offer.

The theorems are in modules of their own: `DistributorProofs`, `ProxyServerProofs`, `TunnelProofs`,
`LinkProofs`, `CodecProofs`, `GuiBackendProofs` and `DesktopProofs`, with the lemmas about the table's
operators, which the first three share, in `DistributorLemmas`.

`MCPacketCodec` has the streams, with the hello packets of `shared/src/test.rs`.
`MCProxyServer` and `MCTunnel` give the constants that are functions their values: every
session and player is about one hostname, players with the same parity have the same
address, and in the tunnel what player 2 sends after his hello stands for data of any length.

| Code | Actions |
|---|---|
| `process_socket.rs:24-82` | `AcceptHello`, `NoFirstPacket`, `UnknownProtocol`, `AuthOk`, `AuthFailed`, `AuthTimeout`, `Lookup` |
| `proxy_handler.rs:93-110`, `182-185` | `Register`, `CloseConnection` |
| `proxy_handler.rs:112-143` | `HandleAdd`, `TooManyClients`, `HandlePacket`, `WrongPacket`, `HandleRemove`, `ChannelClosed` |
| `proxy_handler.rs:145-178` | `PeerDisconnects`, `PeerData`, `PeerPing`, `PeerOther`, `LinkLost`, `IdleTimeout` |
| `client_handler.rs` | `NoPeerAddr`, `AddClient`, `SendHello`, `McRead`, `McGone`, `McDeliver`, `McChannelClosed` |
| `client.rs:83-138` | `Connect`, `AnswerChallenge`, `Connected`, `ConnectFails` |
| `client.rs:139-213` | `UserDisconnects`, `ForwardData`, `ForwardGone`, `Death`, `Join`, `Deliver`, `UnknownId`, `Disconnected`, `Pong`, `Unimplemented`, `Unreadable`, `Ping`, `ServerGone` |
| `connection_handler.rs` | `LocalConnects`, `LocalConnectFails`, `LocalWrites`, `LocalReleased`, `LocalReads`, `LocalCloses` |
| `proxy_handler.rs:111-179`, with time | `ServerMessage`, `ServerReceive`, `ServerSent`, `ServerTimeout`, `ServerEof`, `ServerLeaves`, `ServerSendFails` |
| `client.rs:142-212`, with time | `ClientMessage`, `ClientReceive`, `ClientPing`, `ClientSent`, `ClientControl`, `ClientEof`, `ClientLeaves`, `ClientSendFails` |
| `minecraft.rs`, `datatypes.rs`, `cursor.rs` | `OldPingPkg`, `OldConnectPkg`, `NewPkg`, `GetVarint`, `GetUtf8String`, `GetUtf16String` |
| `socket_packet.rs`, `packet_codec.rs` | `Encode`, `DecodeProxy`, `ParseFirstPackage`, `ParsePacket`; `Write`, `Decode`, `NeedMore`, `Refuse` |
| `client-gui/src/main.rs:19-55`, `119-150`, `198-211` | `Begin`, `Load`, `Save` |
| `client-gui/src/main.rs:265-296` | `EditBegins`, `EditOk`, `EditCancel` |
| `updater.rs` | `CheckForUpdate`, `Update`, `Restart`, `UpdaterFails` |
| `client-gui/src/main.rs:332-374` | `ClickConnect`, `ClickDisconnect`, `FramePanics` |
| `client-gui/src/backend.rs` | `HandleConnect`, `HandleDisconnect`, `DisconnectPanics`, `HandleStats`, `StatsPanic`, `ConnectOk`, `ConnectFails`, `HandleEnds`, `HandlePanics`, `SetConnected`, `SetDisconnected`, `DropClient`, `PlayersChange` |

Abstractions:

- A step is what a task does between two awaits at which another task can change what it
  reads. In `ProxyServer` and `Tunnel` links are sequences and a send between server and client does not
  wait; what is sent to a peer that has closed its end is dropped; a send that fails ends the loop the
  same way as the end of the stream (`LinkLost`, `ServerGone`). What waiting adds is in `Link`, which
  takes a write to a machine that is gone to fail in the end, as TCP does. A write to a player or to the
  local server (`McDeliver`, `LocalWrites`) may wait there for ever.
- In `ProxyServer` and `Tunnel` a timeout may fire whenever its task waits. `Link` has the time:
  a loop with something to do acts before the next tick, a packet is at most `MaxDelay` ticks on
  its way, and the contents of packets are data, ping or pong. Its `ServerLeaves` and
  `ClientLeaves` stand for all errors that end a loop; which they are is in the other modules.
- In `ProxyServer` and `Link` packets arrive whole, which is what `PacketCodec` is about. In `Tunnel`
  they do towards the server. Towards the client the constant `ReadAs` says what the codec may take the
  frame of some data for (`Taken`), by its length, and as `client_codec` and `FirstFrameReadBack` show:
  for a frame (nearly all lengths), for an old login that is still incomplete (498 to 753 bytes of
  data), or for a hello (1522 bytes); data that stands for several lengths may be taken for any. A login keeps
  the client from reading until it is completed by what comes behind it, and then it is a hello or an
  error (`LoginComplete`); a hello panics `handle` (`Unimplemented`). No more is said of the bytes: how
  much it takes to complete a login is free.
- In `SocketPacket` a hello inside a frame and `SocketPacket::Unknown` are not packets (`bincode` would
  decode them), since no code sends them. No packet is longer than its u16 length can count: only an
  old login that is gathered over many reads could be (`client_handler.rs:44-50`), and
  `socket_packet.rs:79` would truncate it. Of a version only its presence decides the protocol.
- `Desktop` has one server, as the application does (its "+" button only prints a line), and one
  instance of the program. `MyApp::save` only sets a string that eframe keeps in memory and writes to
  its file later; `Saved` is both, in one step that cannot fail half way. Download, unpacking and
  `self_replace` are one step as well, which either happens or does not.
- The clock of `Link` wraps as a u16 does, but it is steady: `SystemTime` could be set in between.
- A signature is valid or not; a failure to create the challenge is left out, and so is a
  failure of `accept`, which ends the server. `ClientToProxy::Close` is never sent by any code.
- What fails in `Client::connect` before the link is open changes no state of the tunnel.
- Two open sockets of the server do not have the same peer address (`AddrFree`): TCP.
- `Stats::Connected` and `Stats::Ping` change nothing in the desktop application, the text of
  errors is display only. `GuiBackend` leaves out the field for the local server, which is in
  `Desktop`; `Desktop` leaves out the Controller, which is in `GuiBackend`.

Definitions whose comment says *Mutant* are not used by any specification. Each is the
definition after it with a plausible bug, kept to see that the property it is meant for
notices it: a property that survives all bugs says nothing.

## The runs

| Run | Configuration | What it shows |
|---|---|---|
| `distributor` | 4 addresses, identifiers 0..2 | `TypeOK`, `MapsMirror`, `ImplementsClientTable`: any sequence of calls, up to a table that is full |
| `server_reconnect` | 2 sessions, 1 player | `RegisterLive`, and the liveness properties `ReplacedSessionEnds`, `PlayersReleased`: overtaking, late and failing sessions of one hostname |
| `server_addresses` | 1 session, 3 players with 1 packet of data each, two with one address, for 1 identifier, any 1 packet of the client | `TypeOK`, `EntriesOwned`, `AddressInv`, `DataUnderOwnId`: also the session that ends because the table is full |
| `tunnel` | 1 client, 2 players with 1 packet of data each for 1 identifier, 2 local connections that may close; the data of player 2 is of any length | `TunnelTypeOK`, `UpstreamIntact`, the action property `PanicsOnlyMistaken`, and the liveness property `TearDown` |
| `tunnel_players` | 1 client, 2 players with one address and 1 packet of data each, 2 identifiers, local connections with data that do not close first, a ping | `QuiescentAgreement`, `NoWrongPacket`, `NoUnknownId`: what holds as long as only players leave; `TableConsistent`: an address comes again while there is a free identifier, so that `insert` could overwrite |
| `gui` | 2 panels, 2 clients one after the other | `TypeOK`, `ActiveIsOwn`, `DisconnectHitsOwn`, and the liveness property `DisconnectEnds` |
| `codec` | 7 streams, reads of 1, 2, 37 or all bytes | `TypeOK`, `PacketsWhole`, `NeverRefused`, `NothingStuck`, and the action property `EveryPacketEats` |
| `link` | sockets of 2 packets, timeout 5, ping 2 and delay 1 ticks | `TypeOK`, `NeverTimedOutAlive`, `DeadlockTakesBothWays`, `PingNeverOverstates`, and the liveness properties `DeadNoticed`, `DisconnectHeard` |
| `desktop` | 3 starts, 3 versions, a port, an address and a text that is neither | `TypeOK`, `ShownIsUsed`, and the action properties `AddressKept`, `NeverDowngrades` |
| `server_verified` | 2 sessions | violated: `RegisteredIsVerified` |
| `tunnel_downstream` | 2 players, data of the local server | violated: `DownstreamIntact` |
| `client_codec` | the stream of a session with 600 bytes of data | violated: `NothingStuck` |

The properties that hold, in words:

- `MapsMirror`, `TableConsistent`: `clients_addr` and `clients_id` are inverse to each other.
- `ImplementsClientTable`: the two maps are one set of players without shared identifiers.
- `RegisterLive`: the register holds only senders of sessions that run or are about to close,
  each under its own hostname. (An entry may be *missing*; see below.)
- `EntriesOwned`: a table entry's player has that address, belongs to that session, and is there
  or has his `RemoveMinecraftClient` in the channel.
- `DataUnderOwnId`: what goes out as `ProxyData` for an identifier was sent by its owner.
- `PlayersReleased`, `ReplacedSessionEnds`: nothing stays behind: players of a
  finished session, entries of finished players, sessions nobody can find any more. A player's task that
  still has something to write to its player may wait for him for ever (`client_handler.rs:70`); of
  it the property says only that nobody holds its sender any more.
- `UpstreamIntact`: each local connection gets one player's stream from the hello on, in order and
  without a gap, although identifiers are used again at once.
- `PanicsOnlyMistaken`: the `unimplemented!` of `Client::handle` is reached only by data that the codec
  takes for a hello (see `client_codec`), and by no packet that the server means to send: not even when
  its timeout sends `ProxyError` and `ProxyHelloResponse` after one another.
- `TearDown`: when a client is done or has panicked, its session, its players and its local connections
  end, except for a task that still has something to write to a player or a local server who does
  not read (`client_handler.rs:70`, `connection_handler.rs:50`).
- `ActiveIsOwn`: while the task of a `Client` may still report, "the active server" of the panels
  is the one that task was started for.
- `PacketsWhole`: the packets handed out are those sent, in order, and make up exactly the bytes
  consumed. `NeverRefused`: half a packet is never an error. `NothingStuck`: when all bytes are
  there, all packets are out. `EveryPacketEats`: no packet of no bytes.
- `NeverTimedOutAlive`: only a dead client is timed out, although a busy client never pings: what
  keeps it from pinging keeps the session alive. `DeadNoticed`: a dead one loses its session,
  although messages of players restart the timeout: their packets fill the socket.
- `DeadlockTakesBothWays`: both loops can be in a send that waits for the other, for ever, but only
  with data on its way in both directions; pings, and the data of one direction, never do it.
- `PingNeverOverstates`: the ping shown is at most the time that passed, with a clock that wraps.
- `DisconnectHeard`: a disconnect ends the Client, unless the two loops wait for each other.
- `ShownIsUsed`: a Connected panel shows the address and the local server its Client has.
- `AddressKept`: once stored, the address is that of every later start. `NeverDowngrades`: neither the
  executable nor the process goes back to an older version.
- `DisconnectHitsOwn`: a click stops the right `Client`. `DisconnectEnds`: its panel leaves
  Disconnecting, unless (1) the Client has been told but is inside `handle`, where it may wait in a send
  (see `DisconnectHeard`), (2) its task has panicked, (3) the GUI has, or (4) the Controller has ended
  with the panel's `Connect` unread. In particular, the end of the Controller does not keep a panel
  whose Client was started.

### Where the code disagrees with what it says

- `server_verified`: the timeout arm of `process_socket.rs:59-63` sends `ProxyError` and falls out of
  the `match`; the next statement is `handle`. A client that never answers is registered.
- `tunnel_downstream`: an identifier is free on the server as soon as its player leaves; data of the
  local connection that is on its way, or still to come, reaches the next player who gets it.
- `client_codec`: a codec decides for a protocol when it decodes a hello; the client decodes none, so
  its codec tries every frame of the session as a Minecraft hello first (`packet_codec.rs:63-65`). Frames
  whose length begins with the byte 2, `ProxyData` with 498 to 753 bytes, look like an old login and are
  kept back until more bytes come; one of 1536 bytes, with 1522 bytes of data, begins with
  the bytes 6, 0, 10, 0, 0, 0, is read as a whole hello of six bytes and reaches the `unimplemented!` of
  `client.rs:196`. All other lengths come through: `FirstFrameReadBack` and `PartOfFirstFrameWaits`
  prove it of every frame whose length is not one of 512..767, 1536 or at least 32768. What becomes
  of a player's data of such a length, and of the client, is in `Tunnel`.

The same models have some more behaviour that a reader may not expect:

- `close_connection` removes by hostname. After a reconnect the old task removes the *new* session,
  which keeps running and is found by no player (`CloseConnection` in `server_reconnect`).
- When the local server closes a connection while data for it is on its way, `send_to(..)?` ends the
  whole client (`UnknownId`); a `Packet` of a player whom the client has just disconnected ends the
  server's session of all players (`WrongPacket`, the mirror image).
- A Client that panics in `handle` tells no panel: it stays Connected, and the Disconnect that is then
  clicked ends the Controller (`HandlePanics`, `DisconnectPanics`).
- A report that is read after its panel went to Disconnected finds no active server; the `unwrap`
  panics with the mutex held, and the GUI panics at its next frame (`StatsPanic`, `FramePanics`). A late
  report may also be shown on the next panel. A `Disconnect` that is read after its `Client` was
  dropped ends the Controller (`DisconnectPanics`).
- `0..=MAXIMUM_CLIENTS` has one identifier more than the name says; one player too many ends the
  session; a second session of a hostname takes it over; a `ProxyDisconnect` that crosses the
  departure of its player removes the next owner of the identifier.
- Before the first save, at most 30 seconds after the first start, a crash or the updater's `exec`
  loses the key, and with it the address the window has already shown. The `exec` ends a session
  with its players at any time (`Restart`). Changes of the text since the last save are lost as well.
- A text for the local server without a colon that is not a port becomes part of the *server's* name
  (`backend.rs:54-56`); no connection comes of it.
- The wait of `old_ping_pkg` for 32 bytes never matters: what is shorter would be tried as a
  frame of 65025 bytes, and waited for as well. A new hello of 128 bytes or more (a hostname of about
  121 characters) has a length of two bytes, which `new_pkg` counts into the position it compares: it
  is not recognised, but waited for as a frame of 32 KiB or more.

### Bounds

Every session, player and client is used once, so behaviours are finite up to the packets. `MaxUp`
(packets of a player after his hello), `MaxDown` (packets of an arbitrary proxy client, any type and
any identifier), `MaxInFlight` (on its link at a time), `MaxLocals`, `MaxLocal`, `MaxPing`, `MaxRuns`,
`MaxPlayers` and `MaxStats` bound the rest; channels are bounded by them and by nothing else. The
interesting cases need little: two users of one address or one identifier one after the other, a
full table (one identifier), a reconnect (two sessions), one message that overtakes. With one
identifier a second `insert` of an address would be refused before it could break the two maps;
`tunnel_players`, where two players have one address, has two. Its mutant, a player who leaves without
saying so, shows that the second `insert` is what happens then. In the tunnel's runs a player sends one packet
after his hello, so that a stream has an order and could have a gap. `server_reconnect` has no packets of
the client (`MaxDown` is 0) and `tunnel` no data of the local servers (`MaxLocal` is 0), so that
players have nothing to read where `PlayersReleased` and `TearDown` are checked: there it is local
servers that may not read. Of a player who does not read, `TearDown` claims nothing anyway and
`PlayersReleased` only that nobody holds his sender.
`server_addresses` has a view (`ServerView`): states that differ only in the history variable
`verified`, in what a player has already got, or in unread packets to the proxy client before the last
are one state. No later step that its properties speak of depends on these, and `TypeCorrect` is
proved without it. The runs of the server and of the
tunnel do not check for deadlock, since a system in which every connection has been used stops;
that nothing stops too early is what the liveness properties say.

`codec`: the streams have each generation of hello, every kind of packet, and data of the lengths at
which another reading is near (16, 242, 497, 754 bytes to the client; 600 and 1522 to the server), one
with a packet this version does not know; reads of one byte pass through every prefix, and the sender
may have written any number of its packets by then. `MCPacketCodec` assumes, and TLC evaluates, that
every stream but that one is `Regular`, that is, one the theorems speak of, and that the stream of
`client_codec` is not. `link`: two
packets are the least that lets a socket be neither empty nor full; `Wrap` 4 makes the clock start
again while a ping is on its way; `MaxQueue` and `MaxBurst` bound what comes within a tick, not in
all. The assumption that the timeout exceeds a ping and its way there and back
(`LinkAssumption`) holds of 60 s and 1 s with any delay below 29 s. It also says that a socket holds
two packets: with room for one, a ping waits behind a ping and the two loops wait for each other
without any data, which no real socket is small enough for. `desktop`: two starts and what
was stored between them, and a third after an update.

### Fairness

tokio polls every task that is ready, and `select!` takes its ready branches in a random order, so a
branch that stays ready is taken: weak fairness of the session's steps on its channel and of its
end, of the steps of a player's task and of a local connection's that wait for nobody else. The loop of
`Client::handle` needs none for `TearDown`. The handshake has a timeout, so it ends (`Tunnel`). `Link`
has weak fairness of each loop and of time, and strong fairness of the arm of `control_rx` alone: the random order of
`select!` takes it sooner or later although other arms are always ready. There is no fairness
for anything that a person or a peer does: connecting, sending, reading, leaving, clicking; so there is
none for a write that waits for a reader (`McDeliver`, `LocalWrites`), nor for timeouts during a
session. In `GuiBackend` a `Client` that is told to disconnect ends for certain only in `connect`: in
`handle` it may be inside a send, as `Link` shows.

## The proofs

All proofs are for any constants that satisfy the named assumptions of the modules, which TLC
evaluates in every run:

| Assumption | What it says |
|---|---|
| `MaximumClientsAssumption` | the limit is a natural number |
| `ConstantsAssumption` | the functions of `ProxyServer` have their types, `NoSession` is not a session |
| `ClientConstants`, `LocalsArePayload` | the bounds are natural numbers; all data is taken for something; what a local server sends is data a player can be given |
| `SomePlayer` | there is a player at all, since `UpstreamIntact` names one for each local connection |
| `LinkAssumption` | positive times, a ping interval longer than the delay, a timeout longer than a ping interval and twice the delay, sockets of at least two packets (see *Bounds*) |
| `StreamAssumption`, `PacketAssumption`, `ReadAssumption` | there is a stream; a stream is a sequence of packets that consist of bytes; a read takes a number of them |
| `GuiConstants` | there is a panel, the bounds are natural numbers |
| `DesktopAssumption` | ports and texts with a colon are different texts, the default is a port, `None` is no text, the bounds are positive |

| Module | Theorems |
|---|---|
| `DistributorProofs` | `TableTypeCorrect`, `MapsAlwaysMirror`, `TwoMapsImplementOneTable` |
| `ProxyServerProofs` | `TypeCorrect`, `RegisterNeverStale`, `AddressesNeverClash`, `TablesMirror`, `EntriesNeverOrphaned`, `DataGoesUnderOwnId` |
| `TunnelProofs` | `TunnelTypeCorrect`, `PanicsByMistake`, `NoHelloNoPanic`, `StreamsNeverMix`; `EndsAgree`, `SendersAreKnown`, `IdsAreKnown`; `ServerKeepsItsPromises`, `DataGoesToItsOwner` |
| `LinkProofs` | `LinkTypeCorrect`, `OnlyTheDeadTimeOut`, `PingsNeverOverstate`, `DeadlockNeedsBothWays` |
| `CodecProofs` | `FrameReadBack`, `PartOfFrameWaits`, `FirstFrameReadBack`, `PartOfFirstFrameWaits`, `HelloReadBack`, `PartOfHelloWaits`, `FrameHandedOut`, `PartOfFrameIsKept`, `CodecTypeCorrect`, `CodecEats`; `RegularStreamsWhole`, `RegularStreamsNeverRefused`, `RegularStreamsNotStuck` |
| `GuiBackendProofs` | `GuiTypeCorrect`, `TheActiveIsTheOwn`, `TheActiveIsControlled`, `DisconnectNeverStray` |
| `DesktopProofs` | `DesktopTypeCorrect`, `WhatIsShownIsUsed`, `StoredAddressKept`, `VersionsAscend` |

### The table

Each operation keeps `Consistent`, which is inductive; the lowest free identifier exists by
well-founded induction on the naturals, and given `Consistent` the removal under either name removes
one player.

### The server

`RegisterLive` is inductive with the type invariant. `TableConsistent` is not: `insert` breaks it when
the address is already there, and that it never is depends on what is in the channel. `AddressInv` says
what: with P the players announced to the session and L those still there, (1) an entry or a queued
`AddMinecraftClient` whose player is gone is followed by his `RemoveMinecraftClient`; (2) between two
`AddMinecraftClient` of one address there is a removal of it, and one before the first if the table has
the address; (3) two tasks that are alive do not have the same address; (4) a session that is not in
its loop has nothing. The argument is about one FIFO channel and one table, so it is done first
without a state: one lemma per change (`TakeAdd`, `TakePacket`, `TakeRemove`, `PutAdd`, `PutOther`,
`ChannelShrink` for a removal by the client, `ChannelFrame`); then there is one lemma per action that
cites them. A player's task announces itself at most once and says that it has ended at
most once, last, in the same channel: that is why the removal always comes after what it removes.

`DataUnderOwnId` is a matter of the moment at which a packet is read: the session looks up the
*address* it came from. `OwnInv` extends the argument to packets (`PacketInv`): if
the table has another player's entry for the address of a queued `Packet`, or another player's
`AddMinecraftClient` of it is queued before the packet, then the `AddMinecraftClient` of its own player
comes in between; and so it would be of a packet that any player still there queued next.

### The tunnel

The server's half of every step is one of `ProxyServerProofs`; the client's half is shown here.

- `PanicsByMistake` and `NoHelloNoPanic` from `LinkInv`: the `ProxyHelloResponse`, which makes the client enter `handle`, is
  the last packet of the handshake; from there on, on the link and after it, there are only packets
  that `handle` has an arm for. So only what the codec does not take for the frame it is can reach
  `unimplemented!` (`UnimplementedIsMistaken`), and if no data of a player is of such a length nothing does.
- `StreamsNeverMix` from `IntactInv`. The stream of a player passes five places: his task, the session's
  channel, the table (which gives it a number), the link, and the client's `connections` (which gives
  the number a channel). In a queue, what matters to a packet is the last thing that is said about its
  player or its number before it. `LastWord(q, S, G, base, k)` says that the last of `S` before
  position k of the queue q is one of `G`, or, if there is none, that `base` holds; `ProxyServerProofs` has
  how it survives `Append` and `Tail`. `StreamInv` is that for both queues: on the link the last word
  about the number of a `ProxyData` is its predecessor in the same stream (`DownInv`), or the client has
  a connection that got its predecessor; in the channel it is the same with the task's own messages
  and what the link will have carried then (`UpInv`). It gives order and no gap, across identifiers
  that are used again. That no two connections share a player needs `FirstInv`: the first packet of a
  player is in at most one of channel, link, and the streams that were delivered. `CarryInv` says that
  a stream delivered starts with a hello and has one player and no gap, `SentInv` that a task that has
  not said hello has sent nothing.
- `EndsAgree`, `SendersAreKnown`, `IdsAreKnown` from `CalmInv`, under the hypothesis that local
  connections do not close first (`~LocalsMayClose`). It is needed: with a local server that closes,
  each of the three is false, and the code then ends the client or the session for all players
  (`UnknownId`, `WrongPacket`; see above). As long as only players leave, names travel one way. `LinkCalm`:
  what the client has as `connections` is the server's table, up to the `ProxyJoin`s and
  `ProxyDisconnect`s that are on the link, and before each `ProxyData` the last word about its number
  is a join. `RxCalm` is the same one queue earlier: before each `Packet` in the channel the last word
  about its address is an announcement. `ClientCalm`: the client never sends a `ProxyDisconnect`.
- `ServerKeepsItsPromises` and `DataGoesToItsOwner`: what is proved of `ProxyServer` alone holds in the
  tunnel. It does not follow from a refinement, since a step of the Client need not be one of the peer of
  `ProxyServer`, whose packets are bounded (`MaxDown`, `MaxInFlight`) and end with the session, while
  the Client still pings a session that is closing. So each is shown of the steps of the tunnel: those of the
  server by the lemmas of `ProxyServerProofs`, and those of the Client because they only take from
  `toClient` (`ClientTakes`) and leave the register and the tables alone.

### The link

Time is a number of ticks, and each packet has an age. `Timers`: the two timers count since the last
round of their loop, and stand still while it sends. `Silence` bounds how long the server has not
heard from a client that is alive, by `MaxSilence = PingEvery + 2 * MaxDelay`: if there is a packet for
the server by its age; if there is none by the client's timer; and a client that is in a send has just
been heard. `Truth`: the clock has come no further since a ping was sent than time has. `Few`: never more than
two pings and pongs are under way, since the client has just sent the second one or heard something
since (`SecondIsFresh`), and before its timer allows a third the first one has been answered and the
answer heard (`FirstIsLate`); a direction without data that blocks its sender would hold three.

### The codec

- `FrameReadBack` and `PartOfFrameWaits` are about any `FramedPacket` (every packet that is sent in a
  frame, with any number, text, key and data of bytes) whose body a u16 can count (`Fits`), and anything
  behind it in the buffer. A frame is a concatenation of parts, so the proof is about cutting: `Take` at
  the end of a part returns the next one (`TakeExact`), a number is read back from its bytes
  (`NumberBack`, `TwoBytes`), a vector from its length and content (`TakeVectorBack`), the variant from
  its tag (`TagBack`), then each kind of packet (`Back`). Without `Fits` the length would be cut off.
  What is read at once, 8 KiB at most, fits; an old login gathered over many reads need not.
- `FirstFrameReadBack` and `PartOfFirstFrameWaits` say it of a codec that has not decided for a
  protocol, which tries the three hello parsers first. A frame begins with its length in two bytes and
  a tag whose last three bytes are 0 (`BeginsAsFrame`); if it is not `HelloLike`, no part of it is read as
  a hello, and once six bytes are there the parsers answer `NotMatching` or `NotValid`, so that it is tried as
  a frame (`FrameIsNoHello`). `FrameHandedOut` and `PartOfFrameIsKept` put both together, for any state
  of the codec.
- `HelloReadBack` and `PartOfHelloWaits` are about any hello of at most 32 KiB that the parser can read
  whole (`Readable`), of any of the three generations. What a reader answers depends only on the bytes
  it has read: for two buffers that are the same as far as both go (`Alike`), it answers the same if the
  shorter one has all those bytes, and one of the failures that make the codec wait if not (`AsFar`).
  This is shown reader by reader and then for each parser (`OldPingAlike`, `OldConnectAlike`, `NewAlike`), together with which of
  the other parsers cannot match. That `NotValid` on a part of a hello of a new client still
  waits rests on `DecodeProxy`: the part is then the beginning of a frame longer than the hello.
- `CodecTypeCorrect` and `CodecEats` hold of any bytes, also of those no correct peer sends. Each
  reader that is content has come from where it was to a place further on in the buffer (`Reaches`), so
  that each of the three hello parsers and `DecodeProxy` hands out a packet of at least one byte and at
  most all (`Handed`); `Decoded` never tries an empty buffer. The invariant is `CodecInv`.
- `RegularStreamsWhole`, `RegularStreamsNeverRefused` and `RegularStreamsNotStuck` say of every stream that
  is `Regular` what `PacketsWhole`, `NeverRefused` and `NothingStuck` say of those of a run: of any number of
  packets of any content, written and read in any pieces and at any pace. A stream is regular in
  two ways. `Session`: packets in frames, none of which is `HelloLike` before a `ProxyHello` was among
  them. This is all that a proxy client sends (its first packet is a `ProxyHello`), and what the
  server sends up to the lengths above. `Player`: a `Readable` hello, then bytes. The invariant is `RegularInv`.
  `WireLaid`: the bytes written are the packets one behind the other. For a session, `InOrder`: the packets
  handed out are the first of the stream, each cut where it was written, and the codec is in the protocol
  of a proxy client once it has handed out a `ProxyHello`. So the buffer always begins where a packet
  begins; it holds a whole frame, which is the next packet, or a part of one, which is waited for
  (`DecodedInOrder`). For a player, `InPlay`: first the hello, in the same way (`DecodedFirst`); then whatever
  has arrived is handed out at once (`DecodedLater`).
  The sender writes packet by packet so that the wire grows step by step with the invariant; bytes
  folded together from a whole stream at once would need induction over the stream.
  Not regular, and not proved, are streams with a `HelloLike` frame before any `ProxyHello` (false:
  `client_codec`), hellos that the parser does not recognise, and packets of other versions.

### The desktop application

- `GuiBackendProofs`: `ActiveIsOwn` by itself is not inductive. `GuiInv` adds that never two panels are
  active nor two tasks report (`OneActive`, `OneReports`); that a `Connect` that is queued is alone and
  no task reports any more (`ConnectAlone`); that a `Disconnect` that is queued is for the Client of the
  `Connect` before it, or, when that has been read, for the one the Controller has
  (`DisconnectAfterOwn`, `ActiveIsControlled`); and that nothing is queued for a dead Controller
  (`DeadChannel`).
- `DesktopProofs`: the first two rest on `ClientFits`: the Client still has what the panel has, since no
  field is open while the panel is not Disconnected. Of the address `StoredIsLoaded` is inductive: what
  a save overwrites is what the start read. Of the versions it is `Ascending`: the thread compares with
  the version of its process, which is the one on the disk until the thread itself replaces it.

### Only model-checked

- The liveness properties `ReplacedSessionEnds`, `PlayersReleased`, `TearDown`, `DisconnectEnds`,
  `DeadNoticed` and `DisconnectHeard`: fairness and `ENABLED` are out of the prover's reach as well.
- What the code violates (`RegisteredIsVerified`, `DownstreamIntact`, `NothingStuck`).

## Plan

Done: the table, the server, the client, their composition, the link with time and full sockets, the
codec and the parser, the desktop application with its updater, and the proofs of every safety property
of them that holds. What is left is what the prover or TLC cannot reach (above and below).

## Not modelled

- An error of `accept` (`server/src/main.rs:35`) ends the server: one line, and nothing to relate it to.
- Cryptography and base 36 (`crypto.rs`) are sequential calls of libraries; of the key the models have
  that it is made once, that the address is its hash, and that a signature is valid or not.
- Drawing, logging, the texts of errors, argument parsing of the command line client, the tests, and
  the build, packaging and deployment files, none of which keeps state.
