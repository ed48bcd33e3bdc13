----------------------------- MODULE ProxyServer -----------------------------
(***************************************************************************)
(* The server (server/src): one task per accepted socket.  A task whose    *)
(* first packet is a ProxyHello serves a proxy client (a Session): it      *)
(* authenticates it, puts the sender of its channel into the shared        *)
(* `register` under the hostname, and then multiplexes the players of that *)
(* hostname over the one connection.  A task whose first packet is an      *)
(* MCHello serves a player (a Conn): it looks the hostname up, announces   *)
(* itself on the session's channel and then copies data both ways.         *)
(*                                                                         *)
(* One action is what a task does between two awaits that let another task *)
(* change what it reads.  Sends of a session on its TCP link append to a   *)
(* sequence and do not block (Link has the sends that do); a send that     *)
(* fails is LinkLost or McGone, because the task leaves its loop the same  *)
(* way when the peer is gone.  Time is abstracted: a timeout can fire      *)
(* whenever the task waits.                                                *)
(***************************************************************************)
EXTENDS Distributor, Sequences

CONSTANTS          \* and, of Distributor: Conn (players' connections), Addr, MAXIMUM_CLIENTS
  Host,            \* hostnames
  Session,         \* connections of proxy clients
  Payload,         \* data a proxy client sends to a player
  NoSession,
  HostOf,          \* hostname of a session's ProxyHello
  WantedHost,      \* hostname of a player's MCHello
  AddrOf,          \* peer address of a player's socket
  MaxUp,           \* bound: packets a player sends after its MCHello
  MaxDown,         \* bound: packets a proxy client sends once it has authenticated
  MaxInFlight      \* bound: packets of a proxy client on the wire

ASSUME ConstantsAssumption ==
  /\ NoSession \notin Session
  /\ HostOf \in [Session -> Host]
  /\ WantedHost \in [Conn -> Host]
  /\ AddrOf \in [Conn -> Addr]
  /\ MaxUp \in Nat /\ MaxDown \in Nat /\ MaxInFlight \in Nat \ {0}

VARIABLES
  register,  \* hostname -> session whose tx it holds (shared, under a mutex)
  phase,     \* of the task of a proxy client
  verified,  \* history: the client proved that it owns the key of the hostname
  rxq,       \* session's mpsc channel of ClientToProxy
  dist,      \* session's Distribiutor
  toServer,  \* packets of the proxy client not yet read
  toClient,  \* packets to the proxy client not yet read
  peerOpen,  \* the proxy client has not closed its end
  quota,     \* packets the proxy client may still send (MaxDown)
  mc,        \* of the task of a player
  target,    \* session whose tx the player's task cloned
  sent,      \* packets the player sent after MCHello
  mrx,       \* mpsc channel of data to the player's task
  mcOut      \* data written to the player's socket

sessionVars == <<phase, verified, rxq, dist, toServer, toClient, peerOpen, quota>>
playerVars == <<mc, target, sent, mrx, mcOut>>
vars == <<register, sessionVars, playerVars>>

Chunk == [conn: Conn, n: 0..MaxUp]
AnyId == 0..MAXIMUM_CLIENTS + 1    \* any u16: one that was never given out too

\* enum ClientToProxy (Close is never sent)
AddMsg(a, c) == [type |-> "AddMinecraftClient", addr |-> a, tx |-> c]
PacketMsg(a, x) == [type |-> "Packet", addr |-> a, data |-> x]
RemoveMsg(a) == [type |-> "RemoveMinecraftClient", addr |-> a]

ClientToProxy == {AddMsg(a, c) : a \in Addr, c \in Conn}
                   \cup {PacketMsg(a, x) : a \in Addr, x \in Chunk}
                   \cup {RemoveMsg(a) : a \in Addr}

\* enum SocketPacket, the proxy client's side
Plain(t) == [type |-> t]
AuthResponse(ok) == [type |-> "ProxyAuthResponse", valid |-> ok]
ProxyJoin(i) == [type |-> "ProxyJoin", id |-> i]
ProxyDisconnect(i) == [type |-> "ProxyDisconnect", id |-> i]
ProxyData(i, x) == [type |-> "ProxyData", id |-> i, data |-> x]

PeerPacket == {Plain("ProxyHello"), Plain("ProxyPing"), AuthResponse(TRUE), AuthResponse(FALSE)}
                \cup {ProxyDisconnect(i) : i \in AnyId}
                \cup {ProxyData(i, x) : i \in AnyId, x \in Payload}

ServerPacket == {Plain(t) : t \in {"ProxyAuthRequest", "ProxyError", "ProxyHelloResponse", "ProxyPong"}}
                  \cup {ProxyJoin(i) : i \in Id} \cup {ProxyDisconnect(i) : i \in Id}
                  \cup {ProxyData(i, x) : i \in Id, x \in Chunk}

TypeOK ==
  /\ register \in [Host -> Session \cup {NoSession}]
  /\ phase \in [Session -> {"idle", "accepted", "auth", "authed", "serving", "closing", "done"}]
  /\ verified \in [Session -> BOOLEAN]
  /\ rxq \in [Session -> Seq(ClientToProxy)]
  /\ dist \in [Session -> Table]
  /\ toServer \in [Session -> Seq(PeerPacket)]
  /\ toClient \in [Session -> Seq(ServerPacket)]
  /\ peerOpen \in [Session -> BOOLEAN]
  /\ quota \in [Session -> 0..MaxDown]
  /\ mc \in [Conn -> {"idle", "found", "added", "running", "done"}]
  /\ target \in [Conn -> Session \cup {NoSession}]
  /\ sent \in [Conn -> 0..MaxUp]
  /\ mrx \in [Conn -> Seq(Payload)]
  /\ mcOut \in [Conn -> Seq(Payload)]

Init ==
  /\ register = [h \in Host |-> NoSession]
  /\ phase = [s \in Session |-> "idle"]
  /\ verified = [s \in Session |-> FALSE]
  /\ rxq = [s \in Session |-> <<>>]
  /\ dist = [s \in Session |-> EmptyTable]
  /\ toServer = [s \in Session |-> <<>>]
  /\ toClient = [s \in Session |-> <<>>]
  /\ peerOpen = [s \in Session |-> FALSE]
  /\ quota = [s \in Session |-> MaxDown]
  /\ mc = [c \in Conn |-> "idle"]
  /\ target = [c \in Conn |-> NoSession]
  /\ sent = [c \in Conn |-> 0]
  /\ mrx = [c \in Conn |-> <<>>]
  /\ mcOut = [c \in Conn |-> <<>>]

-----------------------------------------------------------------------------
(* Channels and links *)

\* The session's receiver lives as long as ProxyClient::handle.
RxOpen(s) == phase[s] = "serving"

Queued(s, m) == \E i \in DOMAIN rxq[s] : rxq[s][i] = m

\* UnboundedSender::send succeeds, and queues, while the receiver lives.
Queue(s, m) == rxq' = [rxq EXCEPT ![s] = IF RxOpen(s) THEN Append(@, m) ELSE @]

\* Mutant: handle keeps a clone of the sender it registered.
HasSenderAlways(s) == phase[s] = "serving"

\* Somebody still holds a sender of the session's channel.
HasSender(s) ==
  \/ \E h \in Host : register[h] = s
  \/ \E c \in Conn : target[c] = s /\ mc[c] \in {"found", "added", "running"}

\* Mutant: the player's task keeps a clone of its own sender.
TxHeldByItself(c) == mc[c] = "running"

\* Somebody still holds the sender of the player's channel: the table of a
\* session, or an AddMinecraftClient nobody has read.
TxHeld(c) ==
  \E s \in Session :
    \/ \E a \in DOMAIN dist[s].clients_addr : dist[s].clients_addr[a].tx = c
    \/ \E i \in DOMAIN rxq[s] : /\ rxq[s][i].type = "AddMinecraftClient"
                                /\ rxq[s][i].tx = c

\* What is sent to a proxy client that has closed its end is read by nobody.
Send(s, p) == toClient' = [toClient EXCEPT ![s] = IF peerOpen[s] THEN Append(@, p) ELSE @]

\* framed.next() yields p.
Reads(s, p) ==
  /\ toServer[s] # <<>>
  /\ p = Head(toServer[s])
  /\ toServer' = [toServer EXCEPT ![s] = Tail(@)]

\* rx.recv() yields m.
Receives(s, m) ==
  /\ phase[s] = "serving"
  /\ rxq[s] # <<>>
  /\ m = Head(rxq[s])

Consume(s) == rxq' = [rxq EXCEPT ![s] = Tail(@)]

\* The socket is dropped, with what was not read from it.
DropSocket(s) == toServer' = [toServer EXCEPT ![s] = <<>>]

\* handle returns, by break or by `?`: receiver and table are dropped.
Leave(s) ==
  /\ phase' = [phase EXCEPT ![s] = "closing"]
  /\ rxq' = [rxq EXCEPT ![s] = <<>>]
  /\ dist' = [dist EXCEPT ![s] = EmptyTable]

-----------------------------------------------------------------------------
(* process_socket_connection for a proxy client: up to handle *)

\* ProxyHello: authenticate sends the challenge.
AcceptHello(s) ==
  /\ phase[s] = "accepted"
  /\ \E p \in PeerPacket : Reads(s, p) /\ p.type = "ProxyHello"
  /\ phase' = [phase EXCEPT ![s] = "auth"]
  /\ Send(s, Plain("ProxyAuthRequest"))
  /\ UNCHANGED <<register, verified, rxq, dist, peerOpen, quota, playerVars>>

\* The stream ends, or fails, before there is a first packet.
NoFirstPacket(s) ==
  /\ phase[s] = "accepted" /\ ~peerOpen[s]
  /\ DropSocket(s)
  /\ phase' = [phase EXCEPT ![s] = "done"]
  /\ UNCHANGED <<register, verified, rxq, dist, toClient, peerOpen, quota, playerVars>>

\* A first packet of neither kind.
UnknownProtocol(s) ==
  /\ phase[s] = "accepted"
  /\ toServer[s] # <<>> /\ Head(toServer[s]).type # "ProxyHello"
  /\ DropSocket(s)
  /\ phase' = [phase EXCEPT ![s] = "done"]
  /\ UNCHANGED <<register, verified, rxq, dist, toClient, peerOpen, quota, playerVars>>

\* The signature verifies and the key's hostname is the claimed one.
AuthOk(s) ==
  /\ phase[s] = "auth"
  /\ Reads(s, AuthResponse(TRUE))
  /\ phase' = [phase EXCEPT ![s] = "authed"]
  /\ verified' = [verified EXCEPT ![s] = TRUE]
  /\ UNCHANGED <<register, rxq, dist, toClient, peerOpen, quota, playerVars>>

\* authenticate returns an error: a wrong signature or hostname, another
\* packet, the end of the stream.  ProxyError, and the task ends.
AuthFailed(s) ==
  /\ phase[s] = "auth"
  /\ \/ ~peerOpen[s]
     \/ toServer[s] # <<>> /\ Head(toServer[s]) # AuthResponse(TRUE)
  /\ DropSocket(s)
  /\ phase' = [phase EXCEPT ![s] = "done"]
  /\ Send(s, Plain("ProxyError"))
  /\ UNCHANGED <<register, verified, rxq, dist, peerOpen, quota, playerVars>>

\* The arm `Err(_)` of the 10 second timeout: ProxyError is sent and, unless
\* that fails, the match ends and handle is called like after a success.
AuthTimeout(s) ==
  /\ phase[s] = "auth"
  /\ \/ phase' = [phase EXCEPT ![s] = "authed"] /\ UNCHANGED toServer
     \/ ~peerOpen[s] /\ phase' = [phase EXCEPT ![s] = "done"] /\ DropSocket(s)
  /\ Send(s, Plain("ProxyError"))
  /\ UNCHANGED <<register, verified, rxq, dist, peerOpen, quota, playerVars>>

\* handle begins: a fresh channel into the register, whatever was there, and
\* ProxyHelloResponse.  (No message is read before the response is sent.)
Register(s) ==
  /\ phase[s] = "authed"
  /\ phase' = [phase EXCEPT ![s] = "serving"]
  /\ register' = [register EXCEPT ![HostOf[s]] = s]
  /\ Send(s, Plain("ProxyHelloResponse"))
  /\ UNCHANGED <<verified, rxq, dist, toServer, peerOpen, quota, playerVars>>

\* Mutant: close_connection is not reached when handle fails.
CloseSkipped(s) ==
  /\ phase[s] = "closing"
  /\ phase' = [phase EXCEPT ![s] = "done"]
  /\ DropSocket(s)
  /\ UNCHANGED <<register, verified, rxq, dist, toClient, peerOpen, quota, playerVars>>

\* After handle, whether it succeeded or failed: close_connection removes the
\* entry of the hostname, and the socket is dropped.
CloseConnection(s) ==
  /\ phase[s] = "closing"
  /\ phase' = [phase EXCEPT ![s] = "done"]
  /\ register' = [register EXCEPT ![HostOf[s]] = NoSession]
  /\ DropSocket(s)
  /\ UNCHANGED <<verified, rxq, dist, toClient, peerOpen, quota, playerVars>>

-----------------------------------------------------------------------------
(* The loop of handle: messages of the players' tasks *)

\* Mutant: the proxy client is not told.
AddSilently(s) ==
  /\ \E m \in ClientToProxy :
       /\ Receives(s, m) /\ m.type = "AddMinecraftClient" /\ CanInsert(dist[s])
       /\ dist' = [dist EXCEPT ![s] = Insert(@, m.addr, m.tx)]
  /\ Consume(s)
  /\ UNCHANGED <<register, phase, verified, toServer, toClient, peerOpen, quota, playerVars>>

HandleAdd(s) ==
  /\ \E m \in ClientToProxy :
       /\ Receives(s, m) /\ m.type = "AddMinecraftClient" /\ CanInsert(dist[s])
       /\ dist' = [dist EXCEPT ![s] = Insert(@, m.addr, m.tx)]
       /\ Send(s, ProxyJoin(LowestFree(dist[s])))
  /\ Consume(s)
  /\ UNCHANGED <<register, phase, verified, toServer, peerOpen, quota, playerVars>>

\* `insert(addr, tx)?`: no identifier is left, handle returns the error.
TooManyClients(s) ==
  /\ \E m \in ClientToProxy :
       Receives(s, m) /\ m.type = "AddMinecraftClient" /\ ~CanInsert(dist[s])
  /\ Leave(s)
  /\ UNCHANGED <<register, verified, toServer, toClient, peerOpen, quota, playerVars>>

HandlePacket(s) ==
  /\ \E m \in ClientToProxy :
       /\ Receives(s, m) /\ m.type = "Packet" /\ HasAddr(dist[s], m.addr)
       /\ Send(s, ProxyData(dist[s].clients_addr[m.addr].id, m.data))
  /\ Consume(s)
  /\ UNCHANGED <<register, phase, verified, dist, toServer, peerOpen, quota, playerVars>>

\* get_by_addr(..).ok_or(WrongPacket)?: handle returns the error.
WrongPacket(s) ==
  /\ \E m \in ClientToProxy :
       Receives(s, m) /\ m.type = "Packet" /\ ~HasAddr(dist[s], m.addr)
  /\ Leave(s)
  /\ UNCHANGED <<register, verified, toServer, toClient, peerOpen, quota, playerVars>>

\* Mutant: the proxy client is not told.
RemoveSilently(s) ==
  /\ \E m \in ClientToProxy :
       /\ Receives(s, m) /\ m.type = "RemoveMinecraftClient"
       /\ dist' = [dist EXCEPT ![s] = RemoveByAddr(@, m.addr)]
  /\ Consume(s)
  /\ UNCHANGED <<register, phase, verified, toServer, toClient, peerOpen, quota, playerVars>>

HandleRemove(s) ==
  /\ \E m \in ClientToProxy :
       /\ Receives(s, m) /\ m.type = "RemoveMinecraftClient"
       /\ dist' = [dist EXCEPT ![s] = RemoveByAddr(@, m.addr)]
       /\ IF HasAddr(dist[s], m.addr)
            THEN Send(s, ProxyDisconnect(dist[s].clients_addr[m.addr].id))
            ELSE UNCHANGED toClient
  /\ Consume(s)
  /\ UNCHANGED <<register, phase, verified, toServer, peerOpen, quota, playerVars>>

\* rx.recv() yields None: nothing queued and nobody left to queue anything.
ChannelClosed(s) ==
  /\ phase[s] = "serving" /\ rxq[s] = <<>> /\ ~HasSender(s)
  /\ Leave(s)
  /\ UNCHANGED <<register, verified, toServer, toClient, peerOpen, quota, playerVars>>

(* The loop of handle: packets of the proxy client *)

PeerDisconnects(s) ==
  /\ phase[s] = "serving"
  /\ \E p \in PeerPacket :
       /\ Reads(s, p) /\ p.type = "ProxyDisconnect"
       /\ dist' = [dist EXCEPT ![s] = RemoveById(@, p.id)]
  /\ UNCHANGED <<register, phase, verified, rxq, toClient, peerOpen, quota, playerVars>>

\* Into the player's channel; to nobody when get_by_id finds nobody, or when
\* the player's task has ended (the send fails, which is only logged).
PeerData(s) ==
  /\ phase[s] = "serving"
  /\ \E p \in PeerPacket :
       /\ Reads(s, p) /\ p.type = "ProxyData"
       /\ IF HasId(dist[s], p.id) /\ mc[GetById(dist[s], p.id).tx] # "done"
            THEN mrx' = [mrx EXCEPT ![GetById(dist[s], p.id).tx] = Append(@, p.data)]
            ELSE UNCHANGED mrx
  /\ UNCHANGED <<register, phase, verified, rxq, dist, toClient, peerOpen, quota,
                 mc, target, sent, mcOut>>

\* Mutant: the ping itself goes back.
PeerPingEchoed(s) ==
  /\ phase[s] = "serving"
  /\ Reads(s, Plain("ProxyPing"))
  /\ Send(s, Plain("ProxyPing"))
  /\ UNCHANGED <<register, phase, verified, rxq, dist, peerOpen, quota, playerVars>>

PeerPing(s) ==
  /\ phase[s] = "serving"
  /\ Reads(s, Plain("ProxyPing"))
  /\ Send(s, Plain("ProxyPong"))
  /\ UNCHANGED <<register, phase, verified, rxq, dist, peerOpen, quota, playerVars>>

\* Any other packet is logged.
PeerOther(s) ==
  /\ phase[s] = "serving"
  /\ \E p \in PeerPacket :
       Reads(s, p) /\ p.type \notin {"ProxyDisconnect", "ProxyData", "ProxyPing"}
  /\ UNCHANGED <<register, phase, verified, rxq, dist, toClient, peerOpen, quota, playerVars>>

\* The end of the stream, an error on it, or a send that fails.
LinkLost(s) ==
  /\ phase[s] = "serving" /\ ~peerOpen[s]
  /\ Leave(s)
  /\ UNCHANGED <<register, verified, toServer, toClient, peerOpen, quota, playerVars>>

\* 60 seconds without a packet (which may be on its way).
IdleTimeout(s) ==
  /\ phase[s] = "serving" /\ peerOpen[s]
  /\ Leave(s)
  /\ UNCHANGED <<register, verified, toServer, toClient, peerOpen, quota, playerVars>>

-----------------------------------------------------------------------------
(* The task of a player *)

\* Two sockets of the server never have the same peer address at a time.
AddrFree(c) ==
  \A d \in Conn \ {c} : AddrOf[d] = AddrOf[c] => mc[d] \in {"idle", "done"}

\* MCHello: clone the sender the register has, or ServerNotFound.
Lookup(c) ==
  LET s == register[WantedHost[c]]
  IN  /\ mc[c] = "idle" /\ AddrFree(c)
      /\ target' = [target EXCEPT ![c] = s]
      /\ mc' = [mc EXCEPT ![c] = IF s = NoSession THEN "done" ELSE "found"]
      /\ UNCHANGED <<register, sessionVars, sent, mrx, mcOut>>

\* MCClient::new fails before it sends: the socket has no peer any more.
NoPeerAddr(c) ==
  /\ mc[c] = "found"
  /\ mc' = [mc EXCEPT ![c] = "done"]
  /\ UNCHANGED <<register, sessionVars, target, sent, mrx, mcOut>>

\* MCClient::new sends two messages; when one fails there is no MCClient yet,
\* so nothing is sent on drop.
AddClient(c) ==
  /\ mc[c] = "found"
  /\ Queue(target[c], AddMsg(AddrOf[c], c))
  /\ mc' = [mc EXCEPT ![c] = IF RxOpen(target[c]) THEN "added" ELSE "done"]
  /\ UNCHANGED <<register, phase, verified, dist, toServer, toClient, peerOpen, quota,
                 target, sent, mrx, mcOut>>

SendHello(c) ==
  /\ mc[c] = "added"
  /\ Queue(target[c], PacketMsg(AddrOf[c], [conn |-> c, n |-> 0]))
  /\ mc' = [mc EXCEPT ![c] = IF RxOpen(target[c]) THEN "running" ELSE "done"]
  /\ UNCHANGED <<register, phase, verified, dist, toServer, toClient, peerOpen, quota,
                 target, sent, mrx, mcOut>>

\* Data of the player; when the channel is closed the task ends.  (Its Drop
\* then queues nothing either.)
McRead(c) ==
  /\ mc[c] = "running" /\ sent[c] < MaxUp
  /\ sent' = [sent EXCEPT ![c] = @ + 1]
  /\ Queue(target[c], PacketMsg(AddrOf[c], [conn |-> c, n |-> sent[c] + 1]))
  /\ mc' = [mc EXCEPT ![c] = IF RxOpen(target[c]) THEN @ ELSE "done"]
  /\ mrx' = [mrx EXCEPT ![c] = IF RxOpen(target[c]) THEN @ ELSE <<>>]
  /\ UNCHANGED <<register, phase, verified, dist, toServer, toClient, peerOpen, quota,
                 target, mcOut>>

\* Mutants: Drop says nothing; the task goes on after it said that it ended.
GoneSilently(c) ==
  /\ mc[c] = "running"
  /\ mc' = [mc EXCEPT ![c] = "done"]
  /\ mrx' = [mrx EXCEPT ![c] = <<>>]
  /\ UNCHANGED <<register, sessionVars, target, sent, mcOut>>
GoneButReading(c) ==
  /\ mc[c] = "running" /\ RxOpen(target[c])
  /\ ~Queued(target[c], RemoveMsg(AddrOf[c]))
  /\ Queue(target[c], RemoveMsg(AddrOf[c]))
  /\ UNCHANGED <<register, phase, verified, dist, toServer, toClient, peerOpen, quota, playerVars>>

\* The player leaves, its stream fails, or a write to it: the loop ends and
\* Drop queues RemoveMinecraftClient.
McGone(c) ==
  /\ mc[c] = "running"
  /\ Queue(target[c], RemoveMsg(AddrOf[c]))
  /\ mc' = [mc EXCEPT ![c] = "done"]
  /\ mrx' = [mrx EXCEPT ![c] = <<>>]
  /\ UNCHANGED <<register, phase, verified, dist, toServer, toClient, peerOpen, quota,
                 target, sent, mcOut>>

\* frames.send, which may wait for ever for a player who does not read.
McDeliver(c) ==
  /\ mc[c] = "running" /\ mrx[c] # <<>>
  /\ mcOut' = [mcOut EXCEPT ![c] = Append(@, Head(mrx[c]))]
  /\ mrx' = [mrx EXCEPT ![c] = Tail(@)]
  /\ UNCHANGED <<register, sessionVars, mc, target, sent>>

\* rx.recv() yields None: need_for_close is cleared, nothing is sent on drop.
McChannelClosed(c) ==
  /\ mc[c] = "running" /\ mrx[c] = <<>> /\ ~TxHeld(c)
  /\ mc' = [mc EXCEPT ![c] = "done"]
  /\ UNCHANGED <<register, sessionVars, target, sent, mrx, mcOut>>

-----------------------------------------------------------------------------
(* The proxy client as far as the server can tell: any packets, any time *)

PeerConnect(s) ==
  /\ phase[s] = "idle"
  /\ phase' = [phase EXCEPT ![s] = "accepted"]
  /\ peerOpen' = [peerOpen EXCEPT ![s] = TRUE]
  /\ \E p \in {Plain("ProxyHello"), Plain("ProxyPing")} :
       toServer' = [toServer EXCEPT ![s] = <<p>>]
  /\ UNCHANGED <<register, verified, rxq, dist, toClient, quota, playerVars>>

PeerAuth(s) ==
  /\ phase[s] = "auth" /\ peerOpen[s] /\ toServer[s] = <<>>
  /\ \E ok \in BOOLEAN : toServer' = [toServer EXCEPT ![s] = <<AuthResponse(ok)>>]
  /\ UNCHANGED <<register, phase, verified, rxq, dist, toClient, peerOpen, quota, playerVars>>

PeerSend(s) ==
  /\ phase[s] \in {"authed", "serving"} /\ peerOpen[s]
  /\ quota[s] > 0 /\ Len(toServer[s]) < MaxInFlight
  /\ quota' = [quota EXCEPT ![s] = @ - 1]
  /\ \E p \in PeerPacket \ {Plain("ProxyHello")} :
       toServer' = [toServer EXCEPT ![s] = Append(@, p)]
  /\ UNCHANGED <<register, phase, verified, rxq, dist, toClient, peerOpen, playerVars>>

PeerRecv(s) ==
  /\ peerOpen[s] /\ toClient[s] # <<>>
  /\ toClient' = [toClient EXCEPT ![s] = Tail(@)]
  /\ UNCHANGED <<register, phase, verified, rxq, dist, toServer, peerOpen, quota, playerVars>>

PeerClose(s) ==
  /\ peerOpen[s]
  /\ peerOpen' = [peerOpen EXCEPT ![s] = FALSE]
  /\ toClient' = [toClient EXCEPT ![s] = <<>>]
  /\ UNCHANGED <<register, phase, verified, rxq, dist, toServer, quota, playerVars>>

-----------------------------------------------------------------------------

\* The two arms of the select! in handle.
RxArm(s) == \/ HandleAdd(s) \/ TooManyClients(s) \/ HandlePacket(s) \/ WrongPacket(s)
            \/ HandleRemove(s) \/ ChannelClosed(s)
FramedArm(s) == \/ PeerDisconnects(s) \/ PeerData(s) \/ PeerPing(s) \/ PeerOther(s)
                \/ LinkLost(s) \/ IdleTimeout(s)

Handshake(s) == \/ AcceptHello(s) \/ NoFirstPacket(s) \/ UnknownProtocol(s)
                \/ AuthOk(s) \/ AuthFailed(s) \/ AuthTimeout(s)

SessionStep(s) == Handshake(s) \/ Register(s) \/ CloseConnection(s) \/ RxArm(s) \/ FramedArm(s)

PlayerStep(c) == \/ Lookup(c) \/ NoPeerAddr(c) \/ AddClient(c) \/ SendHello(c) \/ McRead(c)
                 \/ McGone(c) \/ McDeliver(c) \/ McChannelClosed(c)

PeerStep(s) == PeerConnect(s) \/ PeerAuth(s) \/ PeerSend(s) \/ PeerRecv(s) \/ PeerClose(s)

ServerNext == (\E s \in Session : SessionStep(s)) \/ (\E c \in Conn : PlayerStep(c))

Next == ServerNext \/ \E s \in Session : PeerStep(s)

\* The steps of a player's task that wait for no player.
OwnStep(c) == AddClient(c) \/ SendHello(c) \/ McChannelClosed(c)

\* tokio polls every ready task, and select! looks at its ready branches in a
\* random order, so that none is passed over for ever.  A timeout, the end of
\* a link and everything a peer does, its reading included, may never come.
Fairness ==
  /\ \A s \in Session :
       /\ WF_vars(Register(s) \/ CloseConnection(s))
       /\ WF_vars(RxArm(s))
       /\ WF_vars(LinkLost(s))
  /\ \A c \in Conn : WF_vars(OwnStep(c))

Spec == Init /\ [][Next]_vars
FairSpec == Spec /\ Fairness

-----------------------------------------------------------------------------
(* Properties *)

Live(c) == mc[c] \in {"added", "running"}

\* The register never holds a sender whose session is over, or one of another
\* hostname: a session that ends on any path takes its entry away before its
\* task ends, so that a player is not sent to a dead session for good.
RegisterLive ==
  \A h \in Host : register[h] # NoSession =>
    /\ HostOf[register[h]] = h
    /\ phase[register[h]] \in {"serving", "closing"}

\* The two maps of every session mirror each other whatever the players' and
\* the proxy client's messages are interleaved to: the session only calls
\* insert for an address its table does not have.
TableConsistent == \A s \in Session : Consistent(dist[s])

\* A table entry belongs to a player of this session who has that address and
\* who is either still there or has its RemoveMinecraftClient queued: no entry
\* outlives its player with nobody left to remove it, and none is shared by
\* two players who had the same address one after the other.
EntriesOwned ==
  \A s \in Session : \A a \in DOMAIN dist[s].clients_addr :
    LET c == dist[s].clients_addr[a].tx
    IN  /\ AddrOf[c] = a /\ target[c] = s
        /\ Live(c) \/ Queued(s, RemoveMsg(a))

\* The invariant behind both.  In a session's channel q and table t, with P
\* the players that have announced themselves to it and L the ones still there:
\* an entry or a queued AddMinecraftClient whose player is gone is followed by
\* its RemoveMinecraftClient, and two announcements of one address have a
\* removal between them, so that insert never meets an address it has.
Between(q, a, i, j) == \E k \in 1..Len(q) : i < k /\ k < j /\ q[k] = RemoveMsg(a)

EntriesInv(q, t, P, L) ==
  \A a \in DOMAIN t :
    /\ AddrOf[t[a].tx] = a /\ t[a].tx \in P
    /\ t[a].tx \in L \/ Between(q, a, 0, Len(q) + 1)

AddsInv(q, t, P, L) ==
  \A i \in 1..Len(q) : q[i].type = "AddMinecraftClient" =>
    /\ AddrOf[q[i].tx] = q[i].addr /\ q[i].tx \in P
    /\ q[i].tx \in L \/ Between(q, q[i].addr, i, Len(q) + 1)
    /\ q[i].addr \in DOMAIN t => Between(q, q[i].addr, 0, i)
    /\ \A j \in 1..Len(q) :
         (j < i /\ q[j].type = "AddMinecraftClient" /\ q[j].addr = q[i].addr)
           => Between(q, q[i].addr, j, i)

ChannelInv(q, t, P, L) == EntriesInv(q, t, P, L) /\ AddsInv(q, t, P, L)

Announced(s) == {c \in Conn : target[c] = s /\ mc[c] \notin {"idle", "found"}}
StillThere == {c \in Conn : Live(c)}

OneTaskPerAddress ==
  \A c, d \in Conn :
    (/\ AddrOf[c] = AddrOf[d]
     /\ mc[c] \in {"found", "added", "running"} /\ mc[d] \in {"found", "added", "running"}) => c = d

OnlyServing ==
  \A s \in Session : phase[s] # "serving" => rxq[s] = <<>> /\ dist[s] = EmptyTable

Targets == \A c \in Conn : mc[c] \in {"found", "added", "running"} => target[c] \in Session

AddressInv ==
  /\ \A s \in Session : ChannelInv(rxq[s], dist[s].clients_addr, Announced(s), StillThere)
  /\ OneTaskPerAddress /\ OnlyServing /\ Targets

\* What a player sent goes out under the identifier of that player, even when
\* the identifier or the address had another owner before.
DataUnderOwnId ==
  [][\A s \in Session :
       LET p == toClient'[s][Len(toClient'[s])]
       IN  (Len(toClient'[s]) > Len(toClient[s]) /\ p.type = "ProxyData")
             => HasId(dist[s], p.id) /\ GetById(dist[s], p.id).tx = p.data.conn]_vars

\* When a session is over its players are let go: their tasks see the closed
\* channel and end, whichever of their messages the session never read, unless
\* data is left for a player who does not read it.  And a player who is gone,
\* by himself or so, leaves every table in the end.
PlayersReleased ==
  \A c \in Conn :
    (mc[c] = "done" \/ (mc[c] = "running" /\ phase[target[c]] = "done"))
      ~> ((mc[c] = "done" \/ mrx[c] # <<>>) /\ ~TxHeld(c))

\* A session that another one replaced in the register ends as soon as its own
\* players are gone; it does not stay behind for ever.
ReplacedSessionEnds ==
  \A s \in Session :
    (phase[s] = "serving" /\ register[HostOf[s]] # s)
      ~> (phase[s] = "done" \/ \E c \in Conn : target[c] = s /\ mc[c] = "running")

-----------------------------------------------------------------------------
(* What comments and messages of the code say, and the code does not do *)

\* "// authenticate", "// verify if client posses the private key": whoever is
\* in the register proved that it owns the hostname.
RegisteredIsVerified ==
  \A h \in Host : register[h] # NoSession => verified[register[h]]
=============================================================================
