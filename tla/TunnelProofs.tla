---------------------------- MODULE TunnelProofs ----------------------------
(***************************************************************************)
(* Proofs about the whole tunnel (see Tunnel): its types, that a Client    *)
(* panics only on data it takes for a hello, that no two players' streams  *)
(* mix on their way to the local connections, and that both ends agree as  *)
(* long as only players close connections.  The server's side of every     *)
(* step is a step of ProxyServerProofs, the client's side is shown here.   *)
(***************************************************************************)
EXTENDS Tunnel, ProxyServerProofs

(* Types *)

LEMMA InitTunnelType == TunnelInit => TunnelTypeOK
<1> SUFFICES ASSUME TunnelInit PROVE TypeOK /\ ClientTypeOK
  BY DEF TunnelTypeOK
<1>1. TypeOK
  BY InitType DEF TunnelInit
<1>2. 0 \in Id
  BY MaximumClientsAssumption DEF Id
<1>3. <<>> \in Seq(ToProxy) /\ <<>> \in Seq(Chunk)
  OBVIOUS
<1>4. [i \in {} |-> i] \in UNION {[D -> Local] : D \in SUBSET Id}
  <2>1. [i \in {} |-> i] \in [{} -> Local] /\ {} \in SUBSET Id
    OBVIOUS
  <2> QED BY <2>1
<1>5. 0 \in 0..MaxLocals /\ 0 \in 0..MaxPing /\ 0 \in 0..MaxLocal
  BY ClientConstants
<1>6. ClientTypeOK
  BY <1>2, <1>3, <1>4, <1>5 DEF TunnelInit, ClientInit, ClientTypeOK
<1> QED BY <1>1, <1>6
\* A step of the client's side leaves of the server's variables only the two
\* links and their ends to look at.
LEMMA ServerSideType ==
  ASSUME TypeOK, UNCHANGED serverVars, toServer' \in [Session -> Seq(PeerPacket)],
         toClient' \in [Session -> Seq(ServerPacket)], peerOpen' \in [Session -> BOOLEAN]
  PROVE  TypeOK'
BY DEF TypeOK, serverVars, playerVars

LEMMA SendToType ==
  ASSUME TypeOK, NEW s \in Session, NEW p \in PeerPacket, SendTo(s, p)
  PROVE  toServer' \in [Session -> Seq(PeerPacket)]
<1>1. ASSUME NEW q \in Seq(PeerPacket) PROVE Append(q, p) \in Seq(PeerPacket)
  OBVIOUS
<1> QED BY <1>1 DEF TypeOK, SendTo

LEMMA IncomingType ==
  ASSUME TypeOK, NEW s \in Session, NEW p, Incoming(s, p)
  PROVE  /\ p \in ServerPacket
         /\ TakeIncoming(s) => toClient' \in [Session -> Seq(ServerPacket)]
<1>1. toClient[s] \in Seq(ServerPacket) /\ toClient[s] # <<>>
  BY DEF TypeOK, Incoming
<1>2. Head(toClient[s]) \in ServerPacket /\ Tail(toClient[s]) \in Seq(ServerPacket)
  BY <1>1
<1> QED BY <1>2 DEF TypeOK, Incoming, TakeIncoming

LEMMA TellType ==
  ASSUME ClientTypeOK, NEW s \in Session, NEW ms \in Seq(ToProxy), Tell(s, ms)
  PROVE  toProxy' \in [Session -> Seq(ToProxy)]
<1>1. ASSUME NEW q \in Seq(ToProxy) PROVE q \o ms \in Seq(ToProxy)
  OBVIOUS
<1> QED BY <1>1 DEF ClientTypeOK, Tell

\* The table with an entry more, and with one less.
Bindings == UNION {[D -> Local] : D \in SUBSET Id}

LEMMA BindingsType ==
  ASSUME ClientTypeOK, NEW s \in Session, NEW i \in Id
  PROVE  /\ \A l \in Local : BindTo(s, i, l) => connections' \in [Session -> Bindings]
         /\ Unbind(s, i) => connections' \in [Session -> Bindings]
         /\ connections \in [Session -> Bindings]
<1>1. PICK D \in SUBSET Id : connections[s] \in [D -> Local]
  BY DEF ClientTypeOK
<1>2. connections \in [Session -> Bindings]
  BY DEF ClientTypeOK, Bindings
<1>3. ASSUME NEW l \in Local
      PROVE  [j \in DOMAIN connections[s] \cup {i} |->
                IF j = i THEN l ELSE connections[s][j]] \in Bindings
  <2>1. [j \in DOMAIN connections[s] \cup {i} |->
           IF j = i THEN l ELSE connections[s][j]] \in [D \cup {i} -> Local]
    BY <1>1
  <2> QED BY <2>1 DEF Bindings
<1>4. Restrict(connections[s], DOMAIN connections[s] \ {i}) \in Bindings
  <2>1. Restrict(connections[s], DOMAIN connections[s] \ {i}) \in [D \ {i} -> Local]
    BY <1>1 DEF Restrict
  <2> QED BY <2>1 DEF Bindings
<1> QED BY <1>2, <1>3, <1>4 DEF BindTo, Unbind

\* The identifiers and the tasks in a client's table.
LEMMA BoundType ==
  ASSUME ClientTypeOK, NEW s \in Session, NEW i \in DOMAIN connections[s]
  PROVE  i \in Id /\ connections[s][i] \in Local
<1>1. PICK D \in SUBSET Id : connections[s] \in [D -> Local]
  BY DEF ClientTypeOK
<1> QED BY <1>1

LEMMA StopType ==
  ASSUME TunnelTypeOK, NEW s \in Session, NEW as \in {"panicked", "done"}, Stop(s, as),
         UNCHANGED serverVars
  PROVE  TunnelTypeOK'
<1>1. TypeOK /\ ClientTypeOK /\ <<>> \in Seq(ServerPacket) /\ <<>> \in Seq(ToProxy)
  BY DEF TunnelTypeOK
<1>2. TypeOK'
  <2>1. toServer' \in [Session -> Seq(PeerPacket)]
    BY <1>1 DEF Stop, TypeOK
  <2>2. toClient' \in [Session -> Seq(ServerPacket)] /\ peerOpen' \in [Session -> BOOLEAN]
    BY <1>1 DEF Stop, TypeOK
  <2> QED BY <1>1, <2>1, <2>2, ServerSideType
<1>3. [i \in {} |-> i] \in UNION {[D -> Local] : D \in SUBSET Id}
  <2>1. [i \in {} |-> i] \in [{} -> Local] /\ {} \in SUBSET Id
    OBVIOUS
  <2> QED BY <2>1
<1>4. ClientTypeOK'
  BY <1>1, <1>3 DEF Stop, ClientTypeOK, localVars
<1> QED BY <1>2, <1>4 DEF TunnelTypeOK

LEMMA ClientPackets ==
  /\ [type |-> "ProxyHello"] \in PeerPacket /\ [type |-> "ProxyPing"] \in PeerPacket
  /\ [type |-> "ProxyAuthResponse", valid |-> TRUE] \in PeerPacket
  /\ \A i \in Id : [type |-> "ProxyDisconnect", id |-> i] \in PeerPacket
  /\ \A i \in Id, x \in Payload : [type |-> "ProxyData", id |-> i, data |-> x] \in PeerPacket
<1>1. Id \subseteq AnyId
  BY MaximumClientsAssumption DEF Id, AnyId
<1>2. [type |-> "ProxyHello"] \in PeerPacket /\ [type |-> "ProxyPing"] \in PeerPacket
  BY PeerPacketTypes DEF Plain
<1>3. [type |-> "ProxyAuthResponse", valid |-> TRUE] \in PeerPacket
  BY PeerPacketTypes DEF AuthResponse
<1>4. ASSUME NEW i \in AnyId PROVE ProxyDisconnect(i) \in PeerPacket
  BY SMT DEF PeerPacket, ProxyDisconnect, AuthResponse, Plain, ProxyData
<1>5. ASSUME NEW i \in AnyId, NEW x \in Payload PROVE ProxyData(i, x) \in PeerPacket
  BY SMT DEF PeerPacket, ProxyDisconnect, AuthResponse, Plain, ProxyData
<1> QED BY <1>1, <1>2, <1>3, <1>4, <1>5 DEF ProxyDisconnect, ProxyData

LEMMA ToProxyKinds ==
  ASSUME NEW m \in ToProxy
  PROVE  /\ m.type = "Packet" => m.id \in Id /\ m.data \in Payload
         /\ m.type = "RemoveMinecraftClient" => m.id \in Id
BY LocalsArePayload DEF ToProxy, DataMsg, GoneMsg, DeathMsg

\* The Client reads from the channel of its tasks.
LEMMA ForwardType ==
  ASSUME TunnelTypeOK, NEW s \in Session, ForwardData(s) \/ ForwardGone(s), UNCHANGED serverVars
  PROVE  TunnelTypeOK'
<1>1. TypeOK /\ ClientTypeOK
  BY DEF TunnelTypeOK
<1> DEFINE m == Head(toProxy[s])
<1>2. toProxy[s] \in Seq(ToProxy) /\ toProxy[s] # <<>> /\ toProxy' = [toProxy EXCEPT ![s] = Tail(@)]
  BY <1>1 DEF ClientTypeOK, ForwardData, ForwardGone
<1>3. m \in ToProxy /\ toProxy' \in [Session -> Seq(ToProxy)]
  <2>1. m \in ToProxy /\ Tail(toProxy[s]) \in Seq(ToProxy)
    BY <1>2
  <2> QED BY <1>1, <1>2, <2>1 DEF ClientTypeOK
<1>4. UNCHANGED <<toClient, peerOpen, cphase, spawned, pings, localVars>>
  BY DEF ForwardData, ForwardGone
<1>5. CASE ForwardData(s)
  <2>1. m.type = "Packet" /\ SendTo(s, [type |-> "ProxyData", id |-> m.id, data |-> m.data])
        /\ UNCHANGED connections
    BY <1>5 DEF ForwardData
  <2>2. m.id \in Id /\ m.data \in Payload
    BY <1>3, <2>1, ToProxyKinds
  <2>3. toServer' \in [Session -> Seq(PeerPacket)]
    BY <1>1, <2>1, <2>2, ClientPackets, SendToType
  <2>4. TypeOK'
    BY <1>1, <1>4, <2>3, ServerSideType DEF TypeOK
  <2>5. ClientTypeOK'
    BY <1>1, <1>3, <1>4, <2>1 DEF ClientTypeOK, localVars
  <2> QED BY <2>4, <2>5 DEF TunnelTypeOK
<1>6. CASE ForwardGone(s)
  <2>1. /\ m.type = "RemoveMinecraftClient"
        /\ SendTo(s, [type |-> "ProxyDisconnect", id |-> m.id]) /\ Unbind(s, m.id)
    BY <1>6 DEF ForwardGone
  <2>2. m.id \in Id
    BY <1>3, <2>1, ToProxyKinds
  <2>3. toServer' \in [Session -> Seq(PeerPacket)]
    BY <1>1, <2>1, <2>2, ClientPackets, SendToType
  <2>4. TypeOK'
    BY <1>1, <1>4, <2>3, ServerSideType DEF TypeOK
  <2>5. connections' \in [Session -> Bindings]
    BY <1>1, <2>1, <2>2, BindingsType
  <2>6. ClientTypeOK'
    BY <1>1, <1>3, <1>4, <2>5 DEF ClientTypeOK, localVars, Bindings
  <2> QED BY <2>4, <2>6 DEF TunnelTypeOK
<1> QED BY <1>5, <1>6

\* The Client reads from the link.
LEMMA TakesType ==
  ASSUME TunnelTypeOK, NEW s \in Session, Deliver(s) \/ Disconnected(s) \/ Pong(s),
         UNCHANGED serverVars
  PROVE  TunnelTypeOK'
<1>1. TypeOK /\ ClientTypeOK
  BY DEF TunnelTypeOK
<1>2. toClient' \in [Session -> Seq(ServerPacket)]
  BY <1>1, IncomingType DEF Deliver, Disconnected, Pong
<1>3. TypeOK'
  BY <1>1, <1>2, ServerSideType DEF TypeOK, Deliver, Disconnected, Pong
<1>4. CASE Deliver(s)
  <2>1. PICK i \in DOMAIN connections[s], x \in Chunk :
          LET l == connections[s][i]
          IN  IF lphase[l] # "done"
                THEN lrx' = [lrx EXCEPT ![l] = Append(@, x)] /\ UNCHANGED connections
                ELSE Unbind(s, i) /\ UNCHANGED lrx
    BY <1>4 DEF Deliver
  <2>2. i \in Id /\ connections[s][i] \in Local
    BY <1>1, BoundType
  <2>3. \A q \in Seq(Chunk) : Append(q, x) \in Seq(Chunk)
    OBVIOUS
  <2>4. lrx' \in [Local -> Seq(Chunk)]
    <3>1. PICK t : lrx' = [lrx EXCEPT ![t] = Append(@, x)] \/ lrx' = lrx
      BY <2>1
    <3>2. lrx \in [Local -> Seq(Chunk)]
      BY <1>1 DEF ClientTypeOK
    <3> QED BY <2>3, <3>1, <3>2
  <2>5. connections' \in [Session -> Bindings]
    BY <1>1, <2>1, <2>2, BindingsType
  <2>6. ClientTypeOK'
    BY <1>1, <1>4, <2>4, <2>5 DEF ClientTypeOK, Bindings, Deliver
  <2> QED BY <1>3, <2>6 DEF TunnelTypeOK
<1>5. CASE Disconnected(s)
  <2>1. connections' \in [Session -> Bindings]
    BY <1>1, <1>5, BindingsType DEF Disconnected
  <2>2. ClientTypeOK'
    BY <1>1, <1>5, <2>1 DEF ClientTypeOK, Bindings, Disconnected, localVars
  <2> QED BY <1>3, <2>2 DEF TunnelTypeOK
<1>6. CASE Pong(s)
  <2>1. ClientTypeOK'
    BY <1>1, <1>6 DEF ClientTypeOK, Pong, clientVars, localVars
  <2> QED BY <1>3, <2>1 DEF TunnelTypeOK
<1> QED BY <1>4, <1>5, <1>6

LEMMA JoinType ==
  ASSUME TunnelTypeOK, NEW s \in Session, Join(s), UNCHANGED serverVars
  PROVE  TunnelTypeOK'
<1>1. TypeOK /\ ClientTypeOK
  BY DEF TunnelTypeOK
<1> DEFINE l == [session |-> s, k |-> spawned[s] + 1]
<1>2. PICK i \in Id :
        /\ Incoming(s, [type |-> "ProxyJoin", id |-> i]) /\ BindTo(s, i, l)
        /\ lid' = [lid EXCEPT ![l] = i] /\ lphase' = [lphase EXCEPT ![l] = "connecting"]
  BY DEF Join
<1>3. spawned[s] + 1 \in 1..MaxLocals /\ spawned[s] + 1 \in 0..MaxLocals
  BY <1>1, ClientConstants DEF Join, ClientTypeOK
<1>4. l \in Local
  BY <1>3 DEF Local
<1>5. toClient' \in [Session -> Seq(ServerPacket)]
  BY <1>1, <1>2, IncomingType DEF Join
<1>6. TypeOK'
  BY <1>1, <1>5, ServerSideType DEF TypeOK, Join
<1>7. connections' \in [Session -> Bindings]
  BY <1>1, <1>2, <1>4, BindingsType
<1>8. UNCHANGED <<cphase, toProxy, pings, lrx, lsent, localOut>>
      /\ spawned' = [spawned EXCEPT ![s] = @ + 1]
  BY DEF Join
<1> HIDE DEF l
<1>9. lid' \in [Local -> Id] /\ lphase' \in [Local -> {"idle", "connecting", "running", "done"}]
  BY <1>1, <1>2, <1>4 DEF ClientTypeOK
<1>10. spawned' \in [Session -> 0..MaxLocals]
  BY <1>1, <1>3, <1>8 DEF ClientTypeOK
<1>11. ClientTypeOK'
  BY <1>1, <1>7, <1>8, <1>9, <1>10 DEF ClientTypeOK, Bindings
<1> QED BY <1>6, <1>11 DEF TunnelTypeOK

\* The handshake, and the pings.
LEMMA ConnectType ==
  ASSUME TunnelTypeOK, NEW s \in Session,
         AnswerChallenge(s) \/ Connected(s) \/ Ping(s), UNCHANGED serverVars
  PROVE  TunnelTypeOK'
<1>1. TypeOK /\ ClientTypeOK
  BY DEF TunnelTypeOK
<1>2. toClient' \in [Session -> Seq(ServerPacket)]
  BY <1>1, IncomingType DEF AnswerChallenge, Connected, Ping, TypeOK
<1>3. toServer' \in [Session -> Seq(PeerPacket)]
  <2>1. CASE AnswerChallenge(s)
    BY <1>1, <2>1, SendToType, ClientPackets DEF AnswerChallenge
  <2>2. CASE Connected(s)
    BY <1>1, <2>2 DEF Connected, TypeOK
  <2>3. CASE Ping(s)
    BY <1>1, <2>3, SendToType, ClientPackets DEF Ping
  <2> QED BY <2>1, <2>2, <2>3
<1>4. TypeOK'
  BY <1>1, <1>2, <1>3, ServerSideType DEF TypeOK, AnswerChallenge, Connected, Ping
<1>5. CASE AnswerChallenge(s) \/ Connected(s)
  <2>1. ClientTypeOK'
    BY <1>1, <1>5 DEF ClientTypeOK, AnswerChallenge, Connected, localVars
  <2> QED BY <1>4, <2>1 DEF TunnelTypeOK
<1>6. CASE Ping(s)
  <2>1. pings[s] + 1 \in 0..MaxPing
    BY <1>1, <1>6, ClientConstants DEF ClientTypeOK, Ping
  <2>2. ClientTypeOK'
    BY <1>1, <1>6, <2>1 DEF ClientTypeOK, Ping, localVars
  <2> QED BY <1>4, <2>2 DEF TunnelTypeOK
<1> QED BY <1>5, <1>6

LEMMA ClientStepType ==
  ASSUME TunnelTypeOK, NEW s \in Session, ClientStep(s) \/ ServerGone(s), UNCHANGED serverVars
  PROVE  TunnelTypeOK'
<1>1. CASE \/ ConnectFails(s) \/ UserDisconnects(s) \/ Death(s) \/ UnknownId(s)
           \/ Unimplemented(s) \/ Unreadable(s) \/ ServerGone(s)
  BY <1>1, StopType
     DEF ConnectFails, UserDisconnects, Death, UnknownId, Unimplemented, Unreadable, ServerGone
<1>2. CASE \/ AnswerChallenge(s) \/ Connected(s) \/ Ping(s) \/ ForwardData(s) \/ ForwardGone(s)
           \/ Deliver(s) \/ Disconnected(s) \/ Pong(s) \/ Join(s)
  BY <1>2, ConnectType, ForwardType, TakesType, JoinType
<1> QED BY <1>1, <1>2 DEF ClientStep, HandleStep

LEMMA AcceptClientType ==
  ASSUME TunnelTypeOK, NEW s \in Session, AcceptClient(s)
  PROVE  TunnelTypeOK'
<1>1. TypeOK /\ ClientTypeOK
  BY DEF TunnelTypeOK
<1>2. toServer' \in [Session -> Seq(PeerPacket)]
  BY <1>1, SendToType, ClientPackets DEF AcceptClient, Connect
<1>3. TypeOK'
  BY <1>1, <1>2 DEF TypeOK, AcceptClient, Connect, playerVars
<1>4. ClientTypeOK'
  BY <1>1 DEF ClientTypeOK, AcceptClient, Connect, localVars
<1> QED BY <1>3, <1>4 DEF TunnelTypeOK

LEMMA LocalStepType ==
  ASSUME TunnelTypeOK, NEW l \in Local, LocalStep(l), UNCHANGED serverVars
  PROVE  TunnelTypeOK'
<1>1. TypeOK /\ ClientTypeOK
  BY DEF TunnelTypeOK
<1>2. TypeOK'
  BY <1>1, ServerSideType DEF TypeOK, linkVars, LocalStep, LocalConnects, LocalConnectFails,
     LocalWrites, LocalReleased, LocalReads, LocalCloses
<1> SUFFICES ClientTypeOK'
  BY <1>2 DEF TunnelTypeOK
<1>3. l.session \in Session /\ lid[l] \in Id /\ <<>> \in Seq(Chunk)
  <2>1. <<>> \in Seq(Chunk)
    OBVIOUS
  <2>2. lid \in [Local -> Id]
    BY <1>1 DEF ClientTypeOK
  <2> QED BY <2>1, <2>2 DEF Local
<1>4. GoneMsg(lid[l]) \in ToProxy /\ DeathMsg \in ToProxy
  BY <1>3 DEF ToProxy
<1>5. CASE LocalConnects(l)
  BY <1>1, <1>5 DEF ClientTypeOK, LocalConnects
<1>6. CASE LocalReleased(l)
  BY <1>1, <1>3, <1>6 DEF ClientTypeOK, LocalReleased, End
<1>7. CASE LocalConnectFails(l)
  <2>1. <<DeathMsg, GoneMsg(lid[l])>> \in Seq(ToProxy)
    BY <1>4
  <2>2. toProxy' \in [Session -> Seq(ToProxy)]
    BY <1>1, <1>3, <1>7, <2>1, TellType DEF LocalConnectFails
  <2> QED BY <1>1, <1>3, <1>7, <2>2 DEF ClientTypeOK, LocalConnectFails, End
<1>8. CASE LocalCloses(l)
  <2>1. <<GoneMsg(lid[l])>> \in Seq(ToProxy)
    BY <1>4
  <2>2. toProxy' \in [Session -> Seq(ToProxy)]
    BY <1>1, <1>3, <1>8, <2>1, TellType DEF LocalCloses
  <2> QED BY <1>1, <1>3, <1>8, <2>2 DEF ClientTypeOK, LocalCloses, End
<1>9. CASE LocalReads(l)
  <2>1. lsent[l] + 1 \in 1..MaxLocal /\ lsent[l] + 1 \in 0..MaxLocal
    BY <1>1, <1>9, ClientConstants DEF ClientTypeOK, LocalReads
  <2>2. DataMsg(lid[l], Down(l, lsent[l] + 1)) \in ToProxy
    BY <1>3, <2>1 DEF ToProxy
  <2>3. <<DataMsg(lid[l], Down(l, lsent[l] + 1))>> \in Seq(ToProxy)
    BY <2>2
  <2>4. toProxy' \in [Session -> Seq(ToProxy)]
    BY <1>1, <1>3, <1>9, <2>3, TellType DEF LocalReads
  <2>5. lphase' \in [Local -> {"idle", "connecting", "running", "done"}]
        /\ lrx' \in [Local -> Seq(Chunk)]
    BY <1>1, <1>3, <1>9 DEF ClientTypeOK, LocalReads, End
  <2> QED BY <1>1, <1>9, <2>1, <2>4, <2>5 DEF ClientTypeOK, LocalReads
<1>10. CASE LocalWrites(l)
  <2>1. lrx[l] \in Seq(Chunk) /\ localOut[l] \in Seq(Chunk) /\ lrx[l] # <<>>
    BY <1>1, <1>10 DEF ClientTypeOK, LocalWrites
  <2>2. Tail(lrx[l]) \in Seq(Chunk) /\ Append(localOut[l], Head(lrx[l])) \in Seq(Chunk)
    BY <2>1
  <2> QED BY <1>1, <1>10, <2>2 DEF ClientTypeOK, LocalWrites
<1> QED BY <1>5, <1>6, <1>7, <1>8, <1>9, <1>10 DEF LocalStep

LEMMA SessionTunnelType ==
  ASSUME TunnelTypeOK, (\E s \in Session : SessionStep(s)) \/ (\E c \in Conn : PlayerStep(c)),
         UNCHANGED clientState
  PROVE  TunnelTypeOK'
<1>1. TypeOK /\ ClientTypeOK
  BY DEF TunnelTypeOK
<1>2. TypeOK'
  BY <1>1, NextType DEF Next, ServerNext
<1>3. ClientTypeOK'
  BY <1>1 DEF ClientTypeOK, clientState
<1> QED BY <1>2, <1>3 DEF TunnelTypeOK

LEMMA NextTunnelType == TunnelTypeOK /\ [TunnelNext]_tunnelVars => TunnelTypeOK'
<1> SUFFICES ASSUME TunnelTypeOK, [TunnelNext]_tunnelVars PROVE TunnelTypeOK'
  OBVIOUS
<1>1. CASE UNCHANGED tunnelVars
  <2>1. TypeOK /\ ClientTypeOK /\ UNCHANGED vars /\ UNCHANGED clientState
    BY <1>1 DEF TunnelTypeOK, tunnelVars
  <2>2. TypeOK'
    BY <2>1, NextType
  <2>3. ClientTypeOK'
    BY <2>1 DEF ClientTypeOK, clientState
  <2> QED BY <2>2, <2>3 DEF TunnelTypeOK
<1>2. ASSUME NEW s \in Session, NoticesServerGone(s) PROVE TunnelTypeOK'
  BY <1>2, ClientStepType DEF NoticesServerGone
<1> QED
  BY <1>1, <1>2, ClientStepType, AcceptClientType, LocalStepType, SessionTunnelType DEF TunnelNext

\* Every variable of the tunnel keeps its type: in particular the Client sends
\* nothing the server could not have taken from a proxy client.
THEOREM TunnelTypeCorrect == TunnelSpec => []TunnelTypeOK
BY InitTunnelType, NextTunnelType, PTL DEF TunnelSpec
-----------------------------------------------------------------------------
(* What the server sends, and when *)

\* The server is in handle, or has been.
Opened(ph) == ph \in {"serving", "closing", "done"}

\* What Client::handle has an arm for.
Handled == {"ProxyJoin", "ProxyData", "ProxyDisconnect", "ProxyPong"}

\* Of a link to a Client, with `open` for a server that has opened its session
\* and `conn` for a Client in handle: the ProxyHelloResponse is the last packet
\* of the handshake, and once it has been read the Client can read the rest.
Answered(q, open, conn) ==
  /\ \A i \in 1..Len(q) : q[i].type = "ProxyHelloResponse" =>
       open /\ \A j \in 1..Len(q) : i < j => q[j].type \in Handled
  /\ conn => open /\ \A i \in 1..Len(q) : q[i].type \in Handled

LinkInv ==
  \A s \in Session : Answered(toClient[s], Opened(phase[s]), cphase[s] = "connected")

LEMMA AnsweredSend ==
  ASSUME NEW q \in Seq(ServerPacket), NEW p \in ServerPacket, NEW open, NEW conn, NEW opens,
         Answered(q, open, conn),
         \/ p.type \in Handled /\ open /\ opens
         \/ p.type # "ProxyHelloResponse" /\ ~open
         \/ p.type = "ProxyHelloResponse" /\ ~open /\ opens
  PROVE  Answered(Append(q, p), opens, conn)
<1> DEFINE r == Append(q, p)
<1>1. /\ Len(q) \in Nat /\ Len(r) = Len(q) + 1 /\ r[Len(q) + 1] = p
      /\ \A i \in 1..Len(q) : r[i] = q[i]
  OBVIOUS
<1>2. \A i \in 1..Len(r) : i \in 1..Len(q) \/ i = Len(q) + 1
  BY <1>1
<1> HIDE DEF r
<1>3. CASE open
  <2>1. ASSUME NEW i \in 1..Len(r), r[i].type = "ProxyHelloResponse",
               NEW j \in 1..Len(r), i < j
        PROVE  r[j].type \in Handled
    <3>1. i \in 1..Len(q)
      BY <1>1, <1>2, <2>1
    <3> QED BY <1>1, <1>2, <1>3, <2>1, <3>1 DEF Answered
  <2>2. ASSUME conn, NEW i \in 1..Len(r) PROVE r[i].type \in Handled
    BY <1>1, <1>2, <1>3, <2>2 DEF Answered
  <2> QED BY <1>3, <2>1, <2>2 DEF Answered, r
<1>4. CASE ~open
  <2>1. \A i \in 1..Len(q) : r[i].type # "ProxyHelloResponse"
    BY <1>1, <1>4 DEF Answered
  <2>2. ASSUME NEW i \in 1..Len(r), r[i].type = "ProxyHelloResponse"
        PROVE  opens /\ \A j \in 1..Len(r) : i < j => r[j].type \in Handled
    <3>1. i = Len(q) + 1
      BY <1>2, <2>1, <2>2
    <3>2. p.type = "ProxyHelloResponse"
      BY <1>1, <2>2, <3>1
    <3> QED BY <1>1, <1>4, <3>1, <3>2 DEF Handled
  <2>3. ~conn
    BY <1>4 DEF Answered
  <2> QED BY <2>2, <2>3 DEF Answered, r
<1> QED BY <1>3, <1>4

LEMMA AnsweredTake ==
  ASSUME NEW q \in Seq(ServerPacket), q # <<>>, NEW open, NEW conn, NEW conns,
         Answered(q, open, conn),
         conns => conn \/ Head(q).type = "ProxyHelloResponse"
  PROVE  Answered(Tail(q), open, conns)
<1> DEFINE r == Tail(q)
<1>1. /\ Len(q) \in Nat /\ Len(r) = Len(q) - 1 /\ Head(q) = q[1] /\ 1 \in 1..Len(q)
      /\ \A i \in 1..Len(r) : r[i] = q[i + 1] /\ i + 1 \in 1..Len(q) /\ 1 < i + 1
  OBVIOUS
<1> HIDE DEF r
<1>2. ASSUME NEW i \in 1..Len(r), r[i].type = "ProxyHelloResponse"
      PROVE  open /\ \A j \in 1..Len(r) : i < j => r[j].type \in Handled
  <2>1. /\ open /\ i + 1 \in 1..Len(q)
        /\ \A j \in 1..Len(q) : i + 1 < j => q[j].type \in Handled
    BY <1>1, <1>2 DEF Answered
  <2>2. ASSUME NEW j \in 1..Len(r), i < j PROVE r[j].type \in Handled
    <3>1. r[j] = q[j + 1] /\ j + 1 \in 1..Len(q) /\ i + 1 < j + 1
      BY <1>1, <2>2
    <3> QED BY <2>1, <3>1
  <2> QED BY <2>1, <2>2
<1>3. ASSUME conns PROVE open /\ \A i \in 1..Len(r) : r[i].type \in Handled
  <2>1. CASE conn
    BY <1>1, <2>1 DEF Answered
  <2>2. CASE Head(q).type = "ProxyHelloResponse"
    BY <1>1, <2>2 DEF Answered
  <2> QED BY <1>3, <2>1, <2>2
<1> QED BY <1>2, <1>3 DEF Answered, r

\* A step about one session at most.
LEMMA LinkFrame ==
  ASSUME LinkInv, NEW s,
         \A u \in Session \ {s} : toClient'[u] = toClient[u] /\ phase'[u] = phase[u] /\ cphase'[u] = cphase[u],
         s \in Session => Answered(toClient'[s], Opened(phase'[s]), cphase'[s] = "connected")
  PROVE  LinkInv'
<1>1. \A u \in Session : Answered(toClient'[u], Opened(phase'[u]), cphase'[u] = "connected")
  BY DEF LinkInv
<1>2. \A u \in Session : Answered(toClient[u], Opened(phase[u]), cphase[u] = "connected")'
  BY <1>1 DEF Answered, Opened
<1> QED BY <1>2 DEF LinkInv

\* What handle sends from its loop.
LEMMA SessionSendsHandled ==
  ASSUME TypeOK, NEW s \in Session
  PROVE  /\ HandleAdd(s) \/ HandlePacket(s) \/ PeerPing(s)
              => \E p \in ServerPacket : Send(s, p) /\ p.type \in Handled
         /\ HandleRemove(s) => \/ \E p \in ServerPacket : Send(s, p) /\ p.type \in Handled
                               \/ UNCHANGED toClient
<1>1. ASSUME HandleAdd(s) PROVE \E p \in ServerPacket : Send(s, p) /\ p.type \in Handled
  <2>1. CanInsert(dist[s]) /\ Send(s, ProxyJoin(LowestFree(dist[s])))
    BY <1>1 DEF HandleAdd
  <2>2. LowestFree(dist[s]) \in Id
    BY <2>1, LowestFreeIsFree DEF Free
  <2>3. ProxyJoin(LowestFree(dist[s])) \in ServerPacket
    BY <2>2 DEF ServerPacket
  <2> QED BY <2>1, <2>3 DEF ProxyJoin, Handled
<1>2. ASSUME HandlePacket(s) PROVE \E p \in ServerPacket : Send(s, p) /\ p.type \in Handled
  <2>1. PICK m \in ClientToProxy :
          /\ Receives(s, m) /\ m.type = "Packet" /\ HasAddr(dist[s], m.addr)
          /\ Send(s, ProxyData(dist[s].clients_addr[m.addr].id, m.data))
    BY <1>2 DEF HandlePacket
  <2>2. m.data \in Chunk /\ dist[s].clients_addr[m.addr].id \in Id
    BY <2>1, MessageKinds, TableEntry DEF TypeOK, HasAddr
  <2>3. ProxyData(dist[s].clients_addr[m.addr].id, m.data) \in ServerPacket
    BY <2>2 DEF ServerPacket
  <2> QED BY <2>1, <2>3 DEF ProxyData, Handled
<1>3. ASSUME PeerPing(s) PROVE \E p \in ServerPacket : Send(s, p) /\ p.type \in Handled
  <2>1. Plain("ProxyPong") \in ServerPacket /\ Plain("ProxyPong").type \in Handled
    BY PlainTypes DEF Plain, Handled
  <2> QED BY <1>3, <2>1 DEF PeerPing
<1>4. ASSUME HandleRemove(s)
      PROVE  (\E p \in ServerPacket : Send(s, p) /\ p.type \in Handled) \/ UNCHANGED toClient
  <2>1. PICK m \in ClientToProxy :
          IF HasAddr(dist[s], m.addr)
            THEN Send(s, ProxyDisconnect(dist[s].clients_addr[m.addr].id))
            ELSE UNCHANGED toClient
    BY <1>4 DEF HandleRemove
  <2>2. CASE HasAddr(dist[s], m.addr)
    <3>1. dist[s].clients_addr[m.addr].id \in Id
      BY <2>2, TableEntry DEF TypeOK, HasAddr
    <3>2. ProxyDisconnect(dist[s].clients_addr[m.addr].id) \in ServerPacket
      BY <3>1 DEF ServerPacket
    <3> QED BY <2>1, <2>2, <3>2 DEF ProxyDisconnect, Handled
  <2> QED BY <2>1, <2>2
<1> QED BY <1>1, <1>2, <1>3, <1>4

\* What a step of a session does to its link to the Client.
LEMMA SessionLink ==
  ASSUME TypeOK, NEW s \in Session, SessionStep(s)
  PROVE  /\ \A u \in Session \ {s} : toClient'[u] = toClient[u] /\ phase'[u] = phase[u]
         /\ \/ toClient'[s] = toClient[s] /\ (Opened(phase[s]) <=> Opened(phase'[s]))
            \/ /\ ~Opened(phase[s])
               /\ toClient'[s] = toClient[s]
            \/ \E p \in ServerPacket :
                 /\ Send(s, p)
                 /\ \/ p.type \in Handled /\ Opened(phase[s]) /\ Opened(phase'[s])
                    \/ p.type # "ProxyHelloResponse" /\ ~Opened(phase[s])
                    \/ p.type = "ProxyHelloResponse" /\ ~Opened(phase[s]) /\ Opened(phase'[s])
<1>1. \A p : Send(s, p) => \A u \in Session \ {s} : toClient'[u] = toClient[u]
  BY DEF Send, TypeOK
<1>2. CASE AcceptHello(s) \/ AuthFailed(s) \/ AuthTimeout(s)
  <2>1. PICK t \in {"ProxyAuthRequest", "ProxyError"} : Send(s, Plain(t))
    BY <1>2 DEF AcceptHello, AuthFailed, AuthTimeout
  <2>2. Plain(t) \in ServerPacket /\ Plain(t).type # "ProxyHelloResponse"
    BY DEF ServerPacket, Plain
  <2>3. ~Opened(phase[s]) /\ \A u \in Session \ {s} : phase'[u] = phase[u]
    BY <1>2 DEF AcceptHello, AuthFailed, AuthTimeout, Opened, TypeOK
  <2> QED BY <1>1, <2>1, <2>2, <2>3
<1>3. CASE Register(s)
  <2>1. Send(s, Plain("ProxyHelloResponse")) /\ ~Opened(phase[s]) /\ Opened(phase'[s])
        /\ \A u \in Session \ {s} : phase'[u] = phase[u]
    BY <1>3 DEF Register, Opened, TypeOK
  <2>2. Plain("ProxyHelloResponse") \in ServerPacket /\ Plain("ProxyHelloResponse").type = "ProxyHelloResponse"
    BY DEF ServerPacket, Plain
  <2> QED BY <1>1, <2>1, <2>2
<1>4. CASE HandleAdd(s) \/ HandlePacket(s) \/ PeerPing(s)
  <2>1. UNCHANGED phase /\ Opened(phase[s])
    BY <1>4 DEF HandleAdd, HandlePacket, PeerPing, Receives, Opened
  <2>2. \E p \in ServerPacket : Send(s, p) /\ p.type \in Handled
    BY <1>4, SessionSendsHandled
  <2> QED BY <1>1, <2>1, <2>2
<1>5. CASE HandleRemove(s)
  <2>1. UNCHANGED phase /\ Opened(phase[s])
    BY <1>5 DEF HandleRemove, Receives, Opened
  <2>2. \/ \E p \in ServerPacket : Send(s, p) /\ p.type \in Handled
        \/ UNCHANGED toClient
    BY <1>5, SessionSendsHandled
  <2> QED BY <1>1, <2>1, <2>2
<1>6. CASE \/ NoFirstPacket(s) \/ UnknownProtocol(s) \/ AuthOk(s)
  <2>1. UNCHANGED toClient /\ ~Opened(phase[s]) /\ \A u \in Session \ {s} : phase'[u] = phase[u]
    BY <1>6 DEF NoFirstPacket, UnknownProtocol, AuthOk, Opened, TypeOK
  <2> QED BY <2>1
<1>7. CASE \/ CloseConnection(s) \/ TooManyClients(s) \/ WrongPacket(s) \/ ChannelClosed(s)
           \/ PeerDisconnects(s) \/ PeerData(s) \/ PeerOther(s) \/ LinkLost(s) \/ IdleTimeout(s)
  <2>1. UNCHANGED toClient /\ Opened(phase[s]) /\ Opened(phase'[s])
        /\ \A u \in Session \ {s} : phase'[u] = phase[u]
    BY <1>7 DEF CloseConnection, TooManyClients, WrongPacket, ChannelClosed, PeerDisconnects,
       PeerData, PeerOther, LinkLost, IdleTimeout, Leave, Receives, Opened, TypeOK
  <2> QED BY <2>1
<1> QED
  BY <1>2, <1>3, <1>4, <1>5, <1>6, <1>7 DEF SessionStep, Handshake, RxArm, FramedArm

LEMMA SessionLinkInv ==
  ASSUME TypeOK, LinkInv, NEW s \in Session, SessionStep(s), UNCHANGED clientState
  PROVE  LinkInv'
<1>1. Answered(toClient[s], Opened(phase[s]), cphase[s] = "connected")
  BY DEF LinkInv
<1>2. UNCHANGED cphase /\ toClient[s] \in Seq(ServerPacket)
  BY DEF clientState, TypeOK
<1>3. Answered(toClient'[s], Opened(phase'[s]), cphase[s] = "connected")
  <2>1. CASE toClient'[s] = toClient[s] /\ (Opened(phase[s]) <=> Opened(phase'[s]))
    BY <1>1, <2>1 DEF Answered
  <2>2. CASE ~Opened(phase[s]) /\ toClient'[s] = toClient[s]
    BY <1>1, <2>2 DEF Answered
  <2>3. ASSUME NEW p \in ServerPacket, Send(s, p),
               \/ p.type \in Handled /\ Opened(phase[s]) /\ Opened(phase'[s])
               \/ p.type # "ProxyHelloResponse" /\ ~Opened(phase[s])
               \/ p.type = "ProxyHelloResponse" /\ ~Opened(phase[s]) /\ Opened(phase'[s])
        PROVE  Answered(toClient'[s], Opened(phase'[s]), cphase[s] = "connected")
    <3>1. toClient'[s] = IF peerOpen[s] THEN Append(toClient[s], p) ELSE toClient[s]
      BY <2>3 DEF Send, TypeOK
    <3>2. Answered(Append(toClient[s], p), Opened(phase'[s]), cphase[s] = "connected")
      BY <1>1, <1>2, <2>3, AnsweredSend
    <3>3. Answered(toClient[s], Opened(phase'[s]), cphase[s] = "connected")
      BY <1>1, <2>3 DEF Answered
    <3> QED BY <3>1, <3>2, <3>3
  <2> QED BY <2>1, <2>2, <2>3, SessionLink
<1>4. \A u \in Session \ {s} : toClient'[u] = toClient[u] /\ phase'[u] = phase[u] /\ cphase'[u] = cphase[u]
  BY <1>2, SessionLink
<1> QED BY <1>1, <1>2, <1>3, <1>4, LinkFrame

LEMMA StopLink ==
  ASSUME TunnelTypeOK, LinkInv, NEW s \in Session, NEW as \in {"done", "panicked"}, Stop(s, as),
         UNCHANGED phase
  PROVE  LinkInv'
<1>1. /\ toClient'[s] = <<>> /\ cphase'[s] = as
      /\ \A u \in Session \ {s} : toClient'[u] = toClient[u] /\ cphase'[u] = cphase[u]
  BY DEF Stop, TunnelTypeOK, TypeOK, ClientTypeOK
<1>2. Answered(toClient'[s], Opened(phase'[s]), cphase'[s] = "connected")
  <2>1. cphase'[s] # "connected"
    BY <1>1
  <2>2. \A i : i \notin 1..Len(toClient'[s])
    BY <1>1
  <2> QED BY <2>1, <2>2, Zenon DEF Answered
<1>3. \A u \in Session \ {s} : toClient'[u] = toClient[u] /\ phase'[u] = phase[u] /\ cphase'[u] = cphase[u]
  BY <1>1
<1> QED BY <1>2, <1>3, LinkFrame

\* The Client reads a packet, or nothing.
LEMMA TakeLink ==
  ASSUME TunnelTypeOK, LinkInv, NEW s \in Session, UNCHANGED phase,
         \/ toClient[s] # <<>> /\ TakeIncoming(s)
         \/ UNCHANGED toClient,
         \/ UNCHANGED cphase
         \/ /\ \E x \in {"hello", "response"} : cphase' = [cphase EXCEPT ![s] = x]
         \/ /\ cphase' = [cphase EXCEPT ![s] = "connected"]
            /\ toClient[s] # <<>> /\ TakeIncoming(s) /\ Head(toClient[s]).type = "ProxyHelloResponse"
  PROVE  LinkInv'
<1>1. Answered(toClient[s], Opened(phase[s]), cphase[s] = "connected")
  BY DEF LinkInv
<1>2. toClient[s] \in Seq(ServerPacket)
      /\ \A u \in Session \ {s} : toClient'[u] = toClient[u] /\ cphase'[u] = cphase[u]
  BY <1>1 DEF TunnelTypeOK, TypeOK, ClientTypeOK, TakeIncoming
<1>3. CASE toClient[s] # <<>> /\ TakeIncoming(s)
  <2>1. toClient'[s] = Tail(toClient[s])
    BY <1>3 DEF TunnelTypeOK, TypeOK, TakeIncoming
  <2>2. cphase'[s] = "connected" =>
          cphase[s] = "connected" \/ Head(toClient[s]).type = "ProxyHelloResponse"
    BY DEF TunnelTypeOK, ClientTypeOK
  <2>3. Answered(Tail(toClient[s]), Opened(phase[s]), cphase'[s] = "connected")
    BY <1>1, <1>2, <1>3, <2>2, AnsweredTake
  <2> QED BY <1>2, <2>1, <2>3, LinkFrame
<1>4. CASE UNCHANGED toClient /\ ~ (toClient[s] # <<>> /\ TakeIncoming(s))
  <2>1. cphase'[s] = "connected" => cphase[s] = "connected"
    BY <1>4 DEF TunnelTypeOK, ClientTypeOK
  <2>2. Answered(toClient'[s], Opened(phase'[s]), cphase'[s] = "connected")
    BY <1>1, <1>4, <2>1 DEF Answered
  <2> QED BY <1>2, <2>2, LinkFrame
<1> QED BY <1>3, <1>4

LEMMA ClientLink ==
  ASSUME TunnelTypeOK, LinkInv, NEW s \in Session, ClientStep(s) \/ ServerGone(s),
         UNCHANGED serverVars
  PROVE  LinkInv'
<1>1. UNCHANGED phase
  BY DEF serverVars
<1>2. CASE \/ ConnectFails(s) \/ UserDisconnects(s) \/ Death(s) \/ UnknownId(s) \/ ServerGone(s)
           \/ Unreadable(s)
  BY <1>1, <1>2, StopLink
     DEF ConnectFails, UserDisconnects, Death, UnknownId, ServerGone, Unreadable
<1>3. CASE Unimplemented(s)
  BY <1>1, <1>3, StopLink DEF Unimplemented
<1>4. CASE AnswerChallenge(s) \/ Connected(s)
  BY <1>1, <1>4, TakeLink DEF AnswerChallenge, Connected, Incoming
<1>5. CASE Ping(s) \/ ForwardData(s) \/ ForwardGone(s)
  BY <1>1, <1>5, TakeLink DEF Ping, ForwardData, ForwardGone
<1>6. CASE Deliver(s) \/ Disconnected(s) \/ Pong(s) \/ Join(s)
  BY <1>1, <1>6, TakeLink DEF Deliver, Disconnected, Pong, Join, Incoming, clientVars
<1> QED BY <1>2, <1>3, <1>4, <1>5, <1>6 DEF ClientStep, HandleStep

LEMMA AcceptLink ==
  ASSUME TunnelTypeOK, LinkInv, NEW s \in Session, AcceptClient(s)
  PROVE  LinkInv'
<1>1. /\ phase[s] = "idle" /\ phase'[s] = "accepted" /\ toClient' = toClient /\ cphase'[s] = "hello"
      /\ \A u \in Session \ {s} : phase'[u] = phase[u] /\ cphase'[u] = cphase[u]
  BY DEF AcceptClient, Connect, TunnelTypeOK, TypeOK, ClientTypeOK
<1>2. Answered(toClient'[s], Opened(phase'[s]), cphase'[s] = "connected")
  BY <1>1 DEF LinkInv, Answered, Opened
<1> QED BY <1>1, <1>2, LinkFrame

LEMMA QuietLink ==
  ASSUME LinkInv, UNCHANGED <<toClient, phase, cphase>>
  PROVE  LinkInv'
<1>1. PICK s : s \notin Session
  BY ConstantsAssumption
<1> QED BY <1>1, LinkFrame

LEMMA NextLink == TunnelTypeOK /\ LinkInv /\ [TunnelNext]_tunnelVars => LinkInv'
<1> SUFFICES ASSUME TunnelTypeOK, LinkInv, [TunnelNext]_tunnelVars PROVE LinkInv'
  OBVIOUS
<1>1. ASSUME NEW s \in Session, SessionStep(s), UNCHANGED clientState PROVE LinkInv'
  BY <1>1, SessionLinkInv DEF TunnelTypeOK
<1>2. ASSUME NEW c \in Conn, PlayerStep(c), UNCHANGED clientState PROVE LinkInv'
  BY <1>2, QuietLink DEF clientState, PlayerStep, Lookup, NoPeerAddr, AddClient, SendHello, McRead,
     McGone, McDeliver, McChannelClosed, sessionVars
<1>3. ASSUME NEW l \in Local, LocalStep(l), UNCHANGED serverVars PROVE LinkInv'
  BY <1>3, QuietLink DEF serverVars, linkVars, LocalStep, LocalConnects, LocalConnectFails,
     LocalWrites, LocalReleased, LocalReads, LocalCloses
<1>4. CASE UNCHANGED tunnelVars
  BY <1>4, QuietLink DEF tunnelVars, vars, sessionVars, clientState
<1>5. ASSUME NEW s \in Session, NoticesServerGone(s) PROVE LinkInv'
  BY <1>5, ClientLink DEF NoticesServerGone
<1> QED BY <1>1, <1>2, <1>3, <1>4, <1>5, ClientLink, AcceptLink DEF TunnelNext

LEMMA InitLink == TunnelInit => LinkInv
BY DEF TunnelInit, Init, ClientInit, LinkInv, Answered, Opened

LEMMA LinkAlways == TunnelSpec => [](TunnelTypeOK /\ LinkInv)
<1>1. TunnelInit => TunnelTypeOK /\ LinkInv
  BY InitTunnelType, InitLink
<1>2. TunnelTypeOK /\ LinkInv /\ [TunnelNext]_tunnelVars => (TunnelTypeOK /\ LinkInv)'
  BY NextTunnelType, NextLink
<1> QED BY <1>1, <1>2, PTL DEF TunnelSpec

\* A Client panics in Unimplemented only.
LEMMA WhoPanics ==
  ASSUME TunnelTypeOK, [TunnelNext]_tunnelVars, NEW s \in Session,
         cphase[s] # "panicked", cphase'[s] = "panicked"
  PROVE  Unimplemented(s)
<1>1. ASSUME NEW u \in Session, ClientStep(u) \/ ServerGone(u) PROVE Unimplemented(s)
  <2>1. CASE Unimplemented(u)
    <3>1. \A v \in Session \ {u} : cphase'[v] = cphase[v]
      BY <2>1 DEF Unimplemented, Stop, TunnelTypeOK, ClientTypeOK
    <3> QED BY <2>1, <3>1
  <2>2. CASE \/ ConnectFails(u) \/ UserDisconnects(u) \/ Death(u) \/ UnknownId(u) \/ ServerGone(u)
             \/ Unreadable(u)
    BY <2>2 DEF ConnectFails, UserDisconnects, Death, UnknownId, ServerGone, Unreadable, Stop,
       TunnelTypeOK, ClientTypeOK
  <2>3. CASE AnswerChallenge(u) \/ Connected(u)
    BY <2>3 DEF AnswerChallenge, Connected, TunnelTypeOK, ClientTypeOK
  <2>4. CASE \/ Ping(u) \/ ForwardData(u) \/ ForwardGone(u) \/ Deliver(u) \/ Disconnected(u)
             \/ Pong(u) \/ Join(u)
    BY <2>4 DEF Ping, ForwardData, ForwardGone, Deliver, Disconnected, Pong, Join, clientVars
  <2> QED BY <1>1, <2>1, <2>2, <2>3, <2>4 DEF ClientStep, HandleStep
<1>2. ASSUME NEW u \in Session, AcceptClient(u) PROVE FALSE
  BY <1>2 DEF AcceptClient, Connect, TunnelTypeOK, ClientTypeOK
<1>3. ASSUME NEW l \in Local, LocalStep(l) PROVE FALSE
  BY <1>3 DEF LocalStep, LocalConnects, LocalConnectFails, LocalWrites, LocalReleased, LocalReads,
     LocalCloses
<1>4. ~UNCHANGED cphase
  OBVIOUS
<1> QED BY <1>1, <1>2, <1>3, <1>4 DEF TunnelNext, NoticesServerGone, clientState, tunnelVars

\* A Client that is connected has an arm for whatever was sent to it.
LEMMA UnimplementedIsMistaken ==
  ASSUME TunnelTypeOK, LinkInv, NEW s \in Session, Unimplemented(s)
  PROVE  MCHelloRead(s)
<1>1. CASE toClient[s] # <<>> /\ Head(toClient[s]).type \notin Handled
  <2>1. toClient[s] \in Seq(ServerPacket) /\ toClient[s] # <<>> /\ cphase[s] = "connected"
    BY <1>1 DEF Unimplemented, Handling, TunnelTypeOK, TypeOK
  <2>2. 1 \in 1..Len(toClient[s]) /\ Head(toClient[s]) = toClient[s][1]
    BY <2>1
  <2>3. Head(toClient[s]).type \in Handled
    BY <2>1, <2>2 DEF LinkInv, Answered
  <2> QED BY <1>1, <2>3
<1> QED BY <1>1 DEF Unimplemented, Handled

\* Timeouts, refusals and errors of the handshake come before its answer and
\* nothing but what handle has an arm for comes after it, so that a Client
\* reaches the `unimplemented!` of its match only by mistaking data for a hello.
THEOREM PanicsByMistake == TunnelSpec => PanicsOnlyMistaken
<1>1. TunnelTypeOK /\ LinkInv /\ [TunnelNext]_tunnelVars
        => [\A s \in Session :
              (cphase[s] # "panicked" /\ cphase'[s] = "panicked")
                => Taken(Head(toClient[s])) # {"frame"}]_tunnelVars
  BY WhoPanics, UnimplementedIsMistaken DEF MCHelloRead, LoginComplete
<1> QED BY <1>1, LinkAlways, PTL DEF TunnelSpec, PanicsOnlyMistaken

\* And it never does while no data of a player has the length of a hello.
NoPanic == \A s \in Session : cphase[s] # "panicked"
THEOREM NoHelloNoPanic ==
  ASSUME \A x \in Chunk : ReadAs[x] = {"frame"}
  PROVE  TunnelSpec => []NoPanic
<1>1. ASSUME TunnelTypeOK, LinkInv, NEW s \in Session PROVE ~Unimplemented(s)
  <2>1. ASSUME toClient[s] # <<>> PROVE Taken(Head(toClient[s])) = {"frame"}
    <3>1. Head(toClient[s]) \in ServerPacket
      BY <1>1, <2>1 DEF TunnelTypeOK, TypeOK
    <3>2. Head(toClient[s]).type = "ProxyData" => Head(toClient[s]).data \in Chunk
      BY <3>1, DataKinds
    <3> QED BY <3>2 DEF Taken
  <2>2. ~MCHelloRead(s)
    <3>1. LoginComplete(s) => toClient[s] # <<>>
      BY DEF LoginComplete
    <3> QED BY <2>1, <3>1 DEF MCHelloRead, LoginComplete
  <2> QED BY <1>1, <2>2, UnimplementedIsMistaken
<1>2. TunnelInit => NoPanic
  BY DEF TunnelInit, ClientInit, NoPanic
<1>3. TunnelTypeOK /\ LinkInv /\ NoPanic /\ [TunnelNext]_tunnelVars => NoPanic'
  BY <1>1, WhoPanics DEF NoPanic
<1> QED BY <1>2, <1>3, LinkAlways, PTL DEF TunnelSpec
-----------------------------------------------------------------------------
(* The Client's side *)

\* A Client that is not connected has no table and no link; the tasks in its
\* table are its own, it has spawned them, and each under its own identifier.
ClientInv ==
  \A s \in Session :
    /\ peerOpen[s] <=> cphase[s] \in {"hello", "response", "connected"}
    /\ ~peerOpen[s] => toClient[s] = <<>>
    /\ cphase[s] # "connected" => DOMAIN connections[s] = {}
    /\ \A i \in DOMAIN connections[s] :
         /\ connections[s][i].session = s /\ connections[s][i].k <= spawned[s]
         /\ lid[connections[s][i]] = i

\* A task that is not spawned yet has not been given anything.
LocalInv ==
  \A l \in Local : l.k > spawned[l.session] => lphase[l] = "idle" /\ Upstream(l) = <<>>

LEMMA InitClient == TunnelInit => ClientInv /\ LocalInv
<1> SUFFICES ASSUME TunnelInit PROVE ClientInv /\ LocalInv
  OBVIOUS
<1>1. ClientInv
  BY DEF TunnelInit, Init, ClientInit, ClientInv
<1>2. LocalInv
  BY DEF TunnelInit, ClientInit, LocalInv, Upstream
<1> QED BY <1>1, <1>2

\* A step about one session at most.
LEMMA ClientFrame ==
  ASSUME ClientInv, NEW s,
         \A u \in Session \ {s} :
           /\ peerOpen'[u] = peerOpen[u] /\ cphase'[u] = cphase[u] /\ toClient'[u] = toClient[u]
           /\ connections'[u] = connections[u] /\ spawned'[u] = spawned[u]
           /\ \A i \in DOMAIN connections[u] : lid'[connections[u][i]] = lid[connections[u][i]],
         s \in Session =>
           /\ peerOpen'[s] <=> cphase'[s] \in {"hello", "response", "connected"}
           /\ ~peerOpen'[s] => toClient'[s] = <<>>
           /\ cphase'[s] # "connected" => DOMAIN connections'[s] = {}
           /\ \A i \in DOMAIN connections'[s] :
                /\ connections'[s][i].session = s /\ connections'[s][i].k <= spawned'[s]
                /\ lid'[connections'[s][i]] = i
  PROVE  ClientInv'
<1> SUFFICES ASSUME NEW u \in Session
    PROVE  /\ peerOpen'[u] <=> cphase'[u] \in {"hello", "response", "connected"}
           /\ ~peerOpen'[u] => toClient'[u] = <<>>
           /\ cphase'[u] # "connected" => DOMAIN connections'[u] = {}
           /\ \A i \in DOMAIN connections'[u] :
                /\ connections'[u][i].session = u /\ connections'[u][i].k <= spawned'[u]
                /\ lid'[connections'[u][i]] = i
  BY DEF ClientInv
<1>1. CASE u = s
  BY <1>1
<1>2. CASE u # s
  BY <1>2 DEF ClientInv
<1> QED BY <1>1, <1>2

LEMMA QuietClient ==
  ASSUME ClientInv, UNCHANGED <<peerOpen, cphase, toClient, connections, spawned, lid>>
  PROVE  ClientInv'
<1>1. PICK s : s \notin Session
  BY ConstantsAssumption
<1> QED BY <1>1, ClientFrame

LEMMA LocalFrame ==
  ASSUME LocalInv, UNCHANGED <<lphase, lrx, localOut, spawned>>
  PROVE  LocalInv'
BY DEF LocalInv, Upstream

\* What a step of a session leaves of the two ends.
LEMMA SessionLeaves ==
  ASSUME TypeOK, NEW s \in Session, SessionStep(s)
  PROVE  /\ UNCHANGED <<peerOpen, mc, target, sent>>
         /\ ~peerOpen[s] => toClient' = toClient
         /\ \A u \in Session \ {s} :
              rxq'[u] = rxq[u] /\ dist'[u] = dist[u] /\ toClient'[u] = toClient[u] /\ phase'[u] = phase[u]
<1>1. ASSUME NEW p, Send(s, p)
      PROVE  /\ ~peerOpen[s] => toClient' = toClient
             /\ \A u \in Session \ {s} : toClient'[u] = toClient[u]
  BY <1>1 DEF Send, TypeOK
<1>2. CASE \/ AcceptHello(s) \/ AuthFailed(s) \/ AuthTimeout(s) \/ Register(s)
  BY <1>1, <1>2 DEF AcceptHello, AuthFailed, AuthTimeout, Register, TypeOK, playerVars
<1>3. CASE HandleAdd(s) \/ HandlePacket(s) \/ HandleRemove(s) \/ PeerPing(s)
  <2>1. UNCHANGED toClient \/ \E p : Send(s, p)
    BY <1>3 DEF HandleAdd, HandlePacket, HandleRemove, PeerPing
  <2>2. /\ UNCHANGED <<peerOpen, mc, target, sent, phase>>
        /\ \A u \in Session \ {s} : rxq'[u] = rxq[u] /\ dist'[u] = dist[u]
    BY <1>3 DEF HandleAdd, HandlePacket, HandleRemove, PeerPing, Consume, TypeOK, playerVars
  <2> QED BY <1>1, <2>1, <2>2
<1>4. CASE \/ NoFirstPacket(s) \/ UnknownProtocol(s) \/ AuthOk(s) \/ CloseConnection(s)
           \/ TooManyClients(s) \/ WrongPacket(s) \/ ChannelClosed(s)
           \/ PeerDisconnects(s) \/ PeerData(s) \/ PeerOther(s) \/ LinkLost(s) \/ IdleTimeout(s)
  BY <1>4 DEF NoFirstPacket, UnknownProtocol, AuthOk, CloseConnection, TooManyClients, WrongPacket,
     ChannelClosed, PeerDisconnects, PeerData, PeerOther, LinkLost, IdleTimeout, Leave, TypeOK, playerVars
<1> QED BY <1>2, <1>3, <1>4 DEF SessionStep, Handshake, RxArm, FramedArm

LEMMA SessionClient ==
  ASSUME TypeOK, ClientInv, NEW s \in Session, SessionStep(s), UNCHANGED clientState
  PROVE  ClientInv'
<1>1. UNCHANGED <<peerOpen, cphase, connections, spawned, lid>>
  BY SessionLeaves DEF clientState
<1>2. ~peerOpen[s] => toClient' = toClient
  BY SessionLeaves
<1>3. \A u \in Session \ {s} : toClient'[u] = toClient[u]
  BY SessionLeaves
<1> QED BY <1>1, <1>2, <1>3, ClientFrame DEF ClientInv

\* A Client that ends.
LEMMA StopEffect ==
  ASSUME TunnelTypeOK, NEW s \in Session, NEW as, Stop(s, as)
  PROVE  /\ toClient'[s] = <<>> /\ ~peerOpen'[s] /\ cphase'[s] = as /\ DOMAIN connections'[s] = {}
         /\ toProxy'[s] = <<>>
         /\ \A u \in Session \ {s} :
              /\ toClient'[u] = toClient[u] /\ peerOpen'[u] = peerOpen[u] /\ cphase'[u] = cphase[u]
              /\ connections'[u] = connections[u] /\ toProxy'[u] = toProxy[u]
         /\ UNCHANGED <<toServer, spawned, localVars>>
BY DEF Stop, TunnelTypeOK, TypeOK, ClientTypeOK

\* The actions of a Client that end it.
Stops(s) == \E as \in {"panicked", "done"} : Stop(s, as)

LEMMA WhoStops ==
  ASSUME NEW s, \/ ConnectFails(s) \/ UserDisconnects(s) \/ Death(s) \/ UnknownId(s)
                \/ Unimplemented(s) \/ Unreadable(s) \/ ServerGone(s)
  PROVE  Stops(s)
BY DEF ConnectFails, UserDisconnects, Death, UnknownId, Unimplemented, Unreadable, ServerGone, Stops

LEMMA StopClient ==
  ASSUME TunnelTypeOK, ClientInv, LocalInv, NEW s \in Session, Stops(s)
  PROVE  ClientInv' /\ LocalInv'
<1>1. PICK as \in {"panicked", "done"} : Stop(s, as)
  BY DEF Stops
<1>2. UNCHANGED <<spawned, lid, lphase, lrx, localOut>>
  BY <1>1 DEF Stop, localVars
<1>3. ClientInv'
  BY <1>1, <1>2, StopEffect, ClientFrame
<1> QED BY <1>2, <1>3, LocalFrame

\* Entries of the table, after an insert and after a removal.
LEMMA UnbindEffect ==
  ASSUME ClientTypeOK, NEW s \in Session, NEW i, Unbind(s, i)
  PROVE  /\ DOMAIN connections'[s] = DOMAIN connections[s] \ {i}
         /\ \A j \in DOMAIN connections'[s] : connections'[s][j] = connections[s][j]
         /\ \A u \in Session \ {s} : connections'[u] = connections[u]
BY DEF Unbind, Restrict, ClientTypeOK

LEMMA BindEffect ==
  ASSUME ClientTypeOK, NEW s \in Session, NEW i, NEW l, BindTo(s, i, l)
  PROVE  /\ DOMAIN connections'[s] = DOMAIN connections[s] \cup {i} /\ connections'[s][i] = l
         /\ \A j \in DOMAIN connections[s] : j # i => connections'[s][j] = connections[s][j]
         /\ \A u \in Session \ {s} : connections'[u] = connections[u]
BY DEF BindTo, ClientTypeOK

\* The Client's loop, except for Join.
LEMMA LoopClient ==
  ASSUME TunnelTypeOK, ClientInv, LocalInv, NEW s \in Session,
         \/ AnswerChallenge(s) \/ Connected(s) \/ Ping(s) \/ ForwardData(s) \/ ForwardGone(s)
         \/ Deliver(s) \/ Disconnected(s) \/ Pong(s)
  PROVE  ClientInv'
<1>1. TypeOK /\ ClientTypeOK
  BY DEF TunnelTypeOK
<1>2. CASE \/ AnswerChallenge(s) \/ Connected(s) \/ Ping(s) \/ ForwardData(s) \/ Pong(s)
  <2>1. UNCHANGED <<connections, spawned, lid, peerOpen>>
    BY <1>2 DEF AnswerChallenge, Connected, Ping, ForwardData, Pong, clientVars, localVars
  <2>2. /\ peerOpen[s] /\ cphase'[s] \in {"hello", "response", "connected"}
        /\ cphase[s] = "connected" => cphase'[s] = "connected"
        /\ \A u \in Session \ {s} : cphase'[u] = cphase[u] /\ toClient'[u] = toClient[u]
    BY <1>1, <1>2 DEF AnswerChallenge, Connected, Ping, ForwardData, Pong, Handling, TakeIncoming,
       clientVars, ClientInv, ClientTypeOK, TypeOK
  <2> QED BY <2>1, <2>2, ClientFrame DEF ClientInv
<1>3. CASE ForwardGone(s) \/ Deliver(s) \/ Disconnected(s)
  <2>1. UNCHANGED connections \/ \E i : Unbind(s, i)
    BY <1>3 DEF ForwardGone, Deliver, Disconnected
  <2>2. /\ DOMAIN connections'[s] \subseteq DOMAIN connections[s]
        /\ \A j \in DOMAIN connections'[s] : connections'[s][j] = connections[s][j]
        /\ \A u \in Session \ {s} : connections'[u] = connections[u]
    BY <1>1, <2>1, UnbindEffect
  <2>3. UNCHANGED <<spawned, lid, cphase, peerOpen>> /\ cphase[s] = "connected" /\ peerOpen[s]
    BY <1>3 DEF ForwardGone, Deliver, Disconnected, Handling, localVars, ClientInv
  <2>4. \A u \in Session \ {s} : toClient'[u] = toClient[u]
    BY <1>1, <1>3 DEF ForwardGone, Deliver, Disconnected, TakeIncoming, TypeOK
  <2> QED BY <2>2, <2>3, <2>4, ClientFrame DEF ClientInv
<1> QED BY <1>2, <1>3

LEMMA LoopLocal ==
  ASSUME TunnelTypeOK, ClientInv, LocalInv, NEW s \in Session,
         \/ AnswerChallenge(s) \/ Connected(s) \/ Ping(s) \/ ForwardData(s) \/ ForwardGone(s)
         \/ Deliver(s) \/ Disconnected(s) \/ Pong(s)
  PROVE  LocalInv'
<1>1. TypeOK /\ ClientTypeOK
  BY DEF TunnelTypeOK
<1>2. CASE \/ AnswerChallenge(s) \/ Connected(s) \/ Ping(s) \/ ForwardData(s) \/ ForwardGone(s)
           \/ Disconnected(s) \/ Pong(s)
  <2>1. UNCHANGED <<lphase, lrx, localOut, spawned>>
    BY <1>2 DEF AnswerChallenge, Connected, Ping, ForwardData, ForwardGone, Disconnected, Pong,
       clientVars, localVars
  <2> QED BY <2>1, LocalFrame
<1>3. CASE Deliver(s)
  <2>1. PICK i \in DOMAIN connections[s], x \in Chunk :
          \/ lrx' = [lrx EXCEPT ![connections[s][i]] = Append(@, x)]
          \/ UNCHANGED lrx
    BY <1>3 DEF Deliver
  <2>2. ~ (connections[s][i].k > spawned[connections[s][i].session])
    <3>1. connections[s][i] \in Local
      BY <1>1, BoundType
    <3>2. connections[s][i].session = s /\ connections[s][i].k <= spawned[s]
      BY DEF ClientInv
    <3>3. spawned[s] \in Nat /\ connections[s][i].k \in Nat
      BY <1>1, <3>1, ClientConstants DEF ClientTypeOK, Local
    <3> QED BY <3>2, <3>3
  <2>3. ASSUME NEW l \in Local, l.k > spawned[l.session] PROVE lrx'[l] = lrx[l]
    BY <1>1, <2>1, <2>2, <2>3 DEF ClientTypeOK
  <2>4. UNCHANGED <<lphase, localOut, spawned>>
    BY <1>3 DEF Deliver
  <2> QED BY <2>3, <2>4 DEF LocalInv, Upstream
<1> QED BY <1>2, <1>3

LEMMA JoinClient ==
  ASSUME TunnelTypeOK, ClientInv, LocalInv, NEW s \in Session, Join(s)
  PROVE  ClientInv' /\ LocalInv'
<1>1. TypeOK /\ ClientTypeOK
  BY DEF TunnelTypeOK
<1> DEFINE l == [session |-> s, k |-> spawned[s] + 1]
<1>2. PICK i \in Id :
        /\ BindTo(s, i, l) /\ lid' = [lid EXCEPT ![l] = i]
        /\ lphase' = [lphase EXCEPT ![l] = "connecting"]
  BY DEF Join
<1>3. spawned[s] \in Nat /\ spawned[s] + 1 \in 1..MaxLocals /\ spawned'[s] = spawned[s] + 1
      /\ \A u \in Session \ {s} : spawned'[u] = spawned[u]
  BY <1>1, ClientConstants DEF Join, ClientTypeOK
<1>4. l \in Local /\ l.session = s /\ l.k = spawned[s] + 1
  BY <1>3 DEF Local
<1> HIDE DEF l
<1>5. ASSUME NEW u \in Session, NEW j \in DOMAIN connections[u]
      PROVE  /\ connections[u][j].session = u /\ connections[u][j].k \in Nat /\ connections[u][j] # l
             /\ connections[u][j].k <= spawned[u] /\ lid'[connections[u][j]] = lid[connections[u][j]]
             /\ lid[connections[u][j]] = j
  <2>1. connections[u][j].session = u /\ connections[u][j].k <= spawned[u] /\ lid[connections[u][j]] = j
    BY DEF ClientInv
  <2>2. connections[u][j] \in Local
    BY <1>1, BoundType
  <2>3. connections[u][j] # l
    BY <1>3, <1>4, <2>1
  <2> QED BY <1>1, <1>2, <2>1, <2>2, <2>3 DEF ClientTypeOK, Local
<1>6. ClientInv'
  <2>1. /\ DOMAIN connections'[s] = DOMAIN connections[s] \cup {i} /\ connections'[s][i] = l
        /\ \A j \in DOMAIN connections[s] : j # i => connections'[s][j] = connections[s][j]
        /\ \A u \in Session \ {s} : connections'[u] = connections[u]
    BY <1>1, <1>2, BindEffect
  <2>2. lid'[l] = i
    BY <1>1, <1>2, <1>4 DEF ClientTypeOK
  <2>3. UNCHANGED <<peerOpen, cphase>> /\ cphase[s] = "connected" /\ peerOpen[s]
        /\ \A u \in Session \ {s} : toClient'[u] = toClient[u]
    BY <1>1 DEF Join, Handling, TakeIncoming, ClientInv, TypeOK
  <2>4. ASSUME NEW j \in DOMAIN connections'[s]
        PROVE  /\ connections'[s][j].session = s /\ connections'[s][j].k <= spawned'[s]
               /\ lid'[connections'[s][j]] = j
    <3>1. CASE j = i
      BY <1>3, <1>4, <2>1, <2>2, <3>1
    <3>2. CASE j # i
      <4>1. j \in DOMAIN connections[s] /\ connections'[s][j] = connections[s][j]
        BY <2>1, <3>2
      <4>2. \A a, b \in Nat : a <= b => a <= b + 1
        OBVIOUS
      <4> QED BY <1>3, <1>5, <4>1, <4>2
    <3> QED BY <3>1, <3>2
  <2>5. \A u \in Session \ {s} :
          /\ peerOpen'[u] = peerOpen[u] /\ cphase'[u] = cphase[u] /\ toClient'[u] = toClient[u]
          /\ connections'[u] = connections[u] /\ spawned'[u] = spawned[u]
          /\ \A j \in DOMAIN connections[u] : lid'[connections[u][j]] = lid[connections[u][j]]
    BY <1>3, <1>5, <2>1, <2>3
  <2> QED BY <2>3, <2>4, <2>5, ClientFrame DEF ClientInv
<1>7. LocalInv'
  <2> SUFFICES ASSUME NEW m \in Local, m.k > spawned'[m.session]
      PROVE  lphase'[m] = "idle" /\ Upstream(m)' = <<>>
    BY DEF LocalInv
  <2>1. m.k > spawned[m.session] /\ m # l
    <3>1. m.session \in Session /\ m.k \in Nat
      BY DEF Local
    <3>2. \A a, b \in Nat : a > b + 1 => a > b /\ a # b + 1
      OBVIOUS
    <3> QED BY <1>3, <1>4, <3>1, <3>2
  <2>2. UNCHANGED <<lrx, localOut>> /\ lphase'[m] = lphase[m]
    BY <1>1, <1>2, <2>1 DEF Join, ClientTypeOK
  <2> QED BY <2>1, <2>2 DEF LocalInv, Upstream
<1> QED BY <1>6, <1>7

\* What a task changes is its own.
LEMMA LocalLeaves ==
  ASSUME ClientTypeOK, NEW l \in Local, LocalStep(l)
  PROVE  /\ UNCHANGED <<linkVars, cphase, connections, spawned, lid>>
         /\ \A m \in Local \ {l} : lphase'[m] = lphase[m] /\ lrx'[m] = lrx[m] /\ localOut'[m] = localOut[m]
         /\ lphase[l] \in {"connecting", "running"}
<1>1. CASE LocalConnects(l) \/ LocalWrites(l)
  BY <1>1 DEF LocalConnects, LocalWrites, ClientTypeOK
<1>2. CASE LocalConnectFails(l) \/ LocalReleased(l) \/ LocalCloses(l)
  BY <1>2 DEF LocalConnectFails, LocalReleased, LocalCloses, End, ClientTypeOK
<1>3. CASE LocalReads(l)
  BY <1>3 DEF LocalReads, End, ClientTypeOK
<1> QED BY <1>1, <1>2, <1>3 DEF LocalStep

LEMMA TaskClient ==
  ASSUME TunnelTypeOK, ClientInv, LocalInv, NEW l \in Local, LocalStep(l)
  PROVE  ClientInv' /\ LocalInv'
<1>1. ClientTypeOK
  BY DEF TunnelTypeOK
<1>2. ClientInv'
  BY <1>1, LocalLeaves, QuietClient DEF linkVars
<1>3. LocalInv'
  BY <1>1, LocalLeaves DEF LocalInv, Upstream
<1> QED BY <1>2, <1>3

LEMMA AcceptClientClient ==
  ASSUME TunnelTypeOK, ClientInv, LocalInv, NEW s \in Session, AcceptClient(s)
  PROVE  ClientInv' /\ LocalInv'
<1>1. /\ cphase[s] = "idle" /\ cphase'[s] = "hello" /\ peerOpen'[s]
      /\ \A u \in Session \ {s} : cphase'[u] = cphase[u] /\ peerOpen'[u] = peerOpen[u]
      /\ UNCHANGED <<toClient, connections, spawned, lid, lphase, lrx, localOut>>
  BY DEF AcceptClient, Connect, localVars, TunnelTypeOK, TypeOK, ClientTypeOK
<1>2. ClientInv'
  BY <1>1, ClientFrame DEF ClientInv
<1> QED BY <1>1, <1>2, LocalFrame

LEMMA PlayerLeaves ==
  ASSUME NEW c \in Conn, PlayerStep(c)
  PROVE  UNCHANGED <<phase, dist, toServer, toClient, peerOpen>>
BY DEF PlayerStep, Lookup, NoPeerAddr, AddClient, SendHello, McRead, McGone, McDeliver,
   McChannelClosed, sessionVars

LEMMA NextClient ==
  ASSUME TunnelTypeOK, ClientInv, LocalInv, [TunnelNext]_tunnelVars
  PROVE  ClientInv' /\ LocalInv'
<1>1. ASSUME NEW s \in Session, SessionStep(s), UNCHANGED clientState PROVE ClientInv' /\ LocalInv'
  BY <1>1, SessionClient, LocalFrame DEF TunnelTypeOK, clientState
<1>2. ASSUME NEW c \in Conn, PlayerStep(c), UNCHANGED clientState PROVE ClientInv' /\ LocalInv'
  BY <1>2, PlayerLeaves, QuietClient, LocalFrame DEF clientState
<1>3. CASE UNCHANGED tunnelVars
  BY <1>3, QuietClient, LocalFrame DEF tunnelVars, vars, sessionVars, clientState
<1>4. ASSUME NEW s \in Session, ClientStep(s) \/ ServerGone(s) PROVE ClientInv' /\ LocalInv'
  <2>1. CASE \/ ConnectFails(s) \/ UserDisconnects(s) \/ Death(s) \/ UnknownId(s)
             \/ Unimplemented(s) \/ Unreadable(s) \/ ServerGone(s)
    BY <2>1, WhoStops, StopClient
  <2>2. CASE \/ AnswerChallenge(s) \/ Connected(s) \/ Ping(s) \/ ForwardData(s) \/ ForwardGone(s)
             \/ Deliver(s) \/ Disconnected(s) \/ Pong(s)
    BY <2>2, LoopClient, LoopLocal
  <2> QED BY <1>4, <2>1, <2>2, JoinClient DEF ClientStep, HandleStep
<1> QED
  BY <1>1, <1>2, <1>3, <1>4, TaskClient, AcceptClientClient DEF TunnelNext, NoticesServerGone
-----------------------------------------------------------------------------
(* The streams of the tunnel *)

\* A player who has not said hello has sent nothing after it.
SentInv == \A c \in Conn : mc[c] \in {"idle", "found", "added"} => sent[c] = 0

\* x comes directly after what a local connection has been given.
Carries(u, x) == Len(u) = x.n /\ (x.n > 0 => u[1].conn = x.conn)

\* What the Client of s could read next, and what the players of s could
\* queue next.
Wants(s) ==
  {p \in DataPacket : (p.id \in DOMAIN connections[s] /\ lphase[connections[s][p.id]] # "done")
                        => Carries(Upstream(connections[s][p.id]), p.data)}
NextOf(c) == IF mc[c] = "added" THEN 0 ELSE sent[c] + 1
Nexts(s) == {x \in Chunk : x.conn \in Served(s) /\ x.n = NextOf(x.conn)}

StreamInv ==
  \A s \in Session : FlowInv(rxq[s], dist[s].clients_addr, toClient[s], Wants(s), Nexts(s))

LEMMA StreamFrame ==
  ASSUME StreamInv, NEW s,
         \A u \in Session \ {s} :
           /\ rxq'[u] = rxq[u] /\ dist'[u] = dist[u] /\ toClient'[u] = toClient[u]
           /\ Wants(u) \subseteq Wants(u)' /\ Nexts(u)' \subseteq Nexts(u),
         s \in Session =>
           FlowInv(rxq'[s], dist'[s].clients_addr, toClient'[s], Wants(s)', Nexts(s)')
  PROVE  StreamInv'
<1>1. ASSUME NEW u \in Session
      PROVE  FlowInv(rxq'[u], dist'[u].clients_addr, toClient'[u], Wants(u)', Nexts(u)')
  <2>1. CASE u = s
    BY <2>1
  <2>2. CASE u # s
    <3>1. FlowInv(rxq[u], dist[u].clients_addr, toClient[u], Wants(u), Nexts(u))
      BY DEF StreamInv
    <3>2. FlowInv(rxq[u], dist[u].clients_addr, toClient[u], Wants(u)', Nexts(u)')
      BY <2>2, <3>1, FlowGrows
    <3> QED BY <2>2, <3>2
  <2> QED BY <2>1, <2>2
<1>2. ASSUME NEW u \in Session
      PROVE  FlowInv(rxq[u], dist[u].clients_addr, toClient[u], Wants(u), Nexts(u))'
  BY <1>1
<1> QED BY <1>2 DEF StreamInv

LEMMA SameWants ==
  ASSUME UNCHANGED <<connections, lphase, lrx, localOut>>
  PROVE  \A u \in Session : Wants(u)' = Wants(u)
BY DEF Wants, Upstream, Carries

LEMMA SameNexts ==
  ASSUME UNCHANGED <<mc, target, sent>>
  PROVE  \A u \in Session : Nexts(u)' = Nexts(u)
BY DEF Nexts, NextOf, Served, Announced, StillThere, Live

\* The Client can take what it could take before when the tasks in its table
\* were there before, have been given the same, or have ended.
LEMMA MoreWants ==
  ASSUME NEW u \in Session,
         \A i \in DOMAIN connections'[u] :
           lphase'[connections'[u][i]] # "done" =>
             /\ i \in DOMAIN connections[u] /\ connections[u][i] = connections'[u][i]
             /\ lphase[connections'[u][i]] # "done"
             /\ localOut'[connections'[u][i]] \o lrx'[connections'[u][i]]
                  = localOut[connections'[u][i]] \o lrx[connections'[u][i]]
  PROVE  Wants(u) \subseteq Wants(u)'
<1> SUFFICES ASSUME NEW p \in DataPacket, p \in Wants(u), p.id \in DOMAIN connections'[u],
                    lphase'[connections'[u][p.id]] # "done"
             PROVE  Carries(localOut'[connections'[u][p.id]] \o lrx'[connections'[u][p.id]], p.data)
  BY DEF Wants, Carries, Upstream
<1>1. /\ p.id \in DOMAIN connections[u] /\ connections[u][p.id] = connections'[u][p.id]
      /\ lphase[connections'[u][p.id]] # "done"
      /\ localOut'[connections'[u][p.id]] \o lrx'[connections'[u][p.id]]
           = localOut[connections'[u][p.id]] \o lrx[connections'[u][p.id]]
  OBVIOUS
<1>2. Carries(localOut[connections[u][p.id]] \o lrx[connections[u][p.id]], p.data)
  BY <1>1 DEF Wants, Upstream
<1> QED BY <1>1, <1>2

LEMMA QuietStream ==
  ASSUME StreamInv, UNCHANGED <<rxq, dist, toClient>>,
         \A u \in Session : Wants(u) \subseteq Wants(u)' /\ Nexts(u)' \subseteq Nexts(u)
  PROVE  StreamInv'
<1>1. PICK s : s \notin Session
  BY ConstantsAssumption
<1> QED BY <1>1, StreamFrame

LEMMA InitStream == TunnelInit => StreamInv /\ SentInv
<1> SUFFICES ASSUME TunnelInit PROVE StreamInv /\ SentInv
  OBVIOUS
<1>1. SentInv
  BY DEF TunnelInit, Init, SentInv
<1>2. ASSUME NEW s \in Session
      PROVE  FlowInv(rxq[s], dist[s].clients_addr, toClient[s], Wants(s), Nexts(s))
  <2>1. rxq[s] = <<>> /\ toClient[s] = <<>> /\ DOMAIN connections[s] = {}
    BY DEF TunnelInit, Init, ClientInit
  <2>2. Nexts(s) = {}
    BY ConstantsAssumption DEF TunnelInit, Init, Nexts, Served, Announced
  <2>3. DownInv(<<>>, Wants(s))
    BY DEF DownInv
  <2>4. \A E : UpInv(<<>>, E, {})
    BY DEF UpInv
  <2> QED BY <2>1, <2>2, <2>3, <2>4 DEF FlowInv
<1> QED BY <1>1, <1>2 DEF StreamInv

\* What was the Client's to read is nobody's once it has closed its end.
LEMMA NotOpenEnded ==
  ASSUME ClientInv, NEW s \in Session
  PROVE  peerOpen[s] \/ Ended(toClient[s], Wants(s))
<1>1. ~peerOpen[s] => toClient[s] = <<>> /\ DOMAIN connections[s] = {}
  BY DEF ClientInv
<1>2. DOMAIN connections[s] = {} => Wants(s) = DataPacket
  BY DEF Wants
<1> QED BY <1>1, <1>2 DEF Ended
-----------------------------------------------------------------------------
(* The Client reads *)

LEMMA TakenStream ==
  ASSUME TunnelTypeOK, StreamInv, NEW s \in Session, TakeIncoming(s), toClient[s] # <<>>,
         UNCHANGED <<rxq, dist, mc, target, sent>>,
         \A u \in Session \ {s} : Wants(u) \subseteq Wants(u)',
         FlowInv(rxq[s], dist[s].clients_addr, Tail(toClient[s]), Wants(s)', Nexts(s))
  PROVE  StreamInv'
<1>1. toClient'[s] = Tail(toClient[s]) /\ \A u \in Session \ {s} : toClient'[u] = toClient[u]
  BY DEF TakeIncoming, TunnelTypeOK, TypeOK
<1>2. \A u \in Session : Nexts(u)' = Nexts(u)
  BY SameNexts
<1> QED BY <1>1, <1>2, StreamFrame

\* Something that is not about a stream.
LEMMA SkipStream ==
  ASSUME TunnelTypeOK, StreamInv, NEW s \in Session, TakeIncoming(s), toClient[s] # <<>>,
         Head(toClient[s]).type \notin {"ProxyJoin", "ProxyData"},
         UNCHANGED <<rxq, dist, mc, target, sent>>,
         \A u \in Session : Wants(u) \subseteq Wants(u)'
  PROVE  StreamInv'
<1>1. toClient[s] \in Seq(ServerPacket)
  BY DEF TunnelTypeOK, TypeOK
<1>2. FlowInv(rxq[s], dist[s].clients_addr, toClient[s], Wants(s), Nexts(s))
  BY DEF StreamInv
<1>3. \A i : Head(toClient[s]) \notin About(i)
  BY DEF About
<1>4. \A p \in DataPacket :
        (IF Head(toClient[s]) \in About(p.id) THEN Head(toClient[s]) \in Before(p) ELSE p \in Wants(s))
          => p \in Wants(s)'
  BY <1>3
<1>5. FlowInv(rxq[s], dist[s].clients_addr, Tail(toClient[s]), Wants(s)', Nexts(s))
  BY <1>1, <1>2, <1>4, FlowRead
<1> QED BY <1>5, TakenStream

\* The tasks of other Clients are not in the way of a step.
LEMMA OthersWants ==
  ASSUME ClientTypeOK, ClientInv, NEW s \in Session,
         \A u \in Session \ {s} : connections'[u] = connections[u],
         \A l \in Local : l.session # s =>
           /\ lphase'[l] \in {lphase[l], "done"}
           /\ lphase'[l] # "done" => localOut'[l] \o lrx'[l] = localOut[l] \o lrx[l]
  PROVE  \A u \in Session \ {s} : Wants(u) \subseteq Wants(u)'
<1> SUFFICES ASSUME NEW u \in Session \ {s} PROVE Wants(u) \subseteq Wants(u)'
  OBVIOUS
<1>1. \A i \in DOMAIN connections[u] :
        connections[u][i] \in Local /\ connections[u][i].session = u
  BY BoundType DEF ClientInv
<1> QED BY <1>1, MoreWants

\* One packet more behind, and one handed over at the front.
LEMMA GivenMore ==
  ASSUME NEW T, NEW a \in Seq(T), NEW b \in Seq(T), NEW x \in T
  PROVE  /\ Len(a \o b) \in Nat /\ Len(a \o Append(b, x)) = Len(a \o b) + 1
         /\ \A i \in 1..Len(a \o b) : (a \o Append(b, x))[i] = (a \o b)[i]
         /\ (a \o Append(b, x))[Len(a \o b) + 1] = x
<1> DEFINE c == Append(b, x)
<1>1. /\ c \in Seq(T) /\ Len(b) \in Nat /\ Len(a) \in Nat /\ Len(c) = Len(b) + 1 /\ c[Len(b) + 1] = x
      /\ \A i \in 1..Len(b) : c[i] = b[i]
  OBVIOUS
<1> HIDE DEF c
<1>2. /\ Len(a \o b) = Len(a) + Len(b)
      /\ \A i \in 1..Len(a) + Len(b) : (a \o b)[i] = IF i <= Len(a) THEN a[i] ELSE b[i - Len(a)]
  BY ConcatProperties
<1>3. /\ Len(a \o c) = Len(a) + Len(c)
      /\ \A i \in 1..Len(a) + Len(c) : (a \o c)[i] = IF i <= Len(a) THEN a[i] ELSE c[i - Len(a)]
  BY <1>1, ConcatProperties
<1>4. ASSUME NEW i \in 1..Len(a) + Len(b) PROVE (a \o c)[i] = (a \o b)[i]
  <2>1. i \in 1..Len(a) + Len(c)
    BY <1>1
  <2>2. i > Len(a) => i - Len(a) \in 1..Len(b)
    BY <1>1
  <2> QED BY <1>1, <1>2, <1>3, <2>1, <2>2
<1>5. (a \o c)[Len(a) + Len(b) + 1] = x
  <2>1. /\ Len(a) + Len(b) + 1 \in 1..Len(a) + Len(c) /\ ~ (Len(a) + Len(b) + 1 <= Len(a))
        /\ (Len(a) + Len(b) + 1) - Len(a) = Len(b) + 1
    BY <1>1
  <2> QED BY <1>1, <1>3, <2>1
<1> QED BY <1>1, <1>2, <1>3, <1>4, <1>5 DEF c

LEMMA GivenShifts ==
  ASSUME NEW T, NEW a \in Seq(T), NEW b \in Seq(T), b # <<>>
  PROVE  Append(a, Head(b)) \o Tail(b) = a \o b
<1>1. Head(b) \in T /\ Tail(b) \in Seq(T) /\ <<Head(b)>> \in Seq(T)
  OBVIOUS
<1>2. Append(a, Head(b)) = a \o <<Head(b)>>
  BY <1>1, AppendIsConcat
<1>3. (a \o <<Head(b)>>) \o Tail(b) = a \o (<<Head(b)>> \o Tail(b))
  BY <1>1, ConcatAssociative
<1>4. <<Head(b)>> \o Tail(b) = b
  OBVIOUS
<1> QED BY <1>2, <1>3, <1>4

\* ProxyJoin: the task is new and has been given nothing.
LEMMA JoinStream ==
  ASSUME TunnelTypeOK, ClientInv, LocalInv, StreamInv, NEW s \in Session, Join(s),
         UNCHANGED <<rxq, dist, mc, target, sent>>
  PROVE  StreamInv'
<1>1. TypeOK /\ ClientTypeOK
  BY DEF TunnelTypeOK
<1> DEFINE l == [session |-> s, k |-> spawned[s] + 1]
<1>2. PICK i \in Id :
        /\ toClient[s] # <<>> /\ Head(toClient[s]) = [type |-> "ProxyJoin", id |-> i]
        /\ BindTo(s, i, l) /\ lphase' = [lphase EXCEPT ![l] = "connecting"]
  BY DEF Join, Incoming
<1>3. spawned[s] \in Nat /\ spawned[s] + 1 \in 1..MaxLocals /\ spawned[s] + 1 > spawned[s]
  BY <1>1, ClientConstants DEF Join, ClientTypeOK
<1>4. l \in Local /\ l.session = s /\ l.k = spawned[s] + 1
  BY <1>3 DEF Local
<1> HIDE DEF l
<1>5. localOut[l] \o lrx[l] = <<>> /\ UNCHANGED <<lrx, localOut>> /\ TakeIncoming(s)
  BY <1>3, <1>4 DEF LocalInv, Upstream, Join
<1>6. /\ \A m \in Local : m # l => lphase'[m] = lphase[m]
      /\ lphase'[l] = "connecting"
  BY <1>1, <1>2, <1>4 DEF ClientTypeOK
<1>7. /\ DOMAIN connections'[s] = DOMAIN connections[s] \cup {i} /\ connections'[s][i] = l
      /\ \A j \in DOMAIN connections[s] : j # i => connections'[s][j] = connections[s][j]
      /\ \A u \in Session \ {s} : connections'[u] = connections[u]
  BY <1>1, <1>2, BindEffect
<1>8. \A u \in Session \ {s} : Wants(u) \subseteq Wants(u)'
  BY <1>1, <1>4, <1>5, <1>6, <1>7, OthersWants
<1>9. ASSUME NEW p \in DataPacket,
             IF Head(toClient[s]) \in About(p.id) THEN Head(toClient[s]) \in Before(p) ELSE p \in Wants(s)
      PROVE  p \in Wants(s)'
  <2> SUFFICES ASSUME p.id \in DOMAIN connections'[s], lphase'[connections'[s][p.id]] # "done"
               PROVE  Carries(localOut'[connections'[s][p.id]] \o lrx'[connections'[s][p.id]], p.data)
    BY DEF Wants, Carries, Upstream
  <2>1. toClient[s] \in Seq(ServerPacket) /\ Head(toClient[s]) \in ServerPacket
    BY <1>1, <1>2 DEF TypeOK
  <2>2. CASE p.id = i
    <3>1. Head(toClient[s]) \in About(p.id)
      BY <1>2, <2>1, <2>2 DEF About
    <3>2. p.data.n = 0
      BY <1>2, <1>9, <3>1 DEF Before
    <3>3. Carries(<<>>, p.data)
      BY <3>2 DEF Carries
    <3>4. localOut'[l] \o lrx'[l] = <<>>
      BY <1>5
    <3> QED BY <1>7, <2>2, <3>3, <3>4
  <2>3. CASE p.id # i
    <3>1. Head(toClient[s]) \notin About(p.id)
      BY <1>2, <2>3 DEF About
    <3>2. p.id \in DOMAIN connections[s] /\ connections'[s][p.id] = connections[s][p.id]
      BY <1>7, <2>3
    <3>3. connections[s][p.id] \in Local /\ connections[s][p.id].k <= spawned[s]
      BY <1>1, <3>2, BoundType DEF ClientInv
    <3>4. connections[s][p.id] # l
      BY <1>3, <1>4, <3>3
    <3>5. lphase[connections[s][p.id]] # "done"
      BY <1>6, <3>2, <3>3, <3>4
    <3>6. Carries(localOut[connections[s][p.id]] \o lrx[connections[s][p.id]], p.data)
      BY <1>9, <3>1, <3>2, <3>5 DEF Wants, Upstream
    <3> QED BY <1>5, <3>2, <3>6
  <2> QED BY <2>2, <2>3
<1>10. FlowInv(rxq[s], dist[s].clients_addr, Tail(toClient[s]), Wants(s)', Nexts(s))
  <2>1. toClient[s] \in Seq(ServerPacket)
    BY <1>1 DEF TypeOK
  <2>2. FlowInv(rxq[s], dist[s].clients_addr, toClient[s], Wants(s), Nexts(s))
    BY DEF StreamInv
  <2> QED BY <1>2, <1>9, <2>1, <2>2, FlowRead
<1> QED BY <1>2, <1>5, <1>8, <1>10, TakenStream

\* The packet at the head of the link is what its reader could read.
LEMMA HeadWanted ==
  ASSUME TypeOK, StreamInv, NEW s \in Session, toClient[s] # <<>>, Head(toClient[s]).type = "ProxyData"
  PROVE  Head(toClient[s]) \in Wants(s)
<1>1. toClient[s] \in Seq(ServerPacket) /\ DownInv(toClient[s], Wants(s))
  BY DEF TypeOK, StreamInv, FlowInv
<1>2. 1 \in 1..Len(toClient[s]) /\ toClient[s][1] = Head(toClient[s])
  BY <1>1
<1>3. NextDown(toClient[s], Wants(s), Head(toClient[s]), 1)
  BY <1>1, <1>2 DEF DownInv
<1> QED BY <1>3 DEF NextDown, LastWord

\* ProxyData to a task that still takes it.
LEMMA DeliverStream ==
  ASSUME TunnelTypeOK, ClientInv, StreamInv, NEW s \in Session, Deliver(s),
         UNCHANGED <<rxq, dist, mc, target, sent>>
  PROVE  StreamInv'
<1>1. TypeOK /\ ClientTypeOK
  BY DEF TunnelTypeOK
<1>2. PICK i \in DOMAIN connections[s], x \in Chunk :
        /\ toClient[s] # <<>> /\ Head(toClient[s]) = [type |-> "ProxyData", id |-> i, data |-> x]
        /\ IF lphase[connections[s][i]] # "done"
             THEN lrx' = [lrx EXCEPT ![connections[s][i]] = Append(@, x)] /\ UNCHANGED connections
             ELSE Unbind(s, i) /\ UNCHANGED lrx
  BY DEF Deliver, Incoming
<1> DEFINE l == connections[s][i]
<1>3. l \in Local /\ l.session = s /\ lid[l] = i /\ i \in Id
  BY <1>1, BoundType DEF ClientInv
<1>4. TakeIncoming(s) /\ UNCHANGED <<lphase, lid, localOut>>
  BY DEF Deliver
<1>5. toClient[s] \in Seq(ServerPacket) /\ Head(toClient[s]) \in ServerPacket
  BY <1>1, <1>2 DEF TypeOK
<1>6. Head(toClient[s]) \in About(i)
  BY <1>2, <1>5 DEF About
<1>7. Head(toClient[s]) \in Wants(s)
  BY <1>1, <1>2, HeadWanted
<1> HIDE DEF l
<1>8. ASSUME NEW p \in DataPacket,
             IF Head(toClient[s]) \in About(p.id) THEN Head(toClient[s]) \in Before(p) ELSE p \in Wants(s)
      PROVE  p \in Wants(s)'
  <2> SUFFICES ASSUME p.id \in DOMAIN connections'[s], lphase'[connections'[s][p.id]] # "done"
               PROVE  Carries(localOut'[connections'[s][p.id]] \o lrx'[connections'[s][p.id]], p.data)
    BY DEF Wants, Carries, Upstream
  <2>1. /\ \A j \in DOMAIN connections'[s] : j \in DOMAIN connections[s] /\ connections'[s][j] = connections[s][j]
        /\ lphase[l] = "done" => i \notin DOMAIN connections'[s]
    BY <1>1, <1>2, UnbindEffect DEF l
  <2>2. CASE p.id = i
    <3>1. lphase[l] # "done" /\ connections'[s][p.id] = l
      BY <2>1, <2>2 DEF l
    <3>2. lrx'[l] = Append(lrx[l], x) /\ localOut'[l] = localOut[l]
      BY <1>1, <1>2, <1>3, <1>4, <3>1 DEF l, ClientTypeOK
    <3>3. Carries(localOut[l] \o lrx[l], x)
      <4>1. Head(toClient[s]).id = i /\ Head(toClient[s]).data = x
        BY <1>2
      <4> QED BY <1>7, <3>1, <4>1 DEF Wants, Upstream, l
    <3>4. x.conn = p.data.conn /\ x.n + 1 = p.data.n
      <4>1. Head(toClient[s]) \in Before(p)
        BY <1>6, <1>8, <2>2
      <4> QED BY <1>2, <4>1 DEF Before
    <3>5. localOut[l] \in Seq(Chunk) /\ lrx[l] \in Seq(Chunk) /\ x.n \in Nat
      <4>1. localOut[l] \in Seq(Chunk) /\ lrx[l] \in Seq(Chunk)
        BY <1>1, <1>3 DEF ClientTypeOK
      <4>2. x.n \in Nat
        BY ConstantsAssumption DEF Chunk
      <4> QED BY <4>1, <4>2
    <3> DEFINE a == localOut[l]
               b == lrx[l]
               w == a \o b
               v == a \o Append(b, x)
    <3>6. /\ Len(w) \in Nat /\ Len(v) = Len(w) + 1
          /\ Len(w) = 0 => v[1] = x
          /\ Len(w) > 0 => v[1] = w[1]
      <4>1. /\ Len(w) \in Nat /\ Len(v) = Len(w) + 1 /\ v[Len(w) + 1] = x
            /\ \A j \in 1..Len(w) : v[j] = w[j]
        <5>1. a \in Seq(Chunk) /\ b \in Seq(Chunk) /\ x \in Chunk
          BY <3>5
        <5> HIDE DEF a, b
        <5> QED BY <5>1, GivenMore
      <4> HIDE DEF w, v
      <4> QED BY <4>1
    <3>7. Len(w) = x.n /\ (x.n > 0 => w[1].conn = x.conn)
      BY <3>3 DEF Carries
    <3> HIDE DEF w, v
    <3>8. Len(v) = p.data.n /\ v[1].conn = p.data.conn
      BY <3>4, <3>5, <3>6, <3>7
    <3>9. Carries(v, p.data)
      BY <3>8 DEF Carries
    <3> QED BY <3>1, <3>2, <3>9 DEF v
  <2>3. CASE p.id # i
    <3>1. Head(toClient[s]) \notin About(p.id)
      BY <1>2, <2>3 DEF About
    <3>2. p.id \in DOMAIN connections[s] /\ connections'[s][p.id] = connections[s][p.id]
      BY <2>1
    <3>3. connections[s][p.id] \in Local /\ connections[s][p.id] # l
      BY <1>1, <1>3, <2>3, <3>2, BoundType DEF ClientInv
    <3>4. lrx'[connections[s][p.id]] = lrx[connections[s][p.id]]
      BY <1>1, <1>2, <3>3 DEF l, ClientTypeOK
    <3>5. Carries(localOut[connections[s][p.id]] \o lrx[connections[s][p.id]], p.data)
      BY <1>4, <1>8, <3>1, <3>2 DEF Wants, Upstream
    <3> QED BY <1>4, <3>2, <3>4, <3>5
  <2> QED BY <2>2, <2>3
<1>9. FlowInv(rxq[s], dist[s].clients_addr, Tail(toClient[s]), Wants(s)', Nexts(s))
  <2>1. FlowInv(rxq[s], dist[s].clients_addr, toClient[s], Wants(s), Nexts(s))
    BY DEF StreamInv
  <2> QED BY <1>2, <1>5, <1>8, <2>1, FlowRead
<1>10. \A u \in Session \ {s} : Wants(u) \subseteq Wants(u)'
  <2>1. \A u \in Session \ {s} : connections'[u] = connections[u]
    BY <1>1, <1>2, UnbindEffect
  <2>2. \A m \in Local : m.session # s => lrx'[m] = lrx[m]
    BY <1>1, <1>2, <1>3 DEF l, ClientTypeOK
  <2> QED BY <1>1, <1>4, <2>1, <2>2, OthersWants
<1> QED BY <1>2, <1>4, <1>9, <1>10, TakenStream

\* The rest of what the Client does.
LEMMA UnboundWants ==
  ASSUME ClientTypeOK, UNCHANGED <<lphase, lrx, localOut>>,
         \/ UNCHANGED connections
         \/ \E s \in Session, i \in Id : Unbind(s, i)
  PROVE  \A u \in Session : Wants(u) \subseteq Wants(u)'
<1>1. CASE UNCHANGED connections
  BY <1>1, SameWants
<1>2. ASSUME NEW s \in Session, NEW i \in Id, Unbind(s, i), NEW u \in Session
      PROVE  Wants(u) \subseteq Wants(u)'
  <2>1. \A j \in DOMAIN connections'[u] : j \in DOMAIN connections[u] /\ connections'[u][j] = connections[u][j]
    BY <1>2, UnbindEffect
  <2> QED BY <2>1, MoreWants
<1> QED BY <1>1, <1>2

LEMMA LoopStream ==
  ASSUME TunnelTypeOK, ClientInv, StreamInv, NEW s \in Session,
         \/ AnswerChallenge(s) \/ Connected(s) \/ Ping(s) \/ ForwardData(s) \/ ForwardGone(s)
         \/ Disconnected(s) \/ Pong(s),
         UNCHANGED <<rxq, dist, mc, target, sent>>
  PROVE  StreamInv'
<1>1. TypeOK /\ ClientTypeOK
  BY DEF TunnelTypeOK
<1>2. CASE AnswerChallenge(s) \/ Connected(s) \/ Disconnected(s) \/ Pong(s)
  <2>1. /\ TakeIncoming(s) /\ toClient[s] # <<>> /\ UNCHANGED <<lphase, lrx, localOut>>
        /\ Head(toClient[s]).type \in {"ProxyAuthRequest", "ProxyHelloResponse", "ProxyDisconnect", "ProxyPong"}
        /\ \/ UNCHANGED connections
           \/ \E i \in Id : Unbind(s, i)
    <3>1. CASE AnswerChallenge(s) \/ Connected(s) \/ Pong(s)
      BY <3>1 DEF AnswerChallenge, Connected, Pong, Incoming, localVars, clientVars
    <3>2. CASE Disconnected(s)
      <4>1. PICK i \in Id : Incoming(s, [type |-> "ProxyDisconnect", id |-> i]) /\ Unbind(s, i)
        BY <3>2 DEF Disconnected
      <4>2. toClient[s] # <<>> /\ Head(toClient[s]).type = "ProxyDisconnect"
        BY <4>1 DEF Incoming
      <4> QED BY <3>2, <4>1, <4>2 DEF Disconnected, localVars
    <3> QED BY <1>2, <3>1, <3>2
  <2>2. \A u \in Session : Wants(u) \subseteq Wants(u)'
    BY <1>1, <2>1, UnboundWants
  <2> QED BY <2>1, <2>2, SkipStream
<1>3. CASE Ping(s) \/ ForwardData(s) \/ ForwardGone(s)
  <2>1. UNCHANGED <<toClient, lphase, lrx, localOut>>
    BY <1>3 DEF Ping, ForwardData, ForwardGone, localVars
  <2>2. UNCHANGED connections \/ \E i \in Id : Unbind(s, i)
    <3>1. CASE ForwardGone(s)
      <4>1. toProxy[s] \in Seq(ToProxy) /\ toProxy[s] # <<>>
        BY <1>1, <3>1 DEF ForwardGone, ClientTypeOK
      <4>2. Head(toProxy[s]) \in ToProxy
        BY <4>1
      <4>3. Head(toProxy[s]).id \in Id /\ Unbind(s, Head(toProxy[s]).id)
        BY <3>1, <4>2, ToProxyKinds DEF ForwardGone
      <4> QED BY <4>3
    <3>2. CASE Ping(s) \/ ForwardData(s)
      BY <3>2 DEF Ping, ForwardData
    <3> QED BY <1>3, <3>1, <3>2
  <2>3. \A u \in Session : Wants(u) \subseteq Wants(u)'
    BY <1>1, <2>1, <2>2, UnboundWants
  <2> QED BY <2>1, <2>3, SameNexts, QuietStream
<1> QED BY <1>2, <1>3

LEMMA StopStream ==
  ASSUME TunnelTypeOK, ClientInv, StreamInv, NEW s \in Session, Stops(s),
         UNCHANGED <<rxq, dist, mc, target, sent>>
  PROVE  StreamInv'
<1>1. PICK as \in {"panicked", "done"} : Stop(s, as)
  BY DEF Stops
<1>2. /\ toClient'[s] = <<>> /\ DOMAIN connections'[s] = {}
      /\ \A u \in Session \ {s} : toClient'[u] = toClient[u] /\ connections'[u] = connections[u]
      /\ UNCHANGED <<lphase, lrx, localOut>>
  BY <1>1, StopEffect DEF localVars
<1>3. Wants(s)' = DataPacket
  BY <1>2 DEF Wants
<1>4. FlowInv(rxq'[s], dist'[s].clients_addr, toClient'[s], Wants(s)', Nexts(s))
  <2>1. FlowInv(rxq[s], dist[s].clients_addr, toClient[s], Wants(s), Nexts(s))
    BY DEF StreamInv
  <2>2. FlowInv(rxq[s], dist[s].clients_addr, <<>>, DataPacket, Nexts(s))
    BY <2>1, FlowClosed
  <2> QED BY <1>2, <1>3, <2>2
<1>5. \A u \in Session \ {s} : Wants(u) \subseteq Wants(u)'
  BY <1>2, OthersWants DEF TunnelTypeOK
<1>6. \A u \in Session : Nexts(u)' = Nexts(u)
  BY SameNexts
<1> QED BY <1>2, <1>4, <1>5, <1>6, StreamFrame

\* What a task of the Client has been given is what it writes, or drops when
\* it ends.
LEMMA TaskGiven ==
  ASSUME ClientTypeOK, NEW l \in Local, LocalStep(l)
  PROVE  /\ lphase'[l] \in {lphase[l], "running", "done"} /\ (lphase[l] = "done" => lphase'[l] = "done")
         /\ lphase'[l] # "done" => localOut'[l] \o lrx'[l] = localOut[l] \o lrx[l]
         /\ \/ localOut'[l] \o lrx'[l] = localOut[l] \o lrx[l]
            \/ lrx'[l] = <<>> /\ localOut'[l] = localOut[l]
<1>0. localOut[l] \in Seq(Chunk) /\ lrx[l] \in Seq(Chunk)
  BY DEF ClientTypeOK
<1>1. CASE LocalConnects(l)
  BY <1>1 DEF LocalConnects, ClientTypeOK
<1>2. CASE LocalWrites(l)
  <2>1. lrx[l] # <<>> /\ localOut'[l] = Append(localOut[l], Head(lrx[l])) /\ lrx'[l] = Tail(lrx[l])
        /\ lphase' = lphase /\ lphase[l] = "running"
    BY <1>2 DEF LocalWrites, ClientTypeOK
  <2>2. Append(localOut[l], Head(lrx[l])) \o Tail(lrx[l]) = localOut[l] \o lrx[l]
    BY <1>0, <2>1, GivenShifts
  <2> QED BY <2>1, <2>2
<1>3. CASE LocalConnectFails(l) \/ LocalReleased(l) \/ LocalCloses(l)
  BY <1>3 DEF LocalConnectFails, LocalReleased, LocalCloses, End, ClientTypeOK
<1>4. CASE LocalReads(l)
  BY <1>4 DEF LocalReads, End, ClientTypeOK
<1> QED BY <1>1, <1>2, <1>3, <1>4 DEF LocalStep

LEMMA TaskStream ==
  ASSUME TunnelTypeOK, ClientInv, StreamInv, NEW l \in Local, LocalStep(l),
         UNCHANGED <<rxq, dist, mc, target, sent>>
  PROVE  StreamInv'
<1>1. ClientTypeOK
  BY DEF TunnelTypeOK
<1>2. UNCHANGED <<toClient, connections>>
      /\ \A m \in Local \ {l} : lphase'[m] = lphase[m] /\ lrx'[m] = lrx[m] /\ localOut'[m] = localOut[m]
  BY <1>1, LocalLeaves DEF linkVars
<1>3. /\ lphase[l] = "done" => lphase'[l] = "done"
      /\ lphase'[l] # "done" => localOut'[l] \o lrx'[l] = localOut[l] \o lrx[l]
  BY <1>1, TaskGiven
<1>4. ASSUME NEW u \in Session PROVE Wants(u) \subseteq Wants(u)'
  <2>1. \A i \in DOMAIN connections[u] : connections[u][i] \in Local
    BY <1>1, BoundType
  <2> QED BY <1>2, <1>3, <2>1, MoreWants
<1> QED BY <1>2, <1>4, SameNexts, QuietStream
-----------------------------------------------------------------------------
(* The server's session reads and sends *)

\* What the players of a session could queue next is data.
LEMMA NextsAreData == \A s : Nexts(s) \subseteq Chunk
BY DEF Nexts

LEMMA SentEffect ==
  ASSUME TypeOK, NEW s \in Session, NEW p, Send(s, p)
  PROVE  toClient'[s] = Sent(toClient[s], p, peerOpen[s])
BY DEF Send, TypeOK, Sent

\* The session changes its channel, its table and its link.
LEMMA SessionStreamFrame ==
  ASSUME TypeOK, StreamInv, NEW s \in Session, SessionStep(s), UNCHANGED clientState,
         FlowInv(rxq'[s], dist'[s].clients_addr, toClient'[s], Wants(s), Nexts(s))
  PROVE  StreamInv'
<1>1. /\ UNCHANGED <<mc, target, sent>>
      /\ \A u \in Session \ {s} : rxq'[u] = rxq[u] /\ dist'[u] = dist[u] /\ toClient'[u] = toClient[u]
  BY SessionLeaves
<1>2. \A u \in Session : Wants(u)' = Wants(u) /\ Nexts(u)' = Nexts(u)
  BY <1>1, SameWants, SameNexts DEF clientState
<1> QED BY <1>1, <1>2, StreamFrame

LEMMA AddStream ==
  ASSUME TypeOK, AddressInv, TableConsistent, ClientInv, StreamInv, NEW s \in Session, HandleAdd(s)
  PROVE  FlowInv(rxq'[s], dist'[s].clients_addr, toClient'[s], Wants(s), Nexts(s))
<1>1. PICK m \in ClientToProxy :
        /\ Receives(s, m) /\ m.type = "AddMinecraftClient" /\ CanInsert(dist[s])
        /\ dist' = [dist EXCEPT ![s] = Insert(@, m.addr, m.tx)]
        /\ Send(s, ProxyJoin(LowestFree(dist[s])))
  BY DEF HandleAdd
<1> DEFINE i == LowestFree(dist[s])
           t == dist[s].clients_addr
           u == dist'[s].clients_addr
<1>2. /\ rxq[s] \in Seq(ClientToProxy) /\ rxq[s] # <<>> /\ m = Head(rxq[s])
      /\ dist[s] \in Table /\ Consistent(dist[s])
      /\ ChannelInv(rxq[s], t, Announced(s), StillThere)
  BY <1>1, ReceivesFacts
<1>3. AddrOf[m.tx] = m.addr
  <2>1. 1 \in 1..Len(rxq[s]) /\ rxq[s][1] = m
    BY <1>2
  <2> QED BY <1>1, <1>2, <2>1 DEF ChannelInv, AddsInv
<1>4. i \in Id /\ i \notin DOMAIN dist[s].clients_id
  BY <1>1, LowestFreeIsFree DEF Free
<1>5. \A a \in DOMAIN t : t[a].id # i
  BY <1>2, <1>4 DEF Consistent
<1>6. dist'[s] = Insert(dist[s], m.addr, m.tx)
  BY <1>1 DEF TypeOK
<1>7. /\ DOMAIN u = DOMAIN t \cup {m.addr} /\ u[m.addr].tx = m.tx /\ u[m.addr].id = i
      /\ \A a \in DOMAIN t : a # m.addr => u[a] = t[a]
  BY <1>6 DEF Insert, Put
<1>8. rxq'[s] = Tail(rxq[s]) /\ toClient[s] \in Seq(ServerPacket)
  BY DEF HandleAdd, Consume, TypeOK
<1>9. toClient'[s] = Sent(toClient[s], ProxyJoin(i), peerOpen[s])
  BY <1>1, SentEffect
<1>10. FlowInv(rxq[s], t, toClient[s], Wants(s), Nexts(s)) /\ Nexts(s) \subseteq Chunk
  BY NextsAreData DEF StreamInv
<1>11. peerOpen[s] \/ Ended(toClient[s], Wants(s))
  BY NotOpenEnded
<1>12. m.type = "AddMinecraftClient"
  BY <1>1
<1>13. /\ rxq[s] \in Seq(ClientToProxy) /\ rxq[s] # <<>> /\ m = Head(rxq[s])
       /\ toClient[s] \in Seq(ServerPacket) /\ i \in Id
  BY <1>2, <1>4, <1>8
<1> HIDE DEF i, t, u
<1>14. FlowInv(Tail(rxq[s]), u, Sent(toClient[s], ProxyJoin(i), peerOpen[s]), Wants(s), Nexts(s))
  <2> DEFINE r == rxq[s]
             q == toClient[s]
             W == Wants(s)
             N == Nexts(s)
             o == peerOpen[s]
  <2> HIDE DEF r, q, W, N, o
  <2>1. r \in Seq(ClientToProxy) /\ r # <<>> /\ m = Head(r) /\ q \in Seq(ServerPacket)
    BY <1>13 DEF r, q
  <2>2. FlowInv(r, t, q, W, N) /\ N \subseteq Chunk
    BY <1>10 DEF r, q, W, N
  <2>3. o \/ Ended(q, W)
    BY <1>11 DEF o, q, W
  <2>4. Entered(t, u, m, i)
    BY <1>5, <1>7 DEF Entered
  <2>5. FlowInv(Tail(r), u, Sent(q, ProxyJoin(i), o), W, N)
    BY <1>3, <1>12, <1>13, <2>1, <2>2, <2>3, <2>4, FlowAdd
  <2> QED BY <2>5 DEF r, q, W, N, o
<1> QED BY <1>8, <1>9, <1>14 DEF u, i

LEMMA PacketStream ==
  ASSUME TypeOK, OwnInv, TableConsistent, ClientInv, StreamInv, NEW s \in Session, HandlePacket(s)
  PROVE  FlowInv(rxq'[s], dist'[s].clients_addr, toClient'[s], Wants(s), Nexts(s))
<1> DEFINE t == dist[s].clients_addr
<1>1. PICK m \in ClientToProxy :
        /\ Receives(s, m) /\ m.type = "Packet" /\ HasAddr(dist[s], m.addr)
        /\ Send(s, ProxyData(t[m.addr].id, m.data))
  BY DEF HandlePacket
<1> DEFINE i == t[m.addr].id
<1>2. /\ rxq[s] \in Seq(ClientToProxy) /\ rxq[s] # <<>> /\ m = Head(rxq[s])
      /\ dist[s] \in Table /\ Consistent(dist[s])
  BY <1>1 DEF Receives, TypeOK, TableConsistent
<1>3. AddrOf[m.data.conn] = m.addr
  <2>1. 1 \in 1..Len(rxq[s]) /\ rxq[s][1] = m
    BY <1>2
  <2>2. PacketInv(rxq[s], t, Served(s))
    BY DEF OwnInv
  <2> QED BY <1>1, <2>1, <2>2 DEF PacketInv
<1>4. m.addr \in DOMAIN t /\ i \in Id
  BY <1>1, <1>2, TableEntry DEF HasAddr
<1>5. t[m.addr].tx = m.data.conn
  <2>1. HasId(dist[s], i) /\ GetById(dist[s], i).tx = m.data.conn
    BY <1>1, HeadIsOwn
  <2>2. dist[s].clients_id[i] = m.addr
    BY <1>2, <1>4 DEF Consistent
  <2> QED BY <2>1, <2>2 DEF GetById
<1>6. \A a \in DOMAIN t : t[a].id = i => a = m.addr
  BY <1>2, <1>4 DEF Consistent
<1>7. rxq'[s] = Tail(rxq[s]) /\ toClient[s] \in Seq(ServerPacket) /\ dist' = dist
  BY DEF HandlePacket, Consume, TypeOK
<1>8. toClient'[s] = Sent(toClient[s], ProxyData(i, m.data), peerOpen[s])
  BY <1>1, SentEffect
<1>9. FlowInv(rxq[s], t, toClient[s], Wants(s), Nexts(s)) /\ Nexts(s) \subseteq Chunk
  BY NextsAreData DEF StreamInv
<1>10. dist'[s].clients_addr = t
  BY <1>7
<1> HIDE DEF t
<1>11. t[m.addr].id = i
  OBVIOUS
<1> HIDE DEF i
<1>12. FlowInv(Tail(rxq[s]), t, Sent(toClient[s], ProxyData(i, m.data), peerOpen[s]), Wants(s), Nexts(s))
  BY <1>1, <1>2, <1>3, <1>4, <1>5, <1>6, <1>7, <1>9, <1>11, NotOpenEnded, FlowPacket
<1> QED BY <1>7, <1>8, <1>10, <1>12

LEMMA RemoveStream ==
  ASSUME TypeOK, ClientInv, StreamInv, NEW s \in Session, HandleRemove(s)
  PROVE  FlowInv(rxq'[s], dist'[s].clients_addr, toClient'[s], Wants(s), Nexts(s))
<1> DEFINE t == dist[s].clients_addr
           u == dist'[s].clients_addr
<1>1. PICK m \in ClientToProxy :
        /\ Receives(s, m) /\ m.type = "RemoveMinecraftClient"
        /\ dist' = [dist EXCEPT ![s] = RemoveByAddr(@, m.addr)]
        /\ IF HasAddr(dist[s], m.addr)
             THEN Send(s, ProxyDisconnect(t[m.addr].id))
             ELSE UNCHANGED toClient
  BY DEF HandleRemove
<1>2. /\ rxq[s] \in Seq(ClientToProxy) /\ rxq[s] # <<>> /\ m = Head(rxq[s]) /\ dist[s] \in Table
      /\ toClient[s] \in Seq(ServerPacket)
  BY <1>1 DEF Receives, TypeOK
<1>3. dist'[s] = RemoveByAddr(dist[s], m.addr) /\ rxq'[s] = Tail(rxq[s])
  BY <1>1 DEF HandleRemove, Consume, TypeOK
<1>4. DOMAIN u = DOMAIN t \ {m.addr} /\ \A x \in DOMAIN u : u[x] = t[x]
  BY <1>2, <1>3, RemoveByAddrPreserves
<1>5. \A c \in Conn : HasEntry(u, c) => HasEntry(t, c) /\ u[AddrOf[c]].id = t[AddrOf[c]].id
  BY <1>4 DEF HasEntry
<1>6. FlowInv(rxq[s], t, toClient[s], Wants(s), Nexts(s)) /\ Nexts(s) \subseteq Chunk
  BY NextsAreData DEF StreamInv
<1>7. FlowInv(Tail(rxq[s]), u, toClient[s], Wants(s), Nexts(s))
  BY <1>1, <1>2, <1>5, <1>6, FlowRemove
<1>8. CASE HasAddr(dist[s], m.addr)
  <2> DEFINE p == ProxyDisconnect(t[m.addr].id)
  <2>1. t[m.addr].id \in Id
    BY <1>2, <1>8, TableEntry DEF HasAddr
  <2>2. p \in ServerPacket /\ p.type \notin {"ProxyJoin", "ProxyData"}
    <3>1. p \in ServerPacket
      BY <2>1 DEF ServerPacket
    <3> QED BY <3>1 DEF ProxyDisconnect
  <2>3. toClient'[s] = Sent(toClient[s], p, peerOpen[s])
    BY <1>1, <1>8, SentEffect
  <2> HIDE DEF p, t, u
  <2>4. FlowInv(Tail(rxq[s]), u, Sent(toClient[s], p, peerOpen[s]), Wants(s), Nexts(s))
    BY <1>2, <1>7, <2>2, NotOpenEnded, FlowSend
  <2> QED BY <1>3, <2>3, <2>4 DEF u
<1>9. CASE ~HasAddr(dist[s], m.addr)
  BY <1>1, <1>3, <1>7, <1>9
<1> QED BY <1>8, <1>9

\* What else a session sends is not about a stream.
LEMMA OtherSendStream ==
  ASSUME TypeOK, ClientInv, StreamInv, NEW s \in Session, UNCHANGED <<rxq, dist>>,
         NEW p \in ServerPacket, p.type \notin {"ProxyJoin", "ProxyData"}, Send(s, p)
  PROVE  FlowInv(rxq'[s], dist'[s].clients_addr, toClient'[s], Wants(s), Nexts(s))
<1>1. toClient[s] \in Seq(ServerPacket) /\ toClient'[s] = Sent(toClient[s], p, peerOpen[s])
  BY SentEffect DEF TypeOK
<1>2. FlowInv(rxq[s], dist[s].clients_addr, toClient[s], Wants(s), Nexts(s))
  BY DEF StreamInv
<1>3. FlowInv(rxq[s], dist[s].clients_addr, Sent(toClient[s], p, peerOpen[s]), Wants(s), Nexts(s))
  BY <1>1, <1>2, NotOpenEnded, FlowSend
<1> QED BY <1>1, <1>3

LEMMA SessionStream ==
  ASSUME TypeOK, AddressInv, TableConsistent, OwnInv, ClientInv, StreamInv,
         NEW s \in Session, SessionStep(s), UNCHANGED clientState
  PROVE  StreamInv'
<1> SUFFICES FlowInv(rxq'[s], dist'[s].clients_addr, toClient'[s], Wants(s), Nexts(s))
  BY SessionStreamFrame
<1>1. FlowInv(rxq[s], dist[s].clients_addr, toClient[s], Wants(s), Nexts(s)) /\ Nexts(s) \subseteq Chunk
  BY NextsAreData DEF StreamInv
<1>2. CASE AcceptHello(s) \/ AuthFailed(s) \/ AuthTimeout(s) \/ Register(s) \/ PeerPing(s)
  <2>1. PICK x \in {"ProxyAuthRequest", "ProxyError", "ProxyHelloResponse", "ProxyPong"} : Send(s, Plain(x))
    BY <1>2 DEF AcceptHello, AuthFailed, AuthTimeout, Register, PeerPing
  <2>2. Plain(x) \in ServerPacket /\ Plain(x).type \notin {"ProxyJoin", "ProxyData"}
    BY DEF ServerPacket, Plain
  <2>3. UNCHANGED <<rxq, dist>>
    BY <1>2 DEF AcceptHello, AuthFailed, AuthTimeout, Register, PeerPing
  <2> QED BY <2>1, <2>2, <2>3, OtherSendStream
<1>3. CASE \/ NoFirstPacket(s) \/ UnknownProtocol(s) \/ AuthOk(s) \/ CloseConnection(s)
           \/ PeerData(s) \/ PeerOther(s)
  BY <1>1, <1>3 DEF NoFirstPacket, UnknownProtocol, AuthOk, CloseConnection, PeerData, PeerOther
<1>4. CASE TooManyClients(s) \/ WrongPacket(s) \/ ChannelClosed(s) \/ LinkLost(s) \/ IdleTimeout(s)
  <2>1. rxq'[s] = <<>> /\ dist'[s].clients_addr = EmptyMap /\ toClient' = toClient
    BY <1>4 DEF TooManyClients, WrongPacket, ChannelClosed, LinkLost, IdleTimeout, Leave, TypeOK, EmptyTable
  <2> QED BY <1>1, <2>1, FlowLeave
<1>5. CASE PeerDisconnects(s)
  <2>1. PICK p \in PeerPacket : dist' = [dist EXCEPT ![s] = RemoveById(@, p.id)]
    BY <1>5 DEF PeerDisconnects
  <2>2. UNCHANGED <<rxq, toClient>> /\ dist[s] \in Table /\ dist'[s] = RemoveById(dist[s], p.id)
    BY <1>5, <2>1 DEF PeerDisconnects, TypeOK
  <2> DEFINE t == dist[s].clients_addr
             u == dist'[s].clients_addr
             d == RemoveById(dist[s], p.id)
  <2>6. /\ DOMAIN d.clients_addr \subseteq DOMAIN dist[s].clients_addr
        /\ \A x \in DOMAIN d.clients_addr : d.clients_addr[x] = dist[s].clients_addr[x]
    BY <2>2, RemoveByIdPreserves
  <2>3. DOMAIN u \subseteq DOMAIN t /\ \A x \in DOMAIN u : u[x] = t[x]
    BY <2>2, <2>6
  <2>4. \A c \in Conn : HasEntry(u, c) => HasEntry(t, c) /\ u[AddrOf[c]].id = t[AddrOf[c]].id
    BY <2>3 DEF HasEntry
  <2>5. FlowInv(rxq[s], u, toClient[s], Wants(s), Nexts(s))
    BY <1>1, <2>4, FlowGrows
  <2> QED BY <2>2, <2>5
<1> QED
  BY <1>2, <1>3, <1>4, <1>5, AddStream, PacketStream, RemoveStream
     DEF SessionStep, Handshake, RxArm, FramedArm
-----------------------------------------------------------------------------
(* The players' tasks, and all steps *)

\* What the task of c could queue next is the only thing its steps change.
LEMMA OthersNexts ==
  ASSUME NEW c \in Conn, UNCHANGED target,
         \A d \in Conn \ {c} : mc'[d] = mc[d] /\ sent'[d] = sent[d]
  PROVE  /\ \A u \in Session : \A x \in Chunk : x.conn # c => (x \in Nexts(u)' <=> x \in Nexts(u))
         /\ \A u \in Session : \A x \in Chunk : x.conn = c =>
              /\ x \in Nexts(u) <=> (target[c] = u /\ mc[c] \in {"added", "running"} /\ x.n = NextOf(c))
              /\ x \in Nexts(u)' <=> (target[c] = u /\ mc'[c] \in {"added", "running"} /\ x.n = NextOf(c)')
<1>1. \A x \in Chunk : x.conn \in Conn
  BY DEF Chunk
<1> QED BY <1>1 DEF Nexts, NextOf, Served, Announced, StillThere, Live

\* The task of c sends m, or finds that the receiver is gone and ends.
LEMMA PutStream ==
  ASSUME TypeOK, StreamInv, NEW c \in Conn, NEW s \in Session, target[c] = s, NEW m \in ClientToProxy,
         Queue(s, m), UNCHANGED <<target, dist, toClient, connections, lphase, lrx, localOut>>,
         \A d \in Conn \ {c} : mc'[d] = mc[d] /\ sent'[d] = sent[d],
         ~RxOpen(s) => mc'[c] = "done",
         RxOpen(s) =>
           /\ m.type = "Packet" => m.data \in Nexts(s)
           /\ \A x \in Nexts(s)' : IF m \in Of(x.conn) THEN m \in Pred(x) ELSE x \in Nexts(s)
  PROVE  StreamInv'
<1>1. /\ RxOpen(s) => rxq'[s] = Append(rxq[s], m)
      /\ ~RxOpen(s) => rxq' = rxq
      /\ \A u \in Session \ {s} : rxq'[u] = rxq[u]
  BY QueueFacts
<1>2. \A u \in Session : Nexts(u)' \subseteq Chunk
  BY DEF Nexts, Chunk
<1>3. \A u \in Session \ {s} : Nexts(u)' \subseteq Nexts(u)
  BY <1>2, OthersNexts
<1>4. \A u \in Session : Wants(u)' = Wants(u)
  BY SameWants
<1>5. FlowInv(rxq[s], dist[s].clients_addr, toClient[s], Wants(s), Nexts(s))
  BY DEF StreamInv
<1>6. FlowInv(rxq'[s], dist'[s].clients_addr, toClient'[s], Wants(s)', Nexts(s)')
  <2>1. CASE RxOpen(s)
    <3> DEFINE E == Readable(dist[s].clients_addr, Sendable(toClient[s], Wants(s)))
    <3>1. rxq[s] \in Seq(ClientToProxy) /\ UpInv(rxq[s], E, Nexts(s)) /\ DownInv(toClient[s], Wants(s))
      BY <1>5 DEF TypeOK, FlowInv
    <3> DEFINE N2 == Nexts(s)'
    <3> HIDE DEF E, N2
    <3>2. UpInv(Append(rxq[s], m), E, N2)
      <4>1. m.type = "Packet" => m.data \in Nexts(s)
        BY <2>1
      <4>2. \A x \in N2 : IF m \in Of(x.conn) THEN m \in Pred(x) ELSE x \in Nexts(s)
        BY <2>1 DEF N2
      <4> QED BY <3>1, <4>1, <4>2, UpPut
    <3>3. FlowInv(Append(rxq[s], m), dist[s].clients_addr, toClient[s], Wants(s), N2)
      BY <3>1, <3>2 DEF FlowInv, E
    <3> QED BY <1>1, <1>4, <2>1, <3>3 DEF N2
  <2>2. CASE ~RxOpen(s)
    <3>1. Nexts(s)' \subseteq Nexts(s)
      BY <1>2, <2>2, OthersNexts
    <3>2. FlowInv(rxq[s], dist[s].clients_addr, toClient[s], Wants(s), Nexts(s)')
      BY <1>5, <3>1, FlowGrows
    <3> QED BY <1>1, <1>4, <2>2, <3>2
  <2> QED BY <2>1, <2>2
<1>7. \A u \in Session \ {s} :
        /\ rxq'[u] = rxq[u] /\ dist'[u] = dist[u] /\ toClient'[u] = toClient[u]
        /\ Wants(u) \subseteq Wants(u)' /\ Nexts(u)' \subseteq Nexts(u)
  BY <1>1, <1>3, <1>4
<1> QED BY <1>6, <1>7, StreamFrame

LEMMA PlayerStream ==
  ASSUME TypeOK, AddressInv, StreamInv, SentInv, NEW c \in Conn, PlayerStep(c),
         UNCHANGED <<connections, lphase, lrx, localOut>>
  PROVE  StreamInv' /\ SentInv'
<1>1. AddrOf[c] \in Addr /\ MaxUp \in Nat
  BY ConstantsAssumption
<1>2. UNCHANGED <<dist, toClient>>
  BY PlayerLeaves
<1>3. CASE Lookup(c) \/ NoPeerAddr(c) \/ McDeliver(c) \/ McChannelClosed(c)
  <2>1. UNCHANGED rxq /\ SentInv'
    BY <1>3 DEF Lookup, NoPeerAddr, McDeliver, McChannelClosed, sessionVars, TypeOK, SentInv
  <2>2. \A u \in Session : Nexts(u)' \subseteq Nexts(u)
    BY <1>3 DEF Lookup, NoPeerAddr, McDeliver, McChannelClosed, TypeOK, Nexts, NextOf, Served,
                Announced, StillThere, Live, Chunk
  <2> QED BY <1>2, <2>1, <2>2, SameWants, QuietStream
<1>4. ASSUME AddClient(c) \/ SendHello(c) \/ McRead(c) \/ McGone(c)
      PROVE  /\ UNCHANGED target /\ target[c] \in Session
             /\ \A d \in Conn \ {c} : mc'[d] = mc[d] /\ sent'[d] = sent[d]
             /\ ~RxOpen(target[c]) => mc'[c] = "done"
             /\ SentInv'
  BY <1>4 DEF AddClient, SendHello, McRead, McGone, AddressInv, Targets, TypeOK, SentInv
<1>5. CASE AddClient(c)
  <2> DEFINE m == AddMsg(AddrOf[c], c)
             s == target[c]
  <2>1. m \in ClientToProxy /\ m.type = "AddMinecraftClient" /\ m.tx = c
    BY <1>1, MessageTypes DEF AddMsg
  <2>2. Queue(s, m) /\ (RxOpen(s) => mc'[c] = "added")
    BY <1>5 DEF AddClient, TypeOK
  <2> HIDE DEF m
  <2>3. ASSUME RxOpen(s), NEW x \in Nexts(s)'
        PROVE  IF m \in Of(x.conn) THEN m \in Pred(x) ELSE x \in Nexts(s)
    <3>1. x \in Chunk
      BY DEF Nexts, Chunk
    <3>2. CASE x.conn = c
      <4>1. x.n = 0
        BY <1>4, <1>5, <2>2, <2>3, <3>1, <3>2, OthersNexts DEF NextOf
      <4> QED BY <2>1, <3>2, <4>1 DEF Of, Pred
    <3>3. CASE x.conn # c
      <4>1. m \notin Of(x.conn)
        BY <2>1, <3>3 DEF Of
      <4> QED BY <1>4, <1>5, <3>1, <3>3, <4>1, OthersNexts
    <3> QED BY <3>2, <3>3
  <2> HIDE DEF s
  <2>4. StreamInv'
    BY <1>2, <1>4, <1>5, <2>1, <2>2, <2>3, PutStream DEF s
  <2> QED BY <1>4, <1>5, <2>4
<1>6. ASSUME NEW n, n = NextOf(c), Queue(target[c], PacketMsg(AddrOf[c], [conn |-> c, n |-> n])),
             SendHello(c) \/ McRead(c)
      PROVE  StreamInv'
  <2> DEFINE y == [conn |-> c, n |-> n]
             m == PacketMsg(AddrOf[c], y)
             s == target[c]
  <2>1. /\ mc[c] \in {"added", "running"} /\ n \in 0..MaxUp
        /\ RxOpen(s) => mc'[c] = "running" /\ sent'[c] = n
    BY <1>1, <1>6 DEF SendHello, McRead, TypeOK, NextOf, SentInv
  <2>2. y \in Chunk /\ y.conn = c /\ y.n = n
    BY <2>1 DEF Chunk
  <2>3. m \in ClientToProxy /\ m.type = "Packet" /\ m.data = y
    BY <1>1, <2>2, MessageTypes DEF PacketMsg
  <2>4. Queue(s, m)
    BY <1>6
  <2> HIDE DEF m, y
  <2>5. y \in Nexts(s)
    BY <1>4, <1>6, <2>1, <2>2, OthersNexts
  <2>6. ASSUME RxOpen(s), NEW x \in Nexts(s)'
        PROVE  IF m \in Of(x.conn) THEN m \in Pred(x) ELSE x \in Nexts(s)
    <3>1. x \in Chunk
      BY DEF Nexts, Chunk
    <3>2. CASE x.conn = c
      <4>1. x.n = NextOf(c)'
        BY <1>4, <1>6, <3>1, <3>2, OthersNexts
      <4>2. x.n = n + 1
        BY <2>1, <2>6, <4>1 DEF NextOf
      <4> QED BY <2>2, <2>3, <3>2, <4>2 DEF Of, Pred
    <3>3. CASE x.conn # c
      <4>1. m \notin Of(x.conn)
        BY <2>2, <2>3, <3>3 DEF Of
      <4> QED BY <1>4, <1>6, <3>1, <3>3, <4>1, OthersNexts
    <3> QED BY <3>2, <3>3
  <2> HIDE DEF s
  <2> QED BY <1>2, <1>4, <1>6, <2>3, <2>4, <2>5, <2>6, PutStream DEF s
<1>7. CASE SendHello(c)
  <2>1. NextOf(c) = 0 /\ Queue(target[c], PacketMsg(AddrOf[c], [conn |-> c, n |-> 0]))
    BY <1>7 DEF SendHello, NextOf
  <2> QED BY <1>4, <1>6, <1>7, <2>1
<1>8. CASE McRead(c)
  <2>1. NextOf(c) = sent[c] + 1 /\ Queue(target[c], PacketMsg(AddrOf[c], [conn |-> c, n |-> sent[c] + 1]))
    BY <1>8 DEF McRead, NextOf
  <2> QED BY <1>4, <1>6, <1>8, <2>1
<1>9. CASE McGone(c)
  <2> DEFINE m == RemoveMsg(AddrOf[c])
             s == target[c]
  <2>1. m \in ClientToProxy /\ m.type = "RemoveMinecraftClient"
    BY <1>1, MessageTypes DEF RemoveMsg
  <2>2. Queue(s, m) /\ mc'[c] = "done"
    BY <1>9 DEF McGone, TypeOK
  <2> HIDE DEF m
  <2>3. ASSUME NEW x \in Nexts(s)'
        PROVE  IF m \in Of(x.conn) THEN m \in Pred(x) ELSE x \in Nexts(s)
    <3>1. x \in Chunk
      BY DEF Nexts, Chunk
    <3>2. x.conn # c
      BY <1>4, <1>9, <2>2, <3>1, OthersNexts
    <3>3. m \notin Of(x.conn)
      BY <2>1 DEF Of
    <3> QED BY <1>4, <1>9, <3>1, <3>2, <3>3, OthersNexts
  <2> HIDE DEF s
  <2>4. StreamInv'
    BY <1>2, <1>4, <1>9, <2>1, <2>2, <2>3, PutStream DEF s
  <2> QED BY <1>4, <1>9, <2>4
<1> QED BY <1>3, <1>4, <1>5, <1>7, <1>8, <1>9 DEF PlayerStep

\* A step that is neither a session's nor a player's touches no channel of the
\* server, no table and no player.
LEMMA ClientSideLeaves ==
  ASSUME TypeOK,
         \/ UNCHANGED serverVars
         \/ \E s \in Session : AcceptClient(s)
         \/ UNCHANGED tunnelVars
  PROVE  /\ UNCHANGED <<rxq, dist, mc, target, sent>>
         /\ \A u \in Session : phase[u] = "serving" => phase'[u] = "serving"
<1>1. CASE UNCHANGED serverVars
  BY <1>1 DEF serverVars, playerVars
<1>2. ASSUME NEW s \in Session, AcceptClient(s)
      PROVE  /\ UNCHANGED <<rxq, dist, mc, target, sent>>
             /\ \A u \in Session : phase[u] = "serving" => phase'[u] = "serving"
  BY <1>2 DEF AcceptClient, playerVars, TypeOK
<1>3. CASE UNCHANGED tunnelVars
  BY <1>3 DEF tunnelVars, vars, sessionVars, playerVars
<1> QED BY <1>1, <1>2, <1>3

\* What is proved of the server with any peer holds with the Client at the
\* other end, too.
ServerInv == AddressInv /\ TableConsistent /\ OwnInv

LEMMA NextServer ==
  ASSUME TunnelTypeOK, ServerInv, [TunnelNext]_tunnelVars
  PROVE  ServerInv'
<1>1. TypeOK
  BY DEF TunnelTypeOK
<1>2. ASSUME NEW s \in Session, SessionStep(s) PROVE ServerInv'
  BY <1>1, <1>2, SessionAddress, SessionOwn DEF ServerInv
<1>3. ASSUME NEW c \in Conn, PlayerStep(c) PROVE ServerInv'
  BY <1>1, <1>3, PlayerAddress, PlayerOwn DEF ServerInv
<1>4. CASE UNCHANGED serverVars \/ (\E s \in Session : AcceptClient(s)) \/ UNCHANGED tunnelVars
  BY <1>1, <1>4, ClientSideLeaves, QuietAddress, QuietOwn DEF ServerInv
<1> QED BY <1>2, <1>3, <1>4 DEF TunnelNext, NoticesServerGone

LEMMA InitServer == TunnelInit => ServerInv
BY InitAddress, InitOwn DEF TunnelInit, ServerInv

LEMMA NextStream ==
  ASSUME TunnelTypeOK, ServerInv, ClientInv, LocalInv, StreamInv, SentInv, [TunnelNext]_tunnelVars
  PROVE  StreamInv' /\ SentInv'
<1>1. TypeOK /\ AddressInv /\ TableConsistent /\ OwnInv
  BY DEF TunnelTypeOK, ServerInv
<1>2. UNCHANGED <<mc, sent>> => SentInv'
  BY DEF SentInv
<1>3. ASSUME NEW s \in Session, SessionStep(s), UNCHANGED clientState PROVE StreamInv' /\ SentInv'
  BY <1>1, <1>2, <1>3, SessionStream, SessionLeaves
<1>4. ASSUME NEW c \in Conn, PlayerStep(c), UNCHANGED clientState PROVE StreamInv' /\ SentInv'
  BY <1>1, <1>4, PlayerStream DEF clientState
<1>5. CASE UNCHANGED serverVars \/ (\E s \in Session : AcceptClient(s)) \/ UNCHANGED tunnelVars
  <2>1. UNCHANGED <<rxq, dist, mc, target, sent>> /\ SentInv'
    BY <1>1, <1>2, <1>5, ClientSideLeaves
  <2>2. ASSUME NEW s \in Session, ClientStep(s) \/ ServerGone(s) PROVE StreamInv'
    <3>1. CASE \/ ConnectFails(s) \/ UserDisconnects(s) \/ Death(s) \/ UnknownId(s)
               \/ Unimplemented(s) \/ Unreadable(s) \/ ServerGone(s)
      BY <2>1, <3>1, WhoStops, StopStream
    <3>2. CASE \/ AnswerChallenge(s) \/ Connected(s) \/ Ping(s) \/ ForwardData(s) \/ ForwardGone(s)
               \/ Disconnected(s) \/ Pong(s)
      BY <2>1, <3>2, LoopStream
    <3>3. CASE Deliver(s)
      BY <2>1, <3>3, DeliverStream
    <3>4. CASE Join(s)
      BY <2>1, <3>4, JoinStream
    <3> QED BY <2>2, <3>1, <3>2, <3>3, <3>4 DEF ClientStep, HandleStep
  <2>3. ASSUME NEW l \in Local, LocalStep(l) PROVE StreamInv'
    BY <2>1, <2>3, TaskStream
  <2>4. ASSUME (\E s \in Session : AcceptClient(s)) \/ UNCHANGED tunnelVars PROVE StreamInv'
    <3>1. UNCHANGED <<toClient, connections, lphase, lrx, localOut>>
      BY <2>4 DEF AcceptClient, Connect, localVars, tunnelVars, vars, sessionVars, clientState
    <3> QED BY <2>1, <3>1, SameWants, SameNexts, QuietStream
  <2>5. \/ \E s \in Session : ClientStep(s) \/ ServerGone(s)
        \/ \E l \in Local : LocalStep(l)
        \/ (\E s \in Session : AcceptClient(s)) \/ UNCHANGED tunnelVars
        \/ \E s \in Session : SessionStep(s) /\ UNCHANGED clientState
        \/ \E c \in Conn : PlayerStep(c) /\ UNCHANGED clientState
    BY DEF TunnelNext, NoticesServerGone
  <2> QED BY <1>3, <1>4, <2>1, <2>2, <2>3, <2>4, <2>5
<1> QED BY <1>3, <1>4, <1>5 DEF TunnelNext, NoticesServerGone
-----------------------------------------------------------------------------
(* What a local connection has been given *)

\* w is v, or less of its end, or v and x.
Less(w, v) == Len(w) \in Nat /\ Len(w) <= Len(v) /\ \A k \in 1..Len(w) : w[k] = v[k]
More(w, v, x) ==
  /\ Len(v) \in Nat /\ Len(w) = Len(v) + 1 /\ w[Len(v) + 1] = x
  /\ \A k \in 1..Len(v) : w[k] = v[k]

\* A step takes the end from what a local connection has been given, or it
\* is the Client that delivers to it what comes next.
GivenStep(l) ==
  \/ Less(Upstream(l)', Upstream(l))
  \/ /\ Deliver(l.session) /\ toClient[l.session] # <<>> /\ Head(toClient[l.session]) \in DataPacket
     /\ More(Upstream(l)', Upstream(l), Head(toClient[l.session]).data)
     /\ Carries(Upstream(l), Head(toClient[l.session]).data)
     /\ l = connections[l.session][Head(toClient[l.session]).id]

LEMMA GivenTypes ==
  ASSUME ClientTypeOK, NEW l \in Local
  PROVE  /\ localOut[l] \in Seq(Chunk) /\ lrx[l] \in Seq(Chunk)
         /\ Upstream(l) \in Seq(Chunk) /\ Len(Upstream(l)) \in Nat
         /\ Less(Upstream(l), Upstream(l)) /\ Less(localOut[l], Upstream(l))
<1>1. localOut[l] \in Seq(Chunk) /\ lrx[l] \in Seq(Chunk)
  BY DEF ClientTypeOK
<1> DEFINE a == localOut[l]
           b == lrx[l]
<1>2. a \in Seq(Chunk) /\ b \in Seq(Chunk)
  BY <1>1
<1> HIDE DEF a, b
<1>3. /\ Len(a \o b) = Len(a) + Len(b) /\ a \o b \in Seq(Chunk) /\ Len(a) \in Nat /\ Len(b) \in Nat
      /\ \A i \in 1..Len(a) + Len(b) : (a \o b)[i] = IF i <= Len(a) THEN a[i] ELSE b[i - Len(a)]
  BY <1>2, ConcatProperties
<1>4. Less(a \o b, a \o b) /\ Less(a, a \o b) /\ Len(a \o b) \in Nat
  BY <1>3 DEF Less
<1>5. Upstream(l) = a \o b /\ localOut[l] = a
  BY DEF Upstream, a, b
<1> DEFINE v == a \o b
<1>6. v \in Seq(Chunk) /\ Len(v) \in Nat /\ Less(v, v) /\ Less(a, v) /\ Upstream(l) = v
  BY <1>3, <1>4, <1>5
<1> HIDE DEF v
<1> QED BY <1>1, <1>5, <1>6

LEMMA DeliverGiven ==
  ASSUME TunnelTypeOK, ClientInv, StreamInv, NEW s \in Session, Deliver(s), NEW l \in Local
  PROVE  GivenStep(l)
<1>1. TypeOK /\ ClientTypeOK
  BY DEF TunnelTypeOK
<1>2. PICK i \in DOMAIN connections[s], x \in Chunk :
        /\ toClient[s] # <<>> /\ Head(toClient[s]) = ProxyData(i, x)
        /\ IF lphase[connections[s][i]] # "done"
             THEN lrx' = [lrx EXCEPT ![connections[s][i]] = Append(@, x)] /\ UNCHANGED connections
             ELSE Unbind(s, i) /\ UNCHANGED lrx
  BY DEF Deliver, Incoming, ProxyData
<1> DEFINE m == connections[s][i]
<1>3. m \in Local /\ m.session = s /\ i \in Id
  BY <1>1, BoundType DEF ClientInv
<1>4. UNCHANGED localOut
  BY DEF Deliver
<1>5. CASE lrx'[l] = lrx[l]
  <2>1. Upstream(l)' = Upstream(l)
    BY <1>4, <1>5 DEF Upstream
  <2> QED BY <1>1, <2>1, GivenTypes DEF GivenStep
<1>6. CASE lrx'[l] # lrx[l]
  <2>1. l = m /\ lrx'[l] = Append(lrx[l], x) /\ lphase[m] # "done"
    BY <1>1, <1>2, <1>3, <1>6 DEF ClientTypeOK
  <2>2. Head(toClient[s]).type = "ProxyData" /\ Head(toClient[s]).id = i /\ Head(toClient[s]).data = x
    BY <1>2 DEF ProxyData
  <2>3. Head(toClient[s]) \in Wants(s)
    BY <1>1, <1>2, <2>2, HeadWanted
  <2>4. Carries(Upstream(l), x) /\ Head(toClient[s]) \in DataPacket
    BY <2>1, <2>2, <2>3 DEF Wants
  <2>5. Upstream(l)' = localOut[l] \o Append(lrx[l], x)
    BY <1>4, <2>1 DEF Upstream
  <2>6. More(Upstream(l)', Upstream(l), x)
    <3> DEFINE a == localOut[l]
               b == lrx[l]
    <3>1. a \in Seq(Chunk) /\ b \in Seq(Chunk) /\ x \in Chunk
      BY <1>1, GivenTypes
    <3> HIDE DEF a, b
    <3>2. /\ Len(a \o b) \in Nat /\ Len(a \o Append(b, x)) = Len(a \o b) + 1
          /\ \A k \in 1..Len(a \o b) : (a \o Append(b, x))[k] = (a \o b)[k]
          /\ (a \o Append(b, x))[Len(a \o b) + 1] = x
      BY <3>1, GivenMore
    <3>3. More(a \o Append(b, x), a \o b, x)
      BY <3>2 DEF More
    <3> QED BY <2>5, <3>3 DEF Upstream, a, b
  <2> QED BY <1>2, <1>3, <2>1, <2>2, <2>4, <2>6 DEF GivenStep
<1> QED BY <1>5, <1>6

LEMMA NextGiven ==
  ASSUME TunnelTypeOK, ClientInv, StreamInv, [TunnelNext]_tunnelVars, NEW l \in Local
  PROVE  GivenStep(l)
<1>1. ClientTypeOK
  BY DEF TunnelTypeOK
<1>2. ASSUME lrx'[l] = lrx[l], localOut'[l] = localOut[l] PROVE GivenStep(l)
  <2>1. Upstream(l)' = Upstream(l)
    BY <1>2 DEF Upstream
  <2> QED BY <1>1, <2>1, GivenTypes DEF GivenStep
<1>3. ASSUME NEW m \in Local, LocalStep(m) PROVE GivenStep(l)
  <2>1. CASE m # l
    BY <1>1, <1>2, <1>3, <2>1, LocalLeaves
  <2>2. CASE m = l
    <3>1. CASE localOut'[l] \o lrx'[l] = localOut[l] \o lrx[l]
      <4>1. Upstream(l)' = Upstream(l)
        BY <3>1 DEF Upstream
      <4> QED BY <1>1, <4>1, GivenTypes DEF GivenStep
    <3>2. CASE lrx'[l] = <<>> /\ localOut'[l] = localOut[l]
      <4>1. Upstream(l)' = localOut[l]
        BY <1>1, <3>2, GivenTypes DEF Upstream
      <4> QED BY <1>1, <4>1, GivenTypes DEF GivenStep
    <3> QED BY <1>1, <1>3, <2>2, <3>1, <3>2, TaskGiven
  <2> QED BY <2>1, <2>2
<1>4. ASSUME NEW s \in Session, Deliver(s) PROVE GivenStep(l)
  BY <1>4, DeliverGiven
<1>5. ASSUME NEW s \in Session, ClientStep(s) \/ ServerGone(s), ~Deliver(s) PROVE UNCHANGED <<lrx, localOut>>
  <2>1. \A as : Stop(s, as) => UNCHANGED <<lrx, localOut>>
    BY DEF Stop, localVars
  <2> QED
    BY <1>5, <2>1 DEF ClientStep, HandleStep, AnswerChallenge, Connected, ConnectFails, UserDisconnects,
       ForwardData, ForwardGone, Death, Join, UnknownId, Disconnected, Pong, Unimplemented, Unreadable, Ping,
       ServerGone, clientVars, localVars
<1>6. ASSUME NEW s \in Session, AcceptClient(s) PROVE UNCHANGED <<lrx, localOut>>
  BY <1>6 DEF AcceptClient, Connect, localVars
<1>7. CASE UNCHANGED clientState \/ UNCHANGED tunnelVars
  BY <1>2, <1>7 DEF tunnelVars, clientState
<1> QED BY <1>2, <1>3, <1>4, <1>5, <1>6, <1>7 DEF TunnelNext, NoticesServerGone

\* A local connection has been given the stream of the player whose packet
\* came first, from its MCHello on.
CarryInv ==
  \A l \in Local : \A k \in 1..Len(Upstream(l)) :
    Upstream(l)[k] = [conn |-> Upstream(l)[1].conn, n |-> k - 1]

LEMMA NextCarry ==
  ASSUME TunnelTypeOK, ClientInv, StreamInv, CarryInv, [TunnelNext]_tunnelVars
  PROVE  CarryInv'
<1> SUFFICES ASSUME NEW l \in Local, NEW k \in 1..Len(Upstream(l)')
             PROVE  Upstream(l)'[k] = [conn |-> Upstream(l)'[1].conn, n |-> k - 1]
  BY DEF CarryInv
<1> DEFINE v == Upstream(l)
           w == Upstream(l)'
<1>1. \A j \in 1..Len(v) : v[j] = [conn |-> v[1].conn, n |-> j - 1]
  BY DEF CarryInv
<1>2. GivenStep(l) /\ Len(v) \in Nat
  BY NextGiven, GivenTypes DEF TunnelTypeOK
<1>3. CASE Less(w, v)
  <2>1. Less(w, v) /\ k \in 1..Len(w) /\ Len(v) \in Nat
    BY <1>2, <1>3
  <2> HIDE DEF v, w
  <2>2. k \in 1..Len(v) /\ 1 \in 1..Len(w) /\ w[k] = v[k] /\ w[1] = v[1]
    BY <2>1 DEF Less
  <2>3. w[k] = [conn |-> w[1].conn, n |-> k - 1]
    BY <1>1, <2>2
  <2> QED BY <2>3 DEF w
<1>4. ASSUME NEW x, x = Head(toClient[l.session]).data, Head(toClient[l.session]) \in DataPacket,
             More(w, v, x), Carries(v, x)
      PROVE  w[k] = [conn |-> w[1].conn, n |-> k - 1]
  <2>1. x \in Chunk /\ k \in 1..Len(w) /\ Len(v) \in Nat
    BY <1>2, <1>4, DataFields
  <2>2. x = [conn |-> x.conn, n |-> x.n] /\ x.n \in Nat
    BY <2>1, ConstantsAssumption DEF Chunk
  <2> HIDE DEF v, w
  <2>3. /\ Len(w) = Len(v) + 1 /\ w[Len(v) + 1] = x /\ Len(v) = x.n
        /\ \A j \in 1..Len(v) : w[j] = v[j]
        /\ x.n > 0 => v[1].conn = x.conn
    BY <1>4 DEF More, Carries
  <2>4. w[1].conn = x.conn /\ (Len(v) > 0 => w[1].conn = v[1].conn)
    BY <2>1, <2>2, <2>3
  <2>5. CASE k = Len(v) + 1
    BY <2>2, <2>3, <2>4, <2>5
  <2>6. CASE k \in 1..Len(v)
    <3>1. Len(v) > 0
      BY <2>6
    <3> QED BY <1>1, <2>3, <2>4, <2>6, <3>1
  <2> QED BY <2>1, <2>3, <2>5, <2>6
<1> QED BY <1>2, <1>3, <1>4 DEF GivenStep

LEMMA InitCarry == TunnelInit => CarryInv
<1> SUFFICES ASSUME TunnelInit, NEW l \in Local PROVE Upstream(l) = <<>>
  BY DEF CarryInv
<1> QED BY DEF TunnelInit, ClientInit, Upstream
-----------------------------------------------------------------------------
(* A player's first packet *)

FirstMsg(c) == {m \in ClientToProxy : m.type = "Packet" /\ m.data.conn = c /\ m.data.n = 0}
FirstPacket(c) == {p \in DataPacket : p.data.conn = c /\ p.data.n = 0}
Carriers(s, c) == {l \in Local : l.session = s /\ Upstream(l) # <<>> /\ Upstream(l)[1].conn = c}
Home(s, c) == target[c] = s /\ mc[c] \in {"running", "done"}

\* It is in one place of one session at a time, and at most one local
\* connection is ever given it.
FirstInv ==
  \A s \in Session : \A c \in Conn :
    OnePlace(rxq[s], FirstMsg(c), toClient[s], FirstPacket(c), Carriers(s, c), Home(s, c))

LEMMA InitFirst == TunnelInit => FirstInv
<1> SUFFICES ASSUME TunnelInit, NEW s \in Session, NEW c \in Conn
             PROVE  OnePlace(rxq[s], FirstMsg(c), toClient[s], FirstPacket(c), Carriers(s, c), Home(s, c))
  BY DEF FirstInv
<1>1. rxq[s] = <<>> /\ toClient[s] = <<>> /\ Carriers(s, c) = {}
  BY DEF TunnelInit, Init, ClientInit, Carriers, Upstream
<1> QED BY <1>1 DEF OnePlace, Once, Has

LEMMA FirstFrame ==
  ASSUME FirstInv, NEW s,
         \A u \in Session : \A c \in Conn : Home(u, c) => Home(u, c)',
         \A u \in Session \ {s} : /\ rxq'[u] = rxq[u] /\ toClient'[u] = toClient[u]
                                  /\ \A c \in Conn : Carriers(u, c)' \subseteq Carriers(u, c),
         s \in Session => \A c \in Conn :
           OnePlace(rxq'[s], FirstMsg(c), toClient'[s], FirstPacket(c), Carriers(s, c)', Home(s, c))
  PROVE  FirstInv'
<1>1. ASSUME NEW u \in Session, NEW c \in Conn
      PROVE  OnePlace(rxq'[u], FirstMsg(c), toClient'[u], FirstPacket(c), Carriers(u, c)', Home(u, c))
  <2>1. CASE u # s
    <3>1. OnePlace(rxq[u], FirstMsg(c), toClient[u], FirstPacket(c), Carriers(u, c), Home(u, c))
      BY DEF FirstInv
    <3>2. rxq'[u] = rxq[u] /\ toClient'[u] = toClient[u] /\ Carriers(u, c)' \subseteq Carriers(u, c)
      BY <2>1
    <3>3. OnePlace(rxq[u], FirstMsg(c), toClient[u], FirstPacket(c), Carriers(u, c)', Home(u, c))
      BY <3>1, <3>2, PlaceShrink
    <3> QED BY <3>2, <3>3
  <2>2. CASE u = s
    BY <2>2
  <2> QED BY <2>1, <2>2
<1>2. ASSUME NEW u \in Session, NEW c \in Conn
      PROVE  OnePlace(rxq[u], FirstMsg(c), toClient[u], FirstPacket(c), Carriers(u, c), Home(u, c))'
  <2>1. OnePlace(rxq'[u], FirstMsg(c), toClient'[u], FirstPacket(c), Carriers(u, c)', Home(u, c)')
    BY <1>1, PlaceShrink
  <2> QED BY <2>1
<1> QED BY <1>2 DEF FirstInv

\* Who carries which player's stream.
LEMMA CarriersStep ==
  ASSUME TunnelTypeOK, ClientInv, StreamInv, [TunnelNext]_tunnelVars, NEW s, NEW c, NEW l \in Carriers(s, c)'
  PROVE  \/ l \in Carriers(s, c)
         \/ /\ Deliver(s) /\ toClient[s] # <<>> /\ Head(toClient[s]) \in FirstPacket(c)
            /\ l = connections[s][Head(toClient[s]).id]
<1> DEFINE v == Upstream(l)
           w == Upstream(l)'
           p == Head(toClient[s])
<1>1. l \in Local /\ l.session = s /\ w # <<>> /\ w[1].conn = c
  BY DEF Carriers
<1>2. GivenStep(l) /\ v \in Seq(Chunk)
  BY <1>1, NextGiven, GivenTypes DEF TunnelTypeOK
<1>3. w \in Seq(Chunk)
  <2>1. localOut'[l] \in Seq(Chunk) /\ lrx'[l] \in Seq(Chunk)
    BY <1>1, NextTunnelType DEF TunnelTypeOK, ClientTypeOK
  <2>2. localOut'[l] \o lrx'[l] \in Seq(Chunk)
    BY <2>1, ConcatProperties
  <2> QED BY <2>2 DEF Upstream
<1>4. CASE v # <<>> /\ v[1] = w[1]
  BY <1>1, <1>4 DEF Carriers
<1>5. CASE Less(w, v)
  <2>1. Less(w, v)
    BY <1>5
  <2> HIDE DEF v, w
  <2>2. v # <<>> /\ v[1] = w[1]
    BY <1>1, <1>2, <1>3, <2>1 DEF Less
  <2> QED BY <1>4, <2>2 DEF v, w
<1>6. CASE /\ Deliver(s) /\ toClient[s] # <<>> /\ p \in DataPacket /\ More(w, v, p.data)
           /\ Carries(v, p.data) /\ l = connections[s][p.id]
  <2> HIDE DEF v, w
  <2>1. CASE v # <<>>
    <3>1. v[1] = w[1]
      BY <1>2, <1>6, <2>1 DEF More
    <3> QED BY <1>4, <2>1, <3>1 DEF v, w
  <2>2. CASE v = <<>>
    <3>1. w[1] = p.data /\ p.data.n = 0
      BY <1>6, <2>2 DEF More, Carries
    <3>2. p \in FirstPacket(c)
      BY <1>1, <1>6, <3>1 DEF FirstPacket
    <3> QED BY <1>6, <3>2
  <2> QED BY <2>1, <2>2
<1> QED BY <1>1, <1>2, <1>5, <1>6 DEF GivenStep

\* A step that leaves the local connections alone.
LEMMA SameCarriers ==
  ASSUME UNCHANGED <<lrx, localOut>>, NEW s, NEW c
  PROVE  Carriers(s, c)' = Carriers(s, c)
BY DEF Carriers, Upstream

LEMMA SameHome ==
  ASSUME UNCHANGED <<mc, target>>
  PROVE  \A u \in Session : \A c \in Conn : Home(u, c)' <=> Home(u, c)
BY DEF Home

\* The server's session.
LEMMA SessionFirst ==
  ASSUME TypeOK, FirstInv, NEW s \in Session, SessionStep(s), UNCHANGED clientState
  PROVE  FirstInv'
<1> SUFFICES ASSUME NEW c \in Conn
             PROVE  OnePlace(rxq'[s], FirstMsg(c), toClient'[s], FirstPacket(c), Carriers(s, c), Home(s, c))
  <2>1. /\ UNCHANGED <<mc, target>>
        /\ \A u \in Session \ {s} : rxq'[u] = rxq[u] /\ toClient'[u] = toClient[u]
    BY SessionLeaves
  <2>2. \A u, c : Carriers(u, c)' = Carriers(u, c)
    BY SameCarriers DEF clientState
  <2> QED BY <2>1, <2>2, SameHome, FirstFrame
<1> DEFINE V == FirstPacket(c)
           T == FirstMsg(c)
           U == Carriers(s, c)
           B == Home(s, c)
           r == rxq[s]
           q == toClient[s]
<1>1. r \in Seq(ClientToProxy) /\ q \in Seq(ServerPacket) /\ OnePlace(r, T, q, V, U, B)
  BY DEF TypeOK, FirstInv
<1>2. ASSUME NEW p \in ServerPacket, Send(s, p) PROVE toClient'[s] = Sent(q, p, peerOpen[s])
  BY <1>2, SentEffect
<1>3. \A p \in ServerPacket : p.type # "ProxyData" => p \notin V
  BY DataFields DEF FirstPacket
<1> HIDE DEF V, T, U, B
<1>4. CASE AcceptHello(s) \/ AuthFailed(s) \/ AuthTimeout(s) \/ Register(s) \/ PeerPing(s)
  <2>1. PICK x \in {"ProxyAuthRequest", "ProxyError", "ProxyHelloResponse", "ProxyPong"} : Send(s, Plain(x))
    BY <1>4 DEF AcceptHello, AuthFailed, AuthTimeout, Register, PeerPing
  <2>2. Plain(x) \in ServerPacket /\ Plain(x).type # "ProxyData"
    BY DEF ServerPacket, Plain
  <2>3. UNCHANGED rxq
    BY <1>4 DEF AcceptHello, AuthFailed, AuthTimeout, Register, PeerPing
  <2>4. toClient'[s] = Sent(q, Plain(x), peerOpen[s]) /\ Plain(x) \notin V
    BY <1>2, <1>3, <2>1, <2>2
  <2> HIDE DEF q
  <2>5. OnePlace(r, T, Sent(q, Plain(x), peerOpen[s]), V, U, B)
    BY <1>1, <2>2, <2>4, PlaceSend
  <2> QED BY <2>3, <2>4, <2>5 DEF V, T, U, B
<1>5. CASE \/ NoFirstPacket(s) \/ UnknownProtocol(s) \/ AuthOk(s) \/ CloseConnection(s)
           \/ PeerDisconnects(s) \/ PeerData(s) \/ PeerOther(s)
  <2>1. UNCHANGED <<rxq, toClient>>
    BY <1>5 DEF NoFirstPacket, UnknownProtocol, AuthOk, CloseConnection, PeerDisconnects, PeerData, PeerOther
  <2> QED BY <1>1, <2>1 DEF V, T, U, B
<1>6. CASE TooManyClients(s) \/ WrongPacket(s) \/ ChannelClosed(s) \/ LinkLost(s) \/ IdleTimeout(s)
  <2>1. rxq'[s] = <<>> /\ toClient' = toClient
    BY <1>6 DEF TooManyClients, WrongPacket, ChannelClosed, LinkLost, IdleTimeout, Leave, TypeOK
  <2>2. OnePlace(<<>>, T, q, V, U, B)
    BY <1>1, PlaceShrink
  <2> QED BY <2>1, <2>2 DEF V, T, U, B
<1>7. CASE HandleAdd(s) \/ HandlePacket(s) \/ HandleRemove(s)
  <2>1. /\ r # <<>> /\ rxq'[s] = Tail(r)
        /\ \/ UNCHANGED toClient
           \/ \E p \in ServerPacket : Send(s, p) /\ (p \in V => Head(r) \in T)
    <3>1. CASE HandleAdd(s)
      <4>1. PICK m \in ClientToProxy : Receives(s, m) /\ Send(s, ProxyJoin(LowestFree(dist[s]))) /\ CanInsert(dist[s])
        BY <3>1 DEF HandleAdd
      <4>2. ProxyJoin(LowestFree(dist[s])) \in ServerPacket /\ ProxyJoin(LowestFree(dist[s])).type # "ProxyData"
        <5>1. LowestFree(dist[s]) \in Id
          BY <4>1, LowestFreeIsFree DEF Free
        <5> QED BY <5>1 DEF ServerPacket, ProxyJoin
      <4>3. r # <<>> /\ rxq'[s] = Tail(r)
        BY <3>1, <4>1 DEF HandleAdd, Receives, Consume, TypeOK
      <4> QED BY <1>3, <4>1, <4>2, <4>3
    <3>2. CASE HandlePacket(s)
      <4>1. PICK m \in ClientToProxy :
              /\ Receives(s, m) /\ m.type = "Packet" /\ HasAddr(dist[s], m.addr)
              /\ Send(s, ProxyData(dist[s].clients_addr[m.addr].id, m.data))
        BY <3>2 DEF HandlePacket
      <4> DEFINE p == ProxyData(dist[s].clients_addr[m.addr].id, m.data)
      <4>2. dist[s].clients_addr[m.addr].id \in Id /\ m.data \in Chunk
        BY <4>1, TableEntry, MessageKinds DEF HasAddr, TypeOK
      <4>3. p \in ServerPacket /\ p.data = m.data
        BY <4>2 DEF ServerPacket, ProxyData
      <4>4. r # <<>> /\ rxq'[s] = Tail(r) /\ m = Head(r)
        BY <3>2, <4>1 DEF HandlePacket, Receives, Consume, TypeOK
      <4>5. p \in V => Head(r) \in T
        BY <4>1, <4>3, <4>4 DEF V, T, FirstPacket, FirstMsg
      <4> QED BY <4>1, <4>3, <4>4, <4>5
    <3>3. CASE HandleRemove(s)
      <4>1. PICK m \in ClientToProxy :
              /\ Receives(s, m)
              /\ IF HasAddr(dist[s], m.addr)
                   THEN Send(s, ProxyDisconnect(dist[s].clients_addr[m.addr].id))
                   ELSE UNCHANGED toClient
        BY <3>3 DEF HandleRemove
      <4>2. HasAddr(dist[s], m.addr) =>
              LET p == ProxyDisconnect(dist[s].clients_addr[m.addr].id)
              IN  p \in ServerPacket /\ p.type # "ProxyData"
        <5> SUFFICES ASSUME HasAddr(dist[s], m.addr)
                     PROVE  LET p == ProxyDisconnect(dist[s].clients_addr[m.addr].id)
                            IN  p \in ServerPacket /\ p.type # "ProxyData"
          OBVIOUS
        <5>1. dist[s].clients_addr[m.addr].id \in Id
          BY TableEntry DEF HasAddr, TypeOK
        <5> QED BY <5>1 DEF ServerPacket, ProxyDisconnect
      <4>3. r # <<>> /\ rxq'[s] = Tail(r)
        BY <3>3, <4>1 DEF HandleRemove, Receives, Consume, TypeOK
      <4> QED BY <1>3, <4>1, <4>2, <4>3
    <3> QED BY <1>7, <3>1, <3>2, <3>3
  <2>2. CASE UNCHANGED toClient
    <3> DEFINE p == Plain("ProxyPong")
    <3>1. p \in ServerPacket /\ p.type # "ProxyData"
      BY DEF ServerPacket, Plain
    <3> HIDE DEF p
    <3>2. OnePlace(Tail(r), T, q, V, U, B)
      BY <1>1, <1>3, <2>1, <3>1, PlaceRead
    <3> QED BY <2>1, <2>2, <3>2 DEF V, T, U, B
  <2>3. ASSUME NEW p \in ServerPacket, Send(s, p), p \in V => Head(r) \in T
        PROVE  OnePlace(rxq'[s], FirstMsg(c), toClient'[s], FirstPacket(c), Carriers(s, c), Home(s, c))
    <3>1. toClient'[s] = Sent(q, p, peerOpen[s])
      BY <1>2, <2>3
    <3> HIDE DEF q, r
    <3>2. OnePlace(Tail(r), T, Sent(q, p, peerOpen[s]), V, U, B)
      BY <1>1, <2>1, <2>3, PlaceRead
    <3> QED BY <2>1, <3>1, <3>2 DEF V, T, U, B
  <2> QED BY <2>1, <2>2, <2>3
<1> QED BY <1>4, <1>5, <1>6, <1>7 DEF SessionStep, Handshake, RxArm, FramedArm

\* A player's task.
LEMMA PlayerHome ==
  ASSUME TypeOK, NEW c \in Conn, PlayerStep(c)
  PROVE  \A u \in Session : \A d \in Conn : Home(u, d) => Home(u, d)'
<1>1. \A d \in Conn \ {c} : mc'[d] = mc[d] /\ target'[d] = target[d]
  BY DEF PlayerStep, Lookup, NoPeerAddr, AddClient, SendHello, McRead, McGone, McDeliver,
     McChannelClosed, TypeOK
<1>2. mc[c] \in {"running", "done"} => mc'[c] \in {"running", "done"} /\ target'[c] = target[c]
  BY DEF PlayerStep, Lookup, NoPeerAddr, AddClient, SendHello, McRead, McGone, McDeliver,
     McChannelClosed, TypeOK
<1> QED BY <1>1, <1>2 DEF Home

LEMMA PutFirst ==
  ASSUME TypeOK, FirstInv, NEW c \in Conn, NEW s \in Session, NEW m \in ClientToProxy, Queue(s, m),
         UNCHANGED <<toClient, lrx, localOut>>,
         \A u \in Session : \A d \in Conn : Home(u, d) => Home(u, d)',
         \A d \in Conn : (RxOpen(s) /\ m \in FirstMsg(d)) => ~Home(s, d) /\ Home(s, d)'
  PROVE  FirstInv'
<1>1. /\ RxOpen(s) => rxq'[s] = Append(rxq[s], m)
      /\ ~RxOpen(s) => rxq' = rxq
      /\ \A u \in Session \ {s} : rxq'[u] = rxq[u]
  BY QueueFacts
<1>2. \A u \in Session : \A d \in Conn : Carriers(u, d)' = Carriers(u, d)
  BY SameCarriers
<1>3. ASSUME NEW u \in Session, NEW d \in Conn
      PROVE  OnePlace(rxq'[u], FirstMsg(d), toClient'[u], FirstPacket(d), Carriers(u, d)', Home(u, d)')
  <2> DEFINE V == FirstPacket(d)
             T == FirstMsg(d)
             U == Carriers(u, d)
             B == Home(u, d)
             B2 == Home(u, d)'
             r == rxq[u]
             q == toClient[u]
  <2>1. r \in Seq(ClientToProxy) /\ OnePlace(r, T, q, V, U, B) /\ (B => B2)
    BY DEF TypeOK, FirstInv
  <2>2. u = s /\ RxOpen(s) /\ m \in T => ~B /\ B2
    OBVIOUS
  <2>3. toClient'[u] = q /\ Carriers(u, d)' = U
    BY <1>2
  <2> HIDE DEF V, T, U, B, B2, q
  <2>4. CASE u = s /\ RxOpen(s)
    <3> HIDE DEF r
    <3>1. m \in T => ~B /\ B2
      BY <2>2, <2>4
    <3>2. OnePlace(Append(r, m), T, q, V, U, B2)
      BY <2>1, <3>1, PlacePut
    <3> QED BY <1>1, <2>3, <2>4, <3>2 DEF V, T, B2, r
  <2>5. CASE ~(u = s /\ RxOpen(s))
    <3>1. OnePlace(r, T, q, V, U, B2)
      BY <2>1, PlaceShrink
    <3> QED BY <1>1, <2>3, <2>5, <3>1 DEF V, T, B2
  <2> QED BY <2>4, <2>5
<1>4. \A u \in Session : \A d \in Conn :
        OnePlace(rxq[u], FirstMsg(d), toClient[u], FirstPacket(d), Carriers(u, d), Home(u, d))'
  BY <1>3
<1> QED BY <1>4 DEF FirstInv

LEMMA PlayerFirst ==
  ASSUME TypeOK, AddressInv, FirstInv, SentInv, NEW c \in Conn, PlayerStep(c), UNCHANGED <<lrx, localOut>>
  PROVE  FirstInv'
<1>1. AddrOf[c] \in Addr /\ MaxUp \in Nat
  BY ConstantsAssumption
<1>2. UNCHANGED toClient /\ \A u \in Session : \A d \in Conn : Home(u, d) => Home(u, d)'
  BY PlayerLeaves, PlayerHome
<1>3. CASE Lookup(c) \/ NoPeerAddr(c) \/ McDeliver(c) \/ McChannelClosed(c)
  <2>1. UNCHANGED rxq
    BY <1>3 DEF Lookup, NoPeerAddr, McDeliver, McChannelClosed, sessionVars
  <2>2. \A u \in Session : \A d \in Conn : Carriers(u, d)' = Carriers(u, d)
    BY SameCarriers
  <2>3. PICK s : s \notin Session
    BY ConstantsAssumption
  <2> QED BY <1>2, <2>1, <2>2, <2>3, FirstFrame
<1>4. AddClient(c) \/ SendHello(c) \/ McRead(c) \/ McGone(c) => target[c] \in Session
  BY DEF AddClient, SendHello, McRead, McGone, AddressInv, Targets
<1>5. CASE AddClient(c) \/ McGone(c)
  <2>1. PICK m \in ClientToProxy : m.type # "Packet" /\ Queue(target[c], m)
    <3>1. AddMsg(AddrOf[c], c) \in ClientToProxy /\ AddMsg(AddrOf[c], c).type # "Packet"
      BY <1>1, MessageTypes DEF AddMsg
    <3>2. RemoveMsg(AddrOf[c]) \in ClientToProxy /\ RemoveMsg(AddrOf[c]).type # "Packet"
      BY <1>1, MessageTypes DEF RemoveMsg
    <3> QED BY <1>5, <3>1, <3>2 DEF AddClient, McGone
  <2>2. \A d \in Conn : m \notin FirstMsg(d)
    BY <2>1 DEF FirstMsg
  <2> QED BY <1>2, <1>4, <1>5, <2>1, <2>2, PutFirst
<1>6. CASE SendHello(c) \/ McRead(c)
  <2>1. PICK n \in 0..MaxUp : /\ Queue(target[c], PacketMsg(AddrOf[c], [conn |-> c, n |-> n]))
                              /\ n = 0 => SendHello(c)
    BY <1>1, <1>6 DEF SendHello, McRead, TypeOK
  <2> DEFINE x == [conn |-> c, n |-> n]
             m == PacketMsg(AddrOf[c], x)
  <2>2. x \in Chunk /\ x.conn = c /\ x.n = n
    BY DEF Chunk
  <2>3. m \in ClientToProxy /\ m.type = "Packet" /\ m.data = x
    BY <1>1, <2>2, MessageTypes DEF PacketMsg
  <2>4. Queue(target[c], m)
    BY <2>1
  <2> HIDE DEF x, m
  <2>5. PICK s \in Session : s = target[c]
    BY <1>4, <1>6
  <2>6. ASSUME NEW d \in Conn, RxOpen(s), m \in FirstMsg(d)
        PROVE  ~Home(s, d) /\ Home(s, d)'
    <3>1. d = c /\ SendHello(c)
      BY <2>1, <2>2, <2>3, <2>6 DEF FirstMsg
    <3> QED BY <2>5, <2>6, <3>1 DEF SendHello, Home, TypeOK
  <2> QED BY <1>2, <2>3, <2>4, <2>5, <2>6, PutFirst
<1> QED BY <1>3, <1>5, <1>6 DEF PlayerStep

\* The Client takes the head of its link.
LEMMA TakeFirst ==
  ASSUME TunnelTypeOK, ClientInv, StreamInv, FirstInv, [TunnelNext]_tunnelVars,
         NEW s \in Session, TakeIncoming(s), toClient[s] # <<>>,
         \A u \in Session : Deliver(u) => u = s, UNCHANGED <<rxq, mc, target>>
  PROVE  FirstInv'
<1>1. toClient'[s] = Tail(toClient[s]) /\ \A u \in Session \ {s} : toClient'[u] = toClient[u]
  BY DEF TakeIncoming, TunnelTypeOK, TypeOK
<1>2. \A u \in Session \ {s} : \A c \in Conn : Carriers(u, c)' \subseteq Carriers(u, c)
  BY CarriersStep
<1>3. ASSUME NEW c \in Conn
      PROVE  OnePlace(rxq'[s], FirstMsg(c), toClient'[s], FirstPacket(c), Carriers(s, c)', Home(s, c))
  <2> DEFINE V == FirstPacket(c)
             T == FirstMsg(c)
             U == Carriers(s, c)
             U2 == Carriers(s, c)'
             B == Home(s, c)
             q == toClient[s]
             l == connections[s][Head(q).id]
  <2>1. q \in Seq(ServerPacket) /\ q # <<>> /\ OnePlace(rxq[s], T, q, V, U, B)
    BY DEF TunnelTypeOK, TypeOK, FirstInv
  <2>2. \A m \in U2 : m \in U \/ (m = l /\ Head(q) \in V)
    BY CarriersStep
  <2>3. U2 \subseteq U \/ (Head(q) \in V /\ \E m : U2 \subseteq U \cup {m})
    BY <2>2
  <2> HIDE DEF V, T, U, U2, B, q, l
  <2> DEFINE r == rxq[s]
  <2>5. OnePlace(r, T, q, V, U, B)
    BY <2>1
  <2> HIDE DEF r
  <2>6. OnePlace(r, T, Tail(q), V, U2, B)
    BY <2>1, <2>3, <2>5, PlaceTake
  <2> QED BY <1>1, <2>6 DEF r, V, T, U2, B, q
<1> QED BY <1>1, <1>2, <1>3, SameHome, FirstFrame

\* A Client that ends, a task, and what touches neither.
LEMMA DropFirst ==
  ASSUME FirstInv, UNCHANGED <<rxq, mc, target>>,
         \A u \in Session : \A c \in Conn : Carriers(u, c)' \subseteq Carriers(u, c),
         \A u \in Session : toClient'[u] \in {toClient[u], <<>>}
  PROVE  FirstInv'
<1>1. ASSUME NEW u \in Session, NEW c \in Conn
      PROVE  OnePlace(rxq'[u], FirstMsg(c), toClient'[u], FirstPacket(c), Carriers(u, c)', Home(u, c)')
  <2>1. OnePlace(rxq[u], FirstMsg(c), toClient[u], FirstPacket(c), Carriers(u, c), Home(u, c))
    BY DEF FirstInv
  <2>2. Carriers(u, c)' \subseteq Carriers(u, c) /\ (Home(u, c) => Home(u, c)')
    BY SameHome
  <2>3. /\ OnePlace(rxq[u], FirstMsg(c), toClient[u], FirstPacket(c), Carriers(u, c)', Home(u, c)')
        /\ OnePlace(rxq[u], FirstMsg(c), <<>>, FirstPacket(c), Carriers(u, c)', Home(u, c)')
    BY <2>1, <2>2, PlaceShrink
  <2>4. rxq'[u] = rxq[u] /\ (toClient'[u] = toClient[u] \/ toClient'[u] = <<>>)
    OBVIOUS
  <2> QED BY <2>3, <2>4
<1>2. \A u \in Session : \A c \in Conn :
        OnePlace(rxq[u], FirstMsg(c), toClient[u], FirstPacket(c), Carriers(u, c), Home(u, c))'
  BY <1>1
<1> QED BY <1>2 DEF FirstInv

LEMMA DeliverTakes ==
  ASSUME TypeOK, NEW s \in Session, Deliver(s)
  PROVE  /\ toClient'[s] # toClient[s]
         /\ \A u \in Session \ {s} : toClient'[u] = toClient[u]
<1>1. TakeIncoming(s) /\ toClient[s] # <<>>
  BY DEF Deliver, Incoming
<1>2. toClient[s] \in Seq(ServerPacket) /\ toClient'[s] = Tail(toClient[s])
  BY <1>1 DEF TakeIncoming, TypeOK
<1>3. Len(Tail(toClient[s])) # Len(toClient[s])
  BY <1>1, <1>2
<1> QED BY <1>1, <1>2, <1>3 DEF TakeIncoming, TypeOK

LEMMA NextFirst ==
  ASSUME TunnelTypeOK, ServerInv, ClientInv, StreamInv, SentInv, FirstInv, [TunnelNext]_tunnelVars
  PROVE  FirstInv'
<1>1. TypeOK /\ AddressInv
  BY DEF TunnelTypeOK, ServerInv
<1>2. ASSUME NEW s \in Session, SessionStep(s), UNCHANGED clientState PROVE FirstInv'
  BY <1>1, <1>2, SessionFirst
<1>3. ASSUME NEW c \in Conn, PlayerStep(c), UNCHANGED clientState PROVE FirstInv'
  BY <1>1, <1>3, PlayerFirst DEF clientState
<1>4. ASSUME UNCHANGED serverVars \/ (\E s \in Session : AcceptClient(s)) \/ UNCHANGED tunnelVars
      PROVE  UNCHANGED <<rxq, mc, target>>
  BY <1>1, <1>4, ClientSideLeaves
<1>5. ASSUME NEW s \in Session, ClientStep(s) \/ ServerGone(s), UNCHANGED serverVars PROVE FirstInv'
  <2>1. CASE \/ AnswerChallenge(s) \/ Connected(s) \/ Join(s) \/ Deliver(s) \/ Disconnected(s) \/ Pong(s)
    <3>1. TakeIncoming(s) /\ toClient[s] # <<>>
      BY <2>1 DEF AnswerChallenge, Connected, Join, Deliver, Disconnected, Pong, Incoming
    <3>2. \A u \in Session : Deliver(u) => u = s
      BY <1>1, <3>1, DeliverTakes DEF TakeIncoming, TypeOK
    <3> QED BY <1>4, <1>5, <3>1, <3>2, TakeFirst
  <2>2. CASE \/ Ping(s) \/ ForwardData(s) \/ ForwardGone(s) \/ Stops(s)
    <3>1. \A u \in Session : toClient'[u] \in {toClient[u], <<>>}
      BY <1>1, <2>2 DEF Ping, ForwardData, ForwardGone, Stops, Stop, TypeOK
    <3>2. UNCHANGED <<lrx, localOut>>
      BY <2>2 DEF Ping, ForwardData, ForwardGone, Stops, Stop, localVars
    <3> QED BY <1>4, <1>5, <3>1, <3>2, SameCarriers, DropFirst
  <2> QED BY <1>5, <2>1, <2>2, WhoStops DEF ClientStep, HandleStep
<1>6. ASSUME NEW l \in Local, LocalStep(l), UNCHANGED serverVars PROVE FirstInv'
  <2>1. UNCHANGED toClient
    BY <1>6, LocalLeaves DEF TunnelTypeOK, linkVars
  <2>2. \A u \in Session : \A c \in Conn : Carriers(u, c)' \subseteq Carriers(u, c)
    BY <1>1, <2>1, DeliverTakes, CarriersStep
  <2> QED BY <1>4, <1>6, <2>1, <2>2, DropFirst
<1>7. ASSUME (\E s \in Session : AcceptClient(s)) \/ UNCHANGED tunnelVars PROVE FirstInv'
  <2>1. UNCHANGED <<toClient, lrx, localOut>>
    BY <1>7 DEF AcceptClient, Connect, localVars, tunnelVars, vars, sessionVars, clientState
  <2> QED BY <1>4, <1>7, <2>1, SameCarriers, DropFirst
<1> QED BY <1>2, <1>3, <1>5, <1>6, <1>7 DEF TunnelNext, NoticesServerGone
-----------------------------------------------------------------------------
(* UpstreamIntact *)

\* What makes UpstreamIntact inductive: the streams through the server's
\* channels and the link, and the one place of every first packet.
IntactInv ==
  /\ TunnelTypeOK /\ ServerInv /\ ClientInv /\ LocalInv /\ StreamInv /\ SentInv
  /\ CarryInv /\ FirstInv

LEMMA IntactInvStep == IntactInv /\ [TunnelNext]_tunnelVars => IntactInv'
BY NextTunnelType, NextServer, NextClient, NextStream, NextCarry, NextFirst DEF IntactInv

LEMMA InitIntact == TunnelInit => IntactInv
BY InitTunnelType, InitServer, InitClient, InitStream, InitCarry, InitFirst DEF IntactInv

\* The stream of c, and what IsPrefix says of it.
LEMMA CarriesPrefix ==
  ASSUME NEW c \in Conn, NEW u \in Seq(Chunk),
         \A k \in 1..Len(u) : u[k] = [conn |-> c, n |-> k - 1]
  PROVE  IsPrefix(u, [i \in 1..MaxUp + 1 |-> [conn |-> c, n |-> i - 1]])
<1> DEFINE t == [i \in 1..MaxUp + 1 |-> [conn |-> c, n |-> i - 1]]
<1>1. MaxUp \in Nat /\ Len(u) \in Nat
  BY ConstantsAssumption
<1>2. Len(u) <= MaxUp + 1
  <2>1. CASE Len(u) = 0
    BY <1>1, <2>1
  <2>2. CASE Len(u) # 0
    <3>1. Len(u) \in 1..Len(u) /\ u[Len(u)] \in Chunk
      BY <1>1, <2>2
    <3>2. u[Len(u)] = [conn |-> c, n |-> Len(u) - 1]
      BY <3>1
    <3>3. u[Len(u)].n \in 0..MaxUp
      BY <3>1 DEF Chunk
    <3>4. u[Len(u)].n = Len(u) - 1
      BY <3>2
    <3>5. Len(u) - 1 \in 0..MaxUp
      BY <3>3, <3>4
    <3> QED BY <1>1, <3>5
  <2> QED BY <2>1, <2>2
<1>3. \A i \in 1..MaxUp + 1 : [conn |-> c, n |-> i - 1] \in Chunk
  BY <1>1 DEF Chunk
<1>4. t \in Seq(Chunk) /\ Len(t) = MaxUp + 1
  BY <1>1, <1>3
<1>5. \A k \in 1..Len(u) : t[k] = u[k]
  BY <1>1, <1>2
<1> HIDE DEF t
<1>6. SubSeq(u, 1, Len(u)) = SubSeq(t, 1, Len(u))
  BY <1>1, <1>2, <1>4, <1>5
<1> QED BY <1>2, <1>4, <1>6 DEF IsPrefix, t

LEMMA IntactInvIntact == IntactInv => UpstreamIntact
<1> SUFFICES ASSUME IntactInv PROVE UpstreamIntact
  OBVIOUS
<1>1. \A l \in Local : Upstream(l) \in Seq(Chunk)
  BY GivenTypes DEF IntactInv, TunnelTypeOK
<1>2. ASSUME NEW l \in Local, Upstream(l) # <<>>
      PROVE  Upstream(l)[1].conn \in Conn /\ l.session \in Session
  <2>1. Upstream(l)[1] \in Chunk
    BY <1>1, <1>2
  <2> QED BY <2>1 DEF Chunk, Local
<1>3. ASSUME NEW l \in Local
      PROVE  \E c \in Conn : IsPrefix(Upstream(l), [i \in 1..MaxUp + 1 |-> [conn |-> c, n |-> i - 1]])
  <2>1. PICK c \in Conn : Upstream(l) # <<>> => c = Upstream(l)[1].conn
    BY <1>2, SomePlayer
  <2>2. \A k \in 1..Len(Upstream(l)) : Upstream(l)[k] = [conn |-> c, n |-> k - 1]
    <3>1. CASE Upstream(l) = <<>>
      BY <3>1
    <3>2. CASE Upstream(l) # <<>>
      BY <2>1, <3>2 DEF IntactInv, CarryInv
    <3> QED BY <3>1, <3>2
  <2>3. IsPrefix(Upstream(l), [i \in 1..MaxUp + 1 |-> [conn |-> c, n |-> i - 1]])
    BY <1>1, <2>2, CarriesPrefix
  <2> QED BY <2>3
<1>4. ASSUME NEW l \in Local, NEW m \in Local, l # m, Upstream(l) # <<>>, Upstream(m) # <<>>,
             Upstream(l)[1].conn = Upstream(m)[1].conn
      PROVE  FALSE
  <2> DEFINE c == Upstream(l)[1].conn
             s == l.session
             t == m.session
  <2>1. c \in Conn /\ s \in Session /\ t \in Session /\ l \in Carriers(s, c) /\ m \in Carriers(t, c)
    BY <1>2, <1>4 DEF Carriers
  <2> HIDE DEF c, s, t
  <2>2. ASSUME NEW u \in Session, Carriers(u, c) # {}
        PROVE  target[c] = u /\ (\A x, y \in Carriers(u, c) : x = y)
    BY <2>1, <2>2 DEF IntactInv, FirstInv, OnePlace, Home
  <2>3. target[c] = s
    BY <2>1, <2>2
  <2>4. target[c] = t
    BY <2>1, <2>2
  <2>5. l \in Carriers(s, c) /\ m \in Carriers(s, c)
    BY <2>1, <2>3, <2>4
  <2>6. \A x, y \in Carriers(s, c) : x = y
    BY <2>1, <2>2
  <2>7. l = m
    BY <2>5, <2>6
  <2> QED BY <1>4, <2>7
<1> QED BY <1>3, <1>4 DEF UpstreamIntact

\* However sessions, players and local connections come and go, and however
\* often an identifier is used again: a local connection is given the stream
\* of one player from its MCHello on, and no other one is given it too.
THEOREM StreamsNeverMix == TunnelSpec => []UpstreamIntact
<1>1. TunnelInit => IntactInv
  BY InitIntact
<1>2. IntactInv /\ [TunnelNext]_tunnelVars => IntactInv'
  BY IntactInvStep
<1> QED BY <1>1, <1>2, IntactInvIntact, PTL DEF TunnelSpec
-----------------------------------------------------------------------------
(* The promises of the server, with the Client at the other end *)

\* The Client never puts anything on its own end of the link.
LEMMA ClientTakes ==
  ASSUME TypeOK, NEW s \in Session, NEW u \in Session,
         ClientStep(s) \/ AcceptClient(s) \/ NoticesServerGone(s)
  PROVE  \/ toClient'[u] = toClient[u]
         \/ toClient[u] # <<>> /\ toClient'[u] = Tail(toClient[u])
         \/ toClient'[u] = <<>>
<1>1. \/ toClient' = toClient
      \/ toClient[s] # <<>> /\ TakeIncoming(s)
      \/ \E as \in {"done", "panicked"} : Stop(s, as)
  <2>1. CASE AnswerChallenge(s) \/ Connected(s)
    BY <2>1 DEF AnswerChallenge, Connected, Incoming
  <2>2. CASE ConnectFails(s) \/ UserDisconnects(s) \/ NoticesServerGone(s)
    BY <2>2 DEF ConnectFails, UserDisconnects, NoticesServerGone, ServerGone
  <2>3. CASE Ping(s) \/ ForwardData(s) \/ ForwardGone(s) \/ AcceptClient(s)
    BY <2>3 DEF Ping, ForwardData, ForwardGone, AcceptClient, Connect
  <2>4. CASE Join(s) \/ Deliver(s) \/ Disconnected(s) \/ Pong(s)
    BY <2>4 DEF Join, Deliver, Disconnected, Pong, Incoming
  <2>5. CASE Death(s) \/ UnknownId(s) \/ Unimplemented(s) \/ Unreadable(s)
    BY <2>5 DEF Death, UnknownId, Unimplemented, Unreadable
  <2> QED BY <2>1, <2>2, <2>3, <2>4, <2>5 DEF ClientStep, HandleStep
<1> QED BY <1>1 DEF TakeIncoming, Stop, TypeOK

\* The register after a step of the tunnel.
LEMMA NextTunnelRegister ==
  ASSUME TypeOK, RegisterLive, [TunnelNext]_tunnelVars
  PROVE  RegisterLive'
<1>1. ASSUME NEW s \in Session, SessionStep(s) PROVE RegisterLive'
  BY <1>1, HandshakeRegister, OpenRegister, CloseRegister, LoopRegister DEF SessionStep
<1>2. ASSUME NEW c \in Conn, PlayerStep(c) PROVE RegisterLive'
  BY <1>2, OthersRegister
<1>3. ASSUME NEW s \in Session, AcceptClient(s) PROVE RegisterLive'
  <2>1. \A t \in Session : phase[t] \in {"serving", "closing"} => phase'[t] = phase[t]
    BY <1>3 DEF AcceptClient, TypeOK
  <2> QED BY <1>3, <2>1, RegisterKept DEF AcceptClient
<1>4. CASE UNCHANGED serverVars \/ UNCHANGED tunnelVars
  <2>1. UNCHANGED <<register, phase>>
    BY <1>4 DEF serverVars, tunnelVars, vars, sessionVars
  <2> QED BY <2>1, RegisterKept
<1> QED BY <1>1, <1>2, <1>3, <1>4 DEF TunnelNext, NoticesServerGone

\* Whatever the tunnel does, what is put on the link is the session's.
LEMMA NextTunnelSends ==
  ASSUME TypeOK, OwnInv, TableConsistent, [TunnelNext]_tunnelVars, NEW u \in Session
  PROVE  OwnIdStep(u)
<1>1. ASSUME NEW s \in Session, SessionStep(s) PROVE OwnIdStep(u)
  BY <1>1, SessionSends
<1>2. ASSUME NEW c \in Conn, PlayerStep(c) PROVE UNCHANGED toClient
  BY <1>2 DEF PlayerStep, Lookup, NoPeerAddr, AddClient, SendHello, McRead, McGone, McDeliver,
              McChannelClosed, sessionVars
<1>3. ASSUME NEW s \in Session, ClientStep(s) \/ AcceptClient(s) \/ NoticesServerGone(s)
      PROVE  OwnIdStep(u)
  BY <1>3, ClientTakes, OtherSends
<1>4. ASSUME NEW l \in Local, LocalStep(l) PROVE UNCHANGED toClient
  BY <1>4 DEF LocalStep, LocalConnects, LocalConnectFails, LocalWrites, LocalReleased, LocalReads,
              LocalCloses, linkVars
<1>5. UNCHANGED tunnelVars => UNCHANGED toClient
  BY DEF tunnelVars, vars, sessionVars
<1>6. UNCHANGED toClient => OwnIdStep(u)
  BY OtherSends
<1> QED BY <1>1, <1>2, <1>3, <1>4, <1>5, <1>6 DEF TunnelNext

\* The invariant: that of the server, with the types of both ends.
PromisesInv == TunnelTypeOK /\ RegisterLive /\ ServerInv

LEMMA PromisesInvariant == TunnelSpec => []PromisesInv
<1>1. TunnelInit => PromisesInv
  BY InitTunnelType, InitRegister, InitServer DEF TunnelInit, PromisesInv
<1>2. PromisesInv /\ [TunnelNext]_tunnelVars => PromisesInv'
  BY NextTunnelType, NextTunnelRegister, NextServer DEF PromisesInv, TunnelTypeOK
<1> QED BY <1>1, <1>2, PTL DEF TunnelSpec

\* What the server promises with any proxy client at the other end, it keeps
\* with the Client there, although the Client is still reading and sending when
\* its session is over: no dead session in the register, no table whose two maps
\* disagree, no entry without a player or his removal.
THEOREM ServerKeepsItsPromises ==
  TunnelSpec => [](RegisterLive /\ TableConsistent /\ EntriesOwned)
<1>1. PromisesInv => RegisterLive /\ TableConsistent /\ EntriesOwned
  BY AddressInvOwned DEF PromisesInv, ServerInv, TunnelTypeOK
<1> QED BY <1>1, PromisesInvariant, PTL

\* And a packet of a player goes out to the Client under his own identifier.
THEOREM DataGoesToItsOwner == TunnelSpec => DataUnderOwnId
<1>1. PromisesInv /\ [TunnelNext]_tunnelVars =>
        [\A s \in Session :
           LET p == toClient'[s][Len(toClient'[s])]
           IN  (Len(toClient'[s]) > Len(toClient[s]) /\ p.type = "ProxyData")
                 => HasId(dist[s], p.id) /\ GetById(dist[s], p.id).tx = p.data.conn]_vars
  BY NextTunnelSends DEF OwnIdStep, PromisesInv, ServerInv, TunnelTypeOK
<1> QED BY <1>1, PromisesInvariant, PTL DEF TunnelSpec, DataUnderOwnId

-----------------------------------------------------------------------------
(* Nobody but the players closes connections *)

Over(s) == phase[s] \in {"closing", "done"}
Tended == {p \in PeerPacket : p.type # "ProxyDisconnect"}
Talk == {m \in ToProxy : m.type = "Packet"}

\* The client's side speaks of nobody's end, and no task of a local connection
\* is over while the table has its channel.
ClientCalm ==
  \A s \in Session :
    /\ toServer[s] \in Seq(Tended)
    /\ toProxy[s] \in Seq(Talk)
    /\ \A i \in DOMAIN connections[s] : lphase[connections[s][i]] # "done"

LinkCalm ==
  \A s \in Session :
    /\ DataKnown(toClient[s], DOMAIN connections[s])
    /\ (~Over(s) /\ peerOpen[s])
         => AllKnown(toClient[s], DOMAIN connections[s], DOMAIN dist[s].clients_id)

Addrs(s) == {AddrOf[c] : c \in Served(s)}

RxCalm ==
  \A s \in Session :
    /\ DataPresent(rxq[s], DOMAIN dist[s].clients_addr)
    /\ ~Over(s) => AllPresent(rxq[s], DOMAIN dist[s].clients_addr, Addrs(s))

LEMMA AddrsType == \A s : Addrs(s) \subseteq Addr
BY ConstantsAssumption DEF Addrs, Served, Announced

LEMMA InitCalm == TunnelInit => ClientCalm /\ LinkCalm /\ RxCalm
<1> SUFFICES ASSUME TunnelInit PROVE ClientCalm /\ LinkCalm /\ RxCalm
  OBVIOUS
<1>1. \A s \in Session : /\ toServer[s] = <<>> /\ toProxy[s] = <<>> /\ toClient[s] = <<>> /\ rxq[s] = <<>>
                         /\ DOMAIN connections[s] = {} /\ ~peerOpen[s] /\ Served(s) = {}
  BY DEF TunnelInit, Init, ClientInit, Served, Announced
<1>2. ClientCalm
  <2>1. <<>> \in Seq(Tended) /\ <<>> \in Seq(Talk)
    OBVIOUS
  <2> QED BY <1>1, <2>1 DEF ClientCalm
<1>3. LinkCalm
  BY <1>1 DEF LinkCalm, DataKnown
<1>4. RxCalm
  BY <1>1 DEF RxCalm, DataPresent, AllPresent, Addrs
<1> QED BY <1>2, <1>3, <1>4

\* Then these steps are not taken.
LEMMA CalmExcludes ==
  ASSUME ~LocalsMayClose, TypeOK, ClientCalm, LinkCalm, RxCalm, NEW s \in Session
  PROVE  /\ ~PeerDisconnects(s) /\ ~ForwardGone(s) /\ ~Death(s)
         /\ ~UnknownId(s) /\ ~WrongPacket(s)
<1>1. toServer[s] \in Seq(Tended) /\ toProxy[s] \in Seq(Talk)
  BY DEF ClientCalm
<1>2. ~PeerDisconnects(s)
  <2>1. toServer[s] # <<>> => Head(toServer[s]) \in Tended
    BY <1>1
  <2> QED BY <2>1 DEF PeerDisconnects, Reads, Tended
<1>3. ~ForwardGone(s) /\ ~Death(s)
  <2>1. toProxy[s] # <<>> => Head(toProxy[s]) \in Talk
    BY <1>1
  <2> QED BY <2>1 DEF ForwardGone, Death, DeathMsg, Talk
<1>4. ~UnknownId(s)
  <2>1. toClient[s] \in Seq(ServerPacket) /\ DataKnown(toClient[s], DOMAIN connections[s])
    BY DEF TypeOK, LinkCalm
  <2>2. SUFFICES ASSUME NEW i \in Id, NEW x \in Chunk, toClient[s] # <<>>,
                        Head(toClient[s]) = [type |-> "ProxyData", id |-> i, data |-> x]
                 PROVE  i \in DOMAIN connections[s]
    BY DEF UnknownId, Bound, Incoming
  <2> QED BY <2>1, <2>2, KnownHead
<1>5. ~WrongPacket(s)
  <2>1. rxq[s] \in Seq(ClientToProxy) /\ DataPresent(rxq[s], DOMAIN dist[s].clients_addr)
    BY DEF TypeOK, RxCalm
  <2> QED BY <2>1, PresentHead DEF WrongPacket, Receives, HasAddr
<1> QED BY <1>2, <1>3, <1>4, <1>5

(* The client's side *)

LEMMA SeqSteps ==
  ASSUME NEW T, NEW q \in Seq(T)
  PROVE  /\ <<>> \in Seq(T) /\ (q # <<>> => Head(q) \in T /\ Tail(q) \in Seq(T))
         /\ \A x \in T : Append(q, x) \in Seq(T) /\ q \o <<x>> \in Seq(T)
OBVIOUS

LEMMA SessionReads ==
  ASSUME TypeOK, NEW s \in Session, SessionStep(s)
  PROVE  /\ \/ toServer'[s] \in {toServer[s], <<>>}
            \/ toServer[s] # <<>> /\ toServer'[s] = Tail(toServer[s])
         /\ \A u \in Session \ {s} : toServer'[u] = toServer[u]
<1>1. CASE Handshake(s)
  BY <1>1 DEF Handshake, AcceptHello, NoFirstPacket, UnknownProtocol, AuthOk, AuthFailed, AuthTimeout,
     Reads, DropSocket, TypeOK
<1>2. CASE Register(s) \/ CloseConnection(s)
  BY <1>2 DEF Register, CloseConnection, DropSocket, TypeOK
<1>3. CASE RxArm(s)
  BY <1>3 DEF RxArm, HandleAdd, TooManyClients, HandlePacket, WrongPacket, HandleRemove, ChannelClosed
<1>4. CASE FramedArm(s)
  BY <1>4 DEF FramedArm, PeerDisconnects, PeerData, PeerPing, PeerOther, LinkLost, IdleTimeout, Reads,
     TypeOK
<1> QED BY <1>1, <1>2, <1>3, <1>4 DEF SessionStep

LEMMA CalmFrame ==
  ASSUME ClientCalm, NEW s \in Session,
         toServer'[s] \in Seq(Tended), toProxy'[s] \in Seq(Talk),
         \A i \in DOMAIN connections'[s] : lphase'[connections'[s][i]] # "done",
         \A u \in Session \ {s} :
           /\ toServer'[u] = toServer[u] /\ toProxy'[u] = toProxy[u] /\ connections'[u] = connections[u]
           /\ \A i \in DOMAIN connections[u] : lphase'[connections[u][i]] # "done"
  PROVE  ClientCalm'
BY DEF ClientCalm

LEMMA TalkKinds ==
  ASSUME NEW m \in Talk
  PROVE  [type |-> "ProxyData", id |-> m.id, data |-> m.data] \in Tended
<1>1. m \in ToProxy /\ m.type = "Packet"
  BY DEF Talk
<1>2. PICK i \in Id, l \in Local, n \in 1..MaxLocal : m = DataMsg(i, Down(l, n))
  BY <1>1 DEF ToProxy, DataMsg, GoneMsg, DeathMsg
<1>3. m.id = i /\ m.data = Down(l, n)
  BY <1>2 DEF DataMsg
<1>4. Down(l, n) \in Payload
  BY LocalsArePayload
<1>5. i \in AnyId
  BY MaximumClientsAssumption DEF AnyId, Id
<1>6. ProxyData(i, Down(l, n)) \in PeerPacket
  <2>1. \A x \in Payload : ProxyData(i, x) \in PeerPacket
    BY <1>5, SMT DEF PeerPacket, ProxyData, Plain, AuthResponse, ProxyDisconnect
  <2> QED BY <1>4, <2>1
<1> QED BY <1>3, <1>6 DEF Tended, ProxyData

LEMMA TendedKinds ==
  /\ [type |-> "ProxyHello"] \in Tended
  /\ [type |-> "ProxyPing"] \in Tended
  /\ [type |-> "ProxyAuthResponse", valid |-> TRUE] \in Tended
BY SMT DEF Tended, PeerPacket, Plain, AuthResponse

LEMMA NextClientCalm ==
  ASSUME ~LocalsMayClose, TunnelTypeOK, ClientInv, LocalInv, ClientCalm, LinkCalm, RxCalm,
         [TunnelNext]_tunnelVars
  PROVE  ClientCalm'
<1>1. TypeOK /\ ClientTypeOK
  BY DEF TunnelTypeOK
<1>2. ASSUME NEW s \in Session, SessionStep(s), UNCHANGED clientState PROVE ClientCalm'
  <2>1. toServer[s] \in Seq(Tended)
    BY DEF ClientCalm
  <2>2. toServer'[s] \in Seq(Tended)
    <3>1. \/ toServer'[s] \in {toServer[s], <<>>}
          \/ toServer[s] # <<>> /\ toServer'[s] = Tail(toServer[s])
      BY <1>1, <1>2, SessionReads
    <3> QED BY <2>1, <3>1, SeqSteps
  <2> QED BY <1>1, <1>2, <2>2, SessionReads, CalmFrame DEF clientState, ClientCalm
<1>3. ASSUME NEW c \in Conn, PlayerStep(c), UNCHANGED clientState PROVE ClientCalm'
  BY <1>3, PlayerLeaves DEF clientState, ClientCalm
<1>4. ASSUME NEW s \in Session, ClientStep(s) \/ ServerGone(s), UNCHANGED serverVars PROVE ClientCalm'
  <2>1. /\ toServer[s] \in Seq(Tended) /\ toProxy[s] \in Seq(Talk)
        /\ \A i \in DOMAIN connections[s] : lphase[connections[s][i]] # "done"
    BY DEF ClientCalm
  <2>2. CASE AnswerChallenge(s) \/ Connected(s) \/ Ping(s) \/ Pong(s)
    <3>1. UNCHANGED <<toProxy, connections, lphase>>
      BY <2>2 DEF AnswerChallenge, Connected, Ping, Pong, clientVars, localVars
    <3>2. toServer'[s] \in Seq(Tended) /\ \A u \in Session \ {s} : toServer'[u] = toServer[u]
      <4>1. UNCHANGED toServer \/ \E x \in Tended : SendTo(s, x)
        BY <2>2, TendedKinds DEF AnswerChallenge, Connected, Ping, Pong
      <4>2. ASSUME NEW x \in Tended, SendTo(s, x)
            PROVE  /\ toServer'[s] = Append(toServer[s], x)
                   /\ \A u \in Session \ {s} : toServer'[u] = toServer[u]
        BY <1>1, <4>2 DEF SendTo, TypeOK
      <4>3. \A x \in Tended : Append(toServer[s], x) \in Seq(Tended)
        BY <2>1, SeqSteps
      <4> QED BY <2>1, <4>1, <4>2, <4>3
    <3> QED BY <3>1, <3>2, CalmFrame DEF ClientCalm
  <2>3. CASE ForwardData(s)
    <3>1. Head(toProxy[s]) \in Talk /\ toProxy[s] # <<>>
      BY <2>1, <2>3 DEF ForwardData
    <3>2. toServer'[s] \in Seq(Tended)
      BY <1>1, <2>1, <2>3, <3>1, TalkKinds DEF ForwardData, SendTo, TypeOK
    <3>3. toProxy'[s] \in Seq(Talk)
      BY <1>1, <2>1, <2>3, <3>1 DEF ForwardData, ClientTypeOK
    <3>4. /\ UNCHANGED <<connections, lphase>>
          /\ \A u \in Session \ {s} : toServer'[u] = toServer[u] /\ toProxy'[u] = toProxy[u]
      BY <1>1, <2>3 DEF ForwardData, SendTo, TypeOK, ClientTypeOK, localVars
    <3> QED BY <3>2, <3>3, <3>4, CalmFrame DEF ClientCalm
  <2>4. CASE Deliver(s) \/ Disconnected(s)
    <3>1. UNCHANGED connections \/ \E i : Unbind(s, i)
      BY <2>4 DEF Deliver, Disconnected
    <3>2. UNCHANGED <<toServer, toProxy, lphase>>
      BY <2>4 DEF Deliver, Disconnected, localVars
    <3>3. /\ \A i \in DOMAIN connections'[s] : i \in DOMAIN connections[s] /\ connections'[s][i] = connections[s][i]
          /\ \A u \in Session \ {s} : connections'[u] = connections[u]
      BY <1>1, <3>1, UnbindEffect
    <3> QED BY <2>1, <3>2, <3>3, CalmFrame DEF ClientCalm
  <2>5. CASE Join(s)
    <3> DEFINE l == [session |-> s, k |-> spawned[s] + 1]
    <3>1. PICK i \in Id : BindTo(s, i, l) /\ lphase' = [lphase EXCEPT ![l] = "connecting"]
      BY <2>5 DEF Join
    <3>2. UNCHANGED <<toServer, toProxy>>
      BY <2>5 DEF Join
    <3>3. l \in Local
      <4>1. spawned[s] \in Nat /\ spawned[s] + 1 \in 1..MaxLocals
        BY <1>1, <2>5, ClientConstants DEF Join, ClientTypeOK
      <4> QED BY <4>1 DEF Local
    <3> HIDE DEF l
    <3>4. /\ DOMAIN connections'[s] = DOMAIN connections[s] \cup {i} /\ connections'[s][i] = l
          /\ \A j \in DOMAIN connections[s] : j # i => connections'[s][j] = connections[s][j]
          /\ \A u \in Session \ {s} : connections'[u] = connections[u]
      BY <1>1, <3>1, BindEffect
    <3>5. \A m \in Local : lphase[m] # "done" => lphase'[m] # "done"
      BY <1>1, <3>1, <3>3 DEF ClientTypeOK
    <3>6. lphase'[l] # "done"
      BY <1>1, <3>1, <3>3 DEF ClientTypeOK
    <3>7. \A u \in Session : \A j \in DOMAIN connections[u] :
            lphase'[connections[u][j]] # "done"
      BY <1>1, <3>5, BoundType DEF ClientCalm
    <3>8. \A j \in DOMAIN connections'[s] : lphase'[connections'[s][j]] # "done"
      BY <3>4, <3>6, <3>7
    <3> QED BY <2>1, <3>2, <3>4, <3>7, <3>8, CalmFrame DEF ClientCalm
  <2>6. CASE Stops(s)
    <3>1. /\ UNCHANGED <<toServer, lphase>> /\ toProxy'[s] = <<>> /\ DOMAIN connections'[s] = {}
          /\ \A u \in Session \ {s} : toProxy'[u] = toProxy[u] /\ connections'[u] = connections[u]
      BY <1>1, <2>6 DEF Stops, Stop, localVars, ClientTypeOK
    <3>2. toProxy'[s] \in Seq(Talk)
      BY <2>1, <3>1, SeqSteps
    <3> QED BY <2>1, <3>1, <3>2, CalmFrame DEF ClientCalm
  <2> QED BY <1>1, <1>4, <2>2, <2>3, <2>4, <2>5, <2>6, CalmExcludes, WhoStops DEF ClientStep, HandleStep
<1>5. ASSUME NEW l \in Local, LocalStep(l), UNCHANGED serverVars PROVE ClientCalm'
  <2> DEFINE s == l.session
  <2>1. s \in Session
    BY DEF Local
  <2>2. UNCHANGED <<toServer, connections>> /\ \A m \in Local \ {l} : lphase'[m] = lphase[m]
    BY <1>1, <1>5, LocalLeaves DEF linkVars
  <2>3. \A u \in Session \ {s} : toProxy'[u] = toProxy[u]
    BY <1>1, <1>5 DEF LocalStep, LocalConnects, LocalConnectFails, LocalWrites, LocalReleased,
       LocalReads, LocalCloses, Tell, ClientTypeOK
  <2>4. \A u \in Session : \A i \in DOMAIN connections[u] :
          connections[u][i] \in Local /\ connections[u][i].session = u
    BY <1>1, BoundType DEF ClientInv
  <2>5. toProxy'[s] \in Seq(Talk) /\ (lphase'[l] = "done" => ~LocalTxHeld(l))
    <3>1. toProxy[s] \in Seq(Talk)
      BY <2>1 DEF ClientCalm
    <3>2. CASE LocalConnects(l) \/ LocalWrites(l)
      BY <1>1, <3>1, <3>2 DEF LocalConnects, LocalWrites, ClientTypeOK
    <3>3. CASE LocalReleased(l)
      BY <1>1, <3>1, <3>3 DEF LocalReleased
    <3>4. CASE LocalReads(l)
      <4>1. lsent[l] + 1 \in 1..MaxLocal /\ lid[l] \in Id
        BY <1>1, <3>4, ClientConstants DEF LocalReads, ClientTypeOK
      <4>2. DataMsg(lid[l], Down(l, lsent[l] + 1)) \in Talk
        BY <4>1 DEF Talk, ToProxy, DataMsg
      <4>3. CASE Handling(s)
        <5>1. UNCHANGED lphase /\ lphase[l] = "running"
          BY <3>4, <4>3 DEF LocalReads
        <5>2. toProxy'[s] = toProxy[s] \o <<DataMsg(lid[l], Down(l, lsent[l] + 1))>>
          BY <1>1, <2>1, <3>4, <4>3 DEF LocalReads, Tell, ClientTypeOK
        <5>3. ASSUME NEW x \in Talk PROVE toProxy[s] \o <<x>> \in Seq(Talk)
          BY <3>1
        <5> QED BY <4>2, <5>1, <5>2, <5>3
      <4>4. CASE ~Handling(s)
        <5>1. toProxy'[s] = toProxy[s]
          BY <1>1, <2>1, <3>4, <4>4 DEF LocalReads, Tell, ClientTypeOK
        <5>2. DOMAIN connections[s] = {}
          BY <2>1, <4>4 DEF ClientInv, Handling
        <5> QED BY <3>1, <5>1, <5>2 DEF LocalTxHeld
      <4> QED BY <4>3, <4>4
    <3> QED BY <1>5, <3>2, <3>3, <3>4 DEF LocalStep, LocalConnectFails, LocalCloses
  <2>6. \A u \in Session : \A i \in DOMAIN connections[u] : lphase'[connections[u][i]] # "done"
    BY <2>2, <2>4, <2>5 DEF ClientCalm, LocalTxHeld
  <2> QED BY <2>1, <2>2, <2>3, <2>5, <2>6, CalmFrame DEF ClientCalm
<1>6. ASSUME NEW s \in Session, AcceptClient(s) PROVE ClientCalm'
  <2>1. UNCHANGED <<toProxy, connections, lphase>>
    BY <1>6 DEF AcceptClient, Connect, localVars
  <2>2. toServer[s] \in Seq(Tended)
    BY DEF ClientCalm
  <2>3. toServer'[s] \in Seq(Tended) /\ \A u \in Session \ {s} : toServer'[u] = toServer[u]
    BY <1>1, <1>6, <2>2, TendedKinds DEF AcceptClient, Connect, SendTo, TypeOK
  <2> QED BY <2>1, <2>3, CalmFrame DEF ClientCalm
<1>7. CASE UNCHANGED tunnelVars
  BY <1>7 DEF tunnelVars, vars, sessionVars, clientState, ClientCalm
<1> QED BY <1>2, <1>3, <1>4, <1>5, <1>6, <1>7 DEF TunnelNext, NoticesServerGone
-----------------------------------------------------------------------------
(* What is known on the link *)

\* The identifiers and the addresses of the session's table.
Ids(s) == DOMAIN dist[s].clients_id
At(s) == DOMAIN dist[s].clients_addr

LEMMA InsertNames ==
  ASSUME NEW d, NEW a, NEW c
  PROVE  /\ DOMAIN Insert(d, a, c).clients_id = DOMAIN d.clients_id \cup {LowestFree(d)}
         /\ DOMAIN Insert(d, a, c).clients_addr = DOMAIN d.clients_addr \cup {a}
BY DEF Insert, Put

LEMMA RemoveNames ==
  ASSUME NEW d \in Table, NEW a
  PROVE  /\ DOMAIN RemoveByAddr(d, a).clients_addr = DOMAIN d.clients_addr \ {a}
         /\ HasAddr(d, a) =>
              DOMAIN RemoveByAddr(d, a).clients_id = DOMAIN d.clients_id \ {d.clients_addr[a].id}
         /\ ~HasAddr(d, a) => RemoveByAddr(d, a).clients_id = d.clients_id
<1>1. DOMAIN RemoveByAddr(d, a).clients_addr = DOMAIN d.clients_addr \ {a}
  BY RemoveByAddrPreserves
<1>2. \A f, k : DOMAIN Without(f, k) = DOMAIN f \ {k}
  BY DEF Without, Restrict
<1> QED BY <1>1, <1>2 DEF RemoveByAddr

LEMMA NamesFrame ==
  ASSUME LinkCalm, NEW s,
         s \in Session =>
           /\ DataKnown(toClient'[s], DOMAIN connections'[s])
           /\ (~Over(s)' /\ peerOpen'[s]) => AllKnown(toClient'[s], DOMAIN connections'[s], Ids(s)'),
         \A u \in Session \ {s} :
           /\ toClient'[u] = toClient[u] /\ connections'[u] = connections[u] /\ dist'[u] = dist[u]
           /\ peerOpen'[u] = peerOpen[u] /\ phase'[u] = phase[u]
  PROVE  LinkCalm'
<1>1. ASSUME NEW u \in Session
      PROVE  /\ DataKnown(toClient'[u], DOMAIN connections'[u])
             /\ (~Over(u)' /\ peerOpen'[u]) => AllKnown(toClient'[u], DOMAIN connections'[u], Ids(u)')
  <2>1. CASE u = s
    BY <2>1
  <2>2. CASE u # s
    <3>1. /\ toClient'[u] = toClient[u] /\ connections'[u] = connections[u] /\ peerOpen'[u] = peerOpen[u]
          /\ Over(u)' = Over(u) /\ Ids(u)' = Ids(u)
      BY <2>2 DEF Over, Ids
    <3>2. /\ DataKnown(toClient[u], DOMAIN connections[u])
          /\ (~Over(u) /\ peerOpen[u]) => AllKnown(toClient[u], DOMAIN connections[u], Ids(u))
      BY DEF LinkCalm, Ids
    <3> QED BY <3>1, <3>2
  <2> QED BY <2>1, <2>2
<1> QED BY <1>1 DEF LinkCalm, Ids

LEMMA QuietNames ==
  ASSUME LinkCalm, UNCHANGED <<toClient, connections, dist, peerOpen, phase>>
  PROVE  LinkCalm'
<1>1. PICK s : s \notin Session
  BY ConstantsAssumption
<1> QED BY <1>1, NamesFrame

\* The session sends p.
LEMMA SendNames ==
  ASSUME TypeOK, LinkCalm, NEW s \in Session, SessionStep(s), UNCHANGED connections,
         NEW p \in ServerPacket, Send(s, p), ~Over(s), p.type = "ProxyData" => p.id \in Ids(s),
         \A i \in Id : i \in Ids(s)' <=> IF p \in Aside(i) THEN p \in Joins ELSE i \in Ids(s)
  PROVE  LinkCalm'
<1>1. /\ UNCHANGED peerOpen
      /\ \A u \in Session \ {s} : toClient'[u] = toClient[u] /\ dist'[u] = dist[u] /\ phase'[u] = phase[u]
  BY SessionLeaves
<1>2. toClient'[s] = IF peerOpen[s] THEN Append(toClient[s], p) ELSE toClient[s]
  BY DEF Send, TypeOK
<1> DEFINE q == toClient[s]
           B == DOMAIN connections[s]
           D == Ids(s)
           D2 == Ids(s)'
<1>3. q \in Seq(ServerPacket) /\ DataKnown(q, B) /\ (peerOpen[s] => AllKnown(q, B, D))
  BY DEF TypeOK, LinkCalm, Ids
<1>4. \A i \in Id : i \in D2 <=> IF p \in Aside(i) THEN p \in Joins ELSE i \in D
  OBVIOUS
<1>5. p.type = "ProxyData" => p.id \in D
  OBVIOUS
<1> HIDE DEF q, B, D, D2
<1>6. peerOpen[s] => DataKnown(Append(q, p), B) /\ AllKnown(Append(q, p), B, D2)
  BY <1>3, <1>4, <1>5, KnownSend
<1>7. DataKnown(toClient'[s], DOMAIN connections'[s])
  BY <1>2, <1>3, <1>6 DEF q, B
<1>8. peerOpen'[s] => AllKnown(toClient'[s], DOMAIN connections'[s], Ids(s)')
  BY <1>1, <1>2, <1>6 DEF q, B, D2
<1> QED BY <1>1, <1>7, <1>8, NamesFrame

\* The session sends nothing, and its table stays or it is over.
LEMMA SilentNames ==
  ASSUME TypeOK, LinkCalm, NEW s \in Session, SessionStep(s), UNCHANGED <<connections, toClient>>,
         \/ Over(s)'
         \/ dist'[s] = dist[s] /\ ~Over(s)
  PROVE  LinkCalm'
<1>1. /\ UNCHANGED peerOpen
      /\ \A u \in Session \ {s} : dist'[u] = dist[u] /\ phase'[u] = phase[u]
  BY SessionLeaves
<1>2. DataKnown(toClient'[s], DOMAIN connections'[s])
  BY DEF LinkCalm
<1>3. (~Over(s)' /\ peerOpen'[s]) => AllKnown(toClient'[s], DOMAIN connections'[s], Ids(s)')
  BY <1>1 DEF LinkCalm, Ids
<1> QED BY <1>1, <1>2, <1>3, NamesFrame

LEMMA OtherPacket ==
  ASSUME NEW ty \in {"ProxyAuthRequest", "ProxyError", "ProxyHelloResponse", "ProxyPong"}
  PROVE  /\ Plain(ty) \in ServerPacket /\ Plain(ty).type # "ProxyData"
         /\ \A i : Plain(ty) \notin Aside(i)
<1>1. Plain(ty) \in ServerPacket
  BY DEF ServerPacket
<1>2. Plain(ty).type = ty
  BY DEF Plain
<1> QED BY <1>1, <1>2 DEF Aside

\* A packet that is not about a player.
LEMMA OtherNames ==
  ASSUME TypeOK, LinkCalm, NEW s \in Session, SessionStep(s), UNCHANGED <<connections, dist>>,
         ~Over(s),
         NEW ty \in {"ProxyAuthRequest", "ProxyError", "ProxyHelloResponse", "ProxyPong"},
         Send(s, Plain(ty))
  PROVE  LinkCalm'
<1>1. Ids(s)' = Ids(s)
  BY DEF Ids
<1> QED BY <1>1, OtherPacket, SendNames

LEMMA SessionNames ==
  ASSUME ~LocalsMayClose, TypeOK, AddressInv, TableConsistent, ClientCalm, LinkCalm, RxCalm,
         NEW s \in Session, SessionStep(s), UNCHANGED connections
  PROVE  LinkCalm'
<1>1. CASE AcceptHello(s) \/ AuthFailed(s) \/ AuthTimeout(s) \/ Register(s) \/ PeerPing(s)
  <2>1. ~Over(s) /\ UNCHANGED dist
    BY <1>1 DEF AcceptHello, AuthFailed, AuthTimeout, Register, PeerPing, Over
  <2>2. PICK ty \in {"ProxyAuthRequest", "ProxyError", "ProxyHelloResponse", "ProxyPong"} :
          Send(s, Plain(ty))
    BY <1>1 DEF AcceptHello, AuthFailed, AuthTimeout, Register, PeerPing
  <2> QED BY <2>1, <2>2, OtherNames
<1>2. CASE \/ NoFirstPacket(s) \/ UnknownProtocol(s) \/ AuthOk(s) \/ CloseConnection(s)
           \/ TooManyClients(s) \/ ChannelClosed(s) \/ PeerData(s) \/ PeerOther(s)
           \/ LinkLost(s) \/ IdleTimeout(s)
  <2>1. UNCHANGED toClient /\ (Over(s)' \/ (dist'[s] = dist[s] /\ ~Over(s)))
    BY <1>2 DEF NoFirstPacket, UnknownProtocol, AuthOk, CloseConnection, TooManyClients, ChannelClosed,
       PeerData, PeerOther, LinkLost, IdleTimeout, Leave, Over, TypeOK
  <2> QED BY <2>1, SilentNames
<1>3. CASE HandleAdd(s)
  <2>1. PICK m \in ClientToProxy :
          /\ Receives(s, m) /\ CanInsert(dist[s])
          /\ dist' = [dist EXCEPT ![s] = Insert(@, m.addr, m.tx)]
          /\ Send(s, ProxyJoin(LowestFree(dist[s])))
    BY <1>3 DEF HandleAdd
  <2> DEFINE i == LowestFree(dist[s])
             p == ProxyJoin(i)
  <2>2. i \in Id
    BY <2>1, LowestFreeIsFree DEF Free
  <2>3. dist'[s] = Insert(dist[s], m.addr, m.tx)
    BY <2>1 DEF TypeOK
  <2>4. Ids(s)' = Ids(s) \cup {i}
    BY <2>3, InsertNames DEF Ids
  <2>5. ~Over(s) /\ Send(s, p)
    BY <2>1 DEF Receives, Over
  <2> HIDE DEF i
  <2>6. p \in ServerPacket /\ p.type = "ProxyJoin" /\ p.id = i
    <3>1. p \in ServerPacket
      BY <2>2 DEF ServerPacket
    <3> QED BY <3>1 DEF ProxyJoin
  <2> HIDE DEF p
  <2>7. \A j \in Id : j \in Ids(s)' <=> IF p \in Aside(j) THEN p \in Joins ELSE j \in Ids(s)
    BY <2>4, <2>6 DEF Aside, Joins
  <2>8. p.type = "ProxyData" => p.id \in Ids(s)
    BY <2>6
  <2> QED BY <2>5, <2>6, <2>7, <2>8, SendNames
<1>4. CASE HandlePacket(s)
  <2>1. PICK m \in ClientToProxy :
          /\ Receives(s, m) /\ m.type = "Packet" /\ HasAddr(dist[s], m.addr)
          /\ Send(s, ProxyData(dist[s].clients_addr[m.addr].id, m.data))
    BY <1>4 DEF HandlePacket
  <2> DEFINE i == dist[s].clients_addr[m.addr].id
             p == ProxyData(i, m.data)
  <2>2. dist[s] \in Table /\ Consistent(dist[s]) /\ m.addr \in At(s)
    BY <2>1 DEF TypeOK, TableConsistent, HasAddr, At
  <2>3. i \in Ids(s) /\ i \in Id
    BY <2>2, TableEntry DEF Consistent, Ids, At
  <2>4. ~Over(s) /\ Send(s, p) /\ Ids(s)' = Ids(s)
    BY <1>4, <2>1 DEF Receives, Over, HandlePacket, Ids
  <2> HIDE DEF i
  <2>5. p \in ServerPacket /\ p.type = "ProxyData" /\ p.id = i
    <3>1. m.data \in Chunk
      BY <2>1, MessageKinds
    <3>2. p \in ServerPacket
      BY <2>3, <3>1 DEF ServerPacket
    <3> QED BY <3>2 DEF ProxyData
  <2> HIDE DEF p
  <2>6. \A j \in Id : j \in Ids(s)' <=> IF p \in Aside(j) THEN p \in Joins ELSE j \in Ids(s)
    BY <2>4, <2>5, DataHasId
  <2> QED BY <2>3, <2>4, <2>5, <2>6, SendNames
<1>5. CASE HandleRemove(s)
  <2>1. PICK m \in ClientToProxy :
          /\ Receives(s, m)
          /\ dist' = [dist EXCEPT ![s] = RemoveByAddr(@, m.addr)]
          /\ IF HasAddr(dist[s], m.addr)
               THEN Send(s, ProxyDisconnect(dist[s].clients_addr[m.addr].id))
               ELSE UNCHANGED toClient
    BY <1>5 DEF HandleRemove
  <2>2. dist'[s] = RemoveByAddr(dist[s], m.addr) /\ dist[s] \in Table /\ ~Over(s)
    BY <2>1 DEF TypeOK, Receives, Over
  <2>3. CASE ~HasAddr(dist[s], m.addr)
    <3>1. Ids(s)' = Ids(s) /\ UNCHANGED <<toClient, peerOpen>> /\ Over(s)' = Over(s)
      BY <1>5, <2>1, <2>2, <2>3, RemoveNames DEF Ids, HandleRemove, Over
    <3>2. DataKnown(toClient'[s], DOMAIN connections'[s])
      BY <3>1 DEF LinkCalm
    <3>3. (~Over(s)' /\ peerOpen'[s]) => AllKnown(toClient'[s], DOMAIN connections'[s], Ids(s)')
      BY <3>1 DEF LinkCalm, Ids
    <3> QED BY <3>2, <3>3, SessionLeaves, NamesFrame
  <2>4. CASE HasAddr(dist[s], m.addr)
    <3> DEFINE i == dist[s].clients_addr[m.addr].id
               p == ProxyDisconnect(i)
    <3>1. i \in Id
      BY <2>2, <2>4, TableEntry DEF HasAddr
    <3>2. Ids(s)' = Ids(s) \ {i} /\ Send(s, p)
      BY <2>1, <2>2, <2>4, RemoveNames DEF Ids
    <3> HIDE DEF i
    <3>3. p \in ServerPacket /\ p.type = "ProxyDisconnect" /\ p.id = i
      <4>1. p \in ServerPacket
        BY <3>1 DEF ServerPacket
      <4> QED BY <4>1 DEF ProxyDisconnect
    <3> HIDE DEF p
    <3>4. \A j \in Id : j \in Ids(s)' <=> IF p \in Aside(j) THEN p \in Joins ELSE j \in Ids(s)
      BY <3>2, <3>3 DEF Aside, Joins
    <3>5. p.type = "ProxyData" => p.id \in Ids(s)
      BY <3>3
    <3> QED BY <2>2, <3>2, <3>3, <3>4, <3>5, SendNames
  <2> QED BY <2>3, <2>4
<1> QED BY <1>1, <1>2, <1>3, <1>4, <1>5, CalmExcludes DEF SessionStep, Handshake, RxArm, FramedArm

\* The Client of s reads.
LEMMA ReadNames ==
  ASSUME TypeOK, LinkCalm, NEW s \in Session, TakeIncoming(s), toClient[s] # <<>>,
         UNCHANGED <<peerOpen, phase, dist>>,
         \A i \in Id : i \in DOMAIN connections'[s]
                         <=> IF Head(toClient[s]) \in Aside(i) THEN Head(toClient[s]) \in Joins
                                                               ELSE i \in DOMAIN connections[s],
         \A u \in Session \ {s} : connections'[u] = connections[u]
  PROVE  LinkCalm'
<1>1. toClient'[s] = Tail(toClient[s]) /\ \A u \in Session \ {s} : toClient'[u] = toClient[u]
  BY DEF TakeIncoming, TypeOK
<1> DEFINE q == toClient[s]
           B == DOMAIN connections[s]
           B2 == DOMAIN connections'[s]
           D == Ids(s)
<1>2. q \in Seq(ServerPacket) /\ q # <<>> /\ DataKnown(q, B)
      /\ ((~Over(s) /\ peerOpen[s]) => AllKnown(q, B, D))
  BY DEF TypeOK, LinkCalm, Ids
<1>3. \A i \in Id : i \in B2 <=> IF Head(q) \in Aside(i) THEN Head(q) \in Joins ELSE i \in B
  OBVIOUS
<1>4. Ids(s)' = D /\ Over(s)' = Over(s)
  BY DEF Ids, Over
<1> HIDE DEF q, B, B2, D
<1>5. DataKnown(Tail(q), B2)
  BY <1>2, <1>3, KnownRead
<1>6. (~Over(s) /\ peerOpen[s]) => AllKnown(Tail(q), B2, D)
  BY <1>2, <1>3, KnownRead
<1>7. DataKnown(toClient'[s], DOMAIN connections'[s])
  BY <1>1, <1>5 DEF q, B2
<1>8. (~Over(s)' /\ peerOpen'[s]) => AllKnown(toClient'[s], DOMAIN connections'[s], Ids(s)')
  BY <1>1, <1>4, <1>6 DEF q, B2
<1> QED BY <1>1, <1>7, <1>8, NamesFrame

LEMMA NextNames ==
  ASSUME ~LocalsMayClose, TunnelTypeOK, ServerInv, ClientInv, LocalInv, ClientCalm, LinkCalm, RxCalm,
         [TunnelNext]_tunnelVars
  PROVE  LinkCalm'
<1>1. TypeOK /\ ClientTypeOK /\ AddressInv /\ TableConsistent
  BY DEF TunnelTypeOK, ServerInv
<1>2. ASSUME NEW s \in Session, SessionStep(s), UNCHANGED clientState PROVE LinkCalm'
  BY <1>1, <1>2, SessionNames DEF clientState
<1>3. ASSUME NEW c \in Conn, PlayerStep(c), UNCHANGED clientState PROVE LinkCalm'
  BY <1>3, PlayerLeaves, QuietNames DEF clientState
<1>4. ASSUME NEW s \in Session, ClientStep(s) \/ ServerGone(s), UNCHANGED serverVars PROVE LinkCalm'
  <2>1. UNCHANGED <<phase, dist>>
    BY <1>4 DEF serverVars
  <2>2. CASE AnswerChallenge(s) \/ Connected(s) \/ Pong(s)
    <3>1. PICK ty \in {"ProxyAuthRequest", "ProxyHelloResponse", "ProxyPong"} :
            Incoming(s, [type |-> ty])
      BY <2>2 DEF AnswerChallenge, Connected, Pong
    <3>2. UNCHANGED <<connections, peerOpen>> /\ TakeIncoming(s)
      BY <2>2 DEF AnswerChallenge, Connected, Pong, clientVars
    <3>3. toClient[s] # <<>> /\ Head(toClient[s]) = Plain(ty)
      BY <3>1 DEF Incoming, Plain
    <3>4. \A i : Head(toClient[s]) \notin Aside(i)
      BY <3>3, OtherPacket
    <3> QED BY <1>1, <2>1, <3>2, <3>3, <3>4, ReadNames
  <2>3. CASE Ping(s) \/ ForwardData(s)
    BY <2>1, <2>3, QuietNames DEF Ping, ForwardData
  <2>4. CASE Deliver(s)
    <3>1. PICK i \in DOMAIN connections[s], x \in Chunk :
            /\ Incoming(s, [type |-> "ProxyData", id |-> i, data |-> x])
            /\ lphase[connections[s][i]] # "done" => UNCHANGED connections
      BY <2>4 DEF Deliver
    <3>2. UNCHANGED <<connections, peerOpen>> /\ TakeIncoming(s) /\ toClient[s] # <<>>
      BY <2>4, <3>1 DEF Deliver, ClientCalm, Incoming
    <3>3. Head(toClient[s]) \in ServerPacket /\ Head(toClient[s]).type = "ProxyData"
      BY <1>1, <3>1, <3>2 DEF Incoming, TypeOK
    <3> QED BY <1>1, <2>1, <3>2, <3>3, DataHasId, ReadNames
  <2>5. CASE Join(s)
    <3> DEFINE l == [session |-> s, k |-> spawned[s] + 1]
               p == Head(toClient[s])
    <3>1. PICK i \in Id : Incoming(s, [type |-> "ProxyJoin", id |-> i]) /\ BindTo(s, i, l)
      BY <2>5 DEF Join
    <3>2. UNCHANGED peerOpen /\ TakeIncoming(s) /\ toClient[s] # <<>>
      BY <2>5, <3>1 DEF Join, Incoming
    <3>3. p \in ServerPacket /\ p.type = "ProxyJoin" /\ p.id = i
      BY <1>1, <3>1, <3>2 DEF Incoming, TypeOK
    <3> HIDE DEF l, p
    <3>4. /\ DOMAIN connections'[s] = DOMAIN connections[s] \cup {i}
          /\ \A u \in Session \ {s} : connections'[u] = connections[u]
      BY <1>1, <3>1, BindEffect
    <3>5. \A j \in Id : j \in DOMAIN connections'[s]
                          <=> IF p \in Aside(j) THEN p \in Joins ELSE j \in DOMAIN connections[s]
      BY <3>3, <3>4 DEF Aside, Joins
    <3> QED BY <1>1, <2>1, <3>2, <3>4, <3>5, ReadNames DEF p
  <2>6. CASE Disconnected(s)
    <3> DEFINE p == Head(toClient[s])
    <3>1. PICK i \in Id : Incoming(s, [type |-> "ProxyDisconnect", id |-> i]) /\ Unbind(s, i)
      BY <2>6 DEF Disconnected
    <3>2. UNCHANGED peerOpen /\ TakeIncoming(s) /\ toClient[s] # <<>>
      BY <2>6, <3>1 DEF Disconnected, Incoming
    <3>3. p \in ServerPacket /\ p.type = "ProxyDisconnect" /\ p.id = i
      BY <1>1, <3>1, <3>2 DEF Incoming, TypeOK
    <3> HIDE DEF p
    <3>4. /\ DOMAIN connections'[s] = DOMAIN connections[s] \ {i}
          /\ \A u \in Session \ {s} : connections'[u] = connections[u]
      BY <1>1, <3>1, UnbindEffect
    <3>5. \A j \in Id : j \in DOMAIN connections'[s]
                          <=> IF p \in Aside(j) THEN p \in Joins ELSE j \in DOMAIN connections[s]
      BY <3>3, <3>4 DEF Aside, Joins
    <3> QED BY <1>1, <2>1, <3>2, <3>4, <3>5, ReadNames DEF p
  <2>7. CASE Stops(s)
    <3>1. /\ toClient'[s] = <<>> /\ peerOpen'[s] = FALSE
          /\ \A u \in Session \ {s} :
               toClient'[u] = toClient[u] /\ connections'[u] = connections[u] /\ peerOpen'[u] = peerOpen[u]
      BY <1>1, <2>7 DEF Stops, Stop, TypeOK, ClientTypeOK
    <3>2. DataKnown(toClient'[s], DOMAIN connections'[s])
      BY <3>1 DEF DataKnown
    <3> QED BY <2>1, <3>1, <3>2, NamesFrame
  <2> QED BY <1>1, <1>4, <2>2, <2>3, <2>4, <2>5, <2>6, <2>7, CalmExcludes, WhoStops
          DEF ClientStep, HandleStep
<1>5. ASSUME NEW l \in Local, LocalStep(l), UNCHANGED serverVars PROVE LinkCalm'
  BY <1>1, <1>5, LocalLeaves, QuietNames DEF linkVars, serverVars
<1>6. ASSUME NEW s \in Session, AcceptClient(s) PROVE LinkCalm'
  <2>1. /\ UNCHANGED <<toClient, connections, dist>> /\ phase[s] = "idle" /\ cphase[s] = "idle"
        /\ \A u \in Session \ {s} : peerOpen'[u] = peerOpen[u] /\ phase'[u] = phase[u]
    BY <1>1, <1>6 DEF AcceptClient, Connect, TypeOK
  <2>2. toClient[s] = <<>> /\ DOMAIN connections[s] = {}
    BY <2>1 DEF ClientInv
  <2>3. Ids(s) = {}
    BY <1>1, <2>1 DEF AddressInv, OnlyServing, EmptyTable, EmptyMap, Ids
  <2>4. AllKnown(<<>>, {}, {}) /\ DataKnown(<<>>, {})
    BY DEF AllKnown, DataKnown, Known, LastWord
  <2>5. Ids(s)' = Ids(s)
    BY <2>1 DEF Ids
  <2> QED BY <2>1, <2>2, <2>3, <2>4, <2>5, NamesFrame
<1>7. CASE UNCHANGED tunnelVars
  BY <1>7, QuietNames DEF tunnelVars, vars, sessionVars, clientState
<1> QED BY <1>2, <1>3, <1>4, <1>5, <1>6, <1>7 DEF TunnelNext, NoticesServerGone
-----------------------------------------------------------------------------
(* Who is present in the session's channel *)

LEMMA PresentFrame ==
  ASSUME RxCalm, NEW s,
         s \in Session =>
           /\ DataPresent(rxq'[s], At(s)')
           /\ ~Over(s)' => AllPresent(rxq'[s], At(s)', Addrs(s)'),
         \A u \in Session \ {s} :
           /\ rxq'[u] = rxq[u] /\ dist'[u] = dist[u] /\ Addrs(u)' \subseteq Addrs(u)
           /\ Over(u) => Over(u)'
  PROVE  RxCalm'
<1>1. ASSUME NEW u \in Session
      PROVE  /\ DataPresent(rxq'[u], At(u)')
             /\ ~Over(u)' => AllPresent(rxq'[u], At(u)', Addrs(u)')
  <2>1. CASE u = s
    BY <2>1
  <2>2. CASE u # s
    <3>1. /\ rxq'[u] = rxq[u] /\ At(u)' = At(u) /\ Addrs(u)' \subseteq Addrs(u)
          /\ ~Over(u)' => ~Over(u)
      BY <2>2 DEF At
    <3>2. /\ DataPresent(rxq[u], At(u))
          /\ ~Over(u) => AllPresent(rxq[u], At(u), Addrs(u))
      BY DEF RxCalm, At
    <3> QED BY <3>1, <3>2 DEF AllPresent
  <2> QED BY <2>1, <2>2
<1> QED BY <1>1 DEF RxCalm, At

LEMMA QuietPresent ==
  ASSUME RxCalm, UNCHANGED <<rxq, dist>>,
         \A u \in Session : Addrs(u)' \subseteq Addrs(u) /\ (Over(u) => Over(u)')
  PROVE  RxCalm'
<1>1. PICK s : s \notin Session
  BY ConstantsAssumption
<1> QED BY <1>1, PresentFrame

LEMMA SameAddrs ==
  ASSUME UNCHANGED <<mc, target>>
  PROVE  \A u : Addrs(u)' = Addrs(u)
BY DEF Addrs, Served, Announced, StillThere, Live

\* The session reads a message.
LEMMA ReadPresent ==
  ASSUME TypeOK, RxCalm, NEW s \in Session, SessionStep(s), phase'[s] = phase[s],
         rxq[s] # <<>>, rxq'[s] = Tail(rxq[s]),
         \A a \in Addr : a \in At(s)' <=> IF Head(rxq[s]) \in AtAddr(a) THEN Head(rxq[s]) \in Adds
                                                                     ELSE a \in At(s)
  PROVE  RxCalm'
<1>1. /\ \A u \in Session \ {s} : rxq'[u] = rxq[u] /\ dist'[u] = dist[u] /\ Over(u)' = Over(u)
      /\ \A u \in Session : Addrs(u)' = Addrs(u)
  BY SessionLeaves, SameAddrs DEF Over
<1> DEFINE r == rxq[s]
           A == At(s)
           A2 == At(s)'
           L == Addrs(s)
<1>2. /\ r \in Seq(ClientToProxy) /\ r # <<>> /\ L \in SUBSET Addr /\ DataPresent(r, A)
      /\ ~Over(s) => AllPresent(r, A, L)
  BY AddrsType DEF TypeOK, RxCalm, At
<1>3. \A a \in Addr : a \in A2 <=> IF Head(r) \in AtAddr(a) THEN Head(r) \in Adds ELSE a \in A
  OBVIOUS
<1>4. Over(s)' = Over(s)
  BY DEF Over
<1> HIDE DEF r, A, A2, L
<1>5. DataPresent(Tail(r), A2)
  BY <1>2, <1>3, PresentRead
<1>6. ~Over(s) => AllPresent(Tail(r), A2, L)
  BY <1>2, <1>3, PresentRead
<1>7. DataPresent(rxq'[s], At(s)')
  BY <1>5 DEF r, A2
<1>8. ~Over(s)' => AllPresent(rxq'[s], At(s)', Addrs(s)')
  BY <1>1, <1>4, <1>6 DEF r, A2, L
<1> QED BY <1>1, <1>7, <1>8, PresentFrame

LEMMA SessionPresent ==
  ASSUME ~LocalsMayClose, TypeOK, AddressInv, TableConsistent, ClientCalm, LinkCalm, RxCalm,
         NEW s \in Session, SessionStep(s)
  PROVE  RxCalm'
<1>1. /\ \A u \in Session \ {s} : rxq'[u] = rxq[u] /\ dist'[u] = dist[u] /\ Over(u)' = Over(u)
      /\ \A u \in Session : Addrs(u)' = Addrs(u)
  BY SessionLeaves, SameAddrs DEF Over
<1>2. CASE Handshake(s) \/ Register(s) \/ CloseConnection(s) \/ PeerData(s) \/ PeerPing(s) \/ PeerOther(s)
  <2>1. UNCHANGED <<rxq, dist>> /\ (Over(s) => Over(s)')
    BY <1>2 DEF Handshake, AcceptHello, NoFirstPacket, UnknownProtocol, AuthOk, AuthFailed, AuthTimeout,
       Register, CloseConnection, PeerData, PeerPing, PeerOther, Over, TypeOK
  <2> QED BY <1>1, <2>1, QuietPresent
<1>3. CASE TooManyClients(s) \/ ChannelClosed(s) \/ LinkLost(s) \/ IdleTimeout(s)
  <2>1. rxq'[s] = <<>> /\ Over(s)'
    BY <1>3 DEF TooManyClients, ChannelClosed, LinkLost, IdleTimeout, Leave, Over, TypeOK
  <2>2. DataPresent(rxq'[s], At(s)')
    BY <2>1 DEF DataPresent
  <2> QED BY <1>1, <2>1, <2>2, PresentFrame
<1>4. ASSUME NEW m \in ClientToProxy, Receives(s, m), Consume(s)
      PROVE  rxq[s] # <<>> /\ m = Head(rxq[s]) /\ rxq'[s] = Tail(rxq[s])
  BY <1>4 DEF Receives, Consume, TypeOK
<1>5. CASE HandleAdd(s)
  <2>1. PICK m \in ClientToProxy :
          /\ Receives(s, m) /\ m.type = "AddMinecraftClient"
          /\ dist' = [dist EXCEPT ![s] = Insert(@, m.addr, m.tx)]
    BY <1>5 DEF HandleAdd
  <2>2. Consume(s) /\ phase'[s] = phase[s]
    BY <1>5 DEF HandleAdd
  <2>3. At(s)' = At(s) \cup {m.addr}
    BY <2>1, InsertNames DEF TypeOK, At
  <2>4. \A a \in Addr : a \in At(s)' <=> IF m \in AtAddr(a) THEN m \in Adds ELSE a \in At(s)
    BY <2>1, <2>3 DEF AtAddr, Adds
  <2> QED BY <1>4, <2>1, <2>2, <2>4, ReadPresent
<1>6. CASE HandlePacket(s)
  <2>1. PICK m \in ClientToProxy : Receives(s, m) /\ m.type = "Packet"
    BY <1>6 DEF HandlePacket
  <2>2. Consume(s) /\ phase'[s] = phase[s] /\ At(s)' = At(s)
    BY <1>6 DEF HandlePacket, At
  <2>3. \A a \in Addr : m \notin AtAddr(a)
    BY <2>1, DataHasAddr
  <2> QED BY <1>4, <2>1, <2>2, <2>3, ReadPresent
<1>7. CASE HandleRemove(s)
  <2>1. PICK m \in ClientToProxy :
          /\ Receives(s, m) /\ m.type = "RemoveMinecraftClient"
          /\ dist' = [dist EXCEPT ![s] = RemoveByAddr(@, m.addr)]
    BY <1>7 DEF HandleRemove
  <2>2. Consume(s) /\ phase'[s] = phase[s]
    BY <1>7 DEF HandleRemove
  <2>3. At(s)' = At(s) \ {m.addr}
    BY <2>1, RemoveNames DEF TypeOK, At
  <2>4. \A a \in Addr : a \in At(s)' <=> IF m \in AtAddr(a) THEN m \in Adds ELSE a \in At(s)
    BY <2>1, <2>3 DEF AtAddr, Adds
  <2> QED BY <1>4, <2>1, <2>2, <2>4, ReadPresent
<1> QED BY <1>2, <1>3, <1>5, <1>6, <1>7, CalmExcludes DEF SessionStep, RxArm, FramedArm

\* The players whose task is one of s.
LEMMA OthersAddrs ==
  ASSUME NEW c \in Conn, UNCHANGED target, \A d \in Conn \ {c} : mc'[d] = mc[d]
  PROVE  /\ \A u \in Session : target[c] # u => Addrs(u)' \subseteq Addrs(u)
         /\ \A u : Addrs(u)' \subseteq Addrs(u) \cup {AddrOf[c]}
         /\ ~Live(c)' => \A u : Addrs(u)' \subseteq Addrs(u)
BY DEF Addrs, Served, Announced, StillThere, Live

\* The task of c sends m, or finds that the receiver is gone and ends.
LEMMA PutPresent ==
  ASSUME TypeOK, RxCalm, NEW c \in Conn, NEW s \in Session, target[c] = s, NEW m \in ClientToProxy,
         Queue(s, m), UNCHANGED <<target, dist, phase>>, \A d \in Conn \ {c} : mc'[d] = mc[d],
         ~RxOpen(s) => mc'[c] = "done",
         RxOpen(s) =>
           /\ m.type = "Packet" => m.addr \in Addrs(s)
           /\ \A a \in Addrs(s)' : IF m \in AtAddr(a) THEN m \in Adds ELSE a \in Addrs(s)
  PROVE  RxCalm'
<1>1. /\ RxOpen(s) => rxq'[s] = Append(rxq[s], m)
      /\ ~RxOpen(s) => rxq' = rxq
      /\ \A u \in Session \ {s} : rxq'[u] = rxq[u]
  BY QueueFacts
<1>2. \A u \in Session \ {s} : Addrs(u)' \subseteq Addrs(u)
  BY OthersAddrs
<1>3. \A u : Over(u)' = Over(u) /\ At(u)' = At(u)
  BY DEF Over, At
<1>4. CASE ~RxOpen(s)
  <2>1. Addrs(s)' \subseteq Addrs(s)
    BY <1>4, OthersAddrs DEF Live
  <2> QED BY <1>1, <1>2, <1>3, <1>4, <2>1, QuietPresent
<1>5. CASE RxOpen(s)
  <2> DEFINE r == rxq[s]
             A == At(s)
             L == Addrs(s)
             L2 == Addrs(s)'
  <2>1. r \in Seq(ClientToProxy) /\ DataPresent(r, A) /\ AllPresent(r, A, L)
    BY <1>5 DEF TypeOK, RxCalm, At, Over, RxOpen
  <2>2. L \in SUBSET Addr
    BY AddrsType
  <2>3. L2 \in SUBSET Addr
    BY <2>2, OthersAddrs, ConstantsAssumption
  <2>4. /\ m.type = "Packet" => m.addr \in L
        /\ \A a \in L2 : IF m \in AtAddr(a) THEN m \in Adds ELSE a \in L
    BY <1>5
  <2> HIDE DEF r, A, L, L2
  <2>5. DataPresent(Append(r, m), A) /\ AllPresent(Append(r, m), A, L2)
    BY <2>1, <2>2, <2>3, <2>4, PresentSend
  <2>6. DataPresent(rxq'[s], At(s)') /\ AllPresent(rxq'[s], At(s)', Addrs(s)')
    BY <1>1, <1>3, <1>5, <2>5 DEF r, A, L2
  <2> QED BY <1>1, <1>2, <1>3, <2>6, PresentFrame
<1> QED BY <1>4, <1>5

LEMMA PlayerPresent ==
  ASSUME TypeOK, AddressInv, RxCalm, NEW c \in Conn, PlayerStep(c)
  PROVE  RxCalm'
<1>1. AddrOf[c] \in Addr /\ MaxUp \in Nat
  BY ConstantsAssumption
<1>2. UNCHANGED <<dist, phase>>
  BY PlayerLeaves
<1>3. CASE Lookup(c) \/ NoPeerAddr(c) \/ McDeliver(c) \/ McChannelClosed(c)
  <2>1. UNCHANGED rxq
    BY <1>3 DEF Lookup, NoPeerAddr, McDeliver, McChannelClosed, sessionVars
  <2>2. \A u : Addrs(u)' \subseteq Addrs(u)
    <3>1. \A d \in Conn \ {c} : mc'[d] = mc[d] /\ target'[d] = target[d]
      BY <1>3 DEF Lookup, NoPeerAddr, McDeliver, McChannelClosed, TypeOK
    <3>2. ~Live(c)' \/ (mc'[c] = mc[c] /\ target'[c] = target[c])
      BY <1>3 DEF Lookup, NoPeerAddr, McDeliver, McChannelClosed, TypeOK, Live
    <3>3. \A u : Served(u)' \subseteq Served(u)
      BY <3>1, <3>2 DEF Served, Announced, StillThere, Live
    <3> QED BY <3>3 DEF Addrs
  <2> QED BY <1>2, <2>1, <2>2, QuietPresent DEF Over
<1>4. ASSUME AddClient(c) \/ SendHello(c) \/ McRead(c) \/ McGone(c)
      PROVE  /\ UNCHANGED target /\ target[c] \in Session
             /\ \A d \in Conn \ {c} : mc'[d] = mc[d]
             /\ ~RxOpen(target[c]) => mc'[c] = "done"
             /\ mc[c] \in {"found", "added", "running"}
  BY <1>4 DEF AddClient, SendHello, McRead, McGone, AddressInv, Targets, TypeOK
<1>5. ASSUME NEW s \in Session, s = target[c], AddClient(c) PROVE RxCalm'
  <2> DEFINE m == AddMsg(AddrOf[c], c)
  <2>1. m \in ClientToProxy /\ m.type = "AddMinecraftClient" /\ m.addr = AddrOf[c]
    BY <1>1, MessageTypes DEF AddMsg
  <2>2. Queue(s, m)
    BY <1>5 DEF AddClient
  <2> HIDE DEF m
  <2>3. \A a \in Addrs(s)' : IF m \in AtAddr(a) THEN m \in Adds ELSE a \in Addrs(s)
    BY <1>4, <1>5, <2>1, OthersAddrs DEF AtAddr, Adds
  <2>4. m.type # "Packet"
    BY <2>1
  <2> QED BY <1>2, <1>4, <1>5, <2>1, <2>2, <2>3, <2>4, PutPresent
<1>6. ASSUME NEW s \in Session, s = target[c], SendHello(c) \/ McRead(c) PROVE RxCalm'
  <2>1. PICK n \in 0..MaxUp : Queue(s, PacketMsg(AddrOf[c], [conn |-> c, n |-> n]))
    <3>1. CASE SendHello(c)
      <4>1. 0 \in 0..MaxUp /\ Queue(s, PacketMsg(AddrOf[c], [conn |-> c, n |-> 0]))
        BY <1>1, <1>6, <3>1 DEF SendHello
      <4> QED BY <4>1
    <3>2. CASE McRead(c)
      <4>1. sent[c] + 1 \in 0..MaxUp /\ Queue(s, PacketMsg(AddrOf[c], [conn |-> c, n |-> sent[c] + 1]))
        BY <1>1, <1>6, <3>2 DEF McRead, TypeOK
      <4> QED BY <4>1
    <3> QED BY <1>6, <3>1, <3>2
  <2> DEFINE m == PacketMsg(AddrOf[c], [conn |-> c, n |-> n])
  <2>2. [conn |-> c, n |-> n] \in Chunk
    BY DEF Chunk
  <2>3. m \in ClientToProxy /\ m.type = "Packet" /\ m.addr = AddrOf[c]
    BY <1>1, <2>2, MessageTypes DEF PacketMsg
  <2>4. Queue(s, m) /\ mc[c] \in {"added", "running"} /\ (RxOpen(s) => mc'[c] = "running")
    BY <1>4, <1>6, <2>1 DEF SendHello, McRead, TypeOK
  <2> HIDE DEF m
  <2>5. AddrOf[c] \in Addrs(s)
    BY <1>6, <2>4 DEF Addrs, Served, Announced, StillThere, Live
  <2>6. \A a \in Addrs(s)' : a \in Addrs(s)
    BY <1>4, <1>6, <2>5, OthersAddrs
  <2>7. \A a \in Addrs(s)' : m \notin AtAddr(a)
    BY <2>3, DataHasAddr
  <2> QED BY <1>2, <1>4, <1>6, <2>3, <2>4, <2>5, <2>6, <2>7, PutPresent
<1>7. ASSUME NEW s \in Session, s = target[c], McGone(c) PROVE RxCalm'
  <2> DEFINE m == RemoveMsg(AddrOf[c])
  <2>1. m \in ClientToProxy /\ m.type = "RemoveMinecraftClient" /\ m.addr = AddrOf[c]
    BY <1>1, MessageTypes DEF RemoveMsg
  <2>2. Queue(s, m) /\ mc'[c] = "done"
    BY <1>7 DEF McGone, TypeOK
  <2> HIDE DEF m
  <2>3. \A a \in Addrs(s)' : a \in Addrs(s)
    BY <1>4, <1>7, <2>2, OthersAddrs DEF Live
  <2>4. ASSUME NEW a \in Addrs(s)' PROVE a # AddrOf[c]
    <3>1. PICK d \in Conn : a = AddrOf[d] /\ mc'[d] \in {"added", "running"}
      BY DEF Addrs, Served, Announced, StillThere, Live
    <3>2. d # c /\ mc[d] = mc'[d]
      BY <1>4, <1>7, <2>2, <3>1
    <3> QED BY <1>4, <1>7, <3>1, <3>2 DEF AddressInv, OneTaskPerAddress
  <2>5. \A a \in Addrs(s)' : m \notin AtAddr(a)
    BY <2>1, <2>4 DEF AtAddr
  <2>6. m.type # "Packet"
    BY <2>1
  <2> QED BY <1>2, <1>4, <1>7, <2>1, <2>2, <2>3, <2>5, <2>6, PutPresent
<1> QED BY <1>3, <1>4, <1>5, <1>6, <1>7 DEF PlayerStep

LEMMA NextPresent ==
  ASSUME ~LocalsMayClose, TunnelTypeOK, ServerInv, ClientCalm, LinkCalm, RxCalm,
         [TunnelNext]_tunnelVars
  PROVE  RxCalm'
<1>1. TypeOK /\ AddressInv /\ TableConsistent
  BY DEF TunnelTypeOK, ServerInv
<1>2. ASSUME NEW s \in Session, SessionStep(s) PROVE RxCalm'
  BY <1>1, <1>2, SessionPresent
<1>3. ASSUME NEW c \in Conn, PlayerStep(c) PROVE RxCalm'
  BY <1>1, <1>3, PlayerPresent
<1>4. CASE UNCHANGED serverVars \/ (\E s \in Session : AcceptClient(s)) \/ UNCHANGED tunnelVars
  <2>1. UNCHANGED <<rxq, dist, mc, target>>
    BY <1>1, <1>4, ClientSideLeaves
  <2>2. UNCHANGED phase \/ \E s \in Session : AcceptClient(s)
    BY <1>4 DEF serverVars, tunnelVars, vars, sessionVars
  <2>3. \A u \in Session : Over(u) => Over(u)'
    BY <1>1, <2>2 DEF Over, AcceptClient, TypeOK
  <2> QED BY <2>1, <2>3, SameAddrs, QuietPresent
<1> QED BY <1>2, <1>3, <1>4 DEF TunnelNext, NoticesServerGone
-----------------------------------------------------------------------------
(* QuiescentAgreement, NoWrongPacket, NoUnknownId *)

\* What makes them inductive: names come before their data and go after it, in
\* the session's channel as on the link, as long as only players leave.
CalmInv ==
  /\ TunnelTypeOK /\ ServerInv /\ ClientInv /\ LocalInv
  /\ ClientCalm /\ LinkCalm /\ RxCalm

LEMMA CalmInvStep == ~LocalsMayClose => (CalmInv /\ [TunnelNext]_tunnelVars => CalmInv')
BY NextTunnelType, NextServer, NextClient, NextClientCalm, NextNames, NextPresent DEF CalmInv

LEMMA InitCalmInv == TunnelInit => CalmInv
BY InitTunnelType, InitServer, InitClient, InitCalm DEF CalmInv

LEMMA CalmAgreement == CalmInv => QuiescentAgreement
<1> SUFFICES ASSUME CalmInv, NEW s \in Session, phase[s] = "serving", cphase[s] = "connected",
                    toClient[s] = <<>>
             PROVE  DOMAIN connections[s] = DOMAIN dist[s].clients_id
  BY DEF QuiescentAgreement
<1>1. TypeOK /\ ClientTypeOK /\ ClientInv /\ LinkCalm
  BY DEF CalmInv, TunnelTypeOK
<1>2. ~Over(s) /\ peerOpen[s]
  BY <1>1 DEF Over, ClientInv
<1>3. AllKnown(<<>>, DOMAIN connections[s], DOMAIN dist[s].clients_id)
  BY <1>1, <1>2 DEF LinkCalm
<1>4. \A i \in Id : i \in DOMAIN dist[s].clients_id <=> i \in DOMAIN connections[s]
  BY <1>3 DEF AllKnown, Known, LastWord
<1>5. DOMAIN connections[s] \subseteq Id
  BY <1>1, BoundType
<1>6. DOMAIN dist[s].clients_id \subseteq Id
  BY <1>1 DEF TypeOK, Table, MapTo
<1> QED BY <1>4, <1>5, <1>6

\* While only players close connections: when everything sent has been
\* received, the server and the Client have the same identifiers.
THEOREM EndsAgree == ~LocalsMayClose => (TunnelSpec => []QuiescentAgreement)
<1> SUFFICES ASSUME ~LocalsMayClose PROVE TunnelSpec => []QuiescentAgreement
  OBVIOUS
<1>1. CalmInv /\ [TunnelNext]_tunnelVars => CalmInv'
  BY CalmInvStep
<1> QED BY <1>1, InitCalmInv, CalmAgreement, PTL DEF TunnelSpec

\* Then neither end meets a packet of somebody it has already removed, and a
\* player who leaves does not end the session of the others: the server finds
\* the sender of every packet in its table,
THEOREM SendersAreKnown == ~LocalsMayClose => (TunnelSpec => NoWrongPacket)
<1> SUFFICES ASSUME ~LocalsMayClose PROVE TunnelSpec => NoWrongPacket
  OBVIOUS
<1>1. CalmInv /\ [TunnelNext]_tunnelVars => CalmInv'
  BY CalmInvStep
<1>2. CalmInv => \A s \in Session : ~WrongPacket(s)
  BY CalmExcludes DEF CalmInv, TunnelTypeOK
<1>3. CalmInv /\ [TunnelNext]_tunnelVars => [\A s \in Session : ~WrongPacket(s)]_tunnelVars
  BY <1>2
<1> QED BY <1>1, <1>3, InitCalmInv, PTL DEF TunnelSpec, NoWrongPacket

\* and the Client the identifier of every ProxyData in its own.
THEOREM IdsAreKnown == ~LocalsMayClose => (TunnelSpec => NoUnknownId)
<1> SUFFICES ASSUME ~LocalsMayClose PROVE TunnelSpec => NoUnknownId
  OBVIOUS
<1>1. CalmInv /\ [TunnelNext]_tunnelVars => CalmInv'
  BY CalmInvStep
<1>2. CalmInv => \A s \in Session : ~UnknownId(s)
  BY CalmExcludes DEF CalmInv, TunnelTypeOK
<1>3. CalmInv /\ [TunnelNext]_tunnelVars => [\A s \in Session : ~UnknownId(s)]_tunnelVars
  BY <1>2
<1> QED BY <1>1, <1>3, InitCalmInv, PTL DEF TunnelSpec, NoUnknownId
=============================================================================
