---------------------------- MODULE TunnelClient ----------------------------
(***************************************************************************)
(* The proxy client (client/src): a Client connects to the server, proves  *)
(* that it owns its hostname, and then opens one connection to the local   *)
(* Minecraft server for every player the server announces (ProxyJoin).     *)
(* Each of these connections (a Local) is a task of its own; the table     *)
(* `connections` maps the identifier of a player to the task's channel,    *)
(* and all tasks send to the one channel `to_proxy`.                       *)
(*                                                                         *)
(* The links are those of ProxyServer: toServer, toClient and peerOpen.    *)
(***************************************************************************)
EXTENDS Integers, Sequences, Functions

CONSTANTS
  Session,     \* one run of a Client each
  Id, Chunk,
  MaxLocals,   \* bound: players a Client is told of
  MaxLocal,    \* bound: packets the local server sends on one connection
  MaxPing,     \* bound: pings of one Client
  ReadAs,      \* what the client's codec may take the frame with a Chunk for
  LocalsMayClose   \* the local server may be the one that closes a connection

VARIABLES
  toServer, toClient, peerOpen,
  cphase,       \* how far Client::connect and Client::handle are
  connections,  \* State.connections
  toProxy,      \* mpsc channel of ClientToProxy (client/src/structs.rs)
  spawned,      \* number of tasks spawned
  pings,        \* number of pings sent
  lphase,       \* of the task of a Local
  lid,          \* its client_id
  lrx,          \* mpsc channel of data to the task
  lsent,        \* packets it has read from the local server
  localOut      \* data it has written to the local server

localVars == <<lphase, lid, lrx, lsent, localOut>>
clientVars == <<cphase, connections, toProxy, spawned, pings, localVars>>
linkVars == <<toServer, toClient, peerOpen>>

\* The k-th task that the Client of s spawns.
Local == [session: Session, k: 1..MaxLocals]

Down(l, n) == [local |-> l, n |-> n]
DataMsg(i, x) == [type |-> "Packet", id |-> i, data |-> x]
GoneMsg(i) == [type |-> "RemoveMinecraftClient", id |-> i]
DeathMsg == [type |-> "Death"]

ToProxy == {DataMsg(i, Down(l, n)) : i \in Id, l \in Local, n \in 1..MaxLocal}
             \cup {GoneMsg(i) : i \in Id} \cup {DeathMsg}

ClientTypeOK ==
  /\ cphase \in [Session -> {"idle", "hello", "response", "connected", "panicked", "done"}]
  /\ connections \in [Session -> UNION {[D -> Local] : D \in SUBSET Id}]
  /\ toProxy \in [Session -> Seq(ToProxy)]
  /\ spawned \in [Session -> 0..MaxLocals]
  /\ pings \in [Session -> 0..MaxPing]
  /\ lphase \in [Local -> {"idle", "connecting", "running", "done"}]
  /\ lid \in [Local -> Id]
  /\ lrx \in [Local -> Seq(Chunk)]
  /\ lsent \in [Local -> 0..MaxLocal]
  /\ localOut \in [Local -> Seq(Chunk)]

ClientInit ==
  /\ cphase = [s \in Session |-> "idle"]
  /\ connections = [s \in Session |-> [i \in {} |-> i]]
  /\ toProxy = [s \in Session |-> <<>>]
  /\ spawned = [s \in Session |-> 0]
  /\ pings = [s \in Session |-> 0]
  /\ lphase = [l \in Local |-> "idle"]
  /\ lid = [l \in Local |-> 0]
  /\ lrx = [l \in Local |-> <<>>]
  /\ lsent = [l \in Local |-> 0]
  /\ localOut = [l \in Local |-> <<>>]

-----------------------------------------------------------------------------
(* Channels and links *)

Bound(s, i) == i \in DOMAIN connections[s]

\* HashMap::insert of add_connection.
BindTo(s, i, l) ==
  connections' = [connections EXCEPT ![s] =
                    [j \in DOMAIN @ \cup {i} |-> IF j = i THEN l ELSE @[j]]]

\* remove_connection of an identifier that may not be there.
Unbind(s, i) == connections' = [connections EXCEPT ![s] = Restrict(@, DOMAIN @ \ {i})]

\* The receiver of to_proxy lives as long as handle.
Handling(s) == cphase[s] = "connected"

\* Each of ms is queued while the receiver lives.
Tell(s, ms) == toProxy' = [toProxy EXCEPT ![s] = IF Handling(s) THEN @ \o ms ELSE @]

LocalTxHeld(l) ==
  \E i \in DOMAIN connections[l.session] : connections[l.session][i] = l

SendTo(s, p) == toServer' = [toServer EXCEPT ![s] = Append(@, p)]

\* The client's codec never decodes a hello that was sent to it, so it stays in
\* Protocol::Unknown and tries every frame as a Minecraft hello first.  Only
\* data is long enough to be taken for one: for a login of an old client
\* (512..767 bytes) or for a hello of a new one (1536 bytes); a Chunk that stands
\* for data of several lengths may be taken for either.
Taken(p) == IF p.type = "ProxyData" THEN ReadAs[p.data] ELSE {"frame"}

\* proxy.next() yields p.
Incoming(s, p) ==
  /\ toClient[s] # <<>>
  /\ p = Head(toClient[s]) /\ "frame" \in Taken(p)

\* A login is kept back until the bytes of frames behind it complete it.
LoginComplete(s) == Len(toClient[s]) > 1 /\ "login" \in Taken(Head(toClient[s]))

\* proxy.next() yields an MCHello that nobody sent.
MCHelloRead(s) ==
  \/ toClient[s] # <<>> /\ "hello" \in Taken(Head(toClient[s]))
  \/ LoginComplete(s)

TakeIncoming(s) == toClient' = [toClient EXCEPT ![s] = Tail(@)]

\* Mutant: the table outlives the Client.
StopKeepingTable(s, as) ==
  /\ cphase' = [cphase EXCEPT ![s] = as]
  /\ toProxy' = [toProxy EXCEPT ![s] = <<>>]
  /\ peerOpen' = [peerOpen EXCEPT ![s] = FALSE]
  /\ toClient' = [toClient EXCEPT ![s] = <<>>]
  /\ UNCHANGED <<toServer, connections, spawned, pings, localVars>>

\* The Client is dropped: its end of the link, its table, its channel.
Stop(s, as) ==
  /\ cphase' = [cphase EXCEPT ![s] = as]
  /\ connections' = [connections EXCEPT ![s] = [i \in {} |-> i]]
  /\ toProxy' = [toProxy EXCEPT ![s] = <<>>]
  /\ peerOpen' = [peerOpen EXCEPT ![s] = FALSE]
  /\ toClient' = [toClient EXCEPT ![s] = <<>>]
  /\ UNCHANGED <<toServer, spawned, pings, localVars>>

-----------------------------------------------------------------------------
(* Client::connect *)

\* The local server answers; the link to the server opens with ProxyHello.
Connect(s) ==
  /\ cphase[s] = "idle"
  /\ cphase' = [cphase EXCEPT ![s] = "hello"]
  /\ peerOpen' = [peerOpen EXCEPT ![s] = TRUE]
  /\ SendTo(s, [type |-> "ProxyHello"])
  /\ UNCHANGED <<toClient, connections, toProxy, spawned, pings, localVars>>

\* Mutant: nobody waits for ProxyHelloResponse.
AnswerAndGoOn(s) ==
  /\ cphase[s] = "hello"
  /\ Incoming(s, [type |-> "ProxyAuthRequest"]) /\ TakeIncoming(s)
  /\ cphase' = [cphase EXCEPT ![s] = "connected"]
  /\ SendTo(s, [type |-> "ProxyAuthResponse", valid |-> TRUE])
  /\ UNCHANGED <<peerOpen, connections, toProxy, spawned, pings, localVars>>

AnswerChallenge(s) ==
  /\ cphase[s] = "hello"
  /\ Incoming(s, [type |-> "ProxyAuthRequest"]) /\ TakeIncoming(s)
  /\ cphase' = [cphase EXCEPT ![s] = "response"]
  /\ SendTo(s, [type |-> "ProxyAuthResponse", valid |-> TRUE])
  /\ UNCHANGED <<peerOpen, connections, toProxy, spawned, pings, localVars>>

Connected(s) ==
  /\ cphase[s] = "response"
  /\ Incoming(s, [type |-> "ProxyHelloResponse"]) /\ TakeIncoming(s)
  /\ cphase' = [cphase EXCEPT ![s] = "connected"]
  /\ UNCHANGED <<toServer, peerOpen, connections, toProxy, spawned, pings, localVars>>

\* connect returns an error: ten seconds without a challenge or, once it is
\* answered, the user, at any time; another packet (ProxyError among them).
ConnectFails(s) == cphase[s] \in {"hello", "response"} /\ Stop(s, "done")

-----------------------------------------------------------------------------
(* The loop of Client::handle *)

\* Control::Disconnect, or the sender of the control channel is gone.
UserDisconnects(s) == Handling(s) /\ Stop(s, "done")

\* to_proxy: what the tasks of the local connections have queued.
ForwardData(s) ==
  /\ Handling(s) /\ toProxy[s] # <<>>
  /\ LET m == Head(toProxy[s])
     IN  m.type = "Packet" /\ SendTo(s, [type |-> "ProxyData", id |-> m.id, data |-> m.data])
  /\ toProxy' = [toProxy EXCEPT ![s] = Tail(@)]
  /\ UNCHANGED <<toClient, peerOpen, cphase, connections, spawned, pings, localVars>>

ForwardGone(s) ==
  /\ Handling(s) /\ toProxy[s] # <<>>
  /\ LET m == Head(toProxy[s])
     IN  /\ m.type = "RemoveMinecraftClient"
         /\ SendTo(s, [type |-> "ProxyDisconnect", id |-> m.id])
         /\ Unbind(s, m.id)
  /\ toProxy' = [toProxy EXCEPT ![s] = Tail(@)]
  /\ UNCHANGED <<toClient, peerOpen, cphase, spawned, pings, localVars>>

Death(s) ==
  /\ Handling(s) /\ toProxy[s] # <<>> /\ Head(toProxy[s]) = DeathMsg
  /\ Stop(s, "done")

\* ProxyJoin: a task is spawned, its sender replaces what the identifier had.
Join(s) ==
  /\ Handling(s) /\ spawned[s] < MaxLocals
  /\ LET l == [session |-> s, k |-> spawned[s] + 1]
     IN  \E i \in Id :
           /\ Incoming(s, [type |-> "ProxyJoin", id |-> i])
           /\ BindTo(s, i, l)
           /\ lid' = [lid EXCEPT ![l] = i]
           /\ lphase' = [lphase EXCEPT ![l] = "connecting"]
  /\ TakeIncoming(s)
  /\ spawned' = [spawned EXCEPT ![s] = @ + 1]
  /\ UNCHANGED <<toServer, peerOpen, cphase, toProxy, pings, lrx, lsent, localOut>>

\* send_to a task; when the task has ended the entry is dropped instead.
Deliver(s) ==
  /\ Handling(s)
  /\ \E i \in DOMAIN connections[s], x \in Chunk :
       LET l == connections[s][i]
       IN  /\ Incoming(s, [type |-> "ProxyData", id |-> i, data |-> x])
           /\ IF lphase[l] # "done"
                THEN lrx' = [lrx EXCEPT ![l] = Append(@, x)] /\ UNCHANGED connections
                ELSE Unbind(s, i) /\ UNCHANGED lrx
  /\ TakeIncoming(s)
  /\ UNCHANGED <<toServer, peerOpen, cphase, toProxy, spawned, pings, lphase, lid, lsent, localOut>>

\* `send_to(..)?`: "could not find client id", handle returns the error.
UnknownId(s) ==
  /\ Handling(s)
  /\ \E i \in Id, x \in Chunk :
       Incoming(s, [type |-> "ProxyData", id |-> i, data |-> x]) /\ ~Bound(s, i)
  /\ Stop(s, "done")

Disconnected(s) ==
  /\ Handling(s)
  /\ \E i \in Id : Incoming(s, [type |-> "ProxyDisconnect", id |-> i]) /\ Unbind(s, i)
  /\ TakeIncoming(s)
  /\ UNCHANGED <<toServer, peerOpen, cphase, toProxy, spawned, pings, localVars>>

Pong(s) ==
  /\ Handling(s)
  /\ Incoming(s, [type |-> "ProxyPong"]) /\ TakeIncoming(s)
  /\ UNCHANGED <<toServer, peerOpen, clientVars>>

\* `_ => unimplemented!(..)`
Unimplemented(s) ==
  /\ Handling(s)
  /\ \/ MCHelloRead(s)
     \/ /\ toClient[s] # <<>>
        /\ Head(toClient[s]).type \notin {"ProxyJoin", "ProxyData", "ProxyDisconnect", "ProxyPong"}
  /\ Stop(s, "panicked")

\* The bytes that complete a login are no UTF-16: the codec's error.
Unreadable(s) == Handling(s) /\ LoginComplete(s) /\ Stop(s, "done")

\* A second without anything else.
Ping(s) ==
  /\ Handling(s) /\ pings[s] < MaxPing
  /\ pings' = [pings EXCEPT ![s] = @ + 1]
  /\ SendTo(s, [type |-> "ProxyPing"])
  /\ UNCHANGED <<toClient, peerOpen, cphase, connections, toProxy, spawned, localVars>>

\* The server's end is closed: the stream ends, or a send fails.
ServerGone(s) == cphase[s] \in {"hello", "response", "connected"} /\ Stop(s, "done")

-----------------------------------------------------------------------------
(* ClientConnection::handle_client, the task of one local connection *)

LocalConnects(l) ==
  /\ lphase[l] = "connecting"
  /\ lphase' = [lphase EXCEPT ![l] = "running"]
  /\ UNCHANGED <<linkVars, cphase, connections, toProxy, spawned, pings, lid, lrx, lsent, localOut>>

\* The task is over: rx is dropped with what it holds.
End(l) ==
  /\ lphase' = [lphase EXCEPT ![l] = "done"]
  /\ lrx' = [lrx EXCEPT ![l] = <<>>]

\* No connection: set_death, and then Drop, since need_for_close is set.
LocalConnectFails(l) ==
  /\ LocalsMayClose
  /\ lphase[l] = "connecting"
  /\ End(l)
  /\ Tell(l.session, <<DeathMsg, GoneMsg(lid[l])>>)
  /\ UNCHANGED <<linkVars, cphase, connections, spawned, pings, lid, lsent, localOut>>

\* write_all, which may wait for ever for a local server that does not read.
LocalWrites(l) ==
  /\ lphase[l] = "running" /\ lrx[l] # <<>>
  /\ localOut' = [localOut EXCEPT ![l] = Append(@, Head(lrx[l]))]
  /\ lrx' = [lrx EXCEPT ![l] = Tail(@)]
  /\ UNCHANGED <<linkVars, cphase, connections, toProxy, spawned, pings, lphase, lid, lsent>>

\* client_rx.recv() yields None: need_for_close is cleared.
LocalReleased(l) ==
  /\ lphase[l] = "running" /\ lrx[l] = <<>> /\ ~LocalTxHeld(l)
  /\ End(l)
  /\ UNCHANGED <<linkVars, cphase, connections, toProxy, spawned, pings, lid, lsent, localOut>>

\* Data of the local server; the task ends when nobody takes it any more.
LocalReads(l) ==
  /\ lphase[l] = "running" /\ lsent[l] < MaxLocal
  /\ lsent' = [lsent EXCEPT ![l] = @ + 1]
  /\ Tell(l.session, <<DataMsg(lid[l], Down(l, lsent[l] + 1))>>)
  /\ IF Handling(l.session) THEN UNCHANGED <<lphase, lrx>> ELSE End(l)
  /\ UNCHANGED <<linkVars, cphase, connections, spawned, pings, lid, localOut>>

\* The local server closes, or a read or write fails: Drop tells to_proxy.
LocalCloses(l) ==
  /\ LocalsMayClose
  /\ lphase[l] = "running"
  /\ End(l)
  /\ Tell(l.session, <<GoneMsg(lid[l])>>)
  /\ UNCHANGED <<linkVars, cphase, connections, spawned, pings, lid, lsent, localOut>>

-----------------------------------------------------------------------------

HandleStep(s) ==
  \/ ForwardData(s) \/ ForwardGone(s) \/ Death(s) \/ Join(s) \/ Deliver(s) \/ UnknownId(s)
  \/ Disconnected(s) \/ Pong(s) \/ Unimplemented(s) \/ Unreadable(s)

ClientStep(s) ==
  \/ AnswerChallenge(s) \/ Connected(s) \/ ConnectFails(s) \/ UserDisconnects(s)
  \/ HandleStep(s) \/ Ping(s)

LocalStep(l) ==
  \/ LocalConnects(l) \/ LocalConnectFails(l) \/ LocalWrites(l) \/ LocalReleased(l)
  \/ LocalReads(l) \/ LocalCloses(l)
=============================================================================
