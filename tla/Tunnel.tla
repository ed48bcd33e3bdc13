------------------------------- MODULE Tunnel -------------------------------
(***************************************************************************)
(* The whole tunnel: the server of ProxyServer with the proxy clients of   *)
(* TunnelClient at the other end of its links, in place of a peer that     *)
(* sends anything.  A player's bytes go player -> player's task -> rxq ->  *)
(* link -> Client -> task of a Local -> local server, and back, and an     *)
(* identifier is all that says whose they are on the way.  Both ends keep  *)
(* a table of these identifiers and both change it on their own.           *)
(***************************************************************************)
EXTENDS ProxyServer, SequencesExt

CONSTANTS MaxLocals, MaxLocal, MaxPing, LocalsMayClose, ReadAs   \* see TunnelClient

ASSUME ClientConstants ==
  /\ MaxLocals \in Nat /\ MaxLocal \in Nat /\ MaxPing \in Nat
  /\ LocalsMayClose \in BOOLEAN
  /\ ReadAs \in [Chunk -> SUBSET {"frame", "login", "hello"}]

\* There is a player: UpstreamIntact names one even for a connection that has
\* been given nothing yet.
ASSUME SomePlayer == Conn # {}

VARIABLES cphase, connections, toProxy, spawned, pings, lphase, lid, lrx, lsent, localOut

INSTANCE TunnelClient

\* What a player may be given includes whatever the local servers send.
ASSUME LocalsArePayload == \A l \in Local : \A n \in 1..MaxLocal : Down(l, n) \in Payload

serverVars == <<register, phase, verified, rxq, dist, quota, playerVars>>
clientState == <<cphase, connections, toProxy, spawned, pings, lphase, lid, lrx, lsent, localOut>>
tunnelVars == <<vars, clientState>>

TunnelTypeOK == TypeOK /\ ClientTypeOK

TunnelInit == Init /\ ClientInit

\* The server accepts the socket (main.rs) when the Client connects.
AcceptClient(s) ==
  /\ phase[s] = "idle"
  /\ phase' = [phase EXCEPT ![s] = "accepted"]
  /\ Connect(s)
  /\ UNCHANGED <<register, verified, rxq, dist, quota, playerVars>>

\* The Client notices that the server has dropped its socket.
NoticesServerGone(s) == phase[s] = "done" /\ ServerGone(s) /\ UNCHANGED serverVars

TunnelNext ==
  \/ \E s \in Session : \/ SessionStep(s) /\ UNCHANGED clientState
                        \/ ClientStep(s) /\ UNCHANGED serverVars
                        \/ AcceptClient(s)
                        \/ NoticesServerGone(s)
  \/ \E c \in Conn : PlayerStep(c) /\ UNCHANGED clientState
  \/ \E l \in Local : LocalStep(l) /\ UNCHANGED serverVars

TunnelSpec == TunnelInit /\ [][TunnelNext]_tunnelVars

\* ProxyServer's fairness (see there), a handshake that ends at its timeout at
\* the latest, and the tasks of the local connections, which tokio schedules
\* likewise.  Nothing obliges a player, a user or a local server to send, to
\* read or to leave: a task that writes to one of them may wait for ever.
TunnelFairness ==
  /\ \A s \in Session :
       /\ WF_serverVars(Handshake(s) \/ Register(s) \/ CloseConnection(s))
       /\ WF_serverVars(RxArm(s))
       /\ WF_serverVars(LinkLost(s))
  /\ \A c \in Conn : WF_serverVars(OwnStep(c))
  /\ \A l \in Local : WF_clientVars(LocalConnects(l) \/ LocalConnectFails(l) \/ LocalReleased(l))

FairTunnelSpec == TunnelSpec /\ TunnelFairness

-----------------------------------------------------------------------------
(* Properties *)

\* What a local connection has been given, and what a player has been given.
Upstream(l) == localOut[l] \o lrx[l]
Downstream(c) == mcOut[c] \o mrx[c]

\* Every local connection carries the stream of one player, from its MCHello
\* on, in order and without a gap, and no two carry the same player's:
\* identifiers are used again, and the packets of the old owner are never
\* taken for the new one's on the way to the local server.
UpstreamIntact ==
  /\ \A l \in Local : \E c \in Conn :
       IsPrefix(Upstream(l), [i \in 1..MaxUp + 1 |-> [conn |-> c, n |-> i - 1]])
  /\ \A l, m \in Local :
       (l # m /\ Upstream(l) # <<>> /\ Upstream(m) # <<>>)
         => Upstream(l)[1].conn # Upstream(m)[1].conn

\* Whatever handshake, timeouts and players are interleaved to, the server never
\* sends a packet that Client::handle has no arm for: its `unimplemented!` is
\* reached by nothing but data that the client's codec takes for a hello.
PanicsOnlyMistaken ==
  [][\A s \in Session :
       (cphase[s] # "panicked" /\ cphase'[s] = "panicked")
         => Taken(Head(toClient[s])) # {"frame"}]_tunnelVars

\* When a Client ends for whatever reason, also by a panic, everything it stood
\* for ends on both sides: the server's session, the players, the local
\* connections.  Only a task that still has something to write to a player or
\* a local server may be left, which then does not read.
TearDown ==
  \A s \in Session :
    cphase[s] \in {"done", "panicked"} ~>
      /\ phase[s] = "done"
      /\ \A c \in Conn : target[c] = s => mc[c] = "done" \/ mrx[c] # <<>>
      /\ \A l \in Local :
           l.session = s => lphase[l] \in {"idle", "done"} \/ lrx[l] # <<>>

\* When everything sent has been received, the two ends agree on who is there.
\* (While only players close connections; a ProxyDisconnect of the client that
\* crosses the departure of its player removes the identifier's next owner.)
QuiescentAgreement ==
  \A s \in Session :
    (/\ phase[s] = "serving" /\ cphase[s] = "connected"
     /\ toServer[s] = <<>> /\ toClient[s] = <<>> /\ toProxy[s] = <<>> /\ rxq[s] = <<>>)
      => DOMAIN connections[s] = DOMAIN dist[s].clients_id

\* A player or a local connection that ends does not end the session of the
\* others: neither end meets a packet of somebody it has already removed.
\* (Both hold while only players close connections, and neither otherwise.)
NoWrongPacket == [][\A s \in Session : ~WrongPacket(s)]_tunnelVars
NoUnknownId == [][\A s \in Session : ~UnknownId(s)]_tunnelVars

\* What a player is given was sent on the connection that carries his data.
DownstreamIntact ==
  \A c \in Conn : \A i \in DOMAIN Downstream(c) :
    LET l == Downstream(c)[i].local
    IN  Upstream(l) # <<>> => Upstream(l)[1].conn = c
=============================================================================
