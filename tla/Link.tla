-------------------------------- MODULE Link --------------------------------
(***************************************************************************)
(* The link between the server and one proxy client as its two loops use   *)
(* it: ProxyClient::handle (server/src/proxy_handler.rs) and               *)
(* Client::handle (client/src/client.rs).  ProxyServer and TunnelClient    *)
(* say what the packets do; this module says when they travel.  A socket   *)
(* holds only so many packets, a send waits inside its select! arm until   *)
(* there is room, and the two timers, the server's 60 seconds and the      *)
(* client's second between pings, are created anew in every round of the   *)
(* loop, whatever ended the round before.                                  *)
(*                                                                         *)
(* Time passes in ticks.  A loop that has something to do does it before   *)
(* time passes (the tasks are quick against a second), and a packet        *)
(* reaches the other end within MaxDelay ticks.                            *)
(***************************************************************************)
EXTENDS Integers, Sequences

CONSTANTS
  Timeout,   \* of the server's timeout(60 s)
  PingEvery, \* of the client's sleep(1 s)
  MaxDelay,  \* of a packet in the network (external)
  Capacity,  \* packets that one direction of the connection holds (external)
  Wrap,      \* the values of a clock in u16
  MaxQueue,  \* bound: messages waiting in an unbounded channel
  MaxBurst   \* bound: messages that come to one side in one tick

\* With room for a single packet a ping that waits to be sent, behind another
\* one, would be enough to stop both loops; pings are a few bytes.
ASSUME LinkAssumption ==
  /\ {Timeout, PingEvery, MaxDelay, Capacity, Wrap, MaxQueue, MaxBurst} \subseteq Nat \ {0}
  /\ PingEvery > MaxDelay
  /\ Timeout > PingEvery + 2 * MaxDelay
  /\ Capacity >= 2

VARIABLES
  rx,       \* number of messages of players in the channel of the session
  toProxy,  \* number of messages of local connections in the Client's channel
  burst,    \* how many messages each side may still get in this tick
  toClient, \* the packets on their way to the client
  toServer, \* the packets on their way to the server
  server,   \* ProxyClient::handle: in its loop, or over
  client,   \* Client::handle: in its loop, over, or dead without a word
  ssending, \* the packet the server waits to send, or nothing
  csending, \* the packet the client waits to send, or nothing
  stimer,   \* age of the server's timeout
  ctimer,   \* age of the client's sleep
  clock,    \* the client's clock in milliseconds `as u16`
  stop      \* Control::Disconnect waits in control_rx

serverVars == <<server, ssending, stimer, rx>>
clientVars == <<client, csending, ctimer, toProxy, stop>>
vars == <<serverVars, clientVars, burst, toClient, toServer, clock>>

\* age: ticks since it was sent.  A ping holds the clock when it was sent;
\* since, which is in no packet, counts the ticks that have really passed.
Data == [type |-> "Data", age |-> 0]
Ping == [type |-> "Ping", age |-> 0, stamp |-> clock, since |-> 0]

DataPacket == [type: {"Data"}, age: 0..MaxDelay]
PingPacket(t) == [type: {t}, age: 0..MaxDelay, stamp: 0..Wrap - 1, since: 0..Wrap - 1]
ToClient == DataPacket \cup PingPacket("Pong")
ToServer == DataPacket \cup PingPacket("Ping")

TypeOK ==
  /\ rx \in 0..MaxQueue
  /\ toProxy \in 0..MaxQueue
  /\ burst \in [{"player", "local"} -> 0..MaxBurst]
  /\ toClient \in Seq(ToClient) /\ Len(toClient) <= Capacity
  /\ toServer \in Seq(ToServer) /\ Len(toServer) <= Capacity
  /\ server \in {"loop", "over"}
  /\ client \in {"loop", "over", "dead"}
  /\ ssending \in Seq(ToClient) /\ Len(ssending) <= 1
  /\ csending \in Seq(ToServer) /\ Len(csending) <= 1
  /\ stimer \in 0..Timeout
  /\ ctimer \in 0..PingEvery
  /\ clock \in 0..Wrap - 1
  /\ stop \in BOOLEAN

\* The session has just sent ProxyHelloResponse and the client has read it.
Init ==
  /\ rx = 0
  /\ toProxy = 0
  /\ burst = [side \in {"player", "local"} |-> MaxBurst]
  /\ toClient = <<>>
  /\ toServer = <<>>
  /\ server = "loop"
  /\ client = "loop"
  /\ ssending = <<>>
  /\ csending = <<>>
  /\ stimer = 0
  /\ ctimer = 0
  /\ clock = 0
  /\ stop = FALSE

ServerSelects == server = "loop" /\ ssending = <<>>
ClientSelects == client = "loop" /\ csending = <<>>

-----------------------------------------------------------------------------
(* The server's loop *)

\* framed.send(p).await: the arm goes on when the socket has room.
ServerSend(p) ==
  IF Len(toClient) < Capacity
    THEN toClient' = Append(toClient, p) /\ ssending' = <<>>
    ELSE ssending' = <<p>> /\ UNCHANGED toClient

\* Mutant: the timeout counts from the last packet of the client.
MessageKeepingTimer ==
  /\ ServerSelects
  /\ rx > 0
  /\ rx' = rx - 1
  /\ ServerSend(Data)
  /\ UNCHANGED <<server, stimer, clientVars, burst, toServer, clock>>

\* A message of a player: ProxyJoin, ProxyData or ProxyDisconnect is sent; for
\* the end of a player whom the client has removed, nothing.  (A client that is
\* dead removes nobody; the few such messages still unread then are left out.)
ServerMessage ==
  /\ ServerSelects
  /\ rx > 0
  /\ rx' = rx - 1
  /\ \/ ServerSend(Data)
     \/ client # "dead" /\ UNCHANGED <<toClient, ssending>>
  /\ stimer' = 0
  /\ UNCHANGED <<server, clientVars, burst, toServer, clock>>

\* Mutant: the ping itself goes back.
Echo(p) == [p EXCEPT !.age = 0]

Pong(p) == [p EXCEPT !.type = "Pong", !.age = 0]

\* A packet of the client: a ping is answered, another one is handed on to a
\* channel.
ServerReceive ==
  /\ ServerSelects
  /\ toServer # <<>>
  /\ toServer' = Tail(toServer)
  /\ IF Head(toServer).type = "Ping"
       THEN ServerSend(Pong(Head(toServer)))
       ELSE UNCHANGED <<toClient, ssending>>
  /\ stimer' = 0
  /\ UNCHANGED <<server, rx, clientVars, burst, clock>>

ServerSent ==
  /\ server = "loop"
  /\ ssending # <<>>
  /\ Len(toClient) < Capacity
  /\ toClient' = Append(toClient, Head(ssending))
  /\ ssending' = <<>>
  /\ UNCHANGED <<server, stimer, rx, clientVars, burst, toServer, clock>>

\* The loop is left, and the socket closed.
ServerOver ==
  /\ server' = "over"
  /\ ssending' = <<>>
  /\ stimer' = 0
  /\ rx' = 0
  /\ UNCHANGED <<clientVars, burst, toClient, toServer, clock>>

\* Mutant: framed.next() without timeout.
NoTimeout == FALSE /\ ServerOver

ServerTimeout == ServerSelects /\ stimer = Timeout /\ ServerOver

ServerEof == ServerSelects /\ client = "over" /\ toServer = <<>> /\ ServerOver

\* ClientToProxy::Close, or an error that ends the session (ProxyServer says
\* which and when).
ServerLeaves == ServerSelects /\ ServerOver

\* The client is gone: TCP gives up (external).
ServerSendFails == ssending # <<>> /\ client \in {"over", "dead"} /\ ServerOver

-----------------------------------------------------------------------------
(* The client's loop *)

ClientSend(p) ==
  IF Len(toServer) < Capacity
    THEN toServer' = Append(toServer, p) /\ csending' = <<>>
    ELSE csending' = <<p>> /\ UNCHANGED toServer

\* A message of a local connection.
ClientMessage ==
  /\ ClientSelects
  /\ toProxy > 0
  /\ toProxy' = toProxy - 1
  /\ ClientSend(Data)
  /\ ctimer' = 0
  /\ UNCHANGED <<client, stop, serverVars, burst, toClient, clock>>

\* Nothing that arrives is answered on the link: a pong becomes a report,
\* the rest goes to a channel.
ClientReceive ==
  /\ ClientSelects
  /\ toClient # <<>>
  /\ toClient' = Tail(toClient)
  /\ ctimer' = 0
  /\ UNCHANGED <<client, csending, toProxy, stop, serverVars, burst, toServer, clock>>

\* Mutant: the sleep that is over is not replaced.
PingKeepingTimer ==
  /\ ClientSelects
  /\ ctimer = PingEvery
  /\ ClientSend(Ping)
  /\ UNCHANGED <<client, ctimer, toProxy, stop, serverVars, burst, toClient, clock>>

ClientPing ==
  /\ ClientSelects
  /\ ctimer = PingEvery
  /\ ClientSend(Ping)
  /\ ctimer' = 0
  /\ UNCHANGED <<client, toProxy, stop, serverVars, burst, toClient, clock>>

ClientSent ==
  /\ client = "loop"
  /\ csending # <<>>
  /\ Len(toServer) < Capacity
  /\ toServer' = Append(toServer, Head(csending))
  /\ csending' = <<>>
  /\ UNCHANGED <<client, ctimer, toProxy, stop, serverVars, burst, toClient, clock>>

ClientOver(state) ==
  /\ client' = state
  /\ csending' = <<>>
  /\ ctimer' = 0
  /\ toProxy' = 0
  /\ stop' = FALSE
  /\ UNCHANGED <<serverVars, burst, toClient, toServer, clock>>

\* Mutant: a biased select! that looks at control_rx last.
ControlLast == ClientSelects /\ stop /\ toProxy = 0 /\ ClientOver("over")

ClientControl == ClientSelects /\ stop /\ ClientOver("over")

ClientEof == ClientSelects /\ server = "over" /\ toClient = <<>> /\ ClientOver("over")

\* ClientToProxy::Death, or data for a player the client does not know
\* (TunnelClient says which and when).
ClientLeaves == ClientSelects /\ ClientOver("over")

ClientSendFails == csending # <<>> /\ server = "over" /\ ClientOver("over")

-----------------------------------------------------------------------------
(* What happens around the two loops *)

PlayerSends ==
  /\ server = "loop"
  /\ burst.player > 0
  /\ rx < MaxQueue
  /\ rx' = rx + 1
  /\ burst' = [burst EXCEPT !.player = @ - 1]
  /\ UNCHANGED <<server, ssending, stimer, clientVars, toClient, toServer, clock>>

LocalSends ==
  /\ client = "loop"
  /\ burst.local > 0
  /\ toProxy < MaxQueue
  /\ toProxy' = toProxy + 1
  /\ burst' = [burst EXCEPT !.local = @ - 1]
  /\ UNCHANGED <<client, csending, ctimer, stop, serverVars, toClient, toServer, clock>>

UserStops ==
  /\ client = "loop"
  /\ ~stop
  /\ stop' = TRUE
  /\ UNCHANGED <<client, csending, ctimer, toProxy, serverVars, burst, toClient, toServer, clock>>

\* The machine or its network is gone, and no packet says so (external).
ClientDies == client = "loop" /\ ClientOver("dead")

Overdue(q) == q # <<>> /\ Head(q).age = MaxDelay

\* A loop has something to do now; a packet that is on its way may take
\* longer, but not more than MaxDelay.
ServerReady ==
  \/ ServerSelects /\ (rx > 0 \/ stimer = Timeout \/ Overdue(toServer))
  \/ ServerSelects /\ client = "over" /\ toServer = <<>>
  \/ ssending # <<>> /\ Len(toClient) < Capacity

ClientReady ==
  \/ ClientSelects /\ (toProxy > 0 \/ ctimer = PingEvery \/ stop \/ Overdue(toClient))
  \/ ClientSelects /\ server = "over" /\ toClient = <<>>
  \/ csending # <<>> /\ Len(toServer) < Capacity

UpTo(n, bound) == IF n < bound THEN n + 1 ELSE bound
Older(p) == IF p.type = "Data" THEN [p EXCEPT !.age = UpTo(@, MaxDelay)]
            ELSE [p EXCEPT !.age = UpTo(@, MaxDelay), !.since = UpTo(@, Wrap - 1)]
AllOlder(q) == [i \in DOMAIN q |-> Older(q[i])]

Waiting(q) == [i \in DOMAIN q |-> [Older(q[i]) EXCEPT !.age = 0]]

Tick ==
  /\ ~ServerReady
  /\ ~ClientReady
  /\ toClient' = AllOlder(toClient)
  /\ toServer' = AllOlder(toServer)
  /\ ssending' = Waiting(ssending)
  /\ csending' = Waiting(csending)
  /\ stimer' = IF ServerSelects THEN stimer + 1 ELSE stimer
  /\ ctimer' = IF ClientSelects THEN ctimer + 1 ELSE ctimer
  /\ clock' = (clock + 1) % Wrap
  /\ burst' = [side \in {"player", "local"} |-> MaxBurst]
  /\ UNCHANGED <<server, rx, client, toProxy, stop>>

ServerNext ==
  \/ ServerMessage \/ ServerReceive \/ ServerSent
  \/ ServerTimeout \/ ServerEof \/ ServerSendFails

ClientNext ==
  \/ ClientMessage \/ ClientReceive \/ ClientPing \/ ClientSent
  \/ ClientControl \/ ClientEof \/ ClientSendFails

Next ==
  \/ ServerNext \/ ClientNext
  \/ PlayerSends \/ LocalSends \/ UserStops \/ ClientDies \/ ServerLeaves \/ ClientLeaves
  \/ Tick

Spec == Init /\ [][Next]_vars

\* A task that can go on is polled again (tokio), a send to nobody fails in
\* the end (TCP), and time passes.  Which of several ready arms select! takes
\* is random, so that an arm that is ready in round after round is taken.
Fairness ==
  /\ WF_vars(ServerNext)
  /\ WF_vars(ClientNext)
  /\ SF_vars(ClientControl)
  /\ WF_vars(Tick)

FairSpec == Spec /\ Fairness

-----------------------------------------------------------------------------
\* The server gives a client up only when it is dead.  A client that talks to
\* the server all the time does not ping, and one that only listens does not
\* either: its sleep starts again with every packet.  The session lives
\* because the same packets start the server's timeout again.
NeverTimedOutAlive == ServerSelects /\ stimer = Timeout => client = "dead"

\* Each loop is in the middle of a send that only the other one can end.
Deadlocked ==
  /\ ssending # <<>> /\ Len(toClient) = Capacity
  /\ csending # <<>> /\ Len(toServer) = Capacity

HasData(q) == \E i \in DOMAIN q : q[i].type = "Data"

\* The two loops can wait for each other forever; but only when players and
\* local connections have both sent data: pings and pongs do not add up to a
\* deadlock, neither by themselves nor with the data of one side.
DeadlockTakesBothWays ==
  Deadlocked => HasData(toClient \o ssending) /\ HasData(toServer \o csending)

\* Mutant: the distance of the two clocks.
Distance(now, then) == IF now > then THEN now - then ELSE then - now

\* time.saturating_sub(ping)
Elapsed(now, then) == IF now > then THEN now - then ELSE 0

\* The ping that is shown is never longer than the packet took, although the
\* clock in it starts again every 65536 milliseconds.
PingNeverOverstates ==
  \A i \in DOMAIN toClient :
    toClient[i].type = "Pong" => Elapsed(clock, toClient[i].stamp) <= toClient[i].since

\* A client that is gone without a word loses its session, also when players
\* keep sending: their packets start the timeout again, but fill the socket.
DeadNoticed == client = "dead" ~> server = "over"

\* The user's disconnect ends the Client, unless the two loops wait for each
\* other: a loop in the middle of a send does not look at control_rx.
DisconnectHeard == stop ~> client # "loop" \/ Deadlocked
=============================================================================
