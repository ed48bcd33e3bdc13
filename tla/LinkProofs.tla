----------------------------- MODULE LinkProofs -----------------------------
(***************************************************************************)
(* Proofs about the link, for any timeout, delay and room in the sockets   *)
(* that LinkAssumption allows: the server never gives up a client that is  *)
(* alive, pings and pongs alone never block the two loops, and no ping is  *)
(* overstated.  Each depends on how old the packets on their way are,      *)
(* compared with the two timers.                                           *)
(***************************************************************************)
EXTENDS Link, FiniteSetTheorems, SequenceTheorems, TLAPS

\* Neither timer runs while its loop sends; a loop that is over has none.
TimersStop ==
  /\ ssending # <<>> => server = "loop" /\ stimer = 0
  /\ csending # <<>> => client = "loop" /\ ctimer = 0
  /\ server = "over" => stimer = 0

\* The timer of the sender was started again when it sent the packet, or since.
SentBefore(q, timer) == \A i \in 1..Len(q) : q[i].age = MaxDelay \/ timer <= q[i].age

Timers == TimersStop /\ SentBefore(toClient, stimer) /\ SentBefore(toServer, ctimer)

\* A client that has nothing to say pings after PingEvery; the packet it heard
\* last was sent up to MaxDelay before, and the ping takes as long again.
MaxSilence == PingEvery + 2 * MaxDelay

Silence ==
  /\ toServer # <<>> => stimer + (MaxDelay - Head(toServer).age) <= MaxSilence
  /\ ClientSelects /\ toServer = <<>> => stimer <= ctimer + MaxDelay
  /\ ClientSelects /\ toClient # <<>> => stimer <= MaxDelay
  /\ csending # <<>> /\ Len(toServer) < Capacity => stimer = 0
  /\ client # "dead" => stimer <= MaxSilence

-----------------------------------------------------------------------------
(* Types *)

LEMMA Constants ==
  /\ Timeout \in Nat /\ PingEvery \in Nat /\ MaxDelay \in Nat /\ Capacity \in Nat
  /\ Wrap \in Nat /\ MaxQueue \in Nat /\ MaxBurst \in Nat
  /\ MaxDelay >= 1 /\ Wrap >= 1
  /\ PingEvery > MaxDelay /\ Timeout > MaxSilence /\ Capacity >= 2
BY LinkAssumption DEF MaxSilence

\* Data: nothing but its age.
LEMMA DataTypes == Data \in ToClient /\ Data \in ToServer /\ Data.age = 0 /\ Data.type = "Data"
BY Constants DEF Data, ToClient, ToServer, DataPacket

LEMMA PacketFields ==
  ASSUME NEW t \in {"Ping", "Pong"}, NEW p \in DataPacket \cup PingPacket(t)
  PROVE  /\ p.age \in 0..MaxDelay /\ p.type \in {"Data", t}
         /\ p.type # "Data" => p \in PingPacket(t) /\ p.stamp \in 0..Wrap - 1 /\ p.since \in 0..Wrap - 1
BY DEF DataPacket, PingPacket

LEMMA OlderTypes ==
  ASSUME NEW t \in {"Ping", "Pong"}, NEW p \in DataPacket \cup PingPacket(t)
  PROVE  /\ Older(p) \in DataPacket \cup PingPacket(t)
         /\ Older(p).type = p.type /\ Older(p).age = UpTo(p.age, MaxDelay)
         /\ p.type # "Data" => /\ Older(p).stamp = p.stamp
                               /\ Older(p).since = UpTo(p.since, Wrap - 1)
         /\ [Older(p) EXCEPT !.age = 0] \in DataPacket \cup PingPacket(t)
         /\ [Older(p) EXCEPT !.age = 0].type = p.type
         /\ p.type # "Data" => /\ [Older(p) EXCEPT !.age = 0].stamp = p.stamp
                               /\ [Older(p) EXCEPT !.age = 0].since = UpTo(p.since, Wrap - 1)
<1>1. UpTo(p.age, MaxDelay) \in 0..MaxDelay /\ 0 \in 0..MaxDelay
  BY PacketFields, Constants DEF UpTo
<1>2. CASE p \in DataPacket
  <2>1. Older(p) = [p EXCEPT !.age = UpTo(@, MaxDelay)] /\ p.type = "Data"
    BY <1>2 DEF Older, DataPacket
  <2>2. Older(p) = [type |-> "Data", age |-> UpTo(p.age, MaxDelay)]
    BY <1>2, <2>1 DEF DataPacket
  <2> QED BY <1>1, <2>1, <2>2 DEF DataPacket
<1>3. CASE p \in PingPacket(t)
  <2>1. UpTo(p.since, Wrap - 1) \in 0..Wrap - 1
    BY <1>3, Constants DEF UpTo, PingPacket
  <2>2. p.type = t /\ t # "Data"
    BY <1>3 DEF PingPacket
  <2>3. Older(p) = [p EXCEPT !.age = UpTo(@, MaxDelay), !.since = UpTo(@, Wrap - 1)]
    BY <2>2 DEF Older
  <2>4. Older(p) = [type |-> t, age |-> UpTo(p.age, MaxDelay), stamp |-> p.stamp,
                    since |-> UpTo(p.since, Wrap - 1)]
    BY <1>3, <2>3 DEF PingPacket
  <2> QED BY <1>1, <1>3, <2>1, <2>2, <2>4 DEF PingPacket
<1> QED BY <1>2, <1>3

\* One tick on the queues of packets, and on the packet that waits.
LEMMA MadeSeq ==
  ASSUME NEW S, NEW n \in Nat, NEW f, f = [i \in 1..n |-> f[i]], \A i \in 1..n : f[i] \in S
  PROVE  f \in Seq(S) /\ Len(f) = n
OBVIOUS

LEMMA QueueOlder ==
  ASSUME NEW t \in {"Ping", "Pong"}, NEW q \in Seq(DataPacket \cup PingPacket(t))
  PROVE  /\ AllOlder(q) \in Seq(DataPacket \cup PingPacket(t)) /\ Len(AllOlder(q)) = Len(q)
         /\ \A i \in 1..Len(q) : AllOlder(q)[i] = Older(q[i])
         /\ Waiting(q) \in Seq(DataPacket \cup PingPacket(t)) /\ Len(Waiting(q)) = Len(q)
         /\ \A i \in 1..Len(q) : Waiting(q)[i] = [Older(q[i]) EXCEPT !.age = 0]
<1> DEFINE S == DataPacket \cup PingPacket(t)
<1>1. \A i \in 1..Len(q) : q[i] \in S
  OBVIOUS
<1>2. \A i \in 1..Len(q) : Older(q[i]) \in S /\ [Older(q[i]) EXCEPT !.age = 0] \in S
  BY <1>1, OlderTypes
<1>3. q \in Seq(S)
  OBVIOUS
<1> HIDE DEF S
<1>4. DOMAIN q = 1..Len(q) /\ Len(q) \in Nat
  BY <1>3
<1>5. AllOlder(q) \in Seq(S) /\ Len(AllOlder(q)) = Len(q)
      /\ \A i \in 1..Len(q) : AllOlder(q)[i] = Older(q[i])
  <2>1. AllOlder(q) = [i \in 1..Len(q) |-> Older(q[i])]
    BY <1>4 DEF AllOlder
  <2>2. \A i \in 1..Len(q) : AllOlder(q)[i] = Older(q[i])
    BY <2>1
  <2>3. AllOlder(q) = [i \in 1..Len(q) |-> AllOlder(q)[i]]
    BY <2>1
  <2>4. \A i \in 1..Len(q) : AllOlder(q)[i] \in S
    BY <1>2, <2>2
  <2> HIDE DEF S
  <2>5. AllOlder(q) \in Seq(S) /\ Len(AllOlder(q)) = Len(q)
    BY <1>4, <2>3, <2>4, MadeSeq
  <2> QED BY <2>2, <2>5
<1>6. Waiting(q) \in Seq(S) /\ Len(Waiting(q)) = Len(q)
      /\ \A i \in 1..Len(q) : Waiting(q)[i] = [Older(q[i]) EXCEPT !.age = 0]
  BY <1>2, <1>4 DEF Waiting
<1> QED BY <1>5, <1>6 DEF S

LEMMA PacketSets ==
  ToClient = DataPacket \cup PingPacket("Pong") /\ ToServer = DataPacket \cup PingPacket("Ping")
BY DEF ToClient, ToServer

LEMMA TypeAndAge ==
  ASSUME NEW A, NEW S, NEW C, NEW n \in A, NEW t, NEW u,
         NEW r \in [type: {t}, age: A, stamp: S, since: C]
  PROVE  [r EXCEPT !.type = u, !.age = n] \in [type: {u}, age: A, stamp: S, since: C]
OBVIOUS

LEMMA PongTypes ==
  ASSUME NEW p \in PingPacket("Ping")
  PROVE  /\ Pong(p) \in ToClient /\ Pong(p).type = "Pong" /\ Pong(p).age = 0
         /\ Pong(p).stamp = p.stamp /\ Pong(p).since = p.since
<1>1. Pong(p) \in PingPacket("Pong")
  <2>1. 0 \in 0..MaxDelay
    BY Constants
  <2> QED BY <2>1, TypeAndAge DEF Pong, PingPacket
<1>2. /\ Pong(p).type = "Pong" /\ Pong(p).age = 0
      /\ Pong(p).stamp = p.stamp /\ Pong(p).since = p.since
  BY DEF Pong, PingPacket
<1> QED BY <1>1, <1>2 DEF ToClient

\* What is read from a queue, and put into it, is of its type.
LEMMA QueueTypes ==
  ASSUME NEW S, NEW q \in Seq(S)
  PROVE  /\ q # <<>> => /\ Head(q) \in S /\ Head(q) = q[1] /\ Tail(q) \in Seq(S)
                        /\ Len(q) >= 1 /\ Len(Tail(q)) = Len(q) - 1
                        /\ \A i \in 1..Len(Tail(q)) : Tail(q)[i] = q[i + 1]
         /\ \A e \in S : /\ Append(q, e) \in Seq(S) /\ Len(Append(q, e)) = Len(q) + 1
                         /\ Append(q, e)[Len(q) + 1] = e
                         /\ \A i \in 1..Len(q) : Append(q, e)[i] = q[i]
         /\ Len(q) \in Nat
         /\ \A i \in 1..Len(q) : q[i] \in S
         /\ q = <<>> <=> Len(q) = 0
OBVIOUS

\* A send ends at once, or leaves the packet in the arm.
LEMMA SendTypes ==
  ASSUME TypeOK
  PROVE  /\ \A p \in ToClient : ServerSend(p) =>
              /\ toClient' \in Seq(ToClient) /\ Len(toClient') <= Capacity
              /\ ssending' \in Seq(ToClient) /\ Len(ssending') <= 1
         /\ \A p \in ToServer : ClientSend(p) =>
              /\ toServer' \in Seq(ToServer) /\ Len(toServer') <= Capacity
              /\ csending' \in Seq(ToServer) /\ Len(csending') <= 1
<1>1. Len(toClient) \in Nat /\ Len(toServer) \in Nat /\ Capacity \in Nat
  BY Constants DEF TypeOK
<1>2. ASSUME NEW p \in ToClient, ServerSend(p)
      PROVE  /\ toClient' \in Seq(ToClient) /\ Len(toClient') <= Capacity
             /\ ssending' \in Seq(ToClient) /\ Len(ssending') <= 1
  <2>1. Append(toClient, p) \in Seq(ToClient) /\ Len(Append(toClient, p)) = Len(toClient) + 1
    BY QueueTypes DEF TypeOK
  <2>2. /\ <<p>> \in Seq(ToClient) /\ Len(<<p>>) = 1
        /\ <<>> \in Seq(ToClient) /\ Len(<<>>) = 0
    OBVIOUS
  <2>3. toClient \in Seq(ToClient) /\ Len(toClient) <= Capacity
    BY DEF TypeOK
  <2>4. CASE Len(toClient) < Capacity
    <3>1. toClient' = Append(toClient, p) /\ ssending' = <<>>
      BY <1>2, <2>4 DEF ServerSend
    <3> QED BY <1>1, <2>1, <2>2, <2>4, <3>1
  <2>5. CASE ~(Len(toClient) < Capacity)
    <3>1. toClient' = toClient /\ ssending' = <<p>>
      BY <1>2, <2>5 DEF ServerSend
    <3> QED BY <2>2, <2>3, <3>1
  <2> QED BY <2>4, <2>5
<1>3. ASSUME NEW p \in ToServer, ClientSend(p)
      PROVE  /\ toServer' \in Seq(ToServer) /\ Len(toServer') <= Capacity
             /\ csending' \in Seq(ToServer) /\ Len(csending') <= 1
  <2>1. Append(toServer, p) \in Seq(ToServer) /\ Len(Append(toServer, p)) = Len(toServer) + 1
    BY QueueTypes DEF TypeOK
  <2>2. /\ <<p>> \in Seq(ToServer) /\ Len(<<p>>) = 1
        /\ <<>> \in Seq(ToServer) /\ Len(<<>>) = 0
    OBVIOUS
  <2>3. toServer \in Seq(ToServer) /\ Len(toServer) <= Capacity
    BY DEF TypeOK
  <2>4. CASE Len(toServer) < Capacity
    <3>1. toServer' = Append(toServer, p) /\ csending' = <<>>
      BY <1>3, <2>4 DEF ClientSend
    <3> QED BY <1>1, <2>1, <2>2, <2>4, <3>1
  <2>5. CASE ~(Len(toServer) < Capacity)
    <3>1. toServer' = toServer /\ csending' = <<p>>
      BY <1>3, <2>5 DEF ClientSend
    <3> QED BY <2>2, <2>3, <3>1
  <2> QED BY <2>4, <2>5
<1> QED BY <1>2, <1>3

LEMMA PingTypes == TypeOK => Ping \in ToServer /\ Ping.type = "Ping" /\ Ping.age = 0
                             /\ Ping.stamp = clock /\ Ping.since = 0
BY Constants DEF TypeOK, Ping, ToServer, PingPacket

LEMMA InitTypes == Init => TypeOK
<1> SUFFICES ASSUME Init PROVE TypeOK
  OBVIOUS
<1>1. <<>> \in Seq(ToClient) /\ <<>> \in Seq(ToServer) /\ Len(<<>>) = 0
  OBVIOUS
<1>2. burst \in [{"player", "local"} -> 0..MaxBurst]
  BY Constants DEF Init
<1>3. Len(<<>>) <= Capacity /\ Len(<<>>) <= 1
  BY <1>1, Constants
<1>4. 0 \in 0..MaxQueue /\ 0 \in 0..Timeout /\ 0 \in 0..PingEvery /\ 0 \in 0..Wrap - 1
  BY Constants
<1> QED BY <1>1, <1>2, <1>3, <1>4 DEF Init, TypeOK

LEMMA ServerTypes ==
  ASSUME TypeOK, ServerNext \/ ServerLeaves
  PROVE  TypeOK'
<1> USE DEF serverVars, clientVars
<1>1. CASE ServerMessage
  <2>1. (ServerSend(Data) \/ UNCHANGED <<toClient, ssending>>) /\ rx' = rx - 1 /\ rx > 0 /\ stimer' = 0
        /\ UNCHANGED <<server, clientVars, burst, toServer, clock>>
    BY <1>1 DEF ServerMessage
  <2>2. /\ toClient' \in Seq(ToClient) /\ Len(toClient') <= Capacity
        /\ ssending' \in Seq(ToClient) /\ Len(ssending') <= 1
    BY <2>1, SendTypes, DataTypes DEF TypeOK
  <2> QED BY <2>1, <2>2, Constants DEF TypeOK
<1>2. CASE ServerReceive
  <2>1. /\ toServer # <<>> /\ toServer' = Tail(toServer) /\ stimer' = 0
        /\ Head(toServer).type = "Ping" => ServerSend(Pong(Head(toServer)))
        /\ Head(toServer).type # "Ping" => UNCHANGED <<toClient, ssending>>
        /\ UNCHANGED <<server, rx, clientVars, burst, clock>>
    BY <1>2 DEF ServerReceive
  <2>2. toServer' \in Seq(ToServer) /\ Len(toServer') <= Capacity /\ Head(toServer) \in ToServer
    BY <2>1, QueueTypes, Constants DEF TypeOK
  <2>3. Head(toServer).type = "Ping" => Pong(Head(toServer)) \in ToClient
    BY <2>2, PongTypes DEF ToServer, DataPacket
  <2>4. /\ toClient' \in Seq(ToClient) /\ Len(toClient') <= Capacity
        /\ ssending' \in Seq(ToClient) /\ Len(ssending') <= 1
    BY <2>1, <2>3, SendTypes DEF TypeOK
  <2> QED BY <2>1, <2>2, <2>4, Constants DEF TypeOK
<1>3. CASE ServerSent
  <2>1. Head(ssending) \in ToClient
    BY <1>3, QueueTypes DEF ServerSent, TypeOK
  <2>2. ServerSend(Head(ssending)) /\ UNCHANGED <<server, stimer, rx, clientVars, burst, toServer, clock>>
    BY <1>3 DEF ServerSent, ServerSend
  <2> QED BY <2>1, <2>2, SendTypes DEF TypeOK
<1>4. CASE ServerOver
  <2>1. <<>> \in Seq(ToClient) /\ Len(<<>>) = 0
    OBVIOUS
  <2> QED BY <1>4, <2>1, Constants DEF ServerOver, TypeOK
<1> QED BY <1>1, <1>2, <1>3, <1>4
      DEF ServerNext, ServerTimeout, ServerEof, ServerSendFails, ServerLeaves

LEMMA ClientTypes ==
  ASSUME TypeOK, ClientNext \/ ClientLeaves \/ ClientDies
  PROVE  TypeOK'
<1> USE DEF serverVars, clientVars
<1>1. CASE ClientMessage
  <2>1. ClientSend(Data) /\ toProxy' = toProxy - 1 /\ toProxy > 0 /\ ctimer' = 0
        /\ UNCHANGED <<client, stop, serverVars, burst, toClient, clock>>
    BY <1>1 DEF ClientMessage
  <2> QED BY <2>1, SendTypes, DataTypes, Constants DEF TypeOK
<1>2. CASE ClientReceive
  <2>1. toClient' \in Seq(ToClient) /\ Len(toClient') <= Capacity
    BY <1>2, QueueTypes, Constants DEF ClientReceive, TypeOK
  <2> QED BY <1>2, <2>1, Constants DEF ClientReceive, TypeOK
<1>3. CASE ClientPing
  <2>1. ClientSend(Ping) /\ ctimer' = 0
        /\ UNCHANGED <<client, toProxy, stop, serverVars, burst, toClient, clock>>
    BY <1>3 DEF ClientPing
  <2> QED BY <2>1, SendTypes, PingTypes, Constants DEF TypeOK
<1>4. CASE ClientSent
  <2>1. Head(csending) \in ToServer
    BY <1>4, QueueTypes DEF ClientSent, TypeOK
  <2>2. ClientSend(Head(csending)) /\ UNCHANGED <<client, ctimer, toProxy, stop, serverVars, burst, toClient, clock>>
    BY <1>4 DEF ClientSent, ClientSend
  <2> QED BY <2>1, <2>2, SendTypes DEF TypeOK
<1>5. ASSUME NEW state \in {"over", "dead"}, ClientOver(state) PROVE TypeOK'
  <2>1. <<>> \in Seq(ToServer) /\ Len(<<>>) = 0
    OBVIOUS
  <2>2. 0 \in 0..MaxQueue /\ 0 \in 0..PingEvery
    BY Constants
  <2>3. client' \in {"loop", "over", "dead"} /\ stop' \in BOOLEAN
    BY <1>5 DEF ClientOver
  <2>4. csending' \in Seq(ToServer) /\ Len(csending') <= 1
    BY <1>5, <2>1 DEF ClientOver
  <2> QED BY <1>5, <2>2, <2>3, <2>4 DEF ClientOver, TypeOK
<1> QED BY <1>1, <1>2, <1>3, <1>4, <1>5
      DEF ClientNext, ClientControl, ClientEof, ClientSendFails, ClientLeaves, ClientDies

\* `as u16` of the clock: it starts again.
LEMMA NextClock ==
  ASSUME NEW now \in 0..Wrap - 1
  PROVE  (now + 1) % Wrap = IF now = Wrap - 1 THEN 0 ELSE now + 1
BY Constants

LEMMA TickTypes ==
  ASSUME TypeOK, Tick
  PROVE  TypeOK'
<1>1. /\ toClient' \in Seq(ToClient) /\ Len(toClient') = Len(toClient)
      /\ ssending' \in Seq(ToClient) /\ Len(ssending') = Len(ssending)
  BY QueueOlder DEF Tick, TypeOK, ToClient
<1>2. /\ toServer' \in Seq(ToServer) /\ Len(toServer') = Len(toServer)
      /\ csending' \in Seq(ToServer) /\ Len(csending') = Len(csending)
  BY QueueOlder DEF Tick, TypeOK, ToServer
<1>3. stimer' \in 0..Timeout /\ ctimer' \in 0..PingEvery
  BY Constants DEF Tick, TypeOK, ServerReady, ClientReady
<1>4. clock' \in 0..Wrap - 1
  BY NextClock, Constants DEF Tick, TypeOK
<1>5. burst' \in [{"player", "local"} -> 0..MaxBurst]
  BY Constants DEF Tick
<1> QED BY <1>1, <1>2, <1>3, <1>4, <1>5 DEF Tick, TypeOK

LEMMA NextTypes == TypeOK /\ [Next]_vars => TypeOK'
<1> SUFFICES ASSUME TypeOK, [Next]_vars PROVE TypeOK'
  OBVIOUS
<1> USE DEF serverVars, clientVars
<1>1. CASE PlayerSends
  <2>1. burst["player"] \in 0..MaxBurst /\ burst["player"] > 0
    BY <1>1 DEF PlayerSends, TypeOK
  <2>2. burst["player"] - 1 \in 0..MaxBurst
    BY <2>1, Constants
  <2>3. burst' \in [{"player", "local"} -> 0..MaxBurst]
    <3>1. burst' = [burst EXCEPT !["player"] = burst["player"] - 1] /\ "player" \in {"player", "local"}
      BY <1>1 DEF PlayerSends
    <3> QED BY <2>2, <3>1 DEF TypeOK
  <2>4. rx' \in 0..MaxQueue
    <3>1. rx \in 0..MaxQueue /\ rx < MaxQueue /\ rx' = rx + 1
      BY <1>1 DEF PlayerSends, TypeOK
    <3> QED BY <3>1, Constants
  <2> QED BY <1>1, <2>3, <2>4 DEF PlayerSends, TypeOK
<1>2. CASE LocalSends
  <2>1. burst["local"] \in 0..MaxBurst /\ burst["local"] > 0
    BY <1>2 DEF LocalSends, TypeOK
  <2>2. burst["local"] - 1 \in 0..MaxBurst
    BY <2>1, Constants
  <2>3. burst' \in [{"player", "local"} -> 0..MaxBurst]
    <3>1. burst' = [burst EXCEPT !["local"] = burst["local"] - 1] /\ "local" \in {"player", "local"}
      BY <1>2 DEF LocalSends
    <3> QED BY <2>2, <3>1 DEF TypeOK
  <2>4. toProxy' \in 0..MaxQueue
    <3>1. toProxy \in 0..MaxQueue /\ toProxy < MaxQueue /\ toProxy' = toProxy + 1
      BY <1>2 DEF LocalSends, TypeOK
    <3> QED BY <3>1, Constants
  <2> QED BY <1>2, <2>3, <2>4 DEF LocalSends, TypeOK
<1>3. CASE UserStops
  BY <1>3 DEF UserStops, TypeOK
<1>4. CASE UNCHANGED vars
  BY <1>4 DEF vars, TypeOK
<1> QED BY <1>1, <1>2, <1>3, <1>4, ServerTypes, ClientTypes, TickTypes DEF Next

\* Every variable of the link keeps its type; among others, no timer passes its
\* end and no socket holds more than it can.
THEOREM LinkTypeCorrect == Spec => []TypeOK
BY InitTypes, NextTypes, PTL DEF Spec

-----------------------------------------------------------------------------
(* Timers *)

LEMMA AtMostSum == \A a, b, c \in Nat : a <= c => a <= b + c
OBVIOUS

LEMMA InitTimers == Init => Timers /\ Silence
<1> SUFFICES ASSUME Init PROVE Timers /\ Silence
  OBVIOUS
<1>1. Len(<<>>) = 0
  OBVIOUS
<1> QED BY <1>1, Constants DEF Init, Timers, TimersStop, SentBefore, Silence, MaxSilence, ClientSelects

\* Whatever is on its way was sent before a timer that starts now.
LEMMA StartedNow ==
  ASSUME NEW t \in {"Ping", "Pong"}, NEW q \in Seq(DataPacket \cup PingPacket(t))
  PROVE  SentBefore(q, 0)
<1>1. \A i \in 1..Len(q) : q[i].age \in Nat
  BY PacketFields, QueueTypes
<1> QED BY <1>1 DEF SentBefore

\* A step of the server as the client and the timers see it.
LEMMA ServerEffect ==
  ASSUME TypeOK, TimersStop, ServerNext \/ ServerLeaves
  PROVE  /\ stimer' = 0 /\ UNCHANGED <<client, csending, ctimer, clock>>
         /\ toServer' = toServer \/ (toServer # <<>> /\ toServer' = Tail(toServer))
         /\ ssending' # <<>> => server' = "loop"
<1>1. CASE ServerMessage \/ ServerReceive
  BY <1>1 DEF ServerMessage, ServerReceive, ServerSelects, clientVars
<1>2. CASE ServerSent
  BY <1>2 DEF ServerSent, TimersStop, clientVars
<1>3. CASE ServerOver
  BY <1>3 DEF ServerOver, clientVars
<1> QED BY <1>1, <1>2, <1>3 DEF ServerNext, ServerTimeout, ServerEof, ServerSendFails, ServerLeaves

\* The same of a step of the client.
LEMMA ClientEffect ==
  ASSUME TypeOK, TimersStop, ClientNext \/ ClientLeaves \/ ClientDies
  PROVE  /\ ctimer' = 0 /\ client = "loop" /\ UNCHANGED <<server, ssending, stimer, clock>>
         /\ toClient' = toClient \/ (toClient # <<>> /\ toClient' = Tail(toClient))
         /\ csending' # <<>> => client' = "loop"
<1>1. CASE ClientMessage \/ ClientReceive \/ ClientPing
  BY <1>1 DEF ClientMessage, ClientReceive, ClientPing, ClientSelects, serverVars
<1>2. CASE ClientSent
  BY <1>2 DEF ClientSent, TimersStop, serverVars
<1>3. ASSUME NEW state, ClientOver(state), client = "loop"
      PROVE  /\ ctimer' = 0 /\ UNCHANGED <<server, ssending, stimer, clock>>
             /\ toClient' = toClient /\ csending' = <<>>
  BY <1>3 DEF ClientOver, serverVars
<1>4. CASE ClientControl \/ ClientEof \/ ClientSendFails \/ ClientLeaves
  <2>1. client = "loop" /\ ClientOver("over")
    BY <1>4 DEF ClientControl, ClientEof, ClientSendFails, ClientLeaves, ClientSelects, TimersStop
  <2> QED BY <1>3, <2>1
<1>5. CASE ClientDies
  BY <1>3, <1>5 DEF ClientDies
<1> QED BY <1>1, <1>2, <1>4, <1>5 DEF ClientNext

LEMMA SentBeforeTail ==
  ASSUME NEW S, NEW q \in Seq(S), q # <<>>, NEW timer, SentBefore(q, timer)
  PROVE  SentBefore(Tail(q), timer)
<1>1. \A i \in 1..Len(Tail(q)) : Tail(q)[i] = q[i + 1] /\ i + 1 \in 1..Len(q)
  BY QueueTypes
<1> QED BY <1>1 DEF SentBefore

LEMMA AgesOlder ==
  ASSUME NEW t \in {"Ping", "Pong"}, NEW q \in Seq(DataPacket \cup PingPacket(t)),
         NEW i \in 1..Len(q)
  PROVE  AllOlder(q)[i].age = UpTo(q[i].age, MaxDelay) /\ q[i].age \in 0..MaxDelay
<1>1. q[i] \in DataPacket \cup PingPacket(t)
  BY QueueTypes
<1>2. AllOlder(q)[i] = Older(q[i])
  BY QueueOlder
<1> QED BY <1>1, <1>2, OlderTypes, PacketFields

LEMMA SentBeforeOlder ==
  ASSUME NEW t \in {"Ping", "Pong"}, NEW q \in Seq(DataPacket \cup PingPacket(t)),
         NEW timer \in Nat, SentBefore(q, timer)
  PROVE  SentBefore(AllOlder(q), timer) /\ SentBefore(AllOlder(q), timer + 1)
<1>1. ASSUME NEW i \in 1..Len(q)
      PROVE  AllOlder(q)[i].age = MaxDelay \/ timer + 1 <= AllOlder(q)[i].age
  <2>1. AllOlder(q)[i].age = UpTo(q[i].age, MaxDelay) /\ q[i].age \in 0..MaxDelay
    BY AgesOlder
  <2>2. q[i].age = MaxDelay \/ timer <= q[i].age
    BY DEF SentBefore
  <2> QED BY <2>1, <2>2, Constants DEF UpTo
<1>2. Len(AllOlder(q)) = Len(q)
  BY QueueOlder
<1>3. ASSUME NEW i \in 1..Len(q), AllOlder(q)[i].age # MaxDelay
      PROVE  timer <= AllOlder(q)[i].age
  <2>1. AllOlder(q)[i].age \in Nat
    BY AgesOlder, Constants DEF UpTo
  <2> QED BY <1>1, <1>3, <2>1
<1> QED BY <1>1, <1>2, <1>3 DEF SentBefore

\* Nothing but time passes for the packet in an arm.
LEMMA WaitingEmpty ==
  ASSUME TypeOK, Tick
  PROVE  /\ ssending' = <<>> <=> ssending = <<>>
         /\ csending' = <<>> <=> csending = <<>>
         /\ toClient' = <<>> <=> toClient = <<>>
         /\ toServer' = <<>> <=> toServer = <<>>
<1>1. /\ ssending' \in Seq(ToClient) /\ Len(ssending') = Len(ssending)
      /\ toClient' \in Seq(ToClient) /\ Len(toClient') = Len(toClient)
  BY QueueOlder DEF Tick, TypeOK, ToClient
<1>2. /\ csending' \in Seq(ToServer) /\ Len(csending') = Len(csending)
      /\ toServer' \in Seq(ToServer) /\ Len(toServer') = Len(toServer)
  BY QueueOlder DEF Tick, TypeOK, ToServer
<1> QED BY <1>1, <1>2, QueueTypes DEF TypeOK

LEMMA TickTimers ==
  ASSUME TypeOK, Timers, Tick
  PROVE  Timers'
<1>1. toClient' = AllOlder(toClient) /\ toServer' = AllOlder(toServer) /\ UNCHANGED <<server, client>>
      /\ (stimer' = stimer \/ (ServerSelects /\ stimer' = stimer + 1))
      /\ (ctimer' = ctimer \/ (ClientSelects /\ ctimer' = ctimer + 1))
  BY DEF Tick
<1>2. TimersStop'
  BY <1>1, WaitingEmpty DEF Timers, TimersStop, ServerSelects, ClientSelects
<1>3. stimer \in Nat /\ ctimer \in Nat
  BY Constants DEF TypeOK
<1>4. SentBefore(AllOlder(toClient), stimer) /\ SentBefore(AllOlder(toClient), stimer + 1)
  BY <1>3, SentBeforeOlder DEF TypeOK, ToClient, Timers
<1>5. SentBefore(AllOlder(toServer), ctimer) /\ SentBefore(AllOlder(toServer), ctimer + 1)
  BY <1>3, SentBeforeOlder DEF TypeOK, ToServer, Timers
<1> QED BY <1>1, <1>2, <1>4, <1>5 DEF Timers

LEMMA NextTimers ==
  ASSUME TypeOK, TypeOK', Timers, [Next]_vars
  PROVE  Timers'
<1>1. CASE ServerNext \/ ServerLeaves
  <2>1. /\ stimer' = 0 /\ UNCHANGED <<client, csending, ctimer>>
        /\ toServer' = toServer \/ (toServer # <<>> /\ toServer' = Tail(toServer))
        /\ ssending' # <<>> => server' = "loop"
    BY <1>1, ServerEffect DEF Timers
  <2>2. SentBefore(toClient', stimer')
    BY <2>1, StartedNow DEF TypeOK, ToClient
  <2>3. SentBefore(toServer', ctimer')
    <3>1. toServer \in Seq(ToServer) /\ SentBefore(toServer, ctimer)
      BY DEF Timers, TypeOK
    <3>2. toServer # <<>> => SentBefore(Tail(toServer), ctimer)
      BY <3>1, SentBeforeTail
    <3> QED BY <2>1, <3>1, <3>2
  <2> QED BY <2>1, <2>2, <2>3 DEF Timers, TimersStop
<1>2. CASE ClientNext \/ ClientLeaves \/ ClientDies
  <2>1. /\ ctimer' = 0 /\ UNCHANGED <<server, ssending, stimer>>
        /\ toClient' = toClient \/ (toClient # <<>> /\ toClient' = Tail(toClient))
        /\ csending' # <<>> => client' = "loop"
    BY <1>2, ClientEffect DEF Timers
  <2>2. SentBefore(toServer', ctimer')
    BY <2>1, StartedNow DEF TypeOK, ToServer
  <2>3. SentBefore(toClient', stimer')
    <3>1. toClient \in Seq(ToClient) /\ SentBefore(toClient, stimer)
      BY DEF Timers, TypeOK
    <3>2. toClient # <<>> => SentBefore(Tail(toClient), stimer)
      BY <3>1, SentBeforeTail
    <3> QED BY <2>1, <3>1, <3>2
  <2> QED BY <2>1, <2>2, <2>3 DEF Timers, TimersStop
<1>3. CASE PlayerSends \/ LocalSends \/ UserStops \/ UNCHANGED vars
  BY <1>3 DEF PlayerSends, LocalSends, UserStops, vars, serverVars, clientVars, Timers, TimersStop
<1> QED BY <1>1, <1>2, <1>3, TickTimers DEF Next

-----------------------------------------------------------------------------
(* The server's timeout *)

\* A timeout that starts now is far from its end.
LEMMA HeardNow ==
  ASSUME TypeOK', stimer' = 0
  PROVE  Silence'
<1>1. toServer' # <<>> => Head(toServer').age \in 0..MaxDelay
  BY QueueTypes, PacketFields DEF TypeOK, ToServer
<1>2. ctimer' \in Nat /\ stimer' \in Nat /\ MaxSilence \in Nat /\ MaxDelay <= MaxSilence
  BY Constants DEF TypeOK, MaxSilence
<1>3. toServer' # <<>> => stimer' + (MaxDelay - Head(toServer').age) <= MaxSilence
  BY <1>1, <1>2, Constants
<1>4. stimer' <= MaxDelay /\ stimer' <= MaxSilence
  BY <1>2, Constants
<1>5. stimer' <= ctimer' + MaxDelay
  BY <1>2, <1>4, Constants, AtMostSum
<1> QED BY <1>3, <1>4, <1>5 DEF Silence

\* What the client sends is on its way behind what it sent before.
LEMMA SendHead ==
  ASSUME TypeOK, NEW p \in ToServer, ClientSend(p)
  PROVE  /\ toServer' # <<>> /\ Head(toServer') = IF toServer = <<>> THEN p ELSE Head(toServer)
         /\ csending' # <<>> => toServer' = toServer /\ Len(toServer) >= Capacity
<1>1. /\ toServer \in Seq(ToServer) /\ Len(toServer) \in Nat
      /\ toServer = <<>> <=> Len(toServer) = 0
  BY QueueTypes DEF TypeOK
<1>2. CASE Len(toServer) < Capacity
  <2>1. toServer' = Append(toServer, p) /\ csending' = <<>>
    BY <1>2 DEF ClientSend
  <2> QED BY <1>1, <2>1
<1>3. CASE ~(Len(toServer) < Capacity)
  <2>1. toServer' = toServer /\ Len(toServer) >= Capacity /\ toServer # <<>>
    BY <1>1, <1>3, Constants DEF ClientSend
  <2> QED BY <2>1
<1> QED BY <1>2, <1>3

\* A message or a ping is sent before the server has heard nothing for long.
LEMMA ClientSendSilence ==
  ASSUME TypeOK, Silence, ClientSelects, NEW p \in ToServer, p.age = 0, ClientSend(p),
         UNCHANGED <<client, stimer, toClient>>
  PROVE  Silence'
<1>1. /\ toServer' # <<>> /\ Head(toServer') = IF toServer = <<>> THEN p ELSE Head(toServer)
      /\ csending' # <<>> => toServer' = toServer /\ Len(toServer) >= Capacity
  BY SendHead
<1>2. ctimer \in 0..PingEvery /\ stimer \in 0..Timeout
  BY DEF TypeOK
<1>3. stimer' + (MaxDelay - Head(toServer').age) <= MaxSilence
  <2>1. CASE toServer = <<>>
    <3>1. stimer <= ctimer + MaxDelay /\ Head(toServer').age = 0
      BY <1>1, <2>1 DEF Silence
    <3> QED BY <1>2, <3>1, Constants DEF MaxSilence
  <2>2. CASE toServer # <<>>
    BY <1>1, <2>2 DEF Silence
  <2> QED BY <2>1, <2>2
<1>4. Len(toServer) \in Nat
  BY DEF TypeOK
<1>5. csending' # <<>> => ~(Len(toServer') < Capacity)
  BY <1>1, <1>4, Constants
<1>6. ClientSelects' /\ toClient' # <<>> => stimer' <= MaxDelay
  BY DEF Silence, ClientSelects
<1> QED BY <1>1, <1>3, <1>5, <1>6 DEF Silence

LEMMA ClientSilence ==
  ASSUME TypeOK, TypeOK', Timers, Silence, ClientNext \/ ClientLeaves \/ ClientDies
  PROVE  Silence'
<1>1. CASE ClientMessage
  <2>1. ClientSelects /\ ClientSend(Data) /\ UNCHANGED <<client, stimer, toClient>>
    BY <1>1 DEF ClientMessage, serverVars
  <2> QED BY <2>1, DataTypes, ClientSendSilence
<1>2. CASE ClientPing
  <2>1. ClientSelects /\ ClientSend(Ping) /\ UNCHANGED <<client, stimer, toClient>>
    BY <1>2 DEF ClientPing, serverVars
  <2> QED BY <2>1, PingTypes, ClientSendSilence
<1>3. CASE ClientReceive
  <2>1. ClientSelects /\ toClient # <<>> /\ UNCHANGED <<client, csending, stimer, toServer>>
    BY <1>3 DEF ClientReceive, serverVars
  <2>2. stimer <= MaxDelay
    BY <2>1 DEF Silence
  <2>3. stimer' \in Nat /\ ctimer' \in Nat /\ MaxDelay \in Nat /\ stimer' <= MaxDelay
    BY <2>1, <2>2, Constants DEF TypeOK
  <2>4. stimer' <= ctimer' + MaxDelay
    BY <2>3, AtMostSum
  <2> QED BY <2>1, <2>3, <2>4 DEF Silence, ClientSelects
<1>4. CASE ClientSent
  <2>1. stimer' = 0
    BY <1>4 DEF ClientSent, Silence, serverVars
  <2> QED BY <2>1, HeardNow
<1>5. CASE ClientControl \/ ClientEof \/ ClientSendFails \/ ClientLeaves \/ ClientDies
  <2>1. /\ client' # "loop" /\ csending' = <<>> /\ client = "loop"
        /\ UNCHANGED <<toServer, stimer>>
    BY <1>5, ClientEffect DEF ClientControl, ClientEof, ClientSendFails, ClientLeaves, ClientDies,
      ClientOver, serverVars, ClientNext, Timers
  <2> QED BY <2>1 DEF Silence, ClientSelects
<1> QED BY <1>1, <1>2, <1>3, <1>4, <1>5 DEF ClientNext

\* The first packet of a queue grows older, too.
LEMMA HeadOlder ==
  ASSUME TypeOK, Tick
  PROVE  /\ toServer # <<>> => Head(toServer').age = UpTo(Head(toServer).age, MaxDelay)
                               /\ Head(toServer).age \in 0..MaxDelay
         /\ toClient # <<>> => Head(toClient').age = UpTo(Head(toClient).age, MaxDelay)
                               /\ Head(toClient).age \in 0..MaxDelay
<1>1. ASSUME NEW t \in {"Ping", "Pong"}, NEW q \in Seq(DataPacket \cup PingPacket(t)), q # <<>>
      PROVE  Head(AllOlder(q)).age = UpTo(Head(q).age, MaxDelay) /\ Head(q).age \in 0..MaxDelay
  <2>1. /\ Head(q) \in DataPacket \cup PingPacket(t) /\ Head(q) = q[1] /\ 1 \in 1..Len(q)
        /\ AllOlder(q) \in Seq(DataPacket \cup PingPacket(t)) /\ Len(AllOlder(q)) = Len(q)
    BY <1>1, QueueTypes, QueueOlder
  <2>2. AllOlder(q) # <<>> /\ Head(AllOlder(q)) = AllOlder(q)[1]
    BY <2>1, QueueTypes
  <2>3. AllOlder(q)[1].age = UpTo(q[1].age, MaxDelay) /\ q[1].age \in 0..MaxDelay
    BY <2>1, AgesOlder
  <2> QED BY <2>1, <2>2, <2>3
<1> QED BY <1>1 DEF Tick, TypeOK, ToClient, ToServer

LEMMA TickSilence ==
  ASSUME TypeOK, TypeOK', Timers, Silence, Tick
  PROVE  Silence'
<1>1. CASE stimer' = 0
  BY <1>1, HeardNow
<1>2. CASE stimer' # 0 /\ stimer' # stimer + 1
  \* Only for a server that is over, or sends.
  <2>1. stimer' = stimer /\ ~ServerSelects
    BY <1>2 DEF Tick
  <2> QED BY <1>2, <2>1 DEF ServerSelects, Timers, TimersStop, TypeOK
<1>3. CASE stimer' = stimer + 1
  <2>1. stimer \in Nat /\ ctimer \in Nat /\ UNCHANGED <<server, client>>
    BY Constants DEF TypeOK, Tick
  <2>2. ServerSelects
    BY <1>3, <2>1 DEF Tick
  <2>3. ~Overdue(toServer) /\ ~(client = "over" /\ toServer = <<>>)
    BY <2>2 DEF Tick, ServerReady
  <2>4. toServer # <<>> => stimer' + (MaxDelay - Head(toServer').age) <= MaxSilence
    <3>1. SUFFICES ASSUME toServer # <<>>
          PROVE  stimer' + (MaxDelay - Head(toServer').age) <= MaxSilence
      OBVIOUS
    <3>2. Head(toServer').age = Head(toServer).age + 1 /\ Head(toServer).age \in 0..MaxDelay
      BY <2>3, <3>1, HeadOlder, Constants DEF Overdue, UpTo
    <3>3. stimer + (MaxDelay - Head(toServer).age) <= MaxSilence /\ MaxSilence \in Nat
      BY <3>1, Constants DEF Silence, MaxSilence
    <3> QED BY <1>3, <2>1, <3>2, <3>3, Constants
  <2>5. ClientSelects /\ toServer = <<>> => stimer' <= ctimer' + MaxDelay
    <3>1. SUFFICES ASSUME ClientSelects, toServer = <<>> PROVE stimer' <= ctimer' + MaxDelay
      OBVIOUS
    <3>2. stimer <= ctimer + MaxDelay /\ ctimer' = ctimer + 1
      BY <3>1 DEF Silence, Tick
    <3> QED BY <1>3, <2>1, <3>2, Constants
  <2>6. ClientSelects /\ toClient # <<>> => stimer' <= MaxDelay
    <3>1. SUFFICES ASSUME ClientSelects, toClient # <<>> PROVE stimer' <= MaxDelay
      OBVIOUS
    <3>2. ~Overdue(toClient)
      BY <3>1 DEF Tick, ClientReady
    <3>3. toClient[1].age # MaxDelay /\ toClient[1].age \in 0..MaxDelay /\ 1 \in 1..Len(toClient)
      <4>1. Head(toClient).age # MaxDelay /\ Head(toClient).age \in 0..MaxDelay
        BY <3>1, <3>2, HeadOlder DEF Overdue
      <4>2. Head(toClient) = toClient[1] /\ Len(toClient) >= 1 /\ Len(toClient) \in Nat
        BY <3>1, QueueTypes DEF TypeOK
      <4> QED BY <4>1, <4>2
    <3>4. stimer <= toClient[1].age
      BY <3>3 DEF Timers, SentBefore
    <3> QED BY <1>3, <2>1, <3>3, <3>4, Constants
  <2>7. ~(csending # <<>> /\ Len(toServer) < Capacity)
    BY DEF Tick, ClientReady
  <2>8. Len(toServer') = Len(toServer)
    BY QueueOlder DEF Tick, TypeOK, ToServer
  <2>9. ASSUME client # "dead" PROVE stimer' <= MaxSilence
    <3>1. CASE toServer # <<>>
      <4>1. Head(toServer').age \in 0..MaxDelay
        <5>1. toServer' # <<>>
          BY <3>1, WaitingEmpty
        <5> QED BY <5>1, QueueTypes, PacketFields DEF TypeOK, ToServer
      <4> QED BY <2>1, <1>3, <2>4, <3>1, <4>1, Constants DEF MaxSilence
    <3>2. CASE toServer = <<>>
      <4>1. ClientSelects
        <5>1. client = "loop"
          BY <2>3, <2>9, <3>2 DEF TypeOK
        <5>2. csending = <<>>
          BY <2>7, <3>2, Constants
        <5> QED BY <5>1, <5>2 DEF ClientSelects
      <4>2. ctimer' \in Nat /\ ctimer' <= PingEvery /\ stimer' \in Nat
        BY Constants DEF TypeOK
      <4>3. stimer' <= ctimer' + MaxDelay
        BY <2>5, <3>2, <4>1
      <4>4. \A s, c \in Nat : c <= PingEvery /\ s <= c + MaxDelay => s <= MaxSilence
        BY Constants DEF MaxSilence
      <4> QED BY <4>2, <4>3, <4>4
    <3> QED BY <3>1, <3>2
  <2>10. ClientSelects' <=> ClientSelects
    BY <2>1, WaitingEmpty DEF ClientSelects
  <2> QED BY <2>1, <2>4, <2>5, <2>6, <2>7, <2>8, <2>9, <2>10, WaitingEmpty DEF Silence
<1> QED BY <1>1, <1>2, <1>3

LEMMA NextSilence ==
  ASSUME TypeOK, TypeOK', Timers, Silence, [Next]_vars
  PROVE  Silence'
<1>1. CASE ServerNext \/ ServerLeaves
  BY <1>1, ServerEffect, HeardNow DEF Timers
<1>2. CASE PlayerSends \/ LocalSends \/ UserStops \/ UNCHANGED vars
  BY <1>2 DEF PlayerSends, LocalSends, UserStops, vars, serverVars, clientVars, Silence, ClientSelects
<1> QED BY <1>1, <1>2, ClientSilence, TickSilence DEF Next

LEMMA SilenceAlways == Spec => [](TypeOK /\ Timers /\ Silence)
<1>1. (TypeOK /\ Timers /\ Silence) /\ [Next]_vars => (TypeOK /\ Timers /\ Silence)'
  BY NextTypes, NextTimers, NextSilence
<1> QED BY <1>1, InitTypes, InitTimers, PTL DEF Spec

\* The server never gives up a client that is alive: it hears from it within
\* MaxSilence, whatever the rounds of the two loops were ended by.
THEOREM OnlyTheDeadTimeOut == Spec => []NeverTimedOutAlive
<1>1. TypeOK /\ Timers /\ Silence => NeverTimedOutAlive
  <2> SUFFICES ASSUME TypeOK, Silence, stimer = Timeout, client # "dead" PROVE FALSE
    BY DEF NeverTimedOutAlive
  <2> QED BY Constants DEF Silence, TypeOK, MaxSilence
<1> QED BY <1>1, SilenceAlways, PTL

-----------------------------------------------------------------------------
(* The ping that is shown *)

\* The clock has come no further since a ping was sent than time has, wherever
\* the ping or its pong is.
TrueOf(p, now) == p.type # "Data" => now - p.stamp <= p.since
Truthful(q, now) == \A i \in 1..Len(q) : TrueOf(q[i], now)

Truth ==
  /\ Truthful(toClient, clock) /\ Truthful(toServer, clock)
  /\ Truthful(ssending, clock) /\ Truthful(csending, clock)

LEMMA InitTruth == Init => Truth
BY DEF Init, Truth, Truthful

LEMMA TruthQueue ==
  ASSUME NEW S, NEW q \in Seq(S), NEW now, Truthful(q, now)
  PROVE  /\ q # <<>> => TrueOf(Head(q), now) /\ Truthful(Tail(q), now)
         /\ \A p \in S : TrueOf(p, now) => Truthful(Append(q, p), now)
<1>1. q # <<>> => TrueOf(Head(q), now) /\ Truthful(Tail(q), now)
  <2>1. q # <<>> => /\ Head(q) = q[1] /\ 1 \in 1..Len(q)
                    /\ \A i \in 1..Len(Tail(q)) : Tail(q)[i] = q[i + 1] /\ i + 1 \in 1..Len(q)
    BY QueueTypes
  <2> QED BY <2>1 DEF Truthful
<1>2. ASSUME NEW p \in S, TrueOf(p, now) PROVE Truthful(Append(q, p), now)
  <2>1. \A i \in 1..Len(Append(q, p)) :
          Append(q, p)[i] = p \/ (i \in 1..Len(q) /\ Append(q, p)[i] = q[i])
    BY QueueTypes
  <2> QED BY <1>2, <2>1 DEF Truthful
<1> QED BY <1>1, <1>2

\* Nothing, and one packet.
LEMMA TruthOne ==
  ASSUME NEW now
  PROVE  /\ Truthful(<<>>, now)
         /\ \A p : TrueOf(p, now) => Truthful(<<p>>, now)
BY DEF Truthful

\* What is sent is as true on its way as in the arm.
LEMMA SendTruth ==
  ASSUME TypeOK, Truth
  PROVE  /\ \A p \in ToClient : ServerSend(p) /\ TrueOf(p, clock)
              => Truthful(toClient', clock) /\ Truthful(ssending', clock)
         /\ \A p \in ToServer : ClientSend(p) /\ TrueOf(p, clock)
              => Truthful(toServer', clock) /\ Truthful(csending', clock)
<1>1. /\ toClient \in Seq(ToClient) /\ toServer \in Seq(ToServer)
      /\ Truthful(toClient, clock) /\ Truthful(toServer, clock)
  BY DEF TypeOK, Truth
<1>2. ASSUME NEW p \in ToClient, ServerSend(p), TrueOf(p, clock)
      PROVE  Truthful(toClient', clock) /\ Truthful(ssending', clock)
  <2>1. Truthful(Append(toClient, p), clock) /\ Truthful(<<p>>, clock) /\ Truthful(<<>>, clock)
    BY <1>1, <1>2, TruthQueue, TruthOne
  <2> QED BY <1>1, <1>2, <2>1 DEF ServerSend
<1>3. ASSUME NEW p \in ToServer, ClientSend(p), TrueOf(p, clock)
      PROVE  Truthful(toServer', clock) /\ Truthful(csending', clock)
  <2>1. Truthful(Append(toServer, p), clock) /\ Truthful(<<p>>, clock) /\ Truthful(<<>>, clock)
    BY <1>1, <1>3, TruthQueue, TruthOne
  <2> QED BY <1>1, <1>3, <2>1 DEF ClientSend
<1> QED BY <1>2, <1>3

LEMMA DataTrue == TrueOf(Data, clock)
BY DataTypes DEF TrueOf

LEMMA ServerTruth ==
  ASSUME TypeOK, TimersStop, Truth, ServerNext \/ ServerLeaves
  PROVE  Truth'
<1>1. /\ clock' = clock /\ csending' = csending
      /\ toServer' = toServer \/ (toServer # <<>> /\ toServer' = Tail(toServer))
  BY ServerEffect
<1>2. Truthful(toServer', clock) /\ Truthful(csending', clock)
  <2>1. toServer \in Seq(ToServer) /\ Truthful(toServer, clock) /\ Truthful(csending, clock)
    BY DEF TypeOK, Truth
  <2>2. toServer # <<>> => Truthful(Tail(toServer), clock)
    BY <2>1, TruthQueue
  <2> QED BY <1>1, <2>1, <2>2
<1>3. Truthful(toClient, clock) /\ Truthful(ssending, clock)
  BY DEF Truth
<1>4. Truthful(toClient', clock) /\ Truthful(ssending', clock)
  <2>1. CASE ServerMessage
    <3>1. ServerSend(Data) \/ UNCHANGED <<toClient, ssending>>
      BY <2>1 DEF ServerMessage
    <3> QED BY <1>3, <3>1, SendTruth, DataTypes, DataTrue
  <2>2. CASE ServerReceive
    <3>1. toServer # <<>> /\ Head(toServer) \in ToServer /\ TrueOf(Head(toServer), clock)
      BY <2>2, QueueTypes, TruthQueue DEF ServerReceive, TypeOK, Truth
    <3>2. CASE Head(toServer).type = "Ping"
      <4>1. Head(toServer) \in PingPacket("Ping")
        BY <3>1, <3>2 DEF ToServer, DataPacket
      <4>2. Pong(Head(toServer)) \in ToClient /\ TrueOf(Pong(Head(toServer)), clock)
        BY <3>1, <3>2, <4>1, PongTypes DEF TrueOf
      <4>3. ServerSend(Pong(Head(toServer)))
        BY <2>2, <3>2 DEF ServerReceive
      <4> QED BY <4>2, <4>3, SendTruth
    <3>3. CASE Head(toServer).type # "Ping"
      BY <1>3, <2>2, <3>3 DEF ServerReceive
    <3> QED BY <3>2, <3>3
  <2>3. CASE ServerSent
    <3>1. ssending # <<>> /\ ServerSend(Head(ssending))
      BY <2>3 DEF ServerSent, ServerSend
    <3>2. Head(ssending) \in ToClient /\ TrueOf(Head(ssending), clock)
      BY <3>1, QueueTypes, TruthQueue DEF TypeOK, Truth
    <3> QED BY <3>1, <3>2, SendTruth
  <2>4. CASE ServerOver
    BY <1>3, <2>4, TruthOne DEF ServerOver
  <2> QED BY <2>1, <2>2, <2>3, <2>4
        DEF ServerNext, ServerTimeout, ServerEof, ServerSendFails, ServerLeaves
<1> QED BY <1>1, <1>2, <1>4 DEF Truth

LEMMA ClientTruth ==
  ASSUME TypeOK, TimersStop, Truth, ClientNext \/ ClientLeaves \/ ClientDies
  PROVE  Truth'
<1>1. /\ clock' = clock /\ ssending' = ssending
      /\ toClient' = toClient \/ (toClient # <<>> /\ toClient' = Tail(toClient))
  BY ClientEffect
<1>2. Truthful(toClient', clock) /\ Truthful(ssending', clock)
  <2>1. toClient \in Seq(ToClient) /\ Truthful(toClient, clock) /\ Truthful(ssending, clock)
    BY DEF TypeOK, Truth
  <2>2. toClient # <<>> => Truthful(Tail(toClient), clock)
    BY <2>1, TruthQueue
  <2> QED BY <1>1, <2>1, <2>2
<1>3. Truthful(toServer, clock) /\ Truthful(csending, clock)
  BY DEF Truth
<1>4. Truthful(toServer', clock) /\ Truthful(csending', clock)
  <2>1. CASE ClientMessage
    BY <2>1, SendTruth, DataTypes, DataTrue DEF ClientMessage
  <2>2. CASE ClientPing
    <3>1. Ping \in ToServer /\ TrueOf(Ping, clock)
      <4>1. clock \in Int /\ clock - clock <= 0
        BY DEF TypeOK
      <4> QED BY <4>1, PingTypes DEF TrueOf
    <3> QED BY <2>2, <3>1, SendTruth DEF ClientPing
  <2>3. CASE ClientSent
    <3>1. csending # <<>> /\ ClientSend(Head(csending))
      BY <2>3 DEF ClientSent, ClientSend
    <3>2. Head(csending) \in ToServer /\ TrueOf(Head(csending), clock)
      BY <3>1, QueueTypes, TruthQueue DEF TypeOK, Truth
    <3> QED BY <3>1, <3>2, SendTruth
  <2>4. CASE ClientReceive
    BY <1>3, <2>4 DEF ClientReceive, serverVars
  <2>5. ASSUME NEW state, ClientOver(state)
        PROVE  Truthful(toServer', clock) /\ Truthful(csending', clock)
    BY <1>3, <2>5, TruthOne DEF ClientOver
  <2> QED BY <2>1, <2>2, <2>3, <2>4, <2>5
        DEF ClientNext, ClientControl, ClientEof, ClientSendFails, ClientLeaves, ClientDies
<1> QED BY <1>1, <1>2, <1>4 DEF Truth

\* Time passes for the clock and for the packet; the clock may start again.
LEMMA TrueOlder ==
  ASSUME NEW t \in {"Ping", "Pong"}, NEW p \in DataPacket \cup PingPacket(t),
         NEW now \in 0..Wrap - 1, TrueOf(p, now)
  PROVE  TrueOf(Older(p), (now + 1) % Wrap) /\ TrueOf([Older(p) EXCEPT !.age = 0], (now + 1) % Wrap)
<1>1. CASE p.type = "Data"
  BY <1>1, OlderTypes DEF TrueOf
<1>2. CASE p.type # "Data"
  <2>1. p.stamp \in 0..Wrap - 1 /\ p.since \in 0..Wrap - 1
    BY <1>2, PacketFields
  <2>2. now - p.stamp <= p.since
    BY <1>2 DEF TrueOf
  <2>3. ((now + 1) % Wrap) - p.stamp <= UpTo(p.since, Wrap - 1)
    BY <2>1, <2>2, NextClock, Constants DEF UpTo
  <2> QED BY <1>2, <2>3, OlderTypes DEF TrueOf
<1> QED BY <1>1, <1>2

LEMMA TickTruth ==
  ASSUME TypeOK, Truth, Tick
  PROVE  Truth'
<1>1. ASSUME NEW t \in {"Ping", "Pong"}, NEW q \in Seq(DataPacket \cup PingPacket(t)),
             Truthful(q, clock)
      PROVE  Truthful(AllOlder(q), (clock + 1) % Wrap) /\ Truthful(Waiting(q), (clock + 1) % Wrap)
  <2>1. ASSUME NEW i \in 1..Len(q)
        PROVE  /\ TrueOf(AllOlder(q)[i], (clock + 1) % Wrap)
               /\ TrueOf(Waiting(q)[i], (clock + 1) % Wrap)
    <3>1. q[i] \in DataPacket \cup PingPacket(t) /\ TrueOf(q[i], clock) /\ clock \in 0..Wrap - 1
      BY <1>1, QueueTypes DEF TypeOK, Truthful
    <3>2. AllOlder(q)[i] = Older(q[i]) /\ Waiting(q)[i] = [Older(q[i]) EXCEPT !.age = 0]
      BY QueueOlder
    <3> QED BY <3>1, <3>2, TrueOlder
  <2>2. Len(AllOlder(q)) = Len(q) /\ Len(Waiting(q)) = Len(q)
    BY QueueOlder
  <2> QED BY <2>1, <2>2 DEF Truthful
<1>2. clock' = (clock + 1) % Wrap
  BY DEF Tick
<1>3. Truthful(toClient', clock') /\ Truthful(ssending', clock')
  BY <1>1, <1>2 DEF Tick, TypeOK, ToClient, Truth
<1>4. Truthful(toServer', clock') /\ Truthful(csending', clock')
  BY <1>1, <1>2 DEF Tick, TypeOK, ToServer, Truth
<1> QED BY <1>3, <1>4 DEF Truth

LEMMA TruthAlways == Spec => [](TypeOK /\ Timers /\ Truth)
<1>1. (TypeOK /\ Timers /\ Truth) /\ [Next]_vars => (TypeOK /\ Timers /\ Truth)'
  <2> SUFFICES ASSUME TypeOK, Timers, Truth, [Next]_vars PROVE (TypeOK /\ Timers /\ Truth)'
    OBVIOUS
  <2>1. Truth'
    <3>1. CASE PlayerSends \/ LocalSends \/ UserStops \/ UNCHANGED vars
      <4>1. UNCHANGED <<toClient, toServer, ssending, csending, clock>>
        BY <3>1 DEF PlayerSends, LocalSends, UserStops, vars, serverVars, clientVars
      <4> QED BY <4>1 DEF Truth
    <3> QED BY <3>1, ServerTruth, ClientTruth, TickTruth DEF Next, Timers
  <2> QED BY <2>1, NextTypes, NextTimers
<1> QED BY <1>1, InitTypes, InitTimers, InitTruth, PTL DEF Spec

\* The ping that is shown never exceeds the time that the packet took, although
\* the clock in it wraps around.
THEOREM PingsNeverOverstate == Spec => []PingNeverOverstates
<1>1. TypeOK /\ Truth => PingNeverOverstates
  <2> SUFFICES ASSUME TypeOK, Truth, NEW i \in DOMAIN toClient, toClient[i].type = "Pong"
        PROVE  Elapsed(clock, toClient[i].stamp) <= toClient[i].since
    BY DEF PingNeverOverstates
  <2>1. i \in 1..Len(toClient) /\ toClient[i] \in DataPacket \cup PingPacket("Pong")
    BY QueueTypes DEF TypeOK, ToClient
  <2>2. toClient[i].stamp \in Nat /\ toClient[i].since \in Nat /\ clock \in Nat
    BY <2>1, PacketFields, Constants DEF TypeOK
  <2>3. clock - toClient[i].stamp <= toClient[i].since
    BY <2>1 DEF Truth, Truthful, TrueOf
  <2> QED BY <2>2, <2>3 DEF Elapsed
<1> QED BY <1>1, TruthAlways, PTL

-----------------------------------------------------------------------------
(* Pings and pongs alone *)

\* The pings and pongs of a queue, and how many there are.
Probes(q) == {i \in 1..Len(q) : q[i].type # "Data"}
Count(q) == Cardinality(Probes(q))
One(p) == IF p.type = "Data" THEN 0 ELSE 1

LEMMA CountTypes ==
  ASSUME NEW S, NEW q \in Seq(S)
  PROVE  /\ IsFiniteSet(Probes(q)) /\ Count(q) \in Nat
         /\ Count(q) = 0 <=> Probes(q) = {}
         /\ (\A i \in 1..Len(q) : q[i].type # "Data") => Count(q) = Len(q)
<1>1. Len(q) \in Nat /\ IsFiniteSet(1..Len(q)) /\ Cardinality(1..Len(q)) = Len(q)
  <2>1. 1 \in Int /\ Len(q) \in Int /\ Len(q) \in Nat
    OBVIOUS
  <2>2. IsFiniteSet(1..Len(q)) /\ Cardinality(1..Len(q)) = IF 1 > Len(q) THEN 0 ELSE Len(q) - 1 + 1
    BY <2>1, FS_Interval
  <2> QED BY <2>1, <2>2
<1>2. IsFiniteSet(Probes(q))
  BY <1>1, FS_Subset DEF Probes
<1>3. (\A i \in 1..Len(q) : q[i].type # "Data") => Probes(q) = 1..Len(q)
  BY DEF Probes
<1> QED BY <1>1, <1>2, <1>3, FS_CardinalityType, FS_EmptySet DEF Count

LEMMA CountAppend ==
  ASSUME NEW S, NEW q \in Seq(S), NEW p \in S
  PROVE  Count(Append(q, p)) = Count(q) + One(p)
<1> DEFINE r == Append(q, p)
<1>1. /\ Len(q) \in Nat /\ Len(r) = Len(q) + 1 /\ r[Len(q) + 1] = p
      /\ \A i \in 1..Len(q) : r[i] = q[i]
  BY QueueTypes
<1> HIDE DEF r
<1>2. CASE p.type = "Data"
  <2>1. Probes(r) = Probes(q)
    BY <1>1, <1>2 DEF Probes
  <2> QED BY <1>2, <2>1, CountTypes DEF Count, One, r
<1>3. CASE p.type # "Data"
  <2>1. Probes(r) = Probes(q) \cup {Len(q) + 1} /\ Len(q) + 1 \notin Probes(q)
    BY <1>1, <1>3 DEF Probes
  <2> QED BY <1>3, <2>1, CountTypes, FS_AddElement DEF Count, One, r
<1> QED BY <1>2, <1>3

\* The places move to the front by one, which is a bijection.
LEMMA CountTail ==
  ASSUME NEW S, NEW q \in Seq(S), q # <<>>
  PROVE  Count(q) = Count(Tail(q)) + One(Head(q))
<1> DEFINE r == Tail(q)
           later == Probes(q) \ {1}
           move == [i \in later |-> i - 1]
<1>1. /\ Len(q) \in Nat /\ Len(q) >= 1 /\ Len(r) = Len(q) - 1 /\ Head(q) = q[1]
      /\ \A i \in 1..Len(r) : r[i] = q[i + 1]
  BY QueueTypes
<1>2. r \in Seq(S)
  BY QueueTypes
<1> HIDE DEF r
<1>3. IsFiniteSet(later) /\ IsFiniteSet(Probes(q))
      /\ Count(q) = Cardinality(later) + One(Head(q))
  <2>1. IsFiniteSet(Probes(q)) /\ Cardinality(Probes(q)) \in Nat
    BY CountTypes, FS_CardinalityType
  <2>2. /\ IsFiniteSet(later)
        /\ Cardinality(later) = IF 1 \in Probes(q) THEN Cardinality(Probes(q)) - 1
                                ELSE Cardinality(Probes(q))
    BY <2>1, FS_RemoveElement
  <2>3. 1 \in Probes(q) <=> Head(q).type # "Data"
    BY <1>1 DEF Probes
  <2> QED BY <2>1, <2>2, <2>3 DEF Count, One
<1>4. move \in Bijection(later, Probes(r))
  <2>1. \A i \in later : i \in 2..Len(q) /\ q[i].type # "Data"
    BY <1>1 DEF Probes
  <2>2. \A i \in later : i - 1 \in Probes(r)
    BY <1>1, <2>1 DEF Probes
  <2>3. \A k \in Probes(r) : k + 1 \in later /\ k \in Nat /\ (k + 1) - 1 = k
    BY <1>1 DEF Probes
  <2>4. \A i, j \in later : move[i] = move[j] => i = j
    BY <2>1
  <2>5. \A k \in Probes(r) : \E i \in later : move[i] = k
    BY <2>3
  <2>6. move \in [later -> Probes(r)]
    BY <2>2
  <2> HIDE DEF move
  <2> QED BY <2>4, <2>5, <2>6 DEF Bijection, Injection, Surjection, IsInjective
<1>5. Cardinality(Probes(r)) = Cardinality(later)
  <2>1. ExistsBijection(later, Probes(r))
    BY <1>4 DEF ExistsBijection
  <2> QED BY <1>3, <2>1, FS_Bijection
<1> QED BY <1>3, <1>5 DEF Count, r

LEMMA CountSmall ==
  /\ Count(<<>>) = 0 /\ Probes(<<>>) = {}
  /\ \A p : Count(<<p>>) = One(p) /\ (One(p) = 1 => Probes(<<p>>) # {})
<1>1. Probes(<<>>) = {} /\ Count(<<>>) = 0
  BY FS_EmptySet DEF Probes, Count
<1>2. ASSUME NEW p PROVE Count(<<p>>) = One(p) /\ (One(p) = 1 => Probes(<<p>>) # {})
  <2>1. Probes(<<p>>) = IF p.type = "Data" THEN {} ELSE {1}
    BY DEF Probes
  <2> QED BY <2>1, FS_EmptySet, FS_Singleton DEF Count, One
<1> QED BY <1>1, <1>2

\* Time changes no packet into another.
LEMMA CountOlder ==
  ASSUME NEW t \in {"Ping", "Pong"}, NEW q \in Seq(DataPacket \cup PingPacket(t))
  PROVE  Probes(AllOlder(q)) = Probes(q) /\ Probes(Waiting(q)) = Probes(q)
<1>1. ASSUME NEW i \in 1..Len(q)
      PROVE  AllOlder(q)[i].type = q[i].type /\ Waiting(q)[i].type = q[i].type
  <2>1. q[i] \in DataPacket \cup PingPacket(t)
    BY QueueTypes
  <2>2. AllOlder(q)[i] = Older(q[i]) /\ Waiting(q)[i] = [Older(q[i]) EXCEPT !.age = 0]
    BY QueueOlder
  <2> QED BY <2>1, <2>2, OlderTypes
<1>2. Len(AllOlder(q)) = Len(q) /\ Len(Waiting(q)) = Len(q)
  BY QueueOlder
<1> QED BY <1>1, <1>2 DEF Probes

Both == server = "loop" /\ client = "loop"

\* Pings and pongs under way.
Pending == Count(toClient) + Count(ssending) + Count(toServer) + Count(csending)

AtMostTwo == Both => Pending <= 2

\* While there are two, the client has sent the second one or heard something
\* since what will reach it next was sent: its next ping is far.
SecondIsFresh ==
  (Both /\ Pending >= 2 /\ ClientSelects) =>
    IF toClient = <<>> THEN ctimer = 0 ELSE ctimer <= Head(toClient).age

\* And the first one is so late that the server has answered it, or does so
\* before time passes.
FirstIsLate ==
  (Both /\ Pending >= 2) =>
    \/ Probes(toClient) # {}
    \/ Probes(ssending) # {}
    \/ \E i \in Probes(toServer) : \A j \in 1..i : toServer[j].age = MaxDelay

Few == AtMostTwo /\ SecondIsFresh /\ FirstIsLate

LEMMA InitFew == Init => Few
BY CountSmall DEF Init, Few, AtMostTwo, SecondIsFresh, FirstIsLate, Pending

\* The packet in an arm is one.
LEMMA Arm ==
  ASSUME NEW S, NEW q \in Seq(S), Len(q) <= 1, q # <<>>
  PROVE  Count(q) = One(Head(q)) /\ Head(q) \in S
<1>1. Head(q) \in S /\ Tail(q) = <<>>
  BY QueueTypes
<1>2. One(Head(q)) \in Nat
  BY DEF One
<1>3. Count(q) = Count(Tail(q)) + One(Head(q))
  BY CountTail
<1>4. Count(Tail(q)) = 0
  BY <1>1, CountSmall
<1> QED BY <1>1, <1>2, <1>3, <1>4

\* A send moves a packet into the socket or into the arm; what was there stays
\* where it is.
SentTo(q, r, rest, p) ==
  \/ r = Append(q, p) /\ rest = <<>>
  \/ r = q /\ rest = <<p>>

LEMMA Sends ==
  ASSUME NEW S, NEW q \in Seq(S), NEW r, NEW rest, NEW p \in S, SentTo(q, r, rest, p)
  PROVE  /\ Count(r) + Count(rest) = Count(q) + One(p)
         /\ Count(r) \in Nat /\ Count(rest) \in Nat /\ Count(q) \in Nat
         /\ \A i \in 1..Len(q) : i \in 1..Len(r) /\ r[i] = q[i]
         /\ Probes(q) \subseteq Probes(r)
         /\ One(p) = 1 => Probes(r) # {} \/ Probes(rest) # {}
         /\ q # <<>> => r # <<>> /\ Head(r) = Head(q)
<1>1. Count(q) \in Nat /\ Count(Append(q, p)) \in Nat /\ Count(Append(q, p)) = Count(q) + One(p)
  <2>1. Append(q, p) \in Seq(S)
    BY QueueTypes
  <2> QED BY <2>1, CountTypes, CountAppend
<1>2. /\ Append(q, p) \in Seq(S) /\ Len(q) \in Nat /\ Len(Append(q, p)) = Len(q) + 1
      /\ Append(q, p)[Len(q) + 1] = p
      /\ \A i \in 1..Len(q) : Append(q, p)[i] = q[i]
  BY QueueTypes
<1>3. One(p) \in Nat /\ (One(p) = 1 <=> p.type # "Data")
  BY DEF One
<1>4. CASE r = Append(q, p) /\ rest = <<>>
  <2>1. \A i \in 1..Len(q) : i \in 1..Len(r) /\ r[i] = q[i]
    BY <1>2, <1>4
  <2>2. Probes(q) \subseteq Probes(r)
    BY <2>1 DEF Probes
  <2>3. One(p) = 1 => Len(q) + 1 \in Probes(r)
    BY <1>2, <1>3, <1>4 DEF Probes
  <2>4. q # <<>> => r # <<>> /\ Head(r) = Head(q)
    <3>1. q # <<>> => Head(q) = q[1] /\ 1 \in 1..Len(q)
      BY QueueTypes
    <3>2. r # <<>> => Head(r) = r[1]
      BY <1>2, <1>4, QueueTypes
    <3>3. r # <<>>
      BY <1>2, <1>4, QueueTypes
    <3> QED BY <2>1, <3>1, <3>2, <3>3
  <2>5. Count(rest) = 0
    BY <1>4, CountSmall
  <2> QED BY <1>1, <1>4, <2>1, <2>2, <2>3, <2>4, <2>5
<1>5. CASE r = q /\ rest = <<p>>
  BY <1>1, <1>3, <1>5, CountSmall
<1> QED BY <1>4, <1>5 DEF SentTo

LEMMA ServerFew ==
  ASSUME TypeOK, TypeOK', TimersStop, Few, ServerMessage \/ ServerReceive \/ ServerSent
  PROVE  Few'
<1>1. UNCHANGED <<server, client, csending, ctimer>>
  BY DEF ServerMessage, ServerReceive, ServerSent, clientVars
<1>2. (ClientSelects' <=> ClientSelects) /\ (Both' <=> Both)
  BY <1>1 DEF ClientSelects, Both
<1>3. /\ toClient \in Seq(ToClient) /\ toServer \in Seq(ToServer) /\ ssending \in Seq(ToClient)
      /\ csending \in Seq(ToServer) /\ Len(ssending) <= 1
  BY DEF TypeOK
<1>4. /\ Count(toClient) \in Nat /\ Count(toServer) \in Nat
      /\ Count(ssending) \in Nat /\ Count(csending) \in Nat
  BY <1>3, CountTypes
<1>5. Count(<<>>) = 0 /\ Probes(<<>>) = {}
  BY CountSmall
<1> DEFINE Late(q) == \E i \in Probes(q) : \A j \in 1..i : q[j].age = MaxDelay
           Keeps == /\ Pending' = Pending
                    /\ toClient = <<>> \/ (toClient' # <<>> /\ Head(toClient') = Head(toClient))
                    /\ (Probes(toClient) # {} \/ Probes(ssending) # {} \/ Late(toServer))
                         => (Probes(toClient') # {} \/ Probes(ssending') # {} \/ Late(toServer'))
<1>6. Keeps => Few'
  <2> SUFFICES ASSUME Keeps PROVE Few'
    OBVIOUS
  <2>1. AtMostTwo' /\ FirstIsLate'
    BY <1>2 DEF Few, AtMostTwo, FirstIsLate
  <2>2. SecondIsFresh'
    <3>1. SUFFICES ASSUME Both, Pending >= 2, ClientSelects
          PROVE  IF toClient' = <<>> THEN ctimer' = 0 ELSE ctimer' <= Head(toClient').age
      BY <1>2 DEF SecondIsFresh
    <3>2. IF toClient = <<>> THEN ctimer = 0 ELSE ctimer <= Head(toClient).age
      BY <3>1 DEF Few, SecondIsFresh
    <3>3. toClient' # <<>> => Head(toClient').age \in Nat
      <4>1. toClient' \in Seq(DataPacket \cup PingPacket("Pong"))
        BY DEF TypeOK, ToClient
      <4>2. toClient' # <<>> => Head(toClient') \in DataPacket \cup PingPacket("Pong")
        BY <4>1, QueueTypes
      <4> QED BY <4>2, PacketFields
    <3> QED BY <1>1, <3>2, <3>3
  <2> QED BY <2>1, <2>2 DEF Few
<1> HIDE DEF Late
<1>7. CASE ServerMessage
  <2>1. ssending = <<>> /\ toServer' = toServer /\ (ServerSend(Data) \/ UNCHANGED <<toClient, ssending>>)
    BY <1>7 DEF ServerMessage, ServerSelects
  <2>2. CASE UNCHANGED <<toClient, ssending>>
    BY <1>1, <1>6, <2>1, <2>2 DEF Pending
  <2>3. CASE ServerSend(Data)
    <3>1. /\ Count(toClient') + Count(ssending') = Count(toClient) + One(Data)
          /\ Count(toClient') \in Nat /\ Count(ssending') \in Nat
          /\ Probes(toClient) \subseteq Probes(toClient')
          /\ toClient # <<>> => toClient' # <<>> /\ Head(toClient') = Head(toClient)
      <4>1. SentTo(toClient, toClient', ssending', Data)
        BY <2>3 DEF ServerSend, SentTo
      <4>2. Data \in ToClient
        BY DataTypes
      <4> QED BY <1>3, <4>1, <4>2, Sends
    <3>2. One(Data) = 0 /\ Count(ssending) = 0 /\ Probes(ssending) = {}
      BY <1>5, <2>1, DataTypes DEF One
    <3>3. Pending' = Pending
      BY <1>1, <1>4, <2>1, <3>1, <3>2 DEF Pending
    <3> QED BY <1>6, <2>1, <3>1, <3>2, <3>3
  <2> QED BY <2>1, <2>2, <2>3
<1>8. CASE ServerReceive
  <2> DEFINE h == Head(toServer)
  <2>1. ssending = <<>> /\ toServer # <<>> /\ toServer' = Tail(toServer)
    BY <1>8 DEF ServerReceive, ServerSelects
  <2>2. /\ h \in ToServer /\ h = toServer[1] /\ Len(toServer) >= 1
        /\ Len(toServer) \in Nat /\ Len(toServer') = Len(toServer) - 1
        /\ \A i \in 1..Len(toServer') : toServer'[i] = toServer[i + 1]
        /\ toServer' \in Seq(ToServer)
    BY <1>3, <2>1, QueueTypes
  <2>3. Count(toServer) = Count(toServer') + One(h) /\ Count(toServer') \in Nat
    BY <1>3, <2>1, <2>2, CountTail, CountTypes
  <2>4. ASSUME Late(toServer), h.type = "Data"
        PROVE  Late(toServer')
    <3>1. PICK i \in Probes(toServer) : \A j \in 1..i : toServer[j].age = MaxDelay
      BY <2>4 DEF Late
    <3>2. i # 1 /\ i \in 1..Len(toServer) /\ toServer[i].type # "Data"
      BY <2>2, <2>4, <3>1 DEF Probes
    <3>3. i - 1 \in Probes(toServer')
      BY <2>2, <3>2 DEF Probes
    <3>4. \A j \in 1..i - 1 : toServer'[j].age = MaxDelay
      BY <2>2, <3>1, <3>2
    <3> QED BY <3>3, <3>4 DEF Late
  <2>5. CASE h.type = "Ping"
    <3>1. h \in PingPacket("Ping")
      BY <2>2, <2>5 DEF ToServer, DataPacket
    <3>2. Pong(h) \in ToClient /\ One(Pong(h)) = 1 /\ One(h) = 1
      BY <2>5, <3>1, PongTypes DEF One
    <3>3. ServerSend(Pong(h))
      BY <1>8, <2>5 DEF ServerReceive
    <3>4. /\ Count(toClient') + Count(ssending') = Count(toClient) + One(Pong(h))
          /\ Count(toClient') \in Nat /\ Count(ssending') \in Nat
          /\ Probes(toClient') # {} \/ Probes(ssending') # {}
          /\ toClient # <<>> => toClient' # <<>> /\ Head(toClient') = Head(toClient)
      <4>1. SentTo(toClient, toClient', ssending', Pong(h))
        BY <3>3 DEF ServerSend, SentTo
      <4> QED BY <1>3, <3>2, <4>1, Sends
    <3>5. Pending' = Pending
      BY <1>1, <1>4, <1>5, <2>1, <2>3, <3>2, <3>4 DEF Pending
    <3> QED BY <1>6, <3>4, <3>5
  <2>6. CASE h.type # "Ping"
    <3>1. UNCHANGED <<toClient, ssending>>
      BY <1>8, <2>6 DEF ServerReceive
    <3>2. h.type = "Data" /\ One(h) = 0
      BY <2>2, <2>6, PacketFields DEF ToServer, One
    <3>3. Pending' = Pending
      BY <1>1, <1>4, <2>3, <3>1, <3>2 DEF Pending
    <3> QED BY <1>6, <2>4, <3>1, <3>2, <3>3
  <2> QED BY <2>5, <2>6
<1>9. CASE ServerSent
  <2> DEFINE p == Head(ssending)
  <2>1. /\ ssending # <<>> /\ toClient' = Append(toClient, p) /\ ssending' = <<>> /\ toServer' = toServer
    BY <1>9 DEF ServerSent
  <2>2. p \in ToClient /\ Count(ssending) = One(p)
    BY <1>3, <2>1, Arm
  <2>3. /\ Count(toClient') + Count(ssending') = Count(toClient) + One(p)
        /\ Count(toClient') \in Nat /\ Count(ssending') \in Nat
        /\ Probes(toClient) \subseteq Probes(toClient')
        /\ One(p) = 1 => Probes(toClient') # {} \/ Probes(ssending') # {}
        /\ toClient # <<>> => toClient' # <<>> /\ Head(toClient') = Head(toClient)
    <3>1. SentTo(toClient, toClient', ssending', p)
      BY <2>1 DEF SentTo
    <3> HIDE DEF p
    <3> QED BY <1>3, <2>2, <3>1, Sends
  <2>4. Probes(ssending) # {} => One(p) = 1
    <3>1. One(p) \in {0, 1}
      BY DEF One
    <3> QED BY <1>3, <2>2, <3>1, CountTypes
  <2>5. Pending' = Pending
    BY <1>1, <1>4, <2>1, <2>2, <2>3 DEF Pending
  <2> QED BY <1>6, <2>1, <2>3, <2>4, <2>5
<1> QED BY <1>7, <1>8, <1>9

\* While there are two, a client that selects does not ping.
LEMMA NoThirdPing ==
  ASSUME TypeOK, Few, Both, ClientSelects, ctimer = PingEvery
  PROVE  ~(Pending >= 2)
<1>1. CASE toClient = <<>>
  BY <1>1, Constants DEF Few, SecondIsFresh
<1>2. CASE toClient # <<>>
  <2>1. Head(toClient).age \in 0..MaxDelay
    BY <1>2, QueueTypes, PacketFields DEF TypeOK, ToClient
  <2>2. Pending >= 2 => ctimer <= Head(toClient).age
    BY <1>2 DEF Few, SecondIsFresh
  <2> QED BY <2>1, <2>2, Constants
<1> QED BY <1>1, <1>2

LEMMA ClientFew ==
  ASSUME TypeOK, TypeOK', Timers, Few, ClientMessage \/ ClientReceive \/ ClientPing \/ ClientSent
  PROVE  Few'
<1>1. UNCHANGED <<server, client, ssending>> /\ ctimer' = 0
  <2>1. CASE ClientMessage \/ ClientReceive \/ ClientPing
    BY <2>1 DEF ClientMessage, ClientReceive, ClientPing, serverVars
  <2>2. CASE ClientSent
    BY <2>2 DEF ClientSent, serverVars, Timers, TimersStop
  <2> QED BY <2>1, <2>2
<1>2. Both' <=> Both
  BY <1>1 DEF Both
<1>3. /\ toClient \in Seq(ToClient) /\ toServer \in Seq(ToServer) /\ ssending \in Seq(ToClient)
      /\ csending \in Seq(ToServer) /\ Len(csending) <= 1
  BY DEF TypeOK
<1>4. /\ Count(toClient) \in Nat /\ Count(toServer) \in Nat
      /\ Count(ssending) \in Nat /\ Count(csending) \in Nat
      /\ Count(toClient) = 0 <=> Probes(toClient) = {}
      /\ Count(toServer) = 0 <=> Probes(toServer) = {}
      /\ Count(ssending) = 0 <=> Probes(ssending) = {}
  BY <1>3, CountTypes
<1>5. Count(<<>>) = 0
  BY CountSmall
<1>6. SecondIsFresh'
  <2>1. toClient' \in Seq(DataPacket \cup PingPacket("Pong"))
    BY DEF TypeOK, ToClient
  <2>2. toClient' # <<>> => Head(toClient') \in DataPacket \cup PingPacket("Pong")
    BY <2>1, QueueTypes
  <2>3. toClient' # <<>> => Head(toClient').age \in Nat
    BY <2>2, PacketFields
  <2> QED BY <1>1, <2>3 DEF SecondIsFresh
<1> DEFINE Late(q) == \E i \in Probes(q) : \A j \in 1..i : q[j].age = MaxDelay
           AllThere == \A i \in 1..Len(toServer) : i \in 1..Len(toServer') /\ toServer'[i] = toServer[i]
<1>7. AllThere /\ Late(toServer) => Late(toServer')
  <2>1. SUFFICES ASSUME AllThere, NEW i \in Probes(toServer), \A j \in 1..i : toServer[j].age = MaxDelay
        PROVE  Late(toServer')
    OBVIOUS
  <2>2. i \in 1..Len(toServer) /\ toServer[i].type # "Data" /\ Len(toServer) \in Nat
    BY <1>3 DEF Probes
  <2>3. i \in Probes(toServer')
    BY <2>1, <2>2 DEF Probes
  <2>4. \A j \in 1..i : j \in 1..Len(toServer)
    BY <2>2
  <2>5. \A j \in 1..i : toServer'[j].age = MaxDelay
    BY <2>1, <2>4
  <2> QED BY <2>3, <2>5
<1> HIDE DEF Late, AllThere
<1>8. FirstIsLate <=> ((Both /\ Pending >= 2) => (Probes(toClient) # {} \/ Probes(ssending) # {} \/ Late(toServer)))
  BY DEF FirstIsLate, Late
<1>9. FirstIsLate' <=> ((Both' /\ Pending' >= 2) => (Probes(toClient') # {} \/ Probes(ssending') # {} \/ Late(toServer')))
  BY DEF FirstIsLate, Late
<1>10. CASE ClientMessage \/ ClientSent
  <2>1. toClient' = toClient
    BY <1>10 DEF ClientMessage, ClientSent
  <2>2. Count(toServer') + Count(csending') = Count(toServer) + Count(csending) /\ AllThere
        /\ Count(toServer') \in Nat /\ Count(csending') \in Nat
    <3>1. CASE ClientMessage
      <4>1. SentTo(toServer, toServer', csending', Data) /\ Data \in ToServer
        BY <3>1, DataTypes DEF ClientMessage, ClientSend, SentTo
      <4>2. One(Data) = 0 /\ Count(csending) = 0
        BY <1>5, <3>1, DataTypes DEF One, ClientMessage, ClientSelects
      <4> QED BY <1>3, <1>4, <4>1, <4>2, Sends DEF AllThere
    <3>2. CASE ClientSent
      <4> DEFINE p == Head(csending)
      <4>1. csending # <<>> /\ SentTo(toServer, toServer', csending', p)
        BY <3>2 DEF ClientSent, SentTo
      <4>2. p \in ToServer /\ Count(csending) = One(p)
        BY <1>3, <4>1, Arm
      <4> HIDE DEF p
      <4> QED BY <1>3, <1>4, <4>1, <4>2, Sends DEF AllThere
    <3> QED BY <1>10, <3>1, <3>2
  <2>3. Pending' = Pending
    BY <1>1, <1>4, <2>1, <2>2 DEF Pending
  <2>4. AtMostTwo'
    BY <1>2, <2>3 DEF Few, AtMostTwo
  <2>5. FirstIsLate'
    BY <1>1, <1>2, <1>7, <1>8, <1>9, <2>1, <2>2, <2>3 DEF Few
  <2> QED BY <1>6, <2>4, <2>5 DEF Few
<1>11. CASE ClientReceive
  <2>1. toClient # <<>> /\ toClient' = Tail(toClient) /\ UNCHANGED <<toServer, csending>>
    BY <1>11 DEF ClientReceive
  <2>2. toClient' \in Seq(ToClient)
    BY <1>3, <2>1, QueueTypes
  <2>3. /\ Count(toClient) = Count(toClient') + One(Head(toClient)) /\ Count(toClient') \in Nat
        /\ Count(toClient') = 0 <=> Probes(toClient') = {}
    BY <1>3, <2>1, <2>2, CountTail, CountTypes
  <2>4. One(Head(toClient)) \in {0, 1}
    BY DEF One
  <2>5. Pending' = Pending - One(Head(toClient)) /\ Pending' \in Nat /\ Pending \in Nat
    <3>1. One(Head(toClient)) \in Nat
      BY <2>4
    <3>2. \E c \in Nat : Pending' = Count(toClient') + c /\ Pending = Count(toClient) + c
      <4>1. /\ Pending' = Count(toClient') + Count(ssending) + Count(toServer) + Count(csending)
            /\ Pending = Count(toClient) + Count(ssending) + Count(toServer) + Count(csending)
        BY <1>1, <2>1 DEF Pending
      <4>2. \A a, b, c, d \in Nat : a + b + c + d = a + (b + c + d) /\ b + c + d \in Nat
        OBVIOUS
      <4> DEFINE c == Count(ssending) + Count(toServer) + Count(csending)
      <4>3. Pending' = Count(toClient') + c /\ Pending = Count(toClient) + c /\ c \in Nat
        BY <1>4, <2>3, <4>1, <4>2
      <4> HIDE DEF c
      <4> QED BY <4>3
    <3>3. \A a, e, o, c \in Nat : a = e + o => /\ e + c = (a + c) - o
                                             /\ e + c \in Nat /\ a + c \in Nat
      OBVIOUS
    <3> QED BY <1>4, <2>3, <3>1, <3>2, <3>3
  <2>6. Both => Pending <= 2
    BY DEF Few, AtMostTwo
  <2>7. AtMostTwo'
    BY <1>2, <2>4, <2>5, <2>6 DEF AtMostTwo
  <2>8. Both /\ Pending' >= 2 => One(Head(toClient)) = 0 /\ Pending >= 2
    BY <2>4, <2>5, <2>6
  <2>9. One(Head(toClient)) = 0 => (Probes(toClient) # {} => Probes(toClient') # {})
    BY <1>4, <2>3
  <2>10. FirstIsLate'
    BY <1>1, <1>2, <1>8, <1>9, <2>1, <2>8, <2>9 DEF Few, Late
  <2> QED BY <1>6, <2>7, <2>10 DEF Few
<1>12. CASE ClientPing
  <2>1. ClientSelects /\ ctimer = PingEvery /\ toClient' = toClient /\ csending = <<>>
    BY <1>12 DEF ClientPing, ClientSelects
  <2>2. SentTo(toServer, toServer', csending', Ping) /\ Ping \in ToServer /\ One(Ping) = 1
    BY <1>12, PingTypes DEF ClientPing, ClientSend, SentTo, One
  <2>3. Count(toServer') + Count(csending') = Count(toServer) + 1 /\ AllThere
        /\ Count(toServer') \in Nat /\ Count(csending') \in Nat
    BY <1>3, <2>2, Sends DEF AllThere
  <2>4. Count(csending) = 0
    BY <1>5, <2>1
  <2>5. Pending' = Pending + 1 /\ Pending \in Nat
    <3>1. /\ Pending' = Count(toClient) + Count(ssending) + Count(toServer') + Count(csending')
          /\ Pending = Count(toClient) + Count(ssending) + Count(toServer) + 0
      BY <1>1, <2>1, <2>4 DEF Pending
    <3> QED BY <1>4, <2>3, <3>1
  <2>6. Both => ~(Pending >= 2)
    BY <2>1, NoThirdPing
  <2>7. AtMostTwo'
    BY <1>2, <2>5, <2>6 DEF AtMostTwo
  <2>8. Both /\ Pending' >= 2 => Probes(toClient) # {} \/ Probes(ssending) # {} \/ Probes(toServer) # {}
    BY <1>4, <2>4, <2>5 DEF Pending
  <2>9. Probes(toServer) # {} => Late(toServer)
    <3>1. \A i \in 1..Len(toServer) : toServer[i].age = MaxDelay
      <4>1. \A i \in 1..Len(toServer) : toServer[i].age = MaxDelay \/ PingEvery <= toServer[i].age
        BY <2>1 DEF Timers, SentBefore
      <4>2. \A i \in 1..Len(toServer) : toServer[i].age \in 0..MaxDelay
        BY <1>3, QueueTypes, PacketFields DEF ToServer
      <4> QED BY <4>1, <4>2, Constants
    <3>2. \A i \in Probes(toServer) : \A j \in 1..i : j \in 1..Len(toServer)
      BY <1>3 DEF Probes
    <3> QED BY <3>1, <3>2 DEF Late
  <2>10. FirstIsLate'
    BY <1>1, <1>2, <1>7, <1>9, <2>1, <2>3, <2>8, <2>9
  <2> QED BY <1>6, <2>7, <2>10 DEF Few
<1> QED BY <1>10, <1>11, <1>12

LEMMA TickFew ==
  ASSUME TypeOK, TypeOK', Few, Tick
  PROVE  Few'
<1>1. /\ Probes(toClient') = Probes(toClient) /\ Probes(ssending') = Probes(ssending)
  BY CountOlder DEF Tick, TypeOK, ToClient
<1>2. /\ Probes(toServer') = Probes(toServer) /\ Probes(csending') = Probes(csending)
  BY CountOlder DEF Tick, TypeOK, ToServer
<1>3. Pending' = Pending /\ (Both' <=> Both) /\ UNCHANGED client
  BY <1>1, <1>2 DEF Pending, Count, Both, Tick
<1>4. ClientSelects' <=> ClientSelects
  BY <1>3, WaitingEmpty DEF ClientSelects
<1>5. AtMostTwo'
  BY <1>3 DEF Few, AtMostTwo
<1>6. ASSUME NEW i \in 1..Len(toServer), toServer[i].age = MaxDelay
      PROVE  toServer'[i].age = MaxDelay
  <2>1. toServer' = AllOlder(toServer) /\ toServer \in Seq(DataPacket \cup PingPacket("Ping"))
    BY DEF Tick, TypeOK, ToServer
  <2>2. toServer'[i].age = UpTo(toServer[i].age, MaxDelay)
    BY <2>1, AgesOlder
  <2> QED BY <1>6, <2>2, Constants DEF UpTo
<1>7. FirstIsLate'
  <2>1. SUFFICES ASSUME Both, Pending >= 2, Probes(toClient) = {}, Probes(ssending) = {}
        PROVE  \E i \in Probes(toServer') : \A j \in 1..i : toServer'[j].age = MaxDelay
    BY <1>1, <1>3 DEF FirstIsLate
  <2>2. PICK i \in Probes(toServer) : \A j \in 1..i : toServer[j].age = MaxDelay
    BY <2>1 DEF Few, FirstIsLate
  <2>3. \A j \in 1..i : j \in 1..Len(toServer)
    BY DEF Probes, TypeOK
  <2> QED BY <1>2, <1>6, <2>2, <2>3
<1>8. SecondIsFresh'
  <2>1. SUFFICES ASSUME Both, Pending >= 2, ClientSelects
        PROVE  IF toClient' = <<>> THEN ctimer' = 0 ELSE ctimer' <= Head(toClient').age
    BY <1>3, <1>4 DEF SecondIsFresh
  <2>2. CASE toClient = <<>>
    <3>1. ServerReady
      <4>1. CASE ssending # <<>>
        <5>1. Len(toClient) = 0
          BY <2>2
        <5> QED BY <4>1, <5>1, Constants DEF ServerReady
      <4>2. CASE ssending = <<>>
        <5>1. Probes(toClient) = {} /\ Probes(ssending) = {}
          BY <2>2, <4>2, CountSmall
        <5>2. PICK i \in Probes(toServer) : \A j \in 1..i : toServer[j].age = MaxDelay
          BY <2>1, <5>1 DEF Few, FirstIsLate
        <5>3. toServer # <<>> /\ 1 \in 1..i
          <6>1. i \in 1..Len(toServer) /\ Len(toServer) \in Nat
            BY DEF Probes, TypeOK
          <6>2. Len(<<>>) = 0
            OBVIOUS
          <6> QED BY <6>1, <6>2
        <5>4. Head(toServer).age = MaxDelay
          <6>1. Head(toServer) = toServer[1]
            BY <5>3, QueueTypes DEF TypeOK
          <6> QED BY <5>2, <5>3, <6>1
        <5> QED BY <2>1, <4>2, <5>3, <5>4 DEF ServerReady, ServerSelects, Both, Overdue
      <4> QED BY <4>1, <4>2
    <3> QED BY <3>1 DEF Tick
  <2>3. CASE toClient # <<>>
    <3>1. ~Overdue(toClient)
      BY <2>1 DEF Tick, ClientReady
    <3>2. Head(toClient').age = Head(toClient).age + 1 /\ Head(toClient).age \in 0..MaxDelay
      BY <2>3, <3>1, HeadOlder, Constants DEF Overdue, UpTo
    <3>3. ctimer <= Head(toClient).age /\ ctimer' = ctimer + 1 /\ ctimer \in Nat
      BY <2>1, <2>3, Constants DEF Few, SecondIsFresh, Tick, TypeOK
    <3>4. ctimer' <= Head(toClient').age
      BY <3>2, <3>3, Constants
    <3> QED BY <2>3, <3>4, WaitingEmpty
  <2> QED BY <2>2, <2>3
<1> QED BY <1>5, <1>7, <1>8 DEF Few

LEMMA NextFew ==
  ASSUME TypeOK, TypeOK', Timers, Few, [Next]_vars
  PROVE  Few'
<1>1. CASE ServerOver
  BY <1>1 DEF ServerOver, Few, AtMostTwo, SecondIsFresh, FirstIsLate, Both
<1>2. ASSUME NEW state \in {"over", "dead"}, ClientOver(state) PROVE Few'
  BY <1>2 DEF ClientOver, Few, AtMostTwo, SecondIsFresh, FirstIsLate, Both
<1>3. CASE PlayerSends \/ LocalSends \/ UserStops \/ UNCHANGED vars
  <2>1. UNCHANGED <<toClient, toServer, ssending, csending, ctimer, server, client>>
    BY <1>3 DEF PlayerSends, LocalSends, UserStops, vars, serverVars, clientVars
  <2> QED BY <2>1 DEF Few, AtMostTwo, SecondIsFresh, FirstIsLate, Both, Pending, ClientSelects
<1>4. CASE ServerMessage \/ ServerReceive \/ ServerSent
  BY <1>4, ServerFew DEF Timers
<1> QED
  BY <1>1, <1>2, <1>3, <1>4, ClientFew, TickFew
  DEF Next, ServerNext, ServerTimeout, ServerEof, ServerSendFails, ServerLeaves,
      ClientNext, ClientControl, ClientEof, ClientSendFails, ClientLeaves, ClientDies

LEMMA FewAlways == Spec => [](TypeOK /\ Timers /\ Few)
<1>1. (TypeOK /\ Timers /\ Few) /\ [Next]_vars => (TypeOK /\ Timers /\ Few)'
  BY NextTypes, NextTimers, NextFew
<1> QED BY <1>1, InitTypes, InitTimers, InitFew, PTL DEF Spec

\* The places of a socket and of the arm behind it.
LEMMA SocketAndArm ==
  ASSUME NEW S, NEW q \in Seq(S), NEW a \in Seq(S), Len(a) = 1
  PROVE  /\ DOMAIN (q \o a) = 1..Len(q) + 1
         /\ \A i \in 1..Len(q) : i \in 1..Len(q) + 1 /\ (q \o a)[i] = q[i]
         /\ Len(q) + 1 \in 1..Len(q) + 1 /\ (q \o a)[Len(q) + 1] = a[1]
<1>1. Len(q) \in Nat /\ q \o a \in Seq(S) /\ Len(q \o a) = Len(q) + 1
  <2>1. q \o a \in Seq(S) /\ Len(q \o a) = Len(q) + Len(a)
    BY ConcatProperties
  <2>2. Len(q) \in Nat
    BY QueueTypes
  <2> QED BY <2>1, <2>2
<1>2. \A i \in 1..Len(q) + 1 : (q \o a)[i] = IF i <= Len(q) THEN q[i] ELSE a[i - Len(q)]
  <2>1. \A i \in 1..Len(q) + Len(a) : (q \o a)[i] = IF i <= Len(q) THEN q[i] ELSE a[i - Len(q)]
    BY ConcatProperties
  <2> QED BY <2>1
<1>3. DOMAIN (q \o a) = 1..Len(q) + 1
  BY <1>1
<1>4. Len(q) + 1 \in 1..Len(q) + 1 /\ ~(Len(q) + 1 <= Len(q)) /\ (Len(q) + 1) - Len(q) = 1
      /\ \A i \in 1..Len(q) : i \in 1..Len(q) + 1 /\ i <= Len(q)
  BY <1>1
<1> QED BY <1>2, <1>3, <1>4

\* A socket and an arm that hold no data hold three pings or pongs.
LEMMA FullOfProbes ==
  ASSUME NEW S, NEW q \in Seq(S), NEW a \in Seq(S), Len(q) = Capacity, Len(a) = 1, ~HasData(q \o a)
  PROVE  Count(q) + Count(a) >= 3
<1>1. \A i \in DOMAIN (q \o a) : (q \o a)[i].type # "Data"
  BY DEF HasData
<1>2. (\A i \in 1..Len(q) : q[i].type # "Data") /\ a[1].type # "Data"
  BY <1>1, SocketAndArm
<1>3. \A i \in 1..Len(a) : i = 1
  OBVIOUS
<1>4. Count(q) = Len(q) /\ Count(a) = Len(a)
  BY <1>2, <1>3, CountTypes
<1> QED BY <1>4, Constants

\* The two loops only wait for each other when both directions hold data.
THEOREM DeadlockNeedsBothWays == Spec => []DeadlockTakesBothWays
<1>1. TypeOK /\ Timers /\ Few => DeadlockTakesBothWays
  <2> SUFFICES ASSUME TypeOK, Timers, Few, Deadlocked
        PROVE  HasData(toClient \o ssending) /\ HasData(toServer \o csending)
    BY DEF DeadlockTakesBothWays
  <2>1. Both /\ Pending <= 2
    BY DEF Deadlocked, Timers, TimersStop, Both, Few, AtMostTwo
  <2>2. /\ Count(toClient) \in Nat /\ Count(toServer) \in Nat
        /\ Count(ssending) \in Nat /\ Count(csending) \in Nat
    BY CountTypes DEF TypeOK
  <2>3. Len(ssending) = 1 /\ Len(csending) = 1
    <3>1. ssending # <<>> /\ Len(ssending) <= 1 /\ csending # <<>> /\ Len(csending) <= 1
      BY DEF Deadlocked, TypeOK
    <3>2. Len(ssending) \in Nat /\ Len(ssending) # 0 /\ Len(csending) \in Nat /\ Len(csending) # 0
      BY <3>1, QueueTypes DEF TypeOK
    <3>3. \A n \in Nat : n <= 1 /\ n # 0 => n = 1
      OBVIOUS
    <3> QED BY <3>1, <3>2, <3>3
  <2>4. ~HasData(toClient \o ssending) => Count(toClient) + Count(ssending) >= 3
    BY <2>3, FullOfProbes DEF Deadlocked, TypeOK
  <2>5. ~HasData(toServer \o csending) => Count(toServer) + Count(csending) >= 3
    BY <2>3, FullOfProbes DEF Deadlocked, TypeOK
  <2> QED BY <2>1, <2>2, <2>4, <2>5 DEF Pending
<1> QED BY <1>1, FewAlways, PTL
=============================================================================
