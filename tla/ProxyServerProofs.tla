-------------------------- MODULE ProxyServerProofs --------------------------
(***************************************************************************)
(* Proofs about the server, for any sets of hostnames, sessions, players   *)
(* and addresses and any bounds.                                           *)
(*                                                                         *)
(* First come the lemmas about a session's channel and table, one change   *)
(* at a time and without a state: q is the channel, t the table by         *)
(* address, P the players announced to the session, L the players still    *)
(* there.  They say how ChannelInv survives each change, whose packets are *)
(* in the channel, and what becomes of the streams that go through it and  *)
(* on over the link, which TunnelProofs cites.                             *)
(***************************************************************************)
EXTENDS ProxyServer, DistributorLemmas, SequenceTheorems

-----------------------------------------------------------------------------
(* A channel and a table *)

\* A message of each kind is what its constructor made of it.
LEMMA MessageKinds ==
  ASSUME NEW m \in ClientToProxy
  PROVE  /\ m.type = "AddMinecraftClient" => m.addr \in Addr /\ m.tx \in Conn
         /\ m.type = "RemoveMinecraftClient" => m.addr \in Addr /\ m = RemoveMsg(m.addr)
         /\ m.type = "Packet" => m.addr \in Addr /\ m.data \in Chunk
BY DEF ClientToProxy, AddMsg, PacketMsg, RemoveMsg

\* Nothing queued, nobody in the table.
LEMMA ChannelEmpty ==
  ASSUME NEW P, NEW L
  PROVE  ChannelInv(<<>>, EmptyMap, P, L)
BY DEF ChannelInv, EntriesInv, AddsInv, EmptyMap

\* More players announced elsewhere, others gone who are neither in the table
\* nor in the channel.
LEMMA ChannelFrame ==
  ASSUME NEW q, NEW t, NEW P, NEW L, NEW P2, NEW L2,
         ChannelInv(q, t, P, L), P \subseteq P2,
         \A a \in DOMAIN t : t[a].tx \in L => t[a].tx \in L2,
         \A i \in 1..Len(q) :
           (q[i].type = "AddMinecraftClient" /\ q[i].tx \in L) => q[i].tx \in L2
  PROVE  ChannelInv(q, t, P2, L2)
<1>1. EntriesInv(q, t, P2, L2)
  BY DEF ChannelInv, EntriesInv
<1>2. AddsInv(q, t, P2, L2)
  BY DEF ChannelInv, AddsInv
<1> QED BY <1>1, <1>2 DEF ChannelInv

\* remove_by_id, or nothing, happens to the table.
LEMMA ChannelShrink ==
  ASSUME NEW q, NEW t, NEW u, NEW P, NEW L, ChannelInv(q, t, P, L),
         DOMAIN u \subseteq DOMAIN t, \A a \in DOMAIN u : u[a] = t[a]
  PROVE  ChannelInv(q, u, P, L)
<1>1. EntriesInv(q, u, P, L)
  BY DEF ChannelInv, EntriesInv
<1>2. AddsInv(q, u, P, L)
  BY DEF ChannelInv, AddsInv
<1> QED BY <1>1, <1>2 DEF ChannelInv

\* What recv leaves behind.
LEMMA TailShifts ==
  ASSUME NEW q \in Seq(ClientToProxy), q # <<>>
  PROVE  /\ Tail(q) \in Seq(ClientToProxy) /\ Len(q) \in Nat /\ Len(q) >= 1
         /\ Len(Tail(q)) = Len(q) - 1 /\ Head(q) = q[1]
         /\ \A i \in 1..Len(Tail(q)) : Tail(q)[i] = q[i + 1]
OBVIOUS

\* A removal in the channel is still there after recv, one place further to
\* the front, unless it was the head.
LEMMA TailBetween ==
  ASSUME NEW q \in Seq(ClientToProxy), q # <<>>, NEW a, NEW i \in Nat, NEW j \in Nat,
         Between(q, a, i, j), Head(q) # RemoveMsg(a) \/ i >= 1,
         NEW h \in Nat, h = 0 \/ h + 1 = i, NEW k \in Nat, k + 1 = j
  PROVE  Between(Tail(q), a, h, k)
<1>1. PICK n \in 1..Len(q) : i < n /\ n < j /\ q[n] = RemoveMsg(a)
  BY DEF Between
<1>2. n # 1
  BY <1>1, TailShifts
<1>3. n - 1 \in 1..Len(Tail(q)) /\ Tail(q)[n - 1] = q[n]
  BY <1>1, <1>2, TailShifts
<1>4. h < n - 1 /\ n - 1 < k
  BY <1>1, <1>2, TailShifts
<1> QED BY <1>1, <1>3, <1>4 DEF Between

\* The same of removals anywhere in the channel.
LEMMA TailBetweenAll ==
  ASSUME NEW q \in Seq(ClientToProxy), q # <<>>, NEW a, NEW i \in {0, 1},
         Head(q) # RemoveMsg(a), Between(q, a, i, Len(q) + 1)
  PROVE  Between(Tail(q), a, 0, Len(Tail(q)) + 1)
<1>1. /\ Len(Tail(q)) + 1 \in Nat /\ Len(q) + 1 \in Nat
      /\ (Len(Tail(q)) + 1) + 1 = Len(q) + 1 /\ i \in Nat
  BY TailShifts
<1> QED BY <1>1, TailBetween

\* recv, as far as the announcements further back are concerned: the table
\* may gain the address of the message only if that was announced by it.
LEMMA TailAdds ==
  ASSUME NEW q \in Seq(ClientToProxy), q # <<>>, NEW t, NEW u, NEW P, NEW L,
         ChannelInv(q, t, P, L),
         \A a \in DOMAIN u : \/ a \in DOMAIN t /\ Head(q) # RemoveMsg(a)
                             \/ Head(q).type = "AddMinecraftClient" /\ Head(q).addr = a
  PROVE  AddsInv(Tail(q), u, P, L)
<1> DEFINE r == Tail(q)
<1>1. /\ r \in Seq(ClientToProxy) /\ Len(q) \in Nat /\ Len(r) = Len(q) - 1 /\ Head(q) = q[1]
      /\ \A i \in 1..Len(r) : r[i] = q[i + 1] /\ i + 1 \in 1..Len(q)
  BY TailShifts
<1> HIDE DEF r
<1>2. ASSUME NEW a, NEW i \in Nat, NEW j \in Nat, Between(q, a, i + 1, j + 1)
      PROVE  Between(r, a, i, j)
  <2>1. i + 1 \in Nat /\ j + 1 \in Nat /\ i + 1 >= 1
    OBVIOUS
  <2> QED BY <1>2, <2>1, TailBetween DEF r
<1>3. ASSUME NEW a, NEW j \in Nat, Head(q) # RemoveMsg(a), Between(q, a, 0, j + 1)
      PROVE  Between(r, a, 0, j)
  <2>1. 0 \in Nat /\ j + 1 \in Nat
    OBVIOUS
  <2> QED BY <1>3, <2>1, TailBetween DEF r
<1>4. SUFFICES ASSUME NEW i \in 1..Len(r), r[i].type = "AddMinecraftClient"
      PROVE  /\ AddrOf[r[i].tx] = r[i].addr /\ r[i].tx \in P
             /\ r[i].tx \in L \/ Between(r, r[i].addr, i, Len(r) + 1)
             /\ r[i].addr \in DOMAIN u => Between(r, r[i].addr, 0, i)
             /\ \A j \in 1..Len(r) :
                  (j < i /\ r[j].type = "AddMinecraftClient" /\ r[j].addr = r[i].addr)
                    => Between(r, r[i].addr, j, i)
  BY DEF AddsInv, r
<1>5. /\ r[i] = q[i + 1] /\ i + 1 \in 1..Len(q) /\ i \in Nat /\ Len(r) + 1 = Len(q)
      /\ Len(r) + 1 \in Nat
  BY <1>1
<1>6. /\ AddrOf[r[i].tx] = r[i].addr /\ r[i].tx \in P
      /\ r[i].tx \in L \/ Between(q, r[i].addr, i + 1, Len(q) + 1)
      /\ r[i].addr \in DOMAIN t => Between(q, r[i].addr, 0, i + 1)
      /\ \A j \in 1..Len(q) :
           (j < i + 1 /\ q[j].type = "AddMinecraftClient" /\ q[j].addr = r[i].addr)
             => Between(q, r[i].addr, j, i + 1)
  BY <1>4, <1>5 DEF ChannelInv, AddsInv
<1>7. r[i].tx \in L \/ Between(r, r[i].addr, i, Len(r) + 1)
  BY <1>2, <1>5, <1>6
<1>8. ASSUME r[i].addr \in DOMAIN u PROVE Between(r, r[i].addr, 0, i)
  <2>1. CASE r[i].addr \in DOMAIN t /\ Head(q) # RemoveMsg(r[i].addr)
    BY <1>3, <1>5, <1>6, <2>1
  <2>2. CASE Head(q).type = "AddMinecraftClient" /\ Head(q).addr = r[i].addr
    <3>1. 1 \in 1..Len(q) /\ 1 < i + 1
      BY <1>1, <1>5
    <3>2. Between(q, r[i].addr, 0 + 1, i + 1)
      BY <1>1, <1>6, <2>2, <3>1
    <3> QED BY <1>2, <1>5, <3>2
  <2> QED BY <1>8, <2>1, <2>2
<1>9. ASSUME NEW j \in 1..Len(r), j < i, r[j].type = "AddMinecraftClient", r[j].addr = r[i].addr
      PROVE  Between(r, r[i].addr, j, i)
  <2>1. r[j] = q[j + 1] /\ j + 1 \in 1..Len(q) /\ j + 1 < i + 1 /\ j \in Nat
    BY <1>1, <1>9
  <2>2. Between(q, r[i].addr, j + 1, i + 1)
    BY <1>6, <1>9, <2>1
  <2> QED BY <1>2, <1>5, <2>1, <2>2
<1> QED BY <1>6, <1>7, <1>8, <1>9

\* recv of a Packet, whatever comes of it.
LEMMA TakePacket ==
  ASSUME NEW q \in Seq(ClientToProxy), q # <<>>, NEW t, NEW P, NEW L,
         ChannelInv(q, t, P, L), Head(q).type = "Packet"
  PROVE  ChannelInv(Tail(q), t, P, L)
<1>1. \A a : Head(q) # RemoveMsg(a)
  BY DEF RemoveMsg
<1>2. AddsInv(Tail(q), t, P, L)
  BY <1>1, TailAdds
<1>3. ASSUME NEW a, Between(q, a, 0, Len(q) + 1)
      PROVE  Between(Tail(q), a, 0, Len(Tail(q)) + 1)
  BY <1>1, <1>3, TailBetweenAll
<1>4. EntriesInv(Tail(q), t, P, L)
  BY <1>3 DEF ChannelInv, EntriesInv
<1> QED BY <1>2, <1>4 DEF ChannelInv

\* recv of a RemoveMinecraftClient: its address leaves the table.
LEMMA TakeRemove ==
  ASSUME NEW q \in Seq(ClientToProxy), q # <<>>, NEW t, NEW u, NEW P, NEW L,
         ChannelInv(q, t, P, L), NEW a, Head(q) = RemoveMsg(a),
         DOMAIN u = DOMAIN t \ {a}, \A x \in DOMAIN u : u[x] = t[x]
  PROVE  ChannelInv(Tail(q), u, P, L)
<1>1. \A x \in DOMAIN u : x \in DOMAIN t /\ Head(q) # RemoveMsg(x)
  BY DEF RemoveMsg
<1>2. AddsInv(Tail(q), u, P, L)
  BY <1>1, TailAdds
<1>3. ASSUME NEW x \in DOMAIN u, Between(q, x, 0, Len(q) + 1)
      PROVE  Between(Tail(q), x, 0, Len(Tail(q)) + 1)
  BY <1>1, <1>3, TailBetweenAll
<1>4. EntriesInv(Tail(q), u, P, L)
  BY <1>1, <1>3 DEF ChannelInv, EntriesInv
<1> QED BY <1>2, <1>4 DEF ChannelInv

\* recv of an AddMinecraftClient: insert does not have its address yet.
LEMMA AddIsNew ==
  ASSUME NEW q \in Seq(ClientToProxy), q # <<>>, NEW t, NEW P, NEW L,
         ChannelInv(q, t, P, L), Head(q).type = "AddMinecraftClient"
  PROVE  Head(q).addr \notin DOMAIN t
<1>1. 1 \in 1..Len(q) /\ q[1] = Head(q)
  BY TailShifts
<1>2. ~ Between(q, Head(q).addr, 0, 1)
  BY DEF Between
<1> QED BY <1>1, <1>2 DEF ChannelInv, AddsInv

LEMMA TakeAdd ==
  ASSUME NEW q \in Seq(ClientToProxy), q # <<>>, NEW t, NEW u, NEW P, NEW L,
         ChannelInv(q, t, P, L), Head(q).type = "AddMinecraftClient",
         DOMAIN u = DOMAIN t \cup {Head(q).addr}, u[Head(q).addr].tx = Head(q).tx,
         \A x \in DOMAIN t : u[x] = t[x]
  PROVE  ChannelInv(Tail(q), u, P, L)
<1>1. \A x : Head(q) # RemoveMsg(x)
  BY DEF RemoveMsg
<1>2. AddsInv(Tail(q), u, P, L)
  BY <1>1, TailAdds
<1>3. ASSUME NEW x, NEW i \in {0, 1}, Between(q, x, i, Len(q) + 1)
      PROVE  Between(Tail(q), x, 0, Len(Tail(q)) + 1)
  BY <1>1, <1>3, TailBetweenAll
<1>4. 1 \in 1..Len(q) /\ q[1] = Head(q)
  BY TailShifts
<1>5. /\ AddrOf[Head(q).tx] = Head(q).addr /\ Head(q).tx \in P
      /\ Head(q).tx \in L \/ Between(q, Head(q).addr, 1, Len(q) + 1)
  BY <1>4 DEF ChannelInv, AddsInv
<1>6. EntriesInv(Tail(q), u, P, L)
  <2>1. SUFFICES ASSUME NEW x \in DOMAIN u
        PROVE  /\ AddrOf[u[x].tx] = x /\ u[x].tx \in P
               /\ u[x].tx \in L \/ Between(Tail(q), x, 0, Len(Tail(q)) + 1)
    BY DEF EntriesInv
  <2>2. CASE x = Head(q).addr
    BY <1>3, <1>5, <2>2
  <2>3. CASE x # Head(q).addr
    BY <1>3, <2>3 DEF ChannelInv, EntriesInv
  <2> QED BY <2>2, <2>3
<1> QED BY <1>2, <1>6 DEF ChannelInv

\* What send adds.
LEMMA AppendExtends ==
  ASSUME NEW q \in Seq(ClientToProxy), NEW m \in ClientToProxy
  PROVE  /\ Append(q, m) \in Seq(ClientToProxy) /\ Len(q) \in Nat
         /\ Len(Append(q, m)) = Len(q) + 1 /\ Append(q, m)[Len(q) + 1] = m
         /\ \A i \in 1..Len(q) : Append(q, m)[i] = q[i] /\ i \in 1..Len(Append(q, m))
OBVIOUS

LEMMA AppendBetween ==
  ASSUME NEW q \in Seq(ClientToProxy), NEW m \in ClientToProxy, NEW a,
         NEW i \in Nat, NEW j \in Nat, NEW k \in Nat, Between(q, a, i, j), j <= k
  PROVE  Between(Append(q, m), a, i, k)
<1>1. PICK n \in 1..Len(q) : i < n /\ n < j /\ q[n] = RemoveMsg(a)
  BY DEF Between
<1>2. n \in 1..Len(Append(q, m)) /\ Append(q, m)[n] = RemoveMsg(a) /\ n < k
  BY <1>1, AppendExtends
<1> QED BY <1>1, <1>2 DEF Between

\* send of a removal whose player leaves, or of anything but an announcement:
\* those who are no longer there had the address that is removed.
LEMMA PutOther ==
  ASSUME NEW q \in Seq(ClientToProxy), NEW t, NEW P, NEW L, NEW L2,
         ChannelInv(q, t, P, L), NEW m \in ClientToProxy, m.type # "AddMinecraftClient",
         \A c \in P : c \in L => c \in L2 \/ m = RemoveMsg(AddrOf[c])
  PROVE  ChannelInv(Append(q, m), t, P, L2)
<1> DEFINE r == Append(q, m)
<1>1. /\ Len(q) \in Nat /\ Len(r) = Len(q) + 1 /\ r[Len(q) + 1] = m
      /\ \A i \in 1..Len(q) : r[i] = q[i] /\ i \in 1..Len(r)
  BY AppendExtends
<1>2. ASSUME NEW a, NEW i \in Nat, NEW j \in Nat, Between(q, a, i, j), j <= Len(r)
      PROVE  Between(r, a, i, j)
  BY <1>2, AppendBetween
<1>3. ASSUME NEW a, NEW i \in Nat, Between(q, a, i, Len(q) + 1)
      PROVE  Between(r, a, i, Len(r) + 1)
  <2>1. Len(q) + 1 \in Nat /\ Len(r) + 1 \in Nat /\ Len(q) + 1 <= Len(r) + 1
    BY <1>1
  <2> QED BY <1>3, <2>1, AppendBetween
<1> HIDE DEF r
<1>4. ASSUME NEW a, NEW i \in Nat, i <= Len(q), m = RemoveMsg(a)
      PROVE  Between(r, a, i, Len(r) + 1)
  <2>1. Len(q) + 1 \in 1..Len(r) /\ i < Len(q) + 1 /\ Len(q) + 1 < Len(r) + 1
    BY <1>1, <1>4
  <2> QED BY <1>1, <1>4, <2>1 DEF Between
<1>5. EntriesInv(r, t, P, L2)
  <2>1. SUFFICES ASSUME NEW a \in DOMAIN t
        PROVE  /\ AddrOf[t[a].tx] = a /\ t[a].tx \in P
               /\ t[a].tx \in L2 \/ Between(r, a, 0, Len(r) + 1)
    BY DEF EntriesInv
  <2>2. /\ AddrOf[t[a].tx] = a /\ t[a].tx \in P
        /\ t[a].tx \in L \/ Between(q, a, 0, Len(q) + 1)
    BY DEF ChannelInv, EntriesInv
  <2>3. 0 \in Nat /\ 0 <= Len(q)
    BY <1>1
  <2> QED BY <1>3, <1>4, <2>2, <2>3
<1>6. AddsInv(r, t, P, L2)
  <2>1. SUFFICES ASSUME NEW i \in 1..Len(r), r[i].type = "AddMinecraftClient"
        PROVE  /\ AddrOf[r[i].tx] = r[i].addr /\ r[i].tx \in P
               /\ r[i].tx \in L2 \/ Between(r, r[i].addr, i, Len(r) + 1)
               /\ r[i].addr \in DOMAIN t => Between(r, r[i].addr, 0, i)
               /\ \A j \in 1..Len(r) :
                    (j < i /\ r[j].type = "AddMinecraftClient" /\ r[j].addr = r[i].addr)
                      => Between(r, r[i].addr, j, i)
    BY DEF AddsInv
  <2>2. i \in 1..Len(q) /\ r[i] = q[i] /\ i \in Nat /\ i <= Len(q) /\ i <= Len(r)
    BY <1>1, <2>1
  <2>3. /\ AddrOf[q[i].tx] = q[i].addr /\ q[i].tx \in P
        /\ q[i].tx \in L \/ Between(q, q[i].addr, i, Len(q) + 1)
        /\ q[i].addr \in DOMAIN t => Between(q, q[i].addr, 0, i)
        /\ \A j \in 1..Len(q) :
             (j < i /\ q[j].type = "AddMinecraftClient" /\ q[j].addr = q[i].addr)
               => Between(q, q[i].addr, j, i)
    BY <2>1, <2>2 DEF ChannelInv, AddsInv
  <2>4. q[i].tx \in L2 \/ Between(r, q[i].addr, i, Len(r) + 1)
    BY <1>3, <1>4, <2>2, <2>3
  <2>5. q[i].addr \in DOMAIN t => Between(r, q[i].addr, 0, i)
    BY <1>2, <2>2, <2>3
  <2>6. ASSUME NEW j \in 1..Len(r), j < i, r[j].type = "AddMinecraftClient", r[j].addr = r[i].addr
        PROVE  Between(r, r[i].addr, j, i)
    <3>1. j \in 1..Len(q) /\ r[j] = q[j] /\ j \in Nat
      BY <1>1, <2>2, <2>6
    <3> QED BY <1>2, <2>2, <2>3, <2>6, <3>1
  <2> QED BY <2>2, <2>3, <2>4, <2>5, <2>6
<1> QED BY <1>5, <1>6 DEF ChannelInv, r

\* send of an announcement by a player who is there from now on, when nobody
\* else with the address still is.
LEMMA PutAdd ==
  ASSUME NEW q \in Seq(ClientToProxy), NEW t, NEW P, NEW L, NEW P2, NEW L2,
         ChannelInv(q, t, P, L), P \subseteq P2, L \subseteq L2,
         NEW c \in Conn, c \in P2, c \in L2, AddrOf[c] \in Addr,
         \A d \in P : AddrOf[d] = AddrOf[c] => d \notin L
  PROVE  ChannelInv(Append(q, AddMsg(AddrOf[c], c)), t, P2, L2)
<1> DEFINE m == AddMsg(AddrOf[c], c)
           r == Append(q, m)
<1>0. /\ m \in ClientToProxy /\ m.type = "AddMinecraftClient"
      /\ m.addr = AddrOf[c] /\ m.tx = c
  BY DEF ClientToProxy, AddMsg
<1> HIDE DEF m
<1>1. /\ Len(q) \in Nat /\ Len(r) = Len(q) + 1 /\ r[Len(q) + 1] = m
      /\ \A i \in 1..Len(q) : r[i] = q[i] /\ i \in 1..Len(r)
  BY <1>0, AppendExtends
<1>2. ASSUME NEW a, NEW i \in Nat, NEW j \in Nat, Between(q, a, i, j), j <= Len(r)
      PROVE  Between(r, a, i, j)
  BY <1>0, <1>2, AppendBetween
<1>3. ASSUME NEW a, NEW i \in Nat, Between(q, a, i, Len(q) + 1)
      PROVE  Between(r, a, i, Len(r) + 1) /\ Between(r, a, i, Len(q) + 1)
  <2>1. Len(q) + 1 \in Nat /\ Len(r) + 1 \in Nat /\ Len(q) + 1 <= Len(r) + 1
    BY <1>1
  <2> QED BY <1>0, <1>3, <2>1, AppendBetween
<1> HIDE DEF r
<1>5. EntriesInv(r, t, P2, L2)
  <2>1. SUFFICES ASSUME NEW a \in DOMAIN t
        PROVE  /\ AddrOf[t[a].tx] = a /\ t[a].tx \in P2
               /\ t[a].tx \in L2 \/ Between(r, a, 0, Len(r) + 1)
    BY DEF EntriesInv
  <2>2. /\ AddrOf[t[a].tx] = a /\ t[a].tx \in P
        /\ t[a].tx \in L \/ Between(q, a, 0, Len(q) + 1)
    BY DEF ChannelInv, EntriesInv
  <2> QED BY <1>3, <2>2
<1>6. AddsInv(r, t, P2, L2)
  <2>1. SUFFICES ASSUME NEW i \in 1..Len(r), r[i].type = "AddMinecraftClient"
        PROVE  /\ AddrOf[r[i].tx] = r[i].addr /\ r[i].tx \in P2
               /\ r[i].tx \in L2 \/ Between(r, r[i].addr, i, Len(r) + 1)
               /\ r[i].addr \in DOMAIN t => Between(r, r[i].addr, 0, i)
               /\ \A j \in 1..Len(r) :
                    (j < i /\ r[j].type = "AddMinecraftClient" /\ r[j].addr = r[i].addr)
                      => Between(r, r[i].addr, j, i)
    BY DEF AddsInv
  <2>2. CASE i # Len(q) + 1
    <3>2. i \in 1..Len(q) /\ r[i] = q[i] /\ i \in Nat /\ i <= Len(q) /\ i <= Len(r)
      BY <1>1, <2>2
    <3>3. /\ AddrOf[q[i].tx] = q[i].addr /\ q[i].tx \in P
          /\ q[i].tx \in L \/ Between(q, q[i].addr, i, Len(q) + 1)
          /\ q[i].addr \in DOMAIN t => Between(q, q[i].addr, 0, i)
          /\ \A j \in 1..Len(q) :
               (j < i /\ q[j].type = "AddMinecraftClient" /\ q[j].addr = q[i].addr)
                 => Between(q, q[i].addr, j, i)
      BY <2>1, <3>2 DEF ChannelInv, AddsInv
    <3>4. q[i].tx \in L2 \/ Between(r, q[i].addr, i, Len(r) + 1)
      BY <1>3, <3>2, <3>3
    <3>5. q[i].addr \in DOMAIN t => Between(r, q[i].addr, 0, i)
      BY <1>2, <3>2, <3>3
    <3>6. ASSUME NEW j \in 1..Len(r), j < i, r[j].type = "AddMinecraftClient", r[j].addr = r[i].addr
          PROVE  Between(r, r[i].addr, j, i)
      <4>1. j \in 1..Len(q) /\ r[j] = q[j] /\ j \in Nat
        BY <1>1, <3>2, <3>6
      <4> QED BY <1>2, <3>2, <3>3, <3>6, <4>1
    <3> QED BY <3>2, <3>3, <3>4, <3>5, <3>6
  <2>3. CASE i = Len(q) + 1
    <3>1. r[i] = m
      BY <1>1, <2>3
    <3>2. ASSUME AddrOf[c] \in DOMAIN t PROVE Between(r, AddrOf[c], 0, i)
      <4>1. /\ AddrOf[t[AddrOf[c]].tx] = AddrOf[c] /\ t[AddrOf[c]].tx \in P
            /\ t[AddrOf[c]].tx \in L \/ Between(q, AddrOf[c], 0, Len(q) + 1)
        BY <3>2 DEF ChannelInv, EntriesInv
      <4> QED BY <1>3, <2>3, <4>1
    <3>3. ASSUME NEW j \in 1..Len(r), j < i, r[j].type = "AddMinecraftClient", r[j].addr = AddrOf[c]
          PROVE  Between(r, AddrOf[c], j, i)
      <4>1. j \in 1..Len(q) /\ r[j] = q[j] /\ j \in Nat
        BY <1>1, <2>3, <3>3
      <4>2. /\ AddrOf[q[j].tx] = AddrOf[c] /\ q[j].tx \in P
            /\ q[j].tx \in L \/ Between(q, AddrOf[c], j, Len(q) + 1)
        BY <3>3, <4>1 DEF ChannelInv, AddsInv
      <4> QED BY <1>3, <2>3, <4>1, <4>2
    <3> QED BY <1>0, <3>1, <3>2, <3>3
  <2> QED BY <2>2, <2>3
<1> QED BY <1>5, <1>6 DEF ChannelInv, r, m
-----------------------------------------------------------------------------
(* Whose packets are in the channel *)

\* Between the places j and i of the channel, player c announced itself.
OwnSince(q, c, j, i) == \E k \in 1..Len(q) : j < k /\ k < i /\ q[k] = AddMsg(AddrOf[c], c)

\* When the session gets to place i of the channel, the address of c is not
\* another player's: an entry of another one, or the announcement of another
\* one further to the front, has the announcement of c after it.
OwnBefore(q, t, c, i) ==
  /\ (AddrOf[c] \in DOMAIN t /\ t[AddrOf[c]].tx # c) => OwnSince(q, c, 0, i)
  /\ \A j \in 1..Len(q) :
       (j < i /\ q[j].type = "AddMinecraftClient" /\ q[j].addr = AddrOf[c] /\ q[j].tx # c)
         => OwnSince(q, c, j, i)

\* That is so of every packet in the channel and of every player of the
\* session who is still there to send one (L).
PacketInv(q, t, L) ==
  /\ \A i \in 1..Len(q) : q[i].type = "Packet" =>
       AddrOf[q[i].data.conn] = q[i].addr /\ OwnBefore(q, t, q[i].data.conn, i)
  /\ \A c \in L : OwnBefore(q, t, c, Len(q) + 1)

LEMMA OwnEmpty ==
  ASSUME NEW L
  PROVE  PacketInv(<<>>, EmptyMap, L)
BY DEF PacketInv, OwnBefore, EmptyMap

\* Players leave, and the table loses entries.
LEMMA OwnShrink ==
  ASSUME NEW q, NEW t, NEW u, NEW L, NEW L2, PacketInv(q, t, L), L2 \subseteq L,
         DOMAIN u \subseteq DOMAIN t, \A a \in DOMAIN u : u[a] = t[a]
  PROVE  PacketInv(q, u, L2)
<1>1. ASSUME NEW c, NEW i, OwnBefore(q, t, c, i) PROVE OwnBefore(q, u, c, i)
  BY <1>1 DEF OwnBefore
<1> QED BY <1>1 DEF PacketInv

\* The table after recv: at the address of an announcement that was read there
\* is the player who made it, and elsewhere there is nobody new.
AfterRecv(q, t, u) ==
  \A a \in DOMAIN u :
    IF Head(q).type = "AddMinecraftClient" /\ Head(q).addr = a
      THEN u[a].tx = Head(q).tx
      ELSE a \in DOMAIN t /\ u[a].tx = t[a].tx

\* One place further to the front.
LEMMA OwnTail ==
  ASSUME NEW q \in Seq(ClientToProxy), q # <<>>, NEW t, NEW u, AfterRecv(q, t, u),
         NEW c, NEW i \in Nat, i >= 1, OwnBefore(q, t, c, i + 1)
  PROVE  OwnBefore(Tail(q), u, c, i)
<1> DEFINE r == Tail(q)
<1>1. /\ Len(q) \in Nat /\ Len(r) = Len(q) - 1 /\ Head(q) = q[1] /\ 1 \in 1..Len(q)
      /\ \A j \in 1..Len(r) : r[j] = q[j + 1] /\ j + 1 \in 1..Len(q)
  BY TailShifts
<1> HIDE DEF r
<1>2. ASSUME NEW j \in Nat, OwnSince(q, c, j + 1, i + 1) PROVE OwnSince(r, c, j, i)
  <2>1. PICK k \in 1..Len(q) : j + 1 < k /\ k < i + 1 /\ q[k] = AddMsg(AddrOf[c], c)
    BY <1>2 DEF OwnSince
  <2>2. k - 1 \in 1..Len(r) /\ j < k - 1 /\ k - 1 < i /\ r[k - 1] = q[(k - 1) + 1] /\ (k - 1) + 1 = k
    BY <1>1, <2>1
  <2> QED BY <2>1, <2>2 DEF OwnSince
<1>3. ASSUME AddrOf[c] \in DOMAIN u, u[AddrOf[c]].tx # c PROVE OwnSince(r, c, 0, i)
  <2>1. CASE Head(q).type = "AddMinecraftClient" /\ Head(q).addr = AddrOf[c]
    <3>1. Head(q).tx # c
      BY <1>3, <2>1 DEF AfterRecv
    <3>2. 1 < i + 1 => OwnSince(q, c, 1, i + 1)
      BY <1>1, <2>1, <3>1 DEF OwnBefore
    <3>3. 1 < i + 1 /\ 0 + 1 = 1 /\ 0 \in Nat
      OBVIOUS
    <3> QED BY <1>2, <3>2, <3>3
  <2>2. CASE ~ (Head(q).type = "AddMinecraftClient" /\ Head(q).addr = AddrOf[c])
    <3>1. AddrOf[c] \in DOMAIN t /\ t[AddrOf[c]].tx # c
      BY <1>3, <2>2 DEF AfterRecv
    <3>2. PICK k \in 1..Len(q) : 0 < k /\ k < i + 1 /\ q[k] = AddMsg(AddrOf[c], c)
      BY <3>1 DEF OwnBefore, OwnSince
    <3>3. k # 1
      BY <1>1, <2>2, <3>2 DEF AddMsg
    <3>4. OwnSince(q, c, 0 + 1, i + 1)
      <4>1. 0 + 1 < k
        BY <3>2, <3>3
      <4> QED BY <3>2, <4>1 DEF OwnSince
    <3> QED BY <1>2, <3>4
  <2> QED BY <2>1, <2>2
<1>4. ASSUME NEW j \in 1..Len(r), j < i, r[j].type = "AddMinecraftClient",
             r[j].addr = AddrOf[c], r[j].tx # c
      PROVE  OwnSince(r, c, j, i)
  <2>1. r[j] = q[j + 1] /\ j + 1 \in 1..Len(q) /\ j + 1 < i + 1 /\ j \in Nat
    BY <1>1, <1>4
  <2>2. OwnSince(q, c, j + 1, i + 1)
    BY <1>4, <2>1 DEF OwnBefore
  <2> QED BY <1>2, <2>1, <2>2
<1> QED BY <1>3, <1>4 DEF OwnBefore, r

\* recv, of whatever message.
LEMMA OwnTake ==
  ASSUME NEW q \in Seq(ClientToProxy), q # <<>>, NEW t, NEW u, NEW L,
         PacketInv(q, t, L), AfterRecv(q, t, u)
  PROVE  PacketInv(Tail(q), u, L)
<1> DEFINE r == Tail(q)
<1>1. /\ Len(q) \in Nat /\ Len(q) >= 1 /\ Len(r) = Len(q) - 1
      /\ \A j \in 1..Len(r) : r[j] = q[j + 1] /\ j + 1 \in 1..Len(q)
  BY TailShifts
<1>2. ASSUME NEW i \in 1..Len(r), r[i].type = "Packet"
      PROVE  AddrOf[r[i].data.conn] = r[i].addr /\ OwnBefore(r, u, r[i].data.conn, i)
  <2>1. /\ r[i] = q[i + 1] /\ i + 1 \in 1..Len(q) /\ i \in Nat /\ i >= 1
    BY <1>1
  <2>2. AddrOf[r[i].data.conn] = r[i].addr /\ OwnBefore(q, t, r[i].data.conn, i + 1)
    BY <1>2, <2>1 DEF PacketInv
  <2> QED BY <2>1, <2>2, OwnTail
<1>3. ASSUME NEW c \in L PROVE OwnBefore(r, u, c, Len(r) + 1)
  <2>1. Len(r) + 1 \in Nat /\ Len(r) + 1 >= 1 /\ (Len(r) + 1) + 1 = Len(q) + 1
    BY <1>1
  <2>2. OwnBefore(q, t, c, (Len(r) + 1) + 1)
    BY <2>1 DEF PacketInv
  <2> QED BY <2>1, <2>2, OwnTail
<1> QED BY <1>2, <1>3 DEF PacketInv

\* send leaves what is further to the front as it is.
LEMMA OwnKept ==
  ASSUME NEW q \in Seq(ClientToProxy), NEW m \in ClientToProxy, NEW t, NEW c,
         NEW i \in Nat, i <= Len(q) + 1, OwnBefore(q, t, c, i)
  PROVE  OwnBefore(Append(q, m), t, c, i)
<1> DEFINE r == Append(q, m)
<1>1. /\ Len(q) \in Nat /\ Len(r) = Len(q) + 1 /\ r[Len(q) + 1] = m
      /\ \A j \in 1..Len(q) : r[j] = q[j] /\ j \in 1..Len(r)
  BY AppendExtends
<1> HIDE DEF r
<1>2. ASSUME NEW j, OwnSince(q, c, j, i) PROVE OwnSince(r, c, j, i)
  BY <1>1, <1>2 DEF OwnSince
<1>3. ASSUME NEW j \in 1..Len(r), j < i PROVE j \in 1..Len(q) /\ r[j] = q[j]
  BY <1>1, <1>3
<1> QED BY <1>2, <1>3 DEF OwnBefore, r

\* The same one place later, unless what was sent is the announcement of
\* another player with the same address.
LEMMA OwnLater ==
  ASSUME NEW q \in Seq(ClientToProxy), NEW m \in ClientToProxy, NEW t, NEW c,
         OwnBefore(q, t, c, Len(q) + 1),
         ~ (m.type = "AddMinecraftClient" /\ m.addr = AddrOf[c] /\ m.tx # c)
  PROVE  OwnBefore(Append(q, m), t, c, Len(Append(q, m)) + 1)
<1> DEFINE r == Append(q, m)
<1>1. /\ Len(q) \in Nat /\ Len(r) = Len(q) + 1 /\ r[Len(q) + 1] = m
      /\ \A j \in 1..Len(q) : r[j] = q[j] /\ j \in 1..Len(r)
  BY AppendExtends
<1> HIDE DEF r
<1>2. ASSUME NEW j, OwnSince(q, c, j, Len(q) + 1) PROVE OwnSince(r, c, j, Len(r) + 1)
  <2>1. PICK k \in 1..Len(q) : j < k /\ q[k] = AddMsg(AddrOf[c], c)
    BY <1>2 DEF OwnSince
  <2>2. k \in 1..Len(r) /\ k < Len(r) + 1 /\ r[k] = q[k]
    BY <1>1
  <2> QED BY <2>1, <2>2 DEF OwnSince
<1>3. ASSUME NEW j \in 1..Len(r), r[j].type = "AddMinecraftClient",
             r[j].addr = AddrOf[c], r[j].tx # c
      PROVE  OwnSince(r, c, j, Len(r) + 1)
  <2>1. j \in 1..Len(q) /\ r[j] = q[j] /\ j < Len(q) + 1
    BY <1>1, <1>3
  <2>2. OwnSince(q, c, j, Len(q) + 1)
    BY <1>3, <2>1 DEF OwnBefore
  <2> QED BY <1>2, <2>2
<1>4. (AddrOf[c] \in DOMAIN t /\ t[AddrOf[c]].tx # c) => OwnSince(r, c, 0, Len(r) + 1)
  BY <1>2 DEF OwnBefore
<1> QED BY <1>3, <1>4 DEF OwnBefore, r

\* send of a packet by its own player, or of a removal.
LEMMA OwnPutOther ==
  ASSUME NEW q \in Seq(ClientToProxy), NEW m \in ClientToProxy, NEW t, NEW L, NEW L2,
         PacketInv(q, t, L), L2 \subseteq L, m.type # "AddMinecraftClient",
         m.type = "Packet" => m.data.conn \in L /\ AddrOf[m.data.conn] = m.addr
  PROVE  PacketInv(Append(q, m), t, L2)
<1> DEFINE r == Append(q, m)
<1>1. /\ Len(q) \in Nat /\ Len(r) = Len(q) + 1 /\ r[Len(q) + 1] = m
      /\ \A j \in 1..Len(q) : r[j] = q[j] /\ j \in 1..Len(r)
  BY AppendExtends
<1>2. ASSUME NEW i \in 1..Len(r), r[i].type = "Packet"
      PROVE  AddrOf[r[i].data.conn] = r[i].addr /\ OwnBefore(r, t, r[i].data.conn, i)
  <2>1. CASE i # Len(q) + 1
    <3>1. i \in 1..Len(q) /\ r[i] = q[i] /\ i \in Nat /\ i <= Len(q) + 1
      BY <1>1, <2>1
    <3>2. AddrOf[q[i].data.conn] = q[i].addr /\ OwnBefore(q, t, q[i].data.conn, i)
      BY <1>2, <3>1 DEF PacketInv
    <3> QED BY <3>1, <3>2, OwnKept
  <2>2. CASE i = Len(q) + 1
    <3>1. r[i] = m /\ i \in Nat /\ i <= Len(q) + 1
      BY <1>1, <2>2
    <3>2. AddrOf[m.data.conn] = m.addr /\ OwnBefore(q, t, m.data.conn, i)
      BY <1>2, <2>2, <3>1 DEF PacketInv
    <3> QED BY <3>1, <3>2, OwnKept
  <2> QED BY <2>1, <2>2
<1>3. ASSUME NEW c \in L2 PROVE OwnBefore(r, t, c, Len(r) + 1)
  <2>1. OwnBefore(q, t, c, Len(q) + 1)
    BY DEF PacketInv
  <2> QED BY <2>1, OwnLater
<1> QED BY <1>2, <1>3 DEF PacketInv

\* send of the announcement of c, when nobody else there has its address.
LEMMA OwnPutAdd ==
  ASSUME NEW q \in Seq(ClientToProxy), NEW t, NEW L, NEW L2, NEW c \in Conn,
         AddrOf[c] \in Addr, PacketInv(q, t, L), L2 \subseteq L \cup {c},
         \A d \in L : AddrOf[d] = AddrOf[c] => d = c
  PROVE  PacketInv(Append(q, AddMsg(AddrOf[c], c)), t, L2)
<1> DEFINE m == AddMsg(AddrOf[c], c)
           r == Append(q, m)
<1>0. /\ m \in ClientToProxy /\ m.type = "AddMinecraftClient"
      /\ m.addr = AddrOf[c] /\ m.tx = c
  BY DEF ClientToProxy, AddMsg
<1>1. m = AddMsg(AddrOf[c], c)
  OBVIOUS
<1> HIDE DEF m
<1>2. /\ Len(q) \in Nat /\ Len(r) = Len(q) + 1 /\ r[Len(q) + 1] = m
      /\ \A j \in 1..Len(q) : r[j] = q[j] /\ j \in 1..Len(r)
  BY <1>0, AppendExtends
<1>3. ASSUME NEW i \in 1..Len(r), r[i].type = "Packet"
      PROVE  AddrOf[r[i].data.conn] = r[i].addr /\ OwnBefore(r, t, r[i].data.conn, i)
  <2>1. i \in 1..Len(q) /\ r[i] = q[i] /\ i \in Nat /\ i <= Len(q) + 1
    BY <1>0, <1>2, <1>3
  <2>2. AddrOf[q[i].data.conn] = q[i].addr /\ OwnBefore(q, t, q[i].data.conn, i)
    BY <1>3, <2>1 DEF PacketInv
  <2> QED BY <1>0, <2>1, <2>2, OwnKept
<1>4. OwnBefore(r, t, c, Len(r) + 1)
  <2> HIDE DEF r
  <2>1. Len(q) + 1 \in 1..Len(r) /\ Len(q) + 1 < Len(r) + 1 /\ 0 < Len(q) + 1
    BY <1>2
  <2>2. OwnSince(r, c, 0, Len(r) + 1)
    BY <1>1, <1>2, <2>1 DEF OwnSince
  <2>3. ASSUME NEW j \in 1..Len(r), r[j].tx # c PROVE OwnSince(r, c, j, Len(r) + 1)
    <3>1. j < Len(q) + 1
      BY <1>0, <1>2, <2>3
    <3> QED BY <1>1, <1>2, <2>1, <3>1 DEF OwnSince
  <2> QED BY <2>2, <2>3 DEF OwnBefore
<1>5. ASSUME NEW d \in L, d # c PROVE OwnBefore(r, t, d, Len(r) + 1)
  <2>1. OwnBefore(q, t, d, Len(q) + 1) /\ AddrOf[d] # AddrOf[c]
    BY <1>5 DEF PacketInv
  <2> QED BY <1>0, <2>1, OwnLater
<1>6. \A d \in L2 : OwnBefore(r, t, d, Len(r) + 1)
  BY <1>4, <1>5
<1> QED BY <1>3, <1>6 DEF PacketInv, r, m
-----------------------------------------------------------------------------
(* The last word *)

\* Of what is in S before place k of the channel, the last one is in G; and
\* when there is none, `base` is so.
LastWord(q, S, G, base, k) ==
  \/ \E j \in 1..Len(q) :
       /\ j < k /\ q[j] \in S /\ q[j] \in G
       /\ \A m \in 1..Len(q) : j < m /\ m < k => q[m] \notin S
  \/ base /\ \A m \in 1..Len(q) : m < k => q[m] \notin S

LEMMA WordFirst ==
  ASSUME NEW q, NEW S, NEW G, NEW base
  PROVE  LastWord(q, S, G, base, 1) <=> base
BY DEF LastWord

LEMMA WordEmpty ==
  ASSUME NEW S, NEW G, NEW base, NEW k
  PROVE  LastWord(<<>>, S, G, base, k) <=> base
BY DEF LastWord

LEMMA WordBase ==
  ASSUME NEW q, NEW S, NEW G, NEW base, NEW base2, NEW k,
         LastWord(q, S, G, base, k), base => base2
  PROVE  LastWord(q, S, G, base2, k)
BY DEF LastWord

\* recv: the head becomes the base.
LEMMA WordTail ==
  ASSUME NEW T, NEW q \in Seq(T), q # <<>>, NEW S, NEW G, NEW base, NEW base2,
         NEW k \in Nat, k >= 1,
         base2 <=> IF Head(q) \in S THEN Head(q) \in G ELSE base
  PROVE  LastWord(q, S, G, base, k + 1) <=> LastWord(Tail(q), S, G, base2, k)
<1> DEFINE r == Tail(q)
<1>1. /\ Len(q) \in Nat /\ Len(r) = Len(q) - 1 /\ Head(q) = q[1] /\ 1 \in 1..Len(q)
      /\ \A i \in 1..Len(r) : r[i] = q[i + 1] /\ i + 1 \in 1..Len(q)
      /\ \A i \in 1..Len(q) : i # 1 => i - 1 \in 1..Len(r) /\ q[i] = r[i - 1]
  OBVIOUS
<1> HIDE DEF r
<1>2. ASSUME LastWord(q, S, G, base, k + 1) PROVE LastWord(r, S, G, base2, k)
  <2>1. ASSUME NEW j \in 1..Len(q), j < k + 1, q[j] \in S, q[j] \in G,
               \A m \in 1..Len(q) : j < m /\ m < k + 1 => q[m] \notin S
        PROVE  LastWord(r, S, G, base2, k)
    <3>1. ASSUME NEW m \in 1..Len(r), j < m + 1, m < k PROVE r[m] \notin S
      <4>1. m + 1 \in 1..Len(q) /\ m + 1 < k + 1 /\ r[m] = q[m + 1]
        BY <1>1, <3>1
      <4> QED BY <2>1, <3>1, <4>1
    <3>2. CASE j = 1
      <4>1. Head(q) \in S /\ Head(q) \in G
        BY <1>1, <2>1, <3>2
      <4>2. \A m \in 1..Len(r) : m < k => r[m] \notin S
        <5>1. \A m \in 1..Len(r) : j < m + 1
          BY <3>2
        <5> QED BY <3>1, <5>1
      <4> QED BY <4>1, <4>2 DEF LastWord
    <3>3. CASE j # 1
      <4>1. j - 1 \in 1..Len(r) /\ j - 1 < k /\ r[j - 1] = q[j]
        BY <1>1, <2>1, <3>3
      <4>2. \A m \in 1..Len(r) : j - 1 < m => j < m + 1
        OBVIOUS
      <4>3. \A m \in 1..Len(r) : j - 1 < m /\ m < k => r[m] \notin S
        BY <3>1, <4>2
      <4> QED BY <2>1, <4>1, <4>3 DEF LastWord
    <3> QED BY <3>2, <3>3
  <2>2. ASSUME base, \A m \in 1..Len(q) : m < k + 1 => q[m] \notin S
        PROVE  LastWord(r, S, G, base2, k)
    <3>1. Head(q) \notin S
      <4>1. 1 < k + 1
        OBVIOUS
      <4> QED BY <1>1, <2>2, <4>1
    <3>2. ASSUME NEW m \in 1..Len(r), m < k PROVE r[m] \notin S
      <4>1. m + 1 \in 1..Len(q) /\ m + 1 < k + 1 /\ r[m] = q[m + 1]
        BY <1>1, <3>2
      <4> QED BY <2>2, <4>1
    <3> QED BY <2>2, <3>1, <3>2 DEF LastWord
  <2> QED BY <1>2, <2>1, <2>2 DEF LastWord
<1>3. ASSUME LastWord(r, S, G, base2, k) PROVE LastWord(q, S, G, base, k + 1)
  <2>1. ASSUME NEW j \in 1..Len(r), j < k, r[j] \in S, r[j] \in G,
               \A m \in 1..Len(r) : j < m /\ m < k => r[m] \notin S
        PROVE  LastWord(q, S, G, base, k + 1)
    <3>1. j + 1 \in 1..Len(q) /\ j + 1 < k + 1 /\ q[j + 1] \in S /\ q[j + 1] \in G
      BY <1>1, <2>1
    <3>2. ASSUME NEW m \in 1..Len(q), j + 1 < m, m < k + 1 PROVE q[m] \notin S
      <4>1. m - 1 \in 1..Len(r) /\ j < m - 1 /\ m - 1 < k /\ q[m] = r[m - 1]
        BY <1>1, <3>2
      <4> QED BY <2>1, <4>1
    <3> QED BY <3>1, <3>2 DEF LastWord
  <2>2. ASSUME base2, \A m \in 1..Len(r) : m < k => r[m] \notin S
        PROVE  LastWord(q, S, G, base, k + 1)
    <3>1. ASSUME NEW m \in 1..Len(q), 1 < m, m < k + 1 PROVE q[m] \notin S
      <4>1. m - 1 \in 1..Len(r) /\ m - 1 < k /\ q[m] = r[m - 1]
        BY <1>1, <3>1
      <4> QED BY <2>2, <4>1
    <3>2. CASE Head(q) \in S
      <4>1. q[1] \in S /\ q[1] \in G /\ 1 \in 1..Len(q) /\ 1 < k + 1
        BY <1>1, <2>2, <3>2
      <4> QED BY <3>1, <4>1 DEF LastWord
    <3>3. CASE Head(q) \notin S
      <4>1. \A m \in 1..Len(q) : m = 1 \/ 1 < m
        OBVIOUS
      <4>2. base /\ \A m \in 1..Len(q) : m < k + 1 => q[m] \notin S
        BY <1>1, <2>2, <3>1, <3>3, <4>1
      <4> QED BY <4>2 DEF LastWord
    <3> QED BY <3>2, <3>3
  <2> QED BY <1>3, <2>1, <2>2 DEF LastWord
<1> QED BY <1>2, <1>3 DEF r

\* send: what is further to the front has the same last word, and the next
\* place has what was sent for its own.
LEMMA WordKept ==
  ASSUME NEW T, NEW q \in Seq(T), NEW p \in T, NEW S, NEW G, NEW base,
         NEW k \in Nat, k <= Len(q) + 1
  PROVE  LastWord(Append(q, p), S, G, base, k) <=> LastWord(q, S, G, base, k)
<1> DEFINE r == Append(q, p)
<1>1. /\ Len(q) \in Nat /\ Len(r) = Len(q) + 1
      /\ \A i \in 1..Len(q) : r[i] = q[i] /\ i \in 1..Len(r)
      /\ \A i \in 1..Len(r) : i < k => i \in 1..Len(q)
  OBVIOUS
<1> HIDE DEF r
<1> QED BY <1>1 DEF LastWord, r

LEMMA WordLast ==
  ASSUME NEW T, NEW q \in Seq(T), NEW p \in T, NEW S, NEW G, NEW base
  PROVE  LastWord(Append(q, p), S, G, base, Len(Append(q, p)) + 1)
           <=> IF p \in S THEN p \in G ELSE LastWord(q, S, G, base, Len(q) + 1)
<1> DEFINE r == Append(q, p)
<1>1. /\ Len(q) \in Nat /\ Len(r) = Len(q) + 1 /\ r[Len(q) + 1] = p
      /\ Len(q) + 1 \in 1..Len(r) /\ Len(q) + 1 < Len(r) + 1
      /\ \A i \in 1..Len(q) : r[i] = q[i] /\ i \in 1..Len(r) /\ i < Len(q) + 1 /\ i < Len(r) + 1
      /\ \A i \in 1..Len(r) : i \in 1..Len(q) \/ i = Len(q) + 1
  OBVIOUS
<1> HIDE DEF r
<1>2. CASE p \in S
  <2>1. ASSUME p \in G PROVE LastWord(r, S, G, base, Len(r) + 1)
    <3>1. ASSUME NEW m \in 1..Len(r), Len(q) + 1 < m PROVE FALSE
      BY <1>1, <3>1
    <3> QED BY <1>1, <1>2, <2>1, <3>1 DEF LastWord
  <2>2. ASSUME LastWord(r, S, G, base, Len(r) + 1) PROVE p \in G
    <3>1. PICK j \in 1..Len(r) : /\ r[j] \in G
                                 /\ \A m \in 1..Len(r) : j < m /\ m < Len(r) + 1 => r[m] \notin S
      BY <1>1, <1>2, <2>2 DEF LastWord
    <3>2. j = Len(q) + 1
      BY <1>1, <1>2, <3>1
    <3> QED BY <1>1, <3>1, <3>2
  <2> QED BY <1>2, <2>1, <2>2 DEF r
<1>3. CASE p \notin S
  <2>1. ASSUME LastWord(r, S, G, base, Len(r) + 1) PROVE LastWord(q, S, G, base, Len(q) + 1)
    <3>1. ASSUME NEW j \in 1..Len(r), r[j] \in S, r[j] \in G,
                 \A m \in 1..Len(r) : j < m /\ m < Len(r) + 1 => r[m] \notin S
          PROVE  LastWord(q, S, G, base, Len(q) + 1)
      <4>1. j \in 1..Len(q) /\ q[j] = r[j] /\ j < Len(q) + 1
        BY <1>1, <1>3, <3>1
      <4>2. \A m \in 1..Len(q) : j < m /\ m < Len(q) + 1 => q[m] \notin S
        BY <1>1, <3>1
      <4> QED BY <3>1, <4>1, <4>2 DEF LastWord
    <3>2. ASSUME base, \A m \in 1..Len(r) : m < Len(r) + 1 => r[m] \notin S
          PROVE  LastWord(q, S, G, base, Len(q) + 1)
      <4>1. \A m \in 1..Len(q) : q[m] \notin S
        BY <1>1, <3>2
      <4> QED BY <3>2, <4>1 DEF LastWord
    <3> QED BY <2>1, <3>1, <3>2 DEF LastWord
  <2>2. ASSUME LastWord(q, S, G, base, Len(q) + 1) PROVE LastWord(r, S, G, base, Len(r) + 1)
    <3>1. ASSUME NEW j \in 1..Len(q), q[j] \in S, q[j] \in G,
                 \A m \in 1..Len(q) : j < m /\ m < Len(q) + 1 => q[m] \notin S
          PROVE  LastWord(r, S, G, base, Len(r) + 1)
      <4>1. j \in 1..Len(r) /\ j < Len(r) + 1 /\ r[j] = q[j]
        BY <1>1
      <4>2. \A m \in 1..Len(r) : j < m => r[m] \notin S
        BY <1>1, <1>3, <3>1
      <4> QED BY <3>1, <4>1, <4>2 DEF LastWord
    <3>2. ASSUME base, \A m \in 1..Len(q) : m < Len(q) + 1 => q[m] \notin S
          PROVE  LastWord(r, S, G, base, Len(r) + 1)
      <4>1. \A m \in 1..Len(r) : r[m] \notin S
        BY <1>1, <1>3, <3>2
      <4> QED BY <3>2, <4>1 DEF LastWord
    <3> QED BY <2>2, <3>1, <3>2 DEF LastWord
  <2> QED BY <1>3, <2>1, <2>2 DEF r
<1> QED BY <1>2, <1>3
-----------------------------------------------------------------------------
(* Streams *)

\* A player's data on the link: what comes directly before p under its
\* identifier, if p is where it should be.
DataPacket == {ProxyData(i, x) : i \in Id, x \in Chunk}
About(i) == {p \in ServerPacket : p.type \in {"ProxyJoin", "ProxyData"} /\ p.id = i}
Before(p) ==
  {h \in About(p.id) : IF h.type = "ProxyJoin"
                         THEN p.data.n = 0
                         ELSE h.data.conn = p.data.conn /\ h.data.n + 1 = p.data.n}

\* W: the data the Client could read next.
NextDown(q, W, p, k) == LastWord(q, About(p.id), Before(p), p \in W, k)
DownInv(q, W) == \A k \in 1..Len(q) : q[k].type = "ProxyData" => NextDown(q, W, q[k], k)

\* The data the server could send next, and of these what the table t makes of
\* the packets in the session's channel.
Sendable(q, W) == {p \in DataPacket : NextDown(q, W, p, Len(q) + 1)}
HasEntry(t, c) == AddrOf[c] \in DOMAIN t /\ t[AddrOf[c]].tx = c
Readable(t, Z) == {x \in Chunk : HasEntry(t, x.conn) => ProxyData(t[AddrOf[x.conn]].id, x) \in Z}

\* The same in the session's channel: E is what the session could read next, N
\* what its players could queue next.
Of(c) == {m \in ClientToProxy : \/ m.type = "AddMinecraftClient" /\ m.tx = c
                                \/ m.type = "Packet" /\ m.data.conn = c}
Pred(x) ==
  {m \in Of(x.conn) : IF m.type = "AddMinecraftClient" THEN x.n = 0 ELSE m.data.n + 1 = x.n}
NextUp(r, E, x, k) == LastWord(r, Of(x.conn), Pred(x), x \in E, k)
UpInv(r, E, N) ==
  /\ \A k \in 1..Len(r) : r[k].type = "Packet" => NextUp(r, E, r[k].data, k)
  /\ \A x \in N : NextUp(r, E, x, Len(r) + 1)

FlowInv(r, t, q, W, N) == DownInv(q, W) /\ UpInv(r, Readable(t, Sendable(q, W)), N)

\* The kinds of data packet.
LEMMA DataKinds ==
  ASSUME NEW p \in ServerPacket
  PROVE  /\ p.type = "ProxyData" => p \in DataPacket /\ p.id \in Id /\ p.data \in Chunk /\ p = ProxyData(p.id, p.data)
         /\ p.type = "ProxyJoin" => p.id \in Id /\ p = ProxyJoin(p.id)
         /\ p.type = "ProxyDisconnect" => p.id \in Id /\ p = ProxyDisconnect(p.id)
BY DEF ServerPacket, DataPacket, Plain, ProxyJoin, ProxyDisconnect, ProxyData

LEMMA DataFields ==
  ASSUME NEW p \in DataPacket
  PROVE  p \in ServerPacket /\ p.type = "ProxyData" /\ p.id \in Id /\ p.data \in Chunk /\ p = ProxyData(p.id, p.data)
BY DEF ServerPacket, DataPacket, Plain, ProxyJoin, ProxyDisconnect, ProxyData

\* More may be read.
LEMMA UpGrows ==
  ASSUME NEW r, NEW E, NEW E2, NEW N, NEW N2, UpInv(r, E, N), E \subseteq E2, N2 \subseteq N
  PROVE  UpInv(r, E2, N2)
<1>1. \A x, k : NextUp(r, E, x, k) => NextUp(r, E2, x, k)
  BY DEF NextUp, LastWord
<1> QED BY <1>1 DEF UpInv

LEMMA DownGrows ==
  ASSUME NEW q, NEW W, NEW V, W \subseteq V
  PROVE  /\ DownInv(q, W) => DownInv(q, V)
         /\ Sendable(q, W) \subseteq Sendable(q, V)
<1>1. \A p, k : NextDown(q, W, p, k) => NextDown(q, V, p, k)
  BY DEF NextDown, LastWord
<1> QED BY <1>1 DEF DownInv, Sendable

LEMMA ReadableGrows ==
  ASSUME NEW t, NEW u, NEW Y, NEW Z, Y \subseteq Z,
         \A c \in Conn : HasEntry(u, c) => HasEntry(t, c) /\ u[AddrOf[c]].id = t[AddrOf[c]].id
  PROVE  Readable(t, Y) \subseteq Readable(u, Z)
BY DEF Readable, Chunk

\* Fewer entries, fewer players, more that the Client could read.
LEMMA FlowGrows ==
  ASSUME NEW r, NEW t, NEW u, NEW q, NEW W, NEW V, NEW N, NEW N2,
         FlowInv(r, t, q, W, N), W \subseteq V, N2 \subseteq N,
         \A c \in Conn : HasEntry(u, c) => HasEntry(t, c) /\ u[AddrOf[c]].id = t[AddrOf[c]].id
  PROVE  FlowInv(r, u, q, V, N2)
<1>1. DownInv(q, V) /\ Sendable(q, W) \subseteq Sendable(q, V)
  BY DownGrows DEF FlowInv
<1>2. Readable(t, Sendable(q, W)) \subseteq Readable(u, Sendable(q, V))
  BY <1>1, ReadableGrows
<1>3. UpInv(r, Readable(u, Sendable(q, V)), N2)
  BY <1>2, UpGrows DEF FlowInv
<1> QED BY <1>1, <1>3 DEF FlowInv

\* The Client has closed its end: nobody reads the link any more.
LEMMA FlowClosed ==
  ASSUME NEW r, NEW t, NEW q, NEW W, NEW N, FlowInv(r, t, q, W, N)
  PROVE  FlowInv(r, t, <<>>, DataPacket, N)
<1>1. DownInv(<<>>, DataPacket)
  BY DEF DownInv
<1>2. Sendable(<<>>, DataPacket) = DataPacket
  BY WordEmpty DEF Sendable, NextDown
<1>3. Sendable(q, W) \subseteq DataPacket
  BY DEF Sendable
<1>4. Readable(t, Sendable(q, W)) \subseteq Readable(t, DataPacket)
  BY <1>3, ReadableGrows
<1>5. UpInv(r, Readable(t, DataPacket), N)
  BY <1>4, UpGrows DEF FlowInv
<1> QED BY <1>1, <1>2, <1>5 DEF FlowInv

\* The Client reads h.
LEMMA FlowRead ==
  ASSUME NEW r, NEW t, NEW q \in Seq(ServerPacket), q # <<>>, NEW W, NEW V, NEW N,
         FlowInv(r, t, q, W, N),
         \A p \in DataPacket :
           (IF Head(q) \in About(p.id) THEN Head(q) \in Before(p) ELSE p \in W) => p \in V
  PROVE  FlowInv(r, t, Tail(q), V, N)
<1> DEFINE s == Tail(q)
<1>1. /\ Len(q) \in Nat /\ Len(s) = Len(q) - 1 /\ Len(s) \in Nat
      /\ \A i \in 1..Len(s) : s[i] = q[i + 1] /\ i + 1 \in 1..Len(q)
      /\ \A i \in 1..Len(q) : q[i] \in ServerPacket
  OBVIOUS
<1>2. ASSUME NEW p \in DataPacket, NEW k \in Nat, k >= 1, NextDown(q, W, p, k + 1)
      PROVE  NextDown(s, V, p, k)
  <2>1. PICK base2 \in BOOLEAN :
           base2 <=> IF Head(q) \in About(p.id) THEN Head(q) \in Before(p) ELSE p \in W
    OBVIOUS
  <2>2. LastWord(s, About(p.id), Before(p), base2, k)
    BY <1>2, <2>1, WordTail DEF NextDown
  <2>3. base2 => p \in V
    BY <2>1
  <2> QED BY <2>2, <2>3, WordBase DEF NextDown
<1> HIDE DEF s
<1>3. DownInv(s, V)
  <2> SUFFICES ASSUME NEW k \in 1..Len(s), s[k].type = "ProxyData" PROVE NextDown(s, V, s[k], k)
    BY DEF DownInv
  <2>1. s[k] = q[k + 1] /\ k + 1 \in 1..Len(q) /\ k \in Nat /\ k >= 1 /\ s[k] \in ServerPacket
    BY <1>1
  <2>2. NextDown(q, W, s[k], k + 1)
    BY <2>1 DEF FlowInv, DownInv
  <2>3. s[k] \in DataPacket
    BY <2>1, DataKinds
  <2> QED BY <1>2, <2>1, <2>2, <2>3
<1>4. Sendable(q, W) \subseteq Sendable(s, V)
  <2>1. Len(s) + 1 \in Nat /\ Len(s) + 1 >= 1 /\ (Len(s) + 1) + 1 = Len(q) + 1
    BY <1>1
  <2>2. ASSUME NEW p \in DataPacket, NextDown(q, W, p, Len(q) + 1)
        PROVE  NextDown(s, V, p, Len(s) + 1)
    BY <1>2, <2>1, <2>2
  <2> QED BY <2>2 DEF Sendable
<1>5. Readable(t, Sendable(q, W)) \subseteq Readable(t, Sendable(s, V))
  BY <1>4, ReadableGrows
<1>6. UpInv(r, Readable(t, Sendable(s, V)), N)
  BY <1>5, UpGrows DEF FlowInv
<1> QED BY <1>3, <1>6 DEF FlowInv, s

\* The session reads a message.
LEMMA UpRead ==
  ASSUME NEW r \in Seq(ClientToProxy), r # <<>>, NEW E, NEW E2, NEW N, N \subseteq Chunk,
         UpInv(r, E, N),
         \A x \in Chunk :
           (IF Head(r) \in Of(x.conn) THEN Head(r) \in Pred(x) ELSE x \in E) => x \in E2
  PROVE  UpInv(Tail(r), E2, N)
<1> DEFINE s == Tail(r)
<1>1. /\ Len(r) \in Nat /\ Len(s) = Len(r) - 1 /\ Len(s) \in Nat
      /\ \A i \in 1..Len(s) : s[i] = r[i + 1] /\ i + 1 \in 1..Len(r)
      /\ \A i \in 1..Len(r) : r[i] \in ClientToProxy
  OBVIOUS
<1>2. ASSUME NEW x \in Chunk, NEW k \in Nat, k >= 1, NextUp(r, E, x, k + 1)
      PROVE  NextUp(s, E2, x, k)
  <2>1. PICK base2 \in BOOLEAN :
           base2 <=> IF Head(r) \in Of(x.conn) THEN Head(r) \in Pred(x) ELSE x \in E
    OBVIOUS
  <2>2. LastWord(s, Of(x.conn), Pred(x), base2, k)
    BY <1>2, <2>1, WordTail DEF NextUp
  <2>3. base2 => x \in E2
    BY <2>1
  <2> QED BY <2>2, <2>3, WordBase DEF NextUp
<1> HIDE DEF s
<1>3. ASSUME NEW k \in 1..Len(s), s[k].type = "Packet" PROVE NextUp(s, E2, s[k].data, k)
  <2>1. s[k] = r[k + 1] /\ k + 1 \in 1..Len(r) /\ k \in Nat /\ k >= 1 /\ s[k] \in ClientToProxy
    BY <1>1
  <2>2. NextUp(r, E, s[k].data, k + 1)
    BY <1>3, <2>1 DEF UpInv
  <2>3. s[k].data \in Chunk
    BY <1>3, <2>1, MessageKinds
  <2> QED BY <1>2, <2>1, <2>2, <2>3
<1>4. ASSUME NEW x \in N PROVE NextUp(s, E2, x, Len(s) + 1)
  <2>1. Len(s) + 1 \in Nat /\ Len(s) + 1 >= 1 /\ (Len(s) + 1) + 1 = Len(r) + 1
    BY <1>1
  <2>2. NextUp(r, E, x, (Len(s) + 1) + 1) /\ x \in Chunk
    BY <2>1 DEF UpInv
  <2> QED BY <1>2, <2>1, <2>2
<1> QED BY <1>3, <1>4 DEF UpInv, s

\* A player's task queues m, and what it could queue next changes.
LEMMA UpPut ==
  ASSUME NEW r \in Seq(ClientToProxy), NEW m \in ClientToProxy, NEW E, NEW N, NEW N2,
         UpInv(r, E, N), m.type = "Packet" => m.data \in N,
         \A x \in N2 : IF m \in Of(x.conn) THEN m \in Pred(x) ELSE x \in N
  PROVE  UpInv(Append(r, m), E, N2)
<1> DEFINE s == Append(r, m)
<1>1. /\ Len(r) \in Nat /\ Len(s) = Len(r) + 1 /\ s[Len(r) + 1] = m
      /\ \A i \in 1..Len(r) : s[i] = r[i] /\ i \in Nat /\ i <= Len(r) + 1
      /\ \A i \in 1..Len(s) : i \in 1..Len(r) \/ i = Len(r) + 1
  OBVIOUS
<1>2. ASSUME NEW x, NEW k \in Nat, k <= Len(r) + 1, NextUp(r, E, x, k) PROVE NextUp(s, E, x, k)
  BY <1>2, WordKept DEF NextUp
<1>3. ASSUME NEW x \in N2 PROVE NextUp(s, E, x, Len(s) + 1)
  <2>1. m \notin Of(x.conn) => NextUp(r, E, x, Len(r) + 1)
    BY DEF UpInv
  <2> QED BY <2>1, WordLast DEF NextUp
<1> HIDE DEF s
<1>4. ASSUME NEW k \in 1..Len(s), s[k].type = "Packet" PROVE NextUp(s, E, s[k].data, k)
  <2>1. CASE k \in 1..Len(r)
    <3>1. s[k] = r[k] /\ k \in Nat /\ k <= Len(r) + 1
      BY <1>1, <2>1
    <3>2. NextUp(r, E, s[k].data, k)
      BY <1>4, <2>1, <3>1 DEF UpInv
    <3> QED BY <1>2, <3>1, <3>2
  <2>2. CASE k = Len(r) + 1
    <3>1. s[k] = m /\ k \in Nat /\ k <= Len(r) + 1 /\ m.data \in N
      BY <1>1, <1>4, <2>2
    <3>2. NextUp(r, E, m.data, k)
      BY <2>2, <3>1 DEF UpInv
    <3> QED BY <1>2, <3>1, <3>2
  <2> QED BY <1>1, <2>1, <2>2
<1> QED BY <1>3, <1>4 DEF UpInv, s

\* The session sends p.
LEMMA DownSend ==
  ASSUME NEW q \in Seq(ServerPacket), NEW p \in ServerPacket, NEW W, DownInv(q, W),
         p.type = "ProxyData" => p \in Sendable(q, W)
  PROVE  /\ DownInv(Append(q, p), W)
         /\ \A d \in DataPacket : (IF p \in About(d.id) THEN p \in Before(d) ELSE d \in Sendable(q, W))
                                    => d \in Sendable(Append(q, p), W)
<1> DEFINE s == Append(q, p)
<1>1. /\ Len(q) \in Nat /\ Len(s) = Len(q) + 1 /\ s[Len(q) + 1] = p
      /\ \A i \in 1..Len(q) : s[i] = q[i] /\ i \in Nat /\ i <= Len(q) + 1
      /\ \A i \in 1..Len(s) : i \in 1..Len(q) \/ i = Len(q) + 1
  OBVIOUS
<1>2. ASSUME NEW d, NEW k \in Nat, k <= Len(q) + 1, NextDown(q, W, d, k) PROVE NextDown(s, W, d, k)
  BY <1>2, WordKept DEF NextDown
<1>3. ASSUME NEW d \in DataPacket, IF p \in About(d.id) THEN p \in Before(d) ELSE d \in Sendable(q, W)
      PROVE  d \in Sendable(s, W)
  <2>1. p \notin About(d.id) => NextDown(q, W, d, Len(q) + 1)
    BY <1>3 DEF Sendable
  <2>2. NextDown(s, W, d, Len(s) + 1)
    BY <1>3, <2>1, WordLast DEF NextDown
  <2> QED BY <2>2 DEF Sendable
<1> HIDE DEF s
<1>4. ASSUME NEW k \in 1..Len(s), s[k].type = "ProxyData" PROVE NextDown(s, W, s[k], k)
  <2>1. CASE k \in 1..Len(q)
    <3>1. s[k] = q[k] /\ k \in Nat /\ k <= Len(q) + 1
      BY <1>1, <2>1
    <3>2. NextDown(q, W, s[k], k)
      BY <1>4, <2>1, <3>1 DEF DownInv
    <3> QED BY <1>2, <3>1, <3>2
  <2>2. CASE k = Len(q) + 1
    <3>1. s[k] = p /\ k \in Nat /\ k <= Len(q) + 1 /\ p \in Sendable(q, W)
      BY <1>1, <1>4, <2>2
    <3>2. NextDown(q, W, p, k)
      BY <2>2, <3>1 DEF Sendable
    <3> QED BY <1>2, <3>1, <3>2
  <2> QED BY <1>1, <2>1, <2>2
<1> QED BY <1>3, <1>4 DEF DownInv, s

\* The link after a send to a Client that may have closed its end: then there
\* is nothing on it and nothing it could not read.
Sent(q, p, open) == IF open THEN Append(q, p) ELSE q
Ended(q, W) == q = <<>> /\ W = DataPacket

LEMMA SentDown ==
  ASSUME NEW q \in Seq(ServerPacket), NEW p \in ServerPacket, NEW W, NEW open, DownInv(q, W),
         p.type = "ProxyData" => p \in Sendable(q, W), open \/ Ended(q, W)
  PROVE  /\ DownInv(Sent(q, p, open), W)
         /\ \A d \in DataPacket : (IF p \in About(d.id) THEN p \in Before(d) ELSE d \in Sendable(q, W))
                                    => d \in Sendable(Sent(q, p, open), W)
<1>1. CASE open
  BY <1>1, DownSend DEF Sent
<1>2. CASE ~open
  <2>1. q = <<>> /\ W = DataPacket /\ Sent(q, p, open) = q
    BY <1>2 DEF Ended, Sent
  <2>2. Sendable(q, W) = DataPacket
    BY <2>1, WordEmpty DEF Sendable, NextDown
  <2> QED BY <2>1, <2>2
<1> QED BY <1>1, <1>2

\* The session sends something that is not about a stream.
LEMMA FlowSend ==
  ASSUME NEW r, NEW t, NEW q \in Seq(ServerPacket), NEW W, NEW N, FlowInv(r, t, q, W, N),
         NEW p \in ServerPacket, p.type \notin {"ProxyJoin", "ProxyData"},
         NEW open, open \/ Ended(q, W)
  PROVE  FlowInv(r, t, Sent(q, p, open), W, N)
<1> DEFINE q2 == Sent(q, p, open)
<1>1. /\ DownInv(q2, W)
      /\ \A d \in DataPacket : d \in Sendable(q, W) => d \in Sendable(q2, W)
  <2>1. \A i : p \notin About(i)
    BY DEF About
  <2>2. p.type # "ProxyData" /\ DownInv(q, W)
    BY DEF FlowInv
  <2> QED BY <2>1, <2>2, SentDown
<1> HIDE DEF q2
<1>2. Sendable(q, W) \subseteq Sendable(q2, W)
  BY <1>1 DEF Sendable
<1>3. Readable(t, Sendable(q, W)) \subseteq Readable(t, Sendable(q2, W))
  BY <1>2, ReadableGrows
<1>4. UpInv(r, Readable(t, Sendable(q2, W)), N)
  BY <1>3, UpGrows DEF FlowInv
<1> QED BY <1>1, <1>4 DEF FlowInv, q2

LEMMA FlowRemove ==
  ASSUME NEW r \in Seq(ClientToProxy), r # <<>>, NEW t, NEW u, NEW q, NEW W, NEW N, N \subseteq Chunk,
         FlowInv(r, t, q, W, N), Head(r).type = "RemoveMinecraftClient",
         \A c \in Conn : HasEntry(u, c) => HasEntry(t, c) /\ u[AddrOf[c]].id = t[AddrOf[c]].id
  PROVE  FlowInv(Tail(r), u, q, W, N)
<1>1. \A c : Head(r) \notin Of(c)
  BY DEF Of
<1>2. UpInv(Tail(r), Readable(t, Sendable(q, W)), N)
  BY <1>1, UpRead DEF FlowInv
<1>3. FlowInv(Tail(r), t, q, W, N)
  BY <1>2 DEF FlowInv
<1> QED BY <1>3, FlowGrows

\* u is t with an entry of m, under the identifier i that was free.
Entered(t, u, m, i) ==
  /\ \A a \in DOMAIN t : t[a].id # i
  /\ DOMAIN u = DOMAIN t \cup {m.addr} /\ u[m.addr].tx = m.tx /\ u[m.addr].id = i
  /\ \A a \in DOMAIN t : a # m.addr => u[a] = t[a]

LEMMA FlowAdd ==
  ASSUME NEW r \in Seq(ClientToProxy), r # <<>>, NEW t, NEW u, NEW q \in Seq(ServerPacket),
         NEW W, NEW N, N \subseteq Chunk, FlowInv(r, t, q, W, N),
         NEW m, m = Head(r), m.type = "AddMinecraftClient", AddrOf[m.tx] = m.addr,
         NEW i \in Id, Entered(t, u, m, i), NEW open, open \/ Ended(q, W)
  PROVE  FlowInv(Tail(r), u, Sent(q, ProxyJoin(i), open), W, N)
<1> USE DEF Entered
<1> DEFINE p == ProxyJoin(i)
           q2 == Sent(q, p, open)
<1>0. /\ p \in ServerPacket /\ p.type = "ProxyJoin" /\ p.id = i /\ m \in ClientToProxy
      /\ DownInv(q, W) /\ UpInv(r, Readable(t, Sendable(q, W)), N)
  BY DEF ServerPacket, ProxyJoin, FlowInv
<1>1. /\ DownInv(q2, W)
      /\ \A d \in DataPacket : (IF p \in About(d.id) THEN p \in Before(d) ELSE d \in Sendable(q, W))
                                 => d \in Sendable(q2, W)
  BY <1>0, SentDown
<1> HIDE DEF p, q2
<1>2. ASSUME NEW x \in Chunk,
             IF m \in Of(x.conn) THEN m \in Pred(x) ELSE x \in Readable(t, Sendable(q, W)),
             HasEntry(u, x.conn)
      PROVE  ProxyData(u[AddrOf[x.conn]].id, x) \in Sendable(q2, W)
  <2>1. CASE x.conn = m.tx
    <3>1. x.n = 0
      BY <1>0, <1>2, <2>1 DEF Of, Pred
    <3>2. u[AddrOf[x.conn]].id = i
      BY <2>1
    <3>3. ProxyData(i, x) \in DataPacket /\ ProxyData(i, x).id = i /\ ProxyData(i, x).data = x
      BY DEF DataPacket, ProxyData
    <3>4. p \in About(i) /\ p \in Before(ProxyData(i, x))
      BY <1>0, <3>1, <3>3 DEF About, Before
    <3> QED BY <1>1, <3>2, <3>3, <3>4
  <2>2. CASE x.conn # m.tx
    <3>1. m \notin Of(x.conn)
      BY <2>2 DEF Of
    <3>2. AddrOf[x.conn] # m.addr /\ AddrOf[x.conn] \in DOMAIN t
      BY <1>2, <2>2 DEF HasEntry
    <3>3. HasEntry(t, x.conn) /\ u[AddrOf[x.conn]] = t[AddrOf[x.conn]]
      BY <1>2, <3>2 DEF HasEntry
    <3> DEFINE j == t[AddrOf[x.conn]].id
               d == ProxyData(j, x)
    <3>4. d \in Sendable(q, W) /\ j # i
      BY <1>2, <3>1, <3>2, <3>3 DEF Readable
    <3>5. d \in DataPacket /\ d.id = j
      BY <3>4 DEF Sendable, ProxyData
    <3>6. p \notin About(d.id)
      BY <1>0, <3>4, <3>5 DEF About
    <3> QED BY <1>1, <3>3, <3>4, <3>5, <3>6
  <2> QED BY <2>1, <2>2
<1>3. \A x \in Chunk :
        (IF m \in Of(x.conn) THEN m \in Pred(x) ELSE x \in Readable(t, Sendable(q, W)))
          => x \in Readable(u, Sendable(q2, W))
  BY <1>2 DEF Readable
<1>4. UpInv(Tail(r), Readable(u, Sendable(q2, W)), N)
  BY <1>0, <1>3, UpRead
<1> QED BY <1>1, <1>4 DEF FlowInv, q2, p

LEMMA FlowPacket ==
  ASSUME NEW r \in Seq(ClientToProxy), r # <<>>, NEW t, NEW q \in Seq(ServerPacket),
         NEW W, NEW N, N \subseteq Chunk, FlowInv(r, t, q, W, N),
         NEW m, m = Head(r), m.type = "Packet", AddrOf[m.data.conn] = m.addr,
         m.addr \in DOMAIN t, t[m.addr].tx = m.data.conn, NEW i \in Id, t[m.addr].id = i,
         \A a \in DOMAIN t : t[a].id = i => a = m.addr,
         NEW open, open \/ Ended(q, W)
  PROVE  FlowInv(Tail(r), t, Sent(q, ProxyData(i, m.data), open), W, N)
<1> DEFINE p == ProxyData(i, m.data)
           q2 == Sent(q, p, open)
<1>0. /\ m \in ClientToProxy /\ m.data \in Chunk /\ m = r[1] /\ 1 \in 1..Len(r)
      /\ DownInv(q, W) /\ UpInv(r, Readable(t, Sendable(q, W)), N)
  BY TailShifts, MessageKinds DEF FlowInv
<1>1. p \in ServerPacket /\ p.type = "ProxyData" /\ p.id = i /\ p.data = m.data
  BY <1>0 DEF ServerPacket, ProxyData
<1>2. p \in Sendable(q, W)
  <2>1. NextUp(r, Readable(t, Sendable(q, W)), m.data, 1)
    BY <1>0 DEF UpInv
  <2>2. m.data \in Readable(t, Sendable(q, W))
    BY <2>1 DEF NextUp, LastWord
  <2> QED BY <2>2 DEF Readable, HasEntry
<1>3. /\ DownInv(q2, W)
      /\ \A d \in DataPacket : (IF p \in About(d.id) THEN p \in Before(d) ELSE d \in Sendable(q, W))
                                 => d \in Sendable(q2, W)
  BY <1>0, <1>1, <1>2, SentDown
<1> HIDE DEF p, q2
<1>4. ASSUME NEW x \in Chunk,
             IF m \in Of(x.conn) THEN m \in Pred(x) ELSE x \in Readable(t, Sendable(q, W)),
             HasEntry(t, x.conn)
      PROVE  ProxyData(t[AddrOf[x.conn]].id, x) \in Sendable(q2, W)
  <2>1. CASE x.conn = m.data.conn
    <3>1. m.data.n + 1 = x.n
      BY <1>0, <1>4, <2>1 DEF Of, Pred
    <3>2. ProxyData(i, x) \in DataPacket /\ ProxyData(i, x).id = i /\ ProxyData(i, x).data = x
      BY DEF DataPacket, ProxyData
    <3>3. p \in About(i) /\ p \in Before(ProxyData(i, x))
      BY <1>1, <2>1, <3>1, <3>2 DEF About, Before
    <3> QED BY <1>3, <2>1, <3>2, <3>3
  <2>2. CASE x.conn # m.data.conn
    <3>1. m \notin Of(x.conn)
      BY <2>2 DEF Of
    <3> DEFINE j == t[AddrOf[x.conn]].id
               d == ProxyData(j, x)
    <3>2. d \in Sendable(q, W)
      BY <1>4, <3>1 DEF Readable
    <3>3. j # i
      BY <1>4, <2>2 DEF HasEntry
    <3>4. d \in DataPacket /\ d.id = j
      BY <3>2 DEF Sendable, ProxyData
    <3>5. p \notin About(d.id)
      BY <1>1, <3>3, <3>4 DEF About
    <3> QED BY <1>3, <3>2, <3>4, <3>5
  <2> QED BY <2>1, <2>2
<1>5. \A x \in Chunk :
        (IF m \in Of(x.conn) THEN m \in Pred(x) ELSE x \in Readable(t, Sendable(q, W)))
          => x \in Readable(t, Sendable(q2, W))
  BY <1>4 DEF Readable
<1>6. UpInv(Tail(r), Readable(t, Sendable(q2, W)), N)
  BY <1>0, <1>5, UpRead
<1> QED BY <1>3, <1>6 DEF FlowInv, q2, p

LEMMA FlowLeave ==
  ASSUME NEW r, NEW t, NEW q, NEW W, NEW N, N \subseteq Chunk, FlowInv(r, t, q, W, N)
  PROVE  FlowInv(<<>>, EmptyMap, q, W, N)
<1>1. \A c : ~HasEntry(EmptyMap, c)
  BY DEF HasEntry, EmptyMap
<1>2. Readable(EmptyMap, Sendable(q, W)) = Chunk
  BY <1>1 DEF Readable
<1>3. \A x \in N : NextUp(<<>>, Chunk, x, Len(<<>>) + 1)
  BY WordEmpty DEF NextUp
<1>4. UpInv(<<>>, Chunk, N)
  BY <1>3 DEF UpInv
<1> QED BY <1>2, <1>4 DEF FlowInv
-----------------------------------------------------------------------------
(* One place *)

\* A player's first packet is queued, or on the link, or what a local
\* connection began with; T and V are its forms in the channel r and on the
\* link q, U the local connections.  Before B it is nowhere.
Has(q, T) == \E k \in 1..Len(q) : q[k] \in T
Once(q, T) == \A j, k \in 1..Len(q) : q[j] \in T /\ q[k] \in T => j = k
OnePlace(r, T, q, V, U, B) ==
  /\ Once(r, T) /\ Once(q, V) /\ \A l, m \in U : l = m
  /\ Has(r, T) => ~Has(q, V) /\ U = {}
  /\ Has(q, V) => U = {}
  /\ (Has(r, T) \/ Has(q, V) \/ U # {}) => B

LEMMA HasTail ==
  ASSUME NEW A, NEW q \in Seq(A), q # <<>>, NEW T, Once(q, T)
  PROVE  /\ Once(Tail(q), T)
         /\ Has(Tail(q), T) => Has(q, T) /\ Head(q) \notin T
         /\ Head(q) \in T => Has(q, T)
<1> DEFINE s == Tail(q)
<1>1. /\ Len(q) \in Nat /\ Len(s) = Len(q) - 1 /\ Head(q) = q[1] /\ 1 \in 1..Len(q)
      /\ \A i \in 1..Len(s) : s[i] = q[i + 1] /\ i + 1 \in 1..Len(q) /\ i + 1 # 1
  OBVIOUS
<1> HIDE DEF s
<1>2. ASSUME NEW j \in 1..Len(s), NEW k \in 1..Len(s), s[j] \in T, s[k] \in T PROVE j = k
  <2>1. j + 1 = k + 1
    BY <1>1, <1>2 DEF Once
  <2> QED BY <2>1
<1>3. ASSUME NEW k \in 1..Len(s), s[k] \in T PROVE Has(q, T) /\ Head(q) \notin T
  <2>1. q[k + 1] \in T /\ k + 1 \in 1..Len(q) /\ k + 1 # 1
    BY <1>1, <1>3
  <2> QED BY <1>1, <2>1 DEF Has, Once
<1>4. Has(s, T) => Has(q, T) /\ Head(q) \notin T
  BY <1>3 DEF Has
<1>5. Head(q) \in T => Has(q, T)
  BY <1>1 DEF Has
<1> QED BY <1>2, <1>4, <1>5 DEF Once, s

LEMMA HasAppend ==
  ASSUME NEW A, NEW q \in Seq(A), NEW p \in A, NEW T
  PROVE  /\ Has(Append(q, p), T) <=> Has(q, T) \/ p \in T
         /\ Once(q, T) /\ (p \in T => ~Has(q, T)) => Once(Append(q, p), T)
<1> DEFINE s == Append(q, p)
<1>1. /\ Len(q) \in Nat /\ Len(s) = Len(q) + 1 /\ s[Len(q) + 1] = p /\ Len(q) + 1 \in 1..Len(s)
      /\ \A i \in 1..Len(q) : s[i] = q[i] /\ i \in 1..Len(s)
      /\ \A i \in 1..Len(s) : i \in 1..Len(q) \/ i = Len(q) + 1
  OBVIOUS
<1> HIDE DEF s
<1>2. Has(s, T) <=> Has(q, T) \/ p \in T
  <2>1. Has(s, T) => Has(q, T) \/ p \in T
    BY <1>1 DEF Has
  <2>2. Has(q, T) => Has(s, T)
    BY <1>1 DEF Has
  <2>3. p \in T => Has(s, T)
    BY <1>1 DEF Has
  <2> QED BY <2>1, <2>2, <2>3
<1>3. ASSUME Once(q, T), p \in T => ~Has(q, T),
             NEW j \in 1..Len(s), NEW k \in 1..Len(s), s[j] \in T, s[k] \in T
      PROVE  j = k
  BY <1>1, <1>3 DEF Once, Has
<1> QED BY <1>2, <1>3 DEF Once, s

\* The session moves its head to the link, or drops it; the Client moves the
\* head of the link to a local connection, or drops it; fewer of anything.
LEMMA PlaceRead ==
  ASSUME NEW r \in Seq(ClientToProxy), r # <<>>, NEW T, NEW q \in Seq(ServerPacket), NEW V, NEW U,
         NEW B, OnePlace(r, T, q, V, U, B), NEW p \in ServerPacket, p \in V => Head(r) \in T, NEW open
  PROVE  /\ OnePlace(Tail(r), T, Sent(q, p, open), V, U, B)
         /\ OnePlace(Tail(r), T, q, V, U, B)
<1>1. /\ Once(Tail(r), T)
      /\ Has(Tail(r), T) => Has(r, T) /\ Head(r) \notin T
      /\ Head(r) \in T => Has(r, T)
  BY HasTail DEF OnePlace
<1>2. /\ Has(Append(q, p), V) <=> Has(q, V) \/ p \in V
      /\ Once(q, V) /\ (p \in V => ~Has(q, V)) => Once(Append(q, p), V)
  BY HasAppend
<1> QED BY <1>1, <1>2 DEF OnePlace, Sent

LEMMA PlaceSend ==
  ASSUME NEW r, NEW T, NEW q \in Seq(ServerPacket), NEW V, NEW U, NEW B,
         OnePlace(r, T, q, V, U, B), NEW p \in ServerPacket, p \notin V, NEW open
  PROVE  OnePlace(r, T, Sent(q, p, open), V, U, B)
<1>1. /\ Has(Append(q, p), V) <=> Has(q, V) \/ p \in V
      /\ Once(q, V) /\ (p \in V => ~Has(q, V)) => Once(Append(q, p), V)
  BY HasAppend
<1> QED BY <1>1 DEF OnePlace, Sent

LEMMA PlaceTake ==
  ASSUME NEW r, NEW T, NEW q \in Seq(ServerPacket), q # <<>>, NEW V, NEW U, NEW U2, NEW B,
         OnePlace(r, T, q, V, U, B),
         U2 \subseteq U \/ (Head(q) \in V /\ \E l : U2 \subseteq U \cup {l})
  PROVE  OnePlace(r, T, Tail(q), V, U2, B)
<1>1. /\ Once(Tail(q), V)
      /\ Has(Tail(q), V) => Has(q, V) /\ Head(q) \notin V
      /\ Head(q) \in V => Has(q, V)
  BY HasTail DEF OnePlace
<1>2. CASE Head(q) \in V
  <2>1. U = {} /\ ~Has(Tail(q), V) /\ ~Has(r, T) /\ B /\ Once(r, T)
    BY <1>1, <1>2 DEF OnePlace
  <2>2. \A l, m \in U2 : l = m
    BY <2>1
  <2> QED BY <1>1, <2>1, <2>2 DEF OnePlace
<1>3. CASE Head(q) \notin V
  <2>1. U2 \subseteq U
    BY <1>3
  <2> QED BY <1>1, <1>3, <2>1 DEF OnePlace
<1> QED BY <1>2, <1>3

LEMMA PlacePut ==
  ASSUME NEW r \in Seq(ClientToProxy), NEW T, NEW q, NEW V, NEW U, NEW B, NEW B2,
         OnePlace(r, T, q, V, U, B), B => B2, NEW m \in ClientToProxy, m \in T => ~B /\ B2
  PROVE  OnePlace(Append(r, m), T, q, V, U, B2)
<1>1. /\ Has(Append(r, m), T) <=> Has(r, T) \/ m \in T
      /\ Once(r, T) /\ (m \in T => ~Has(r, T)) => Once(Append(r, m), T)
  BY HasAppend
<1>2. CASE m \in T
  <2>1. ~Has(r, T) /\ ~Has(q, V) /\ U = {} /\ B2
    BY <1>2 DEF OnePlace
  <2> QED BY <1>1, <1>2, <2>1 DEF OnePlace
<1>3. CASE m \notin T
  BY <1>1, <1>3 DEF OnePlace
<1> QED BY <1>2, <1>3

LEMMA PlaceShrink ==
  ASSUME NEW r, NEW T, NEW q, NEW V, NEW U, NEW U2, NEW B, NEW B2,
         OnePlace(r, T, q, V, U, B), U2 \subseteq U, B => B2
  PROVE  /\ OnePlace(r, T, q, V, U2, B2) /\ OnePlace(<<>>, T, q, V, U2, B2)
         /\ OnePlace(r, T, <<>>, V, U2, B2)
<1>1. Once(<<>>, T) /\ ~Has(<<>>, T) /\ Once(<<>>, V) /\ ~Has(<<>>, V)
  BY DEF Once, Has
<1> QED BY <1>1 DEF OnePlace
-----------------------------------------------------------------------------
(* Who is there *)

\* What the link says of the identifier i, and the channel of the address a.
Aside(i) == {p \in ServerPacket : p.type \in {"ProxyJoin", "ProxyDisconnect"} /\ p.id = i}
Joins == {p \in ServerPacket : p.type = "ProxyJoin"}
AtAddr(a) ==
  {m \in ClientToProxy : m.type \in {"AddMinecraftClient", "RemoveMinecraftClient"} /\ m.addr = a}
Adds == {m \in ClientToProxy : m.type = "AddMinecraftClient"}

\* The Client's table, with B in it, will have i when it has read as far as k;
\* the session's, with A in it, will have a.
Known(q, B, i, k) == LastWord(q, Aside(i), Joins, i \in B, k)
Present(r, A, a, k) == LastWord(r, AtAddr(a), Adds, a \in A, k)

\* Data comes under names that the reader will have; D is what the Client's
\* table will have when all has been read, and L is in what the session's will.
DataKnown(q, B) == \A k \in 1..Len(q) : q[k].type = "ProxyData" => Known(q, B, q[k].id, k)
AllKnown(q, B, D) == \A i \in Id : i \in D <=> Known(q, B, i, Len(q) + 1)
DataPresent(r, A) == \A k \in 1..Len(r) : r[k].type = "Packet" => Present(r, A, r[k].addr, k)
AllPresent(r, A, L) == \A a \in L : Present(r, A, a, Len(r) + 1)

LEMMA DataHasId ==
  ASSUME NEW p \in ServerPacket, p.type = "ProxyData"
  PROVE  p.id \in Id /\ \A i \in Id : p \notin Aside(i)
BY SMT DEF ServerPacket, Aside, Plain, ProxyJoin, ProxyDisconnect, ProxyData

LEMMA KnownRead ==
  ASSUME NEW q \in Seq(ServerPacket), q # <<>>, NEW B, NEW B2,
         \A i \in Id : i \in B2 <=> IF Head(q) \in Aside(i) THEN Head(q) \in Joins ELSE i \in B
  PROVE  /\ DataKnown(q, B) => DataKnown(Tail(q), B2)
         /\ \A D : AllKnown(q, B, D) => AllKnown(Tail(q), B2, D)
<1> DEFINE r == Tail(q)
<1>1. /\ Len(q) \in Nat /\ Len(r) \in Nat /\ Len(q) = Len(r) + 1
      /\ \A k \in 1..Len(r) : r[k] = q[k + 1] /\ k + 1 \in 1..Len(q) /\ k \in Nat /\ k >= 1
      /\ \A k \in 1..Len(q) : q[k] \in ServerPacket
      /\ Len(r) + 1 \in Nat /\ Len(r) + 1 >= 1
  OBVIOUS
<1>2. ASSUME NEW i \in Id, NEW k \in Nat, k >= 1
      PROVE  Known(q, B, i, k + 1) <=> Known(r, B2, i, k)
  <2> DEFINE S == Aside(i)
             G == Joins
  <2>1. PICK b \in BOOLEAN : b <=> i \in B
    OBVIOUS
  <2>2. PICK b2 \in BOOLEAN : b2 <=> i \in B2
    OBVIOUS
  <2>3. b2 <=> IF Head(q) \in S THEN Head(q) \in G ELSE b
    BY <2>1, <2>2
  <2> HIDE DEF S, G
  <2>4. LastWord(q, S, G, b, k + 1) <=> LastWord(Tail(q), S, G, b2, k)
    BY <1>2, <2>3, WordTail
  <2> QED BY <2>1, <2>2, <2>4 DEF Known, LastWord, S, G
<1> HIDE DEF r
<1>3. ASSUME DataKnown(q, B), NEW k \in 1..Len(r), r[k].type = "ProxyData"
      PROVE  Known(r, B2, r[k].id, k)
  <2>1. k \in Nat /\ k >= 1 /\ r[k] = q[k + 1] /\ k + 1 \in 1..Len(q) /\ q[k + 1] \in ServerPacket
    BY <1>1
  <2>2. r[k].id \in Id
    BY <1>3, <2>1, DataHasId
  <2>3. Known(q, B, q[k + 1].id, k + 1)
    BY <1>3, <2>1 DEF DataKnown
  <2> QED BY <1>2, <2>1, <2>2, <2>3
<1>4. ASSUME NEW D, AllKnown(q, B, D), NEW i \in Id
      PROVE  i \in D <=> Known(r, B2, i, Len(r) + 1)
  <2>1. i \in D <=> Known(q, B, i, Len(q) + 1)
    BY <1>4 DEF AllKnown
  <2> QED BY <1>1, <1>2, <2>1
<1> QED BY <1>3, <1>4 DEF DataKnown, AllKnown, r

LEMMA KnownHead ==
  ASSUME NEW q \in Seq(ServerPacket), q # <<>>, NEW B, DataKnown(q, B), Head(q).type = "ProxyData"
  PROVE  Head(q).id \in B
<1>1. 1 \in 1..Len(q) /\ q[1] = Head(q)
  OBVIOUS
<1>2. Known(q, B, q[1].id, 1)
  BY <1>1 DEF DataKnown
<1>3. \A j \in 1..Len(q) : ~(j < 1)
  OBVIOUS
<1> QED BY <1>1, <1>2, <1>3 DEF Known, LastWord

LEMMA KnownSend ==
  ASSUME NEW q \in Seq(ServerPacket), NEW p \in ServerPacket, NEW B, NEW D, NEW D2,
         DataKnown(q, B), AllKnown(q, B, D), p.type = "ProxyData" => p.id \in D,
         \A i \in Id : i \in D2 <=> IF p \in Aside(i) THEN p \in Joins ELSE i \in D
  PROVE  DataKnown(Append(q, p), B) /\ AllKnown(Append(q, p), B, D2)
<1> DEFINE r == Append(q, p)
<1>1. /\ Len(q) \in Nat /\ Len(r) = Len(q) + 1 /\ r[Len(q) + 1] = p
      /\ \A k \in 1..Len(r) : k \in Nat /\ k <= Len(q) + 1 /\ ((k \in 1..Len(q) /\ r[k] = q[k]) \/ k = Len(q) + 1)
      /\ \A k \in 1..Len(q) : q[k] \in ServerPacket
  OBVIOUS
<1>2. ASSUME NEW i \in Id, NEW k \in Nat, k <= Len(q) + 1
      PROVE  Known(r, B, i, k) <=> Known(q, B, i, k)
  BY <1>2, WordKept DEF Known
<1>3. ASSUME NEW i \in Id
      PROVE  Known(r, B, i, Len(r) + 1)
               <=> IF p \in Aside(i) THEN p \in Joins ELSE Known(q, B, i, Len(q) + 1)
  BY WordLast DEF Known
<1> HIDE DEF r
<1>4. ASSUME NEW k \in 1..Len(r), r[k].type = "ProxyData" PROVE Known(r, B, r[k].id, k)
  <2>1. CASE k \in 1..Len(q) /\ r[k] = q[k]
    <3>1. q[k].id \in Id
      BY <1>1, <1>4, <2>1, DataHasId
    <3>2. Known(q, B, q[k].id, k)
      BY <1>4, <2>1 DEF DataKnown
    <3> QED BY <1>1, <1>2, <2>1, <3>1, <3>2
  <2>2. CASE k = Len(q) + 1
    <3>1. r[k] = p /\ p.id \in Id /\ p.id \in D
      BY <1>1, <1>4, <2>2, DataHasId
    <3>2. Known(q, B, p.id, Len(q) + 1)
      BY <3>1 DEF AllKnown
    <3>3. k \in Nat /\ k <= Len(q) + 1
      BY <1>1
    <3> QED BY <1>2, <2>2, <3>1, <3>2, <3>3
  <2> QED BY <1>1, <2>1, <2>2
<1>5. ASSUME NEW i \in Id PROVE i \in D2 <=> Known(r, B, i, Len(r) + 1)
  BY <1>3 DEF AllKnown
<1> QED BY <1>4, <1>5 DEF DataKnown, AllKnown, r

LEMMA DataHasAddr ==
  ASSUME NEW m \in ClientToProxy, m.type = "Packet"
  PROVE  m.addr \in Addr /\ \A a : m \notin AtAddr(a)
BY MessageKinds DEF AtAddr

LEMMA PresentRead ==
  ASSUME NEW r \in Seq(ClientToProxy), r # <<>>, NEW A, NEW A2,
         \A a \in Addr : a \in A2 <=> IF Head(r) \in AtAddr(a) THEN Head(r) \in Adds ELSE a \in A
  PROVE  /\ DataPresent(r, A) => DataPresent(Tail(r), A2)
         /\ \A L \in SUBSET Addr : AllPresent(r, A, L) => AllPresent(Tail(r), A2, L)
<1> DEFINE q == Tail(r)
<1>1. /\ Len(r) \in Nat /\ Len(q) \in Nat /\ Len(r) = Len(q) + 1
      /\ \A k \in 1..Len(q) : q[k] = r[k + 1] /\ k + 1 \in 1..Len(r) /\ k \in Nat /\ k >= 1
      /\ \A k \in 1..Len(r) : r[k] \in ClientToProxy
      /\ Len(q) + 1 \in Nat /\ Len(q) + 1 >= 1
  OBVIOUS
<1>2. ASSUME NEW a \in Addr, NEW k \in Nat, k >= 1
      PROVE  Present(r, A, a, k + 1) <=> Present(q, A2, a, k)
  <2> DEFINE S == AtAddr(a)
             G == Adds
  <2>1. PICK b \in BOOLEAN : b <=> a \in A
    OBVIOUS
  <2>2. PICK b2 \in BOOLEAN : b2 <=> a \in A2
    OBVIOUS
  <2>3. b2 <=> IF Head(r) \in S THEN Head(r) \in G ELSE b
    BY <2>1, <2>2
  <2> HIDE DEF S, G
  <2>4. LastWord(r, S, G, b, k + 1) <=> LastWord(Tail(r), S, G, b2, k)
    BY <1>2, <2>3, WordTail
  <2> QED BY <2>1, <2>2, <2>4 DEF Present, LastWord, S, G
<1> HIDE DEF q
<1>3. ASSUME DataPresent(r, A), NEW k \in 1..Len(q), q[k].type = "Packet"
      PROVE  Present(q, A2, q[k].addr, k)
  <2>1. k \in Nat /\ k >= 1 /\ q[k] = r[k + 1] /\ k + 1 \in 1..Len(r) /\ r[k + 1] \in ClientToProxy
    BY <1>1
  <2>2. q[k].addr \in Addr
    BY <1>3, <2>1, DataHasAddr
  <2>3. Present(r, A, r[k + 1].addr, k + 1)
    BY <1>3, <2>1 DEF DataPresent
  <2> QED BY <1>2, <2>1, <2>2, <2>3
<1>4. ASSUME NEW L \in SUBSET Addr, AllPresent(r, A, L), NEW a \in L
      PROVE  Present(q, A2, a, Len(q) + 1)
  <2>1. Present(r, A, a, Len(r) + 1)
    BY <1>4 DEF AllPresent
  <2> QED BY <1>1, <1>2, <1>4, <2>1
<1> QED BY <1>3, <1>4 DEF DataPresent, AllPresent, q

LEMMA PresentHead ==
  ASSUME NEW r \in Seq(ClientToProxy), r # <<>>, NEW A, DataPresent(r, A), Head(r).type = "Packet"
  PROVE  Head(r).addr \in A
<1>1. 1 \in 1..Len(r) /\ r[1] = Head(r)
  OBVIOUS
<1>2. Present(r, A, r[1].addr, 1)
  BY <1>1 DEF DataPresent
<1>3. \A j \in 1..Len(r) : ~(j < 1)
  OBVIOUS
<1> QED BY <1>1, <1>2, <1>3 DEF Present, LastWord

\* The players there after m are L2.
LEMMA PresentSend ==
  ASSUME NEW r \in Seq(ClientToProxy), NEW m \in ClientToProxy, NEW A, NEW L \in SUBSET Addr,
         NEW L2 \in SUBSET Addr,
         DataPresent(r, A), AllPresent(r, A, L), m.type = "Packet" => m.addr \in L,
         \A a \in L2 : IF m \in AtAddr(a) THEN m \in Adds ELSE a \in L
  PROVE  DataPresent(Append(r, m), A) /\ AllPresent(Append(r, m), A, L2)
<1> DEFINE q == Append(r, m)
<1>1. /\ Len(r) \in Nat /\ Len(q) = Len(r) + 1 /\ q[Len(r) + 1] = m
      /\ \A k \in 1..Len(q) : k \in Nat /\ k <= Len(r) + 1 /\ ((k \in 1..Len(r) /\ q[k] = r[k]) \/ k = Len(r) + 1)
      /\ \A k \in 1..Len(r) : r[k] \in ClientToProxy
  OBVIOUS
<1>2. ASSUME NEW a \in Addr, NEW k \in Nat, k <= Len(r) + 1
      PROVE  Present(q, A, a, k) <=> Present(r, A, a, k)
  BY <1>2, WordKept DEF Present
<1>3. ASSUME NEW a \in Addr
      PROVE  Present(q, A, a, Len(q) + 1)
               <=> IF m \in AtAddr(a) THEN m \in Adds ELSE Present(r, A, a, Len(r) + 1)
  BY WordLast DEF Present
<1> HIDE DEF q
<1>4. ASSUME NEW k \in 1..Len(q), q[k].type = "Packet" PROVE Present(q, A, q[k].addr, k)
  <2>1. CASE k \in 1..Len(r) /\ q[k] = r[k]
    <3>1. r[k].addr \in Addr
      BY <1>1, <1>4, <2>1, DataHasAddr
    <3>2. Present(r, A, r[k].addr, k)
      BY <1>4, <2>1 DEF DataPresent
    <3> QED BY <1>1, <1>2, <2>1, <3>1, <3>2
  <2>2. CASE k = Len(r) + 1
    <3>1. q[k] = m /\ m.addr \in Addr /\ m.addr \in L
      BY <1>1, <1>4, <2>2, DataHasAddr
    <3>2. Present(r, A, m.addr, Len(r) + 1)
      BY <3>1 DEF AllPresent
    <3>3. k \in Nat /\ k <= Len(r) + 1
      BY <1>1
    <3> QED BY <1>2, <2>2, <3>1, <3>2, <3>3
  <2> QED BY <1>1, <2>1, <2>2
<1>5. ASSUME NEW a \in L2 PROVE Present(q, A, a, Len(q) + 1)
  <2>1. IF m \in AtAddr(a) THEN m \in Adds ELSE Present(r, A, a, Len(r) + 1)
    BY DEF AllPresent
  <2> QED BY <1>3, <2>1
<1> QED BY <1>4, <1>5 DEF DataPresent, AllPresent, q

-----------------------------------------------------------------------------
(* Types *)

LEMMA InitType == Init => TypeOK
<1>1. <<>> \in Seq(ClientToProxy) /\ <<>> \in Seq(PeerPacket) /\ <<>> \in Seq(ServerPacket)
      /\ <<>> \in Seq(Payload)
  OBVIOUS
<1>2. MaxDown \in 0..MaxDown /\ 0 \in 0..MaxUp
  BY ConstantsAssumption
<1> QED
  BY <1>1, <1>2, EmptyTableType DEF Init, TypeOK

\* send of an UnboundedSender keeps the channels typed, whoever it is sent to.
LEMMA QueueType ==
  ASSUME TypeOK, NEW s, NEW m \in ClientToProxy, Queue(s, m)
  PROVE  rxq' \in [Session -> Seq(ClientToProxy)]
<1>1. rxq \in [Session -> Seq(ClientToProxy)]
  BY DEF TypeOK
<1>2. ASSUME NEW q \in Seq(ClientToProxy) PROVE Append(q, m) \in Seq(ClientToProxy)
  OBVIOUS
<1> QED
  BY <1>1, <1>2 DEF Queue

LEMMA SendType ==
  ASSUME TypeOK, NEW s, NEW p \in ServerPacket, Send(s, p)
  PROVE  toClient' \in [Session -> Seq(ServerPacket)]
<1>1. toClient \in [Session -> Seq(ServerPacket)]
  BY DEF TypeOK
<1>2. ASSUME NEW q \in Seq(ServerPacket) PROVE Append(q, p) \in Seq(ServerPacket)
  OBVIOUS
<1> QED
  BY <1>1, <1>2 DEF Send

LEMMA ReadsType ==
  ASSUME TypeOK, NEW s \in Session, NEW p, Reads(s, p)
  PROVE  toServer' \in [Session -> Seq(PeerPacket)] /\ p \in PeerPacket
<1>1. toServer[s] \in Seq(PeerPacket) /\ toServer[s] # <<>>
  BY DEF TypeOK, Reads
<1>2. Head(toServer[s]) \in PeerPacket /\ Tail(toServer[s]) \in Seq(PeerPacket)
  BY <1>1
<1> QED
  BY <1>2 DEF TypeOK, Reads

LEMMA ConsumeType ==
  ASSUME TypeOK, NEW s \in Session, NEW m, Receives(s, m)
  PROVE  /\ m \in ClientToProxy
         /\ Consume(s) => rxq' \in [Session -> Seq(ClientToProxy)]
<1>1. rxq[s] \in Seq(ClientToProxy) /\ rxq[s] # <<>>
  BY DEF TypeOK, Receives
<1>2. Head(rxq[s]) \in ClientToProxy /\ Tail(rxq[s]) \in Seq(ClientToProxy)
  BY <1>1
<1> QED
  BY <1>2 DEF TypeOK, Receives, Consume

LEMMA LeaveType ==
  ASSUME TypeOK, NEW s \in Session, Leave(s)
  PROVE  /\ phase' \in [Session -> {"idle", "accepted", "auth", "authed", "serving", "closing", "done"}]
         /\ rxq' \in [Session -> Seq(ClientToProxy)]
         /\ dist' \in [Session -> Table]
<1>1. <<>> \in Seq(ClientToProxy)
  OBVIOUS
<1> QED
  BY <1>1, EmptyTableType DEF TypeOK, Leave

LEMMA DropSocketType ==
  ASSUME TypeOK, NEW s \in Session, DropSocket(s)
  PROVE  toServer' \in [Session -> Seq(PeerPacket)]
<1>1. <<>> \in Seq(PeerPacket)
  OBVIOUS
<1> QED
  BY <1>1 DEF TypeOK, DropSocket

LEMMA PlainTypes ==
  /\ Plain("ProxyAuthRequest") \in ServerPacket /\ Plain("ProxyError") \in ServerPacket
  /\ Plain("ProxyHelloResponse") \in ServerPacket /\ Plain("ProxyPong") \in ServerPacket
BY DEF ServerPacket

LEMMA PeerPacketTypes ==
  /\ Plain("ProxyHello") \in PeerPacket /\ Plain("ProxyPing") \in PeerPacket
  /\ \A ok \in BOOLEAN : AuthResponse(ok) \in PeerPacket
<1>1. Plain("ProxyHello") \in PeerPacket /\ Plain("ProxyPing") \in PeerPacket
  BY DEF PeerPacket
<1>2. AuthResponse(TRUE) \in PeerPacket /\ AuthResponse(FALSE) \in PeerPacket
  BY DEF PeerPacket
<1> QED BY <1>1, <1>2

LEMMA HandshakeType ==
  ASSUME TypeOK, NEW s \in Session, Handshake(s)
  PROVE  TypeOK'
<1> USE PlainTypes
<1>1. CASE AcceptHello(s)
  BY <1>1, SendType, ReadsType DEF AcceptHello, TypeOK, playerVars
<1>2. CASE NoFirstPacket(s)
  BY <1>2, DropSocketType DEF NoFirstPacket, TypeOK, playerVars
<1>3. CASE UnknownProtocol(s)
  BY <1>3, DropSocketType DEF UnknownProtocol, TypeOK, playerVars
<1>4. CASE AuthOk(s)
  BY <1>4, ReadsType DEF AuthOk, TypeOK, playerVars
<1>5. CASE AuthFailed(s)
  BY <1>5, SendType, DropSocketType DEF AuthFailed, TypeOK, playerVars
<1>6. CASE AuthTimeout(s)
  BY <1>6, SendType, DropSocketType DEF AuthTimeout, TypeOK, playerVars
<1> QED
  BY <1>1, <1>2, <1>3, <1>4, <1>5, <1>6 DEF Handshake

LEMMA OpenCloseType ==
  ASSUME TypeOK, NEW s \in Session, Register(s) \/ CloseConnection(s)
  PROVE  TypeOK'
<1> USE PlainTypes, ConstantsAssumption
<1>1. CASE Register(s)
  BY <1>1, SendType DEF Register, TypeOK, playerVars
<1>2. CASE CloseConnection(s)
  BY <1>2, DropSocketType DEF CloseConnection, TypeOK, playerVars
<1> QED
  BY <1>1, <1>2

LEMMA HandleAddType ==
  ASSUME TypeOK, NEW s \in Session, HandleAdd(s)
  PROVE  TypeOK'
<1>1. PICK m \in ClientToProxy :
        /\ Receives(s, m) /\ m.type = "AddMinecraftClient" /\ CanInsert(dist[s])
        /\ dist' = [dist EXCEPT ![s] = Insert(@, m.addr, m.tx)]
        /\ Send(s, ProxyJoin(LowestFree(dist[s])))
  BY DEF HandleAdd
<1>2. m.addr \in Addr /\ m.tx \in Conn
  BY <1>1 DEF ClientToProxy, AddMsg, PacketMsg, RemoveMsg
<1>3. dist[s] \in Table /\ Insert(dist[s], m.addr, m.tx) \in Table
  BY <1>1, <1>2, InsertType DEF TypeOK
<1>4. ProxyJoin(LowestFree(dist[s])) \in ServerPacket
  BY <1>1, LowestFreeIsFree DEF ServerPacket, Free
<1>5. toClient' \in [Session -> Seq(ServerPacket)]
  BY <1>1, <1>4, SendType
<1>6. rxq' \in [Session -> Seq(ClientToProxy)]
  BY <1>1, ConsumeType DEF HandleAdd
<1>7. dist' \in [Session -> Table]
  BY <1>1, <1>3 DEF TypeOK
<1> QED
  BY <1>5, <1>6, <1>7 DEF HandleAdd, TypeOK, playerVars

\* The identifier a table has for an address is one of Id, and a player's
\* channel is one of Conn.
LEMMA TableEntry ==
  ASSUME NEW d \in Table, NEW a \in DOMAIN d.clients_addr
  PROVE  a \in Addr /\ d.clients_addr[a].id \in Id /\ d.clients_addr[a].tx \in Conn
<1>1. d.clients_addr \in MapTo(Addr, MinecraftClient)
  BY DEF Table
<1>2. PICK D \in SUBSET Addr : d.clients_addr \in [D -> MinecraftClient]
  BY <1>1 DEF MapTo
<1> QED
  BY <1>2 DEF MinecraftClient

LEMMA HandlePacketType ==
  ASSUME TypeOK, NEW s \in Session, HandlePacket(s)
  PROVE  TypeOK'
<1>1. PICK m \in ClientToProxy :
        /\ Receives(s, m) /\ m.type = "Packet" /\ HasAddr(dist[s], m.addr)
        /\ Send(s, ProxyData(dist[s].clients_addr[m.addr].id, m.data))
  BY DEF HandlePacket
<1>2. m.data \in Chunk
  BY <1>1 DEF ClientToProxy, AddMsg, PacketMsg, RemoveMsg
<1>3. dist[s].clients_addr[m.addr].id \in Id
  BY <1>1, TableEntry DEF TypeOK, HasAddr
<1>4. ProxyData(dist[s].clients_addr[m.addr].id, m.data) \in ServerPacket
  BY <1>2, <1>3 DEF ServerPacket
<1>5. toClient' \in [Session -> Seq(ServerPacket)]
  BY <1>1, <1>4, SendType
<1>6. rxq' \in [Session -> Seq(ClientToProxy)]
  BY <1>1, ConsumeType DEF HandlePacket
<1> QED
  BY <1>5, <1>6 DEF HandlePacket, TypeOK, playerVars

LEMMA HandleRemoveType ==
  ASSUME TypeOK, NEW s \in Session, HandleRemove(s)
  PROVE  TypeOK'
<1>1. PICK m \in ClientToProxy :
        /\ Receives(s, m) /\ m.type = "RemoveMinecraftClient"
        /\ dist' = [dist EXCEPT ![s] = RemoveByAddr(@, m.addr)]
        /\ IF HasAddr(dist[s], m.addr)
             THEN Send(s, ProxyDisconnect(dist[s].clients_addr[m.addr].id))
             ELSE UNCHANGED toClient
  BY DEF HandleRemove
<1>2. dist' \in [Session -> Table]
  BY <1>1, RemoveByAddrPreserves DEF TypeOK
<1>3. toClient' \in [Session -> Seq(ServerPacket)]
  <2>1. CASE HasAddr(dist[s], m.addr)
    <3>1. dist[s].clients_addr[m.addr].id \in Id
      BY <2>1, TableEntry DEF TypeOK, HasAddr
    <3>2. ProxyDisconnect(dist[s].clients_addr[m.addr].id) \in ServerPacket
      BY <3>1 DEF ServerPacket
    <3> QED BY <1>1, <2>1, <3>2, SendType
  <2>2. CASE ~HasAddr(dist[s], m.addr)
    BY <1>1, <2>2 DEF TypeOK
  <2> QED BY <2>1, <2>2
<1>4. rxq' \in [Session -> Seq(ClientToProxy)]
  BY <1>1, ConsumeType DEF HandleRemove
<1> QED
  BY <1>2, <1>3, <1>4 DEF HandleRemove, TypeOK, playerVars

LEMMA LeavingType ==
  ASSUME TypeOK, NEW s \in Session,
         \/ TooManyClients(s) \/ WrongPacket(s) \/ ChannelClosed(s)
         \/ LinkLost(s) \/ IdleTimeout(s)
  PROVE  TypeOK'
BY LeaveType DEF TooManyClients, WrongPacket, ChannelClosed, LinkLost, IdleTimeout, TypeOK, playerVars

LEMMA FramedType ==
  ASSUME TypeOK, NEW s \in Session,
         PeerDisconnects(s) \/ PeerData(s) \/ PeerPing(s) \/ PeerOther(s)
  PROVE  TypeOK'
<1>1. CASE PeerDisconnects(s)
  <2>1. PICK p \in PeerPacket :
          Reads(s, p) /\ dist' = [dist EXCEPT ![s] = RemoveById(@, p.id)]
    BY <1>1 DEF PeerDisconnects
  <2>2. dist' \in [Session -> Table]
    BY <2>1, RemoveByIdPreserves DEF TypeOK
  <2>3. toServer' \in [Session -> Seq(PeerPacket)]
    BY <2>1, ReadsType
  <2> QED BY <1>1, <2>2, <2>3 DEF PeerDisconnects, TypeOK, playerVars
<1>2. CASE PeerData(s)
  <2>1. PICK p \in PeerPacket :
          /\ Reads(s, p) /\ p.type = "ProxyData"
          /\ IF HasId(dist[s], p.id) /\ mc[GetById(dist[s], p.id).tx] # "done"
               THEN mrx' = [mrx EXCEPT ![GetById(dist[s], p.id).tx] = Append(@, p.data)]
               ELSE UNCHANGED mrx
    BY <1>2 DEF PeerData
  <2>2. p.data \in Payload
    BY <2>1 DEF PeerPacket, Plain, AuthResponse, ProxyDisconnect, ProxyData
  <2>3. mrx' \in [Conn -> Seq(Payload)]
    <3>1. ASSUME NEW q \in Seq(Payload) PROVE Append(q, p.data) \in Seq(Payload)
      BY <2>2
    <3>2. PICK t : mrx' = [mrx EXCEPT ![t] = Append(@, p.data)] \/ mrx' = mrx
      BY <2>1
    <3>3. mrx \in [Conn -> Seq(Payload)]
      BY DEF TypeOK
    <3> QED BY <3>1, <3>2, <3>3
  <2>4. toServer' \in [Session -> Seq(PeerPacket)]
    BY <2>1, ReadsType
  <2> QED BY <1>2, <2>3, <2>4 DEF PeerData, TypeOK
<1>3. CASE PeerPing(s)
  BY <1>3, ReadsType, SendType, PlainTypes DEF PeerPing, TypeOK, playerVars
<1>4. CASE PeerOther(s)
  BY <1>4, ReadsType DEF PeerOther, TypeOK, playerVars
<1> QED
  BY <1>1, <1>2, <1>3, <1>4

LEMMA MessageTypes ==
  ASSUME NEW a \in Addr
  PROVE  /\ \A c \in Conn : AddMsg(a, c) \in ClientToProxy
         /\ \A x \in Chunk : PacketMsg(a, x) \in ClientToProxy
         /\ RemoveMsg(a) \in ClientToProxy
BY DEF ClientToProxy

LEMMA PlayerType ==
  ASSUME TypeOK, NEW c \in Conn, PlayerStep(c)
  PROVE  TypeOK'
<1>1. AddrOf[c] \in Addr /\ MaxUp \in Nat
  BY ConstantsAssumption
<1>2. ASSUME NEW n \in 0..MaxUp PROVE PacketMsg(AddrOf[c], [conn |-> c, n |-> n]) \in ClientToProxy
  BY <1>1, MessageTypes DEF Chunk
<1>3. <<>> \in Seq(Payload)
  OBVIOUS
<1>4. CASE Lookup(c)
  BY <1>4, ConstantsAssumption DEF Lookup, TypeOK, sessionVars
<1>5. CASE AddClient(c)
  <2>1. rxq' \in [Session -> Seq(ClientToProxy)]
    BY <1>1, <1>5, QueueType, MessageTypes DEF AddClient
  <2> QED BY <1>5, <2>1 DEF AddClient, TypeOK
<1>6. CASE SendHello(c)
  <2>1. rxq' \in [Session -> Seq(ClientToProxy)]
    BY <1>1, <1>2, <1>6, QueueType DEF SendHello
  <2> QED BY <1>6, <2>1 DEF SendHello, TypeOK
<1>7. CASE McRead(c)
  <2>1. sent[c] + 1 \in 0..MaxUp
    BY <1>1, <1>7 DEF McRead, TypeOK
  <2>2. rxq' \in [Session -> Seq(ClientToProxy)]
    BY <1>2, <1>7, <2>1, QueueType DEF McRead
  <2> QED BY <1>3, <1>7, <2>1, <2>2 DEF McRead, TypeOK
<1>8. CASE McGone(c)
  <2>1. rxq' \in [Session -> Seq(ClientToProxy)]
    BY <1>1, <1>8, QueueType, MessageTypes DEF McGone
  <2> QED BY <1>3, <1>8, <2>1 DEF McGone, TypeOK
<1>9. CASE McDeliver(c)
  <2>1. mrx[c] \in Seq(Payload) /\ mcOut[c] \in Seq(Payload) /\ mrx[c] # <<>>
    BY <1>9 DEF McDeliver, TypeOK
  <2>2. Tail(mrx[c]) \in Seq(Payload) /\ Append(mcOut[c], Head(mrx[c])) \in Seq(Payload)
    BY <2>1
  <2> QED BY <1>9, <2>2 DEF McDeliver, TypeOK, sessionVars
<1>10. CASE NoPeerAddr(c) \/ McChannelClosed(c)
  BY <1>10 DEF NoPeerAddr, McChannelClosed, TypeOK, sessionVars
<1> QED
  BY <1>4, <1>5, <1>6, <1>7, <1>8, <1>9, <1>10 DEF PlayerStep

LEMMA PeerType ==
  ASSUME TypeOK, NEW s \in Session, PeerStep(s)
  PROVE  TypeOK'
<1>1. CASE PeerConnect(s)
  <2>1. ASSUME NEW p \in {Plain("ProxyHello"), Plain("ProxyPing")}
        PROVE  <<p>> \in Seq(PeerPacket)
    <3> QED BY PeerPacketTypes
  <2> QED BY <1>1, <2>1 DEF PeerConnect, TypeOK, playerVars
<1>2. CASE PeerAuth(s)
  <2>1. ASSUME NEW ok \in BOOLEAN PROVE <<AuthResponse(ok)>> \in Seq(PeerPacket)
    <3> QED BY PeerPacketTypes
  <2> QED BY <1>2, <2>1 DEF PeerAuth, TypeOK, playerVars
<1>3. CASE PeerSend(s)
  <2>1. ASSUME NEW p \in PeerPacket, NEW q \in Seq(PeerPacket)
        PROVE  Append(q, p) \in Seq(PeerPacket)
    OBVIOUS
  <2>2. quota[s] - 1 \in 0..MaxDown
    BY <1>3, ConstantsAssumption DEF PeerSend, TypeOK
  <2> QED BY <1>3, <2>1, <2>2 DEF PeerSend, TypeOK, playerVars
<1>4. CASE PeerRecv(s)
  <2>1. toClient[s] \in Seq(ServerPacket) /\ toClient[s] # <<>>
    BY <1>4 DEF PeerRecv, TypeOK
  <2>2. Tail(toClient[s]) \in Seq(ServerPacket)
    BY <2>1
  <2> QED BY <1>4, <2>2 DEF PeerRecv, TypeOK, playerVars
<1>5. CASE PeerClose(s)
  <2>1. <<>> \in Seq(ServerPacket)
    OBVIOUS
  <2> QED BY <1>5, <2>1 DEF PeerClose, TypeOK, playerVars
<1> QED
  BY <1>1, <1>2, <1>3, <1>4, <1>5 DEF PeerStep

LEMMA NextType == TypeOK /\ [Next]_vars => TypeOK'
<1> SUFFICES ASSUME TypeOK, [Next]_vars PROVE TypeOK'
  OBVIOUS
<1>1. ASSUME NEW s \in Session, SessionStep(s) PROVE TypeOK'
  BY <1>1, HandshakeType, OpenCloseType, HandleAddType, HandlePacketType, HandleRemoveType,
     LeavingType, FramedType DEF SessionStep, RxArm, FramedArm
<1>2. ASSUME UNCHANGED vars PROVE TypeOK'
  BY <1>2 DEF vars, sessionVars, playerVars, TypeOK
<1> QED
  BY <1>1, <1>2, PlayerType, PeerType DEF Next, ServerNext

\* Every variable keeps its type: in particular no session ever sends a packet
\* with an identifier insert could not have given out.
THEOREM TypeCorrect == Spec => []TypeOK
BY InitType, NextType, PTL DEF Spec

-----------------------------------------------------------------------------
(* The register *)

\* A step that leaves the register alone, and ends no session for good,
\* keeps what the register holds alive.
LEMMA RegisterKept ==
  ASSUME TypeOK, RegisterLive, UNCHANGED register,
         \A s \in Session : phase[s] \in {"serving", "closing"} => phase'[s] \in {"serving", "closing"}
  PROVE  RegisterLive'
BY DEF TypeOK, RegisterLive

LEMMA HandshakeRegister ==
  ASSUME TypeOK, RegisterLive, NEW s \in Session, Handshake(s)
  PROVE  RegisterLive'
<1>1. UNCHANGED register
  BY DEF Handshake, AcceptHello, NoFirstPacket, UnknownProtocol, AuthOk, AuthFailed, AuthTimeout
<1>2. \A t \in Session \ {s} : phase'[t] = phase[t]
  BY DEF Handshake, AcceptHello, NoFirstPacket, UnknownProtocol, AuthOk, AuthFailed, AuthTimeout, TypeOK
<1>3. phase[s] \in {"accepted", "auth"}
  BY DEF Handshake, AcceptHello, NoFirstPacket, UnknownProtocol, AuthOk, AuthFailed, AuthTimeout
<1> QED
  BY <1>1, <1>2, <1>3, RegisterKept

\* handle puts its own sender in, under its own hostname.
LEMMA OpenRegister ==
  ASSUME TypeOK, RegisterLive, NEW s \in Session, Register(s)
  PROVE  RegisterLive'
BY ConstantsAssumption DEF Register, RegisterLive, TypeOK

\* close_connection takes away whatever its hostname has: when that is the
\* session itself, nothing of it is left; when it is another one, that one
\* has lost its entry, which this invariant allows.
LEMMA CloseRegister ==
  ASSUME TypeOK, RegisterLive, NEW s \in Session, CloseConnection(s)
  PROVE  RegisterLive'
BY ConstantsAssumption DEF CloseConnection, RegisterLive, TypeOK

LEMMA LoopRegister ==
  ASSUME TypeOK, RegisterLive, NEW s \in Session, RxArm(s) \/ FramedArm(s)
  PROVE  RegisterLive'
<1>1. UNCHANGED register
  BY DEF RxArm, FramedArm, HandleAdd, TooManyClients, HandlePacket, WrongPacket, HandleRemove,
         ChannelClosed, PeerDisconnects, PeerData, PeerPing, PeerOther, LinkLost, IdleTimeout
<1>2. UNCHANGED phase \/ phase' = [phase EXCEPT ![s] = "closing"]
  BY DEF RxArm, FramedArm, HandleAdd, TooManyClients, HandlePacket, WrongPacket, HandleRemove,
         ChannelClosed, PeerDisconnects, PeerData, PeerPing, PeerOther, LinkLost, IdleTimeout, Leave
<1>3. \A t \in Session : phase[t] \in {"serving", "closing"} => phase'[t] \in {"serving", "closing"}
  BY <1>2 DEF TypeOK
<1> QED
  BY <1>1, <1>3, RegisterKept

LEMMA OthersRegister ==
  ASSUME TypeOK, RegisterLive,
         \/ \E c \in Conn : PlayerStep(c)
         \/ \E s \in Session : PeerStep(s)
         \/ UNCHANGED vars
  PROVE  RegisterLive'
<1>1. ASSUME NEW c \in Conn, PlayerStep(c) PROVE UNCHANGED <<register, phase>>
  BY <1>1 DEF PlayerStep, Lookup, NoPeerAddr, AddClient, SendHello, McRead, McGone, McDeliver,
              McChannelClosed, sessionVars
<1>2. ASSUME NEW s \in Session, PeerStep(s)
      PROVE  UNCHANGED register /\ (UNCHANGED phase \/ PeerConnect(s))
  BY <1>2 DEF PeerStep, PeerConnect, PeerAuth, PeerSend, PeerRecv, PeerClose
<1>3. ASSUME NEW s \in Session, PeerConnect(s)
      PROVE  \A t \in Session : phase[t] \in {"serving", "closing"} => phase'[t] = phase[t]
  BY <1>3 DEF PeerConnect, TypeOK
<1>4. UNCHANGED vars => UNCHANGED <<register, phase>>
  BY DEF vars, sessionVars
<1> QED
  BY <1>1, <1>2, <1>3, <1>4, RegisterKept

LEMMA NextRegister == TypeOK /\ RegisterLive /\ [Next]_vars => RegisterLive'
BY HandshakeRegister, OpenRegister, CloseRegister, LoopRegister, OthersRegister
   DEF Next, ServerNext, SessionStep

LEMMA InitRegister == Init => RegisterLive
BY DEF Init, RegisterLive

\* However many sessions of however many hostnames connect, fail, time out and
\* close in any order: the register never holds the sender of a session that
\* is over, and never one under another session's hostname.
THEOREM RegisterNeverStale == Spec => []RegisterLive
<1>1. Init => TypeOK /\ RegisterLive
  BY InitType, InitRegister
<1>2. TypeOK /\ RegisterLive /\ [Next]_vars => (TypeOK /\ RegisterLive)'
  BY NextType, NextRegister
<1> QED
  BY <1>1, <1>2, PTL DEF Spec

-----------------------------------------------------------------------------
(* Addresses *)

LEMMA InitAddress == Init => AddressInv /\ TableConsistent
<1> SUFFICES ASSUME Init PROVE AddressInv /\ TableConsistent
  OBVIOUS
<1>1. ASSUME NEW s \in Session
      PROVE  ChannelInv(rxq[s], dist[s].clients_addr, Announced(s), StillThere)
  <2>1. rxq[s] = <<>> /\ dist[s].clients_addr = EmptyMap
    BY DEF Init, EmptyTable
  <2> QED BY <2>1, ChannelEmpty
<1>2. OneTaskPerAddress /\ OnlyServing /\ Targets
  BY DEF Init, OneTaskPerAddress, OnlyServing, Targets
<1>3. TableConsistent
  BY EmptyTableType DEF Init, TableConsistent
<1> QED BY <1>1, <1>2, <1>3 DEF AddressInv

\* A step of one session that changes no player.
LEMMA SessionFrame ==
  ASSUME AddressInv, UNCHANGED <<mc, target>>, NEW s \in Session,
         \A u \in Session \ {s} : rxq'[u] = rxq[u] /\ dist'[u] = dist[u] /\ phase'[u] = phase[u],
         ChannelInv(rxq'[s], dist'[s].clients_addr, Announced(s), StillThere),
         phase'[s] # "serving" => rxq'[s] = <<>> /\ dist'[s] = EmptyTable
  PROVE  AddressInv'
<1>1. /\ \A u \in Session : ChannelInv(rxq[u], dist[u].clients_addr, Announced(u), StillThere)
      /\ OneTaskPerAddress /\ OnlyServing /\ Targets
  BY DEF AddressInv
<1>2. StillThere' = StillThere /\ \A u \in Session : Announced(u)' = Announced(u)
  BY DEF StillThere, Announced, Live
<1>3. ASSUME NEW u \in Session
      PROVE  ChannelInv(rxq'[u], dist'[u].clients_addr, Announced(u)', StillThere')
  <2>1. CASE u = s
    BY <1>2, <2>1
  <2>2. CASE u # s
    BY <1>1, <1>2, <2>2
  <2> QED BY <2>1, <2>2
<1>4. OneTaskPerAddress' /\ Targets'
  BY <1>1 DEF OneTaskPerAddress, Targets
<1>5. OnlyServing'
  BY <1>1 DEF OnlyServing
<1>6. \A u \in Session : ChannelInv(rxq[u], dist[u].clients_addr, Announced(u), StillThere)'
  BY <1>3 DEF ChannelInv, EntriesInv, AddsInv, Between
<1> QED BY <1>4, <1>5, <1>6 DEF AddressInv

\* A step that touches no channel, table or player, and takes no session out
\* of its loop.
LEMMA QuietAddress ==
  ASSUME AddressInv, TableConsistent, UNCHANGED <<rxq, dist, mc, target>>,
         \A u \in Session : phase[u] = "serving" => phase'[u] = "serving"
  PROVE  AddressInv' /\ TableConsistent'
<1>1. /\ \A u \in Session : ChannelInv(rxq[u], dist[u].clients_addr, Announced(u), StillThere)
      /\ OneTaskPerAddress /\ OnlyServing /\ Targets
  BY DEF AddressInv
<1>2. StillThere' = StillThere /\ \A u \in Session : Announced(u)' = Announced(u)
  BY DEF StillThere, Announced, Live
<1>7. \A u \in Session : ChannelInv(rxq'[u], dist'[u].clients_addr, Announced(u)', StillThere')
  BY <1>1, <1>2
<1>3. \A u \in Session : ChannelInv(rxq[u], dist[u].clients_addr, Announced(u), StillThere)'
  BY <1>7 DEF ChannelInv, EntriesInv, AddsInv, Between
<1>4. OneTaskPerAddress' /\ Targets'
  BY <1>1 DEF OneTaskPerAddress, Targets
<1>5. OnlyServing'
  BY <1>1 DEF OnlyServing
<1>6. TableConsistent'
  BY DEF TableConsistent
<1> QED BY <1>3, <1>4, <1>5, <1>6 DEF AddressInv

\* The session leaves its loop with nothing in its channel and table.
LEMMA LeaveAddress ==
  ASSUME TypeOK, AddressInv, TableConsistent, NEW s \in Session, Leave(s), UNCHANGED <<mc, target>>
  PROVE  AddressInv' /\ TableConsistent'
<1>1. rxq'[s] = <<>> /\ dist'[s] = EmptyTable
  BY DEF TypeOK, Leave
<1>2. \A u \in Session \ {s} : rxq'[u] = rxq[u] /\ dist'[u] = dist[u] /\ phase'[u] = phase[u]
  BY DEF TypeOK, Leave
<1>3. EmptyTable.clients_addr = EmptyMap
  BY DEF EmptyTable
<1>4. ChannelInv(rxq'[s], dist'[s].clients_addr, Announced(s), StillThere)
  BY <1>1, <1>3, ChannelEmpty
<1>5. AddressInv'
  BY <1>1, <1>2, <1>4, SessionFrame
<1>6. TableConsistent'
  BY <1>1, <1>2, EmptyTableType DEF TableConsistent
<1> QED BY <1>5, <1>6

\* The session reads one message and goes on, with another table or not.
LEMMA ConsumeAddress ==
  ASSUME TypeOK, AddressInv, TableConsistent, NEW s \in Session, NEW m, Receives(s, m),
         Consume(s), UNCHANGED <<phase, mc, target>>,
         NEW d, dist' = [dist EXCEPT ![s] = d], Consistent(d),
         ChannelInv(Tail(rxq[s]), d.clients_addr, Announced(s), StillThere)
  PROVE  AddressInv' /\ TableConsistent'
<1>1. rxq'[s] = Tail(rxq[s]) /\ dist'[s] = d /\ phase'[s] = "serving"
  BY DEF TypeOK, Consume, Receives
<1>2. \A u \in Session \ {s} : rxq'[u] = rxq[u] /\ dist'[u] = dist[u] /\ phase'[u] = phase[u]
  BY DEF TypeOK, Consume
<1>3. AddressInv'
  BY <1>1, <1>2, SessionFrame
<1>4. TableConsistent'
  BY <1>1, <1>2 DEF TableConsistent
<1> QED BY <1>3, <1>4

\* What a session is about to read, and where.
LEMMA ReceivesFacts ==
  ASSUME TypeOK, AddressInv, TableConsistent, NEW s \in Session, NEW m, Receives(s, m)
  PROVE  /\ rxq[s] \in Seq(ClientToProxy) /\ rxq[s] # <<>> /\ m = Head(rxq[s])
         /\ dist[s] \in Table /\ Consistent(dist[s])
         /\ ChannelInv(rxq[s], dist[s].clients_addr, Announced(s), StillThere)
BY DEF TypeOK, AddressInv, TableConsistent, Receives

LEMMA HandlePacketAddress ==
  ASSUME TypeOK, AddressInv, TableConsistent, NEW s \in Session, HandlePacket(s)
  PROVE  AddressInv' /\ TableConsistent'
<1>1. PICK m \in ClientToProxy : Receives(s, m) /\ m.type = "Packet"
  BY DEF HandlePacket
<1>2. ChannelInv(Tail(rxq[s]), dist[s].clients_addr, Announced(s), StillThere)
  BY <1>1, ReceivesFacts, TakePacket
<1>3. dist' = [dist EXCEPT ![s] = dist[s]]
  BY DEF HandlePacket, TypeOK
<1>4. Consume(s) /\ UNCHANGED <<phase, mc, target>>
  BY DEF HandlePacket, playerVars
<1>5. Consistent(dist[s])
  BY DEF TableConsistent
<1> QED BY <1>1, <1>2, <1>3, <1>4, <1>5, ConsumeAddress

LEMMA HandleRemoveAddress ==
  ASSUME TypeOK, AddressInv, TableConsistent, NEW s \in Session, HandleRemove(s)
  PROVE  AddressInv' /\ TableConsistent'
<1>1. PICK m \in ClientToProxy :
        /\ Receives(s, m) /\ m.type = "RemoveMinecraftClient"
        /\ dist' = [dist EXCEPT ![s] = RemoveByAddr(@, m.addr)]
  BY DEF HandleRemove
<1> DEFINE d == RemoveByAddr(dist[s], m.addr)
<1>2. m = RemoveMsg(m.addr)
  BY <1>1, MessageKinds
<1>3. /\ rxq[s] \in Seq(ClientToProxy) /\ rxq[s] # <<>> /\ m = Head(rxq[s])
      /\ dist[s] \in Table /\ Consistent(dist[s])
      /\ ChannelInv(rxq[s], dist[s].clients_addr, Announced(s), StillThere)
  BY <1>1, ReceivesFacts
<1>4. /\ Consistent(d) /\ DOMAIN d.clients_addr = DOMAIN dist[s].clients_addr \ {m.addr}
      /\ \A x \in DOMAIN d.clients_addr : d.clients_addr[x] = dist[s].clients_addr[x]
  BY <1>3, RemoveByAddrPreserves
<1>5. dist' = [dist EXCEPT ![s] = d]
  BY <1>1
<1> HIDE DEF d
<1>6. ChannelInv(Tail(rxq[s]), d.clients_addr, Announced(s), StillThere)
  BY <1>2, <1>3, <1>4, TakeRemove
<1>7. Consume(s) /\ UNCHANGED <<phase, mc, target>>
  BY DEF HandleRemove, playerVars
<1> QED BY <1>1, <1>4, <1>5, <1>6, <1>7, ConsumeAddress

LEMMA HandleAddAddress ==
  ASSUME TypeOK, AddressInv, TableConsistent, NEW s \in Session, HandleAdd(s)
  PROVE  AddressInv' /\ TableConsistent'
<1>1. PICK m \in ClientToProxy :
        /\ Receives(s, m) /\ m.type = "AddMinecraftClient" /\ CanInsert(dist[s])
        /\ dist' = [dist EXCEPT ![s] = Insert(@, m.addr, m.tx)]
  BY DEF HandleAdd
<1> DEFINE d == Insert(dist[s], m.addr, m.tx)
<1>2. m.addr \in Addr /\ m.tx \in Conn
  BY <1>1, MessageKinds
<1>3. /\ rxq[s] \in Seq(ClientToProxy) /\ rxq[s] # <<>> /\ m = Head(rxq[s])
      /\ dist[s] \in Table /\ Consistent(dist[s])
      /\ ChannelInv(rxq[s], dist[s].clients_addr, Announced(s), StillThere)
  BY <1>1, ReceivesFacts
<1>4. m.addr \notin DOMAIN dist[s].clients_addr
  BY <1>1, <1>3, AddIsNew
<1>5. Consistent(d)
  BY <1>1, <1>2, <1>3, <1>4, InsertConsistent DEF HasAddr
<1>6. /\ DOMAIN d.clients_addr = DOMAIN dist[s].clients_addr \cup {m.addr}
      /\ d.clients_addr[m.addr].tx = m.tx
      /\ \A x \in DOMAIN dist[s].clients_addr : d.clients_addr[x] = dist[s].clients_addr[x]
  BY <1>4 DEF Insert, Put
<1>7. dist' = [dist EXCEPT ![s] = d]
  BY <1>1
<1> HIDE DEF d
<1>8. ChannelInv(Tail(rxq[s]), d.clients_addr, Announced(s), StillThere)
  BY <1>1, <1>3, <1>6, TakeAdd
<1>9. Consume(s) /\ UNCHANGED <<phase, mc, target>>
  BY DEF HandleAdd, playerVars
<1> QED BY <1>1, <1>5, <1>7, <1>8, <1>9, ConsumeAddress

\* The proxy client takes a player out, whichever identifier it names.
LEMMA PeerDisconnectsAddress ==
  ASSUME TypeOK, AddressInv, TableConsistent, NEW s \in Session, PeerDisconnects(s)
  PROVE  AddressInv' /\ TableConsistent'
<1>1. PICK p \in PeerPacket : dist' = [dist EXCEPT ![s] = RemoveById(@, p.id)]
  BY DEF PeerDisconnects
<1> DEFINE d == RemoveById(dist[s], p.id)
<1>2. dist[s] \in Table /\ Consistent(dist[s])
  BY DEF TypeOK, TableConsistent
<1>3. /\ Consistent(d) /\ DOMAIN d.clients_addr \subseteq DOMAIN dist[s].clients_addr
      /\ \A x \in DOMAIN d.clients_addr : d.clients_addr[x] = dist[s].clients_addr[x]
  BY <1>2, RemoveByIdPreserves
<1>4. dist' = [dist EXCEPT ![s] = d]
  BY <1>1
<1> HIDE DEF d
<1>5. ChannelInv(rxq[s], d.clients_addr, Announced(s), StillThere)
  <2>1. ChannelInv(rxq[s], dist[s].clients_addr, Announced(s), StillThere)
    BY DEF AddressInv
  <2> QED BY <1>3, <2>1, ChannelShrink
<1>6. UNCHANGED <<rxq, phase, mc, target>> /\ phase[s] = "serving"
  BY DEF PeerDisconnects, playerVars
<1>7. dist'[s] = d /\ \A u \in Session \ {s} : dist'[u] = dist[u]
  BY <1>4 DEF TypeOK
<1>8. AddressInv'
  BY <1>5, <1>6, <1>7, SessionFrame
<1>9. TableConsistent'
  BY <1>3, <1>7 DEF TableConsistent
<1> QED BY <1>8, <1>9

\* A player's task picks a session, and no other task has its address.
LEMMA LookupAddress ==
  ASSUME TypeOK, AddressInv, TableConsistent, NEW c \in Conn, Lookup(c)
  PROVE  AddressInv' /\ TableConsistent'
<1> DEFINE s == register[WantedHost[c]]
<1>1. /\ \A u \in Session : ChannelInv(rxq[u], dist[u].clients_addr, Announced(u), StillThere)
      /\ OneTaskPerAddress /\ OnlyServing /\ Targets
  BY DEF AddressInv
<1>2. /\ mc[c] = "idle" /\ AddrFree(c) /\ s \in Session \cup {NoSession}
      /\ target' = [target EXCEPT ![c] = s]
      /\ mc' = [mc EXCEPT ![c] = IF s = NoSession THEN "done" ELSE "found"]
      /\ UNCHANGED <<phase, rxq, dist>>
  BY ConstantsAssumption DEF Lookup, TypeOK, sessionVars
<1> HIDE DEF s
<1>3. /\ mc'[c] \in {"done", "found"} /\ (mc'[c] = "done" => s = NoSession) /\ target'[c] = s
      /\ mc'[c] = "found" => s \in Session
      /\ \A d \in Conn \ {c} : mc'[d] = mc[d] /\ target'[d] = target[d]
  BY <1>2 DEF TypeOK
<1>4. StillThere' = StillThere
  BY <1>2, <1>3 DEF StillThere, Live
<1>5. ASSUME NEW u \in Session PROVE Announced(u)' = Announced(u)
  BY <1>2, <1>3, ConstantsAssumption DEF Announced
<1>10. \A u \in Session : ChannelInv(rxq'[u], dist'[u].clients_addr, Announced(u)', StillThere')
  BY <1>1, <1>2, <1>4, <1>5
<1>6. \A u \in Session : ChannelInv(rxq[u], dist[u].clients_addr, Announced(u), StillThere)'
  BY <1>10 DEF ChannelInv, EntriesInv, AddsInv, Between
<1>7. OneTaskPerAddress'
  <2>1. ASSUME NEW d \in Conn, d # c, AddrOf[d] = AddrOf[c] PROVE mc'[d] \in {"idle", "done"}
    BY <1>2, <1>3, <2>1 DEF AddrFree
  <2>2. \A d, e \in Conn \ {c} :
          (/\ AddrOf[d] = AddrOf[e] /\ mc'[d] \in {"found", "added", "running"}
           /\ mc'[e] \in {"found", "added", "running"}) => d = e
    BY <1>1, <1>3 DEF OneTaskPerAddress
  <2> QED BY <2>1, <2>2 DEF OneTaskPerAddress
<1>8. Targets'
  BY <1>1, <1>3 DEF Targets
<1>9. OnlyServing' /\ TableConsistent'
  BY <1>1, <1>2 DEF OnlyServing, TableConsistent
<1> QED BY <1>6, <1>7, <1>8, <1>9 DEF AddressInv

\* A player's task goes on or ends, and may have sent to its session.
LEMMA PlayerFrame ==
  ASSUME TypeOK, AddressInv, TableConsistent, NEW c \in Conn, NEW s \in Session,
         mc[c] \in {"found", "added", "running"}, target[c] = s,
         NEW x \in {"added", "running", "done"}, mc' = [mc EXCEPT ![c] = x],
         UNCHANGED <<target, dist, phase>>,
         \A u \in Session \ {s} : rxq'[u] = rxq[u],
         ChannelInv(rxq'[s], dist[s].clients_addr, Announced(s)', StillThere'),
         phase[s] # "serving" => rxq'[s] = <<>>
  PROVE  AddressInv' /\ TableConsistent'
<1>1. /\ \A u \in Session : ChannelInv(rxq[u], dist[u].clients_addr, Announced(u), StillThere)
      /\ OneTaskPerAddress /\ OnlyServing /\ Targets
  BY DEF AddressInv
<1>2. mc'[c] = x /\ \A d \in Conn \ {c} : mc'[d] = mc[d]
  BY DEF TypeOK
<1>3. ASSUME NEW u \in Session, u # s
      PROVE  ChannelInv(rxq'[u], dist'[u].clients_addr, Announced(u)', StillThere')
  <2>1. Announced(u)' = Announced(u) /\ c \notin Announced(u)
    BY <1>2, <1>3 DEF Announced
  <2>2. \A d \in Announced(u) : d \in StillThere => d \in StillThere'
    BY <1>2, <2>1 DEF StillThere, Live
  <2>3. ChannelInv(rxq[u], dist[u].clients_addr, Announced(u), StillThere)
    BY <1>1
  <2>4. /\ \A a \in DOMAIN dist[u].clients_addr : dist[u].clients_addr[a].tx \in Announced(u)
        /\ \A i \in 1..Len(rxq[u]) :
             rxq[u][i].type = "AddMinecraftClient" => rxq[u][i].tx \in Announced(u)
    BY <2>3 DEF ChannelInv, EntriesInv, AddsInv
  <2>5. ChannelInv(rxq[u], dist[u].clients_addr, Announced(u), StillThere')
    BY <2>2, <2>3, <2>4, ChannelFrame
  <2> QED BY <1>3, <2>1, <2>5
<1>4. \A u \in Session : ChannelInv(rxq'[u], dist'[u].clients_addr, Announced(u)', StillThere')
  BY <1>3
<1>5. \A u \in Session : ChannelInv(rxq[u], dist[u].clients_addr, Announced(u), StillThere)'
  BY <1>4 DEF ChannelInv, EntriesInv, AddsInv, Between
<1>6. OneTaskPerAddress'
  BY <1>1, <1>2 DEF OneTaskPerAddress
<1>7. OnlyServing' /\ Targets' /\ TableConsistent'
  BY <1>1, <1>2 DEF OnlyServing, Targets, TableConsistent
<1> QED BY <1>5, <1>6, <1>7 DEF AddressInv

\* Who is there after a player's task has gone to x.
LEMMA PlayerSets ==
  ASSUME TypeOK, NEW c \in Conn, NEW s \in Session, target[c] = s, UNCHANGED target,
         NEW x \in {"added", "running", "done"}, mc' = [mc EXCEPT ![c] = x]
  PROVE  /\ Announced(s)' = Announced(s) \cup {c}
         /\ StillThere' = IF x = "done" THEN StillThere \ {c} ELSE StillThere \cup {c}
<1>1. mc'[c] = x /\ \A d \in Conn \ {c} : mc'[d] = mc[d]
  BY DEF TypeOK
<1> QED BY <1>1 DEF Announced, StillThere, Live

\* When the receiver is gone the send fails and the task ends; the session has
\* nothing of it.
LEMMA PlayerOfClosed ==
  ASSUME TypeOK, AddressInv, TableConsistent, NEW c \in Conn, NEW s \in Session,
         mc[c] \in {"found", "added", "running"}, target[c] = s, ~RxOpen(s),
         mc' = [mc EXCEPT ![c] = "done"], UNCHANGED <<target, dist, phase>>, rxq' = rxq
  PROVE  AddressInv' /\ TableConsistent'
<1>1. phase[s] # "serving" /\ rxq'[s] = <<>> /\ dist[s].clients_addr = EmptyMap
  BY DEF AddressInv, OnlyServing, RxOpen, EmptyTable
<1>2. ChannelInv(rxq'[s], dist[s].clients_addr, Announced(s)', StillThere')
  BY <1>1, ChannelEmpty
<1> QED BY <1>1, <1>2, PlayerFrame

LEMMA QueueFacts ==
  ASSUME TypeOK, NEW s \in Session, NEW m, Queue(s, m)
  PROVE  /\ RxOpen(s) => rxq'[s] = Append(rxq[s], m) /\ phase[s] = "serving"
         /\ ~RxOpen(s) => rxq' = rxq
         /\ \A u \in Session \ {s} : rxq'[u] = rxq[u]
BY DEF TypeOK, Queue, RxOpen

\* The announcement.
LEMMA AddClientAddress ==
  ASSUME TypeOK, AddressInv, TableConsistent, NEW c \in Conn, AddClient(c)
  PROVE  AddressInv' /\ TableConsistent'
<1>3. PICK s \in Session : target[c] = s
  BY DEF AddClient, AddressInv, Targets
<1>1. /\ mc[c] = "found" /\ Queue(s, AddMsg(AddrOf[c], c))
      /\ mc' = [mc EXCEPT ![c] = IF RxOpen(s) THEN "added" ELSE "done"]
      /\ UNCHANGED target /\ UNCHANGED dist /\ UNCHANGED phase
  BY <1>3 DEF AddClient
<1>2. s \in Session
  OBVIOUS
<1>4. CASE ~RxOpen(s)
  BY <1>1, <1>2, <1>3, <1>4, QueueFacts, PlayerOfClosed
<1>5. CASE RxOpen(s)
  <2>1. rxq'[s] = Append(rxq[s], AddMsg(AddrOf[c], c)) /\ phase[s] = "serving"
        /\ \A u \in Session \ {s} : rxq'[u] = rxq[u]
    BY <1>1, <1>2, <1>5, QueueFacts
  <2>2. mc' = [mc EXCEPT ![c] = "added"]
    BY <1>1, <1>5
  <2>3. Announced(s)' = Announced(s) \cup {c} /\ StillThere' = StillThere \cup {c}
    BY <1>1, <1>2, <1>3, <2>2, PlayerSets
  <2>4. \A d \in Announced(s) : AddrOf[d] = AddrOf[c] => d \notin StillThere
    BY <1>1 DEF AddressInv, OneTaskPerAddress, Announced, StillThere, Live
  <2>5. rxq[s] \in Seq(ClientToProxy)
        /\ ChannelInv(rxq[s], dist[s].clients_addr, Announced(s), StillThere)
        /\ AddrOf[c] \in Addr
    BY <1>2, ConstantsAssumption DEF TypeOK, AddressInv
  <2>6. ChannelInv(Append(rxq[s], AddMsg(AddrOf[c], c)), dist[s].clients_addr,
                   Announced(s) \cup {c}, StillThere \cup {c})
    BY <2>4, <2>5, PutAdd
  <2>7. ChannelInv(rxq'[s], dist[s].clients_addr, Announced(s)', StillThere')
    BY <2>1, <2>3, <2>6
  <2> QED BY <1>1, <1>2, <1>3, <2>1, <2>2, <2>7, PlayerFrame
<1> QED BY <1>4, <1>5

\* Any other message: of a task that goes on, or the removal of one that ends.
LEMMA SendAddress ==
  ASSUME TypeOK, AddressInv, TableConsistent, NEW c \in Conn, mc[c] \in {"added", "running"},
         NEW m \in ClientToProxy, m.type # "AddMinecraftClient", Queue(target[c], m),
         NEW x \in {"running", "done"}, x = "done" => m = RemoveMsg(AddrOf[c]),
         mc' = [mc EXCEPT ![c] = IF RxOpen(target[c]) THEN x ELSE "done"],
         UNCHANGED <<target, dist, phase>>
  PROVE  AddressInv' /\ TableConsistent'
<1>1. PICK s \in Session : target[c] = s
  BY DEF AddressInv, Targets
<1>2. /\ Queue(s, m) /\ mc' = [mc EXCEPT ![c] = IF RxOpen(s) THEN x ELSE "done"]
      /\ target[c] = s /\ UNCHANGED target /\ UNCHANGED dist /\ UNCHANGED phase
  BY <1>1
<1>3. CASE ~RxOpen(s)
  BY <1>1, <1>2, <1>3, QueueFacts, PlayerOfClosed
<1>4. CASE RxOpen(s)
  <2>1. rxq'[s] = Append(rxq[s], m) /\ phase[s] = "serving"
        /\ \A u \in Session \ {s} : rxq'[u] = rxq[u]
    BY <1>1, <1>2, <1>4, QueueFacts
  <2>2. mc' = [mc EXCEPT ![c] = x]
    BY <1>2, <1>4
  <2>3. /\ Announced(s)' = Announced(s) \cup {c}
        /\ StillThere' = IF x = "done" THEN StillThere \ {c} ELSE StillThere \cup {c}
    BY <1>1, <1>2, <2>2, PlayerSets
  <2>4. Announced(s) \cup {c} = Announced(s)
    BY <1>2 DEF Announced
  <2>5. rxq[s] \in Seq(ClientToProxy)
        /\ ChannelInv(rxq[s], dist[s].clients_addr, Announced(s), StillThere)
    BY <1>1 DEF TypeOK, AddressInv
  <2>6. ChannelInv(Append(rxq[s], m), dist[s].clients_addr, Announced(s), StillThere \cup {c})
    BY <2>5, PutOther
  <2>7. x = "done" =>
          ChannelInv(Append(rxq[s], m), dist[s].clients_addr, Announced(s), StillThere \ {c})
    <3>1. SUFFICES ASSUME x = "done"
          PROVE  ChannelInv(Append(rxq[s], m), dist[s].clients_addr, Announced(s), StillThere \ {c})
      OBVIOUS
    <3>2. \A d \in Announced(s) : d \in StillThere => d \in StillThere \ {c} \/ m = RemoveMsg(AddrOf[d])
      BY <3>1
    <3> QED BY <2>5, <3>2, PutOther
  <2>8. ChannelInv(rxq'[s], dist[s].clients_addr, Announced(s)', StillThere')
    BY <2>1, <2>3, <2>4, <2>6, <2>7
  <2> QED BY <1>1, <1>2, <2>1, <2>2, <2>8, PlayerFrame
<1> QED BY <1>3, <1>4

\* The session has let go of the player.
LEMMA ReleasedAddress ==
  ASSUME TypeOK, AddressInv, TableConsistent, NEW c \in Conn, McChannelClosed(c)
  PROVE  AddressInv' /\ TableConsistent'
<1>1. /\ mc[c] = "running" /\ ~TxHeld(c) /\ mc' = [mc EXCEPT ![c] = "done"]
      /\ UNCHANGED target /\ UNCHANGED dist /\ UNCHANGED phase /\ UNCHANGED rxq
  BY DEF McChannelClosed, sessionVars
<1>3. PICK s \in Session : target[c] = s
  BY <1>1 DEF AddressInv, Targets
<1>2. s \in Session
  OBVIOUS
<1>4. Announced(s)' = Announced(s) \cup {c} /\ StillThere' = StillThere \ {c}
  BY <1>1, <1>2, <1>3, PlayerSets
<1>5. Len(rxq[s]) \in Nat /\ DOMAIN rxq[s] = 1..Len(rxq[s])
  BY <1>2 DEF TypeOK
<1>6. /\ \A a \in DOMAIN dist[s].clients_addr : dist[s].clients_addr[a].tx # c
      /\ \A i \in 1..Len(rxq[s]) : rxq[s][i].type = "AddMinecraftClient" => rxq[s][i].tx # c
  BY <1>1, <1>2, <1>5 DEF TxHeld
<1>7. ChannelInv(rxq[s], dist[s].clients_addr, Announced(s), StillThere)
      /\ (phase[s] # "serving" => rxq[s] = <<>>)
  BY <1>2 DEF AddressInv, OnlyServing
<1>8. ChannelInv(rxq[s], dist[s].clients_addr, Announced(s)', StillThere')
  BY <1>4, <1>6, <1>7, ChannelFrame
<1> QED BY <1>1, <1>2, <1>3, <1>7, <1>8, PlayerFrame

\* A task that ends before its session hears of it.
LEMMA UnheardAddress ==
  ASSUME TypeOK, AddressInv, TableConsistent, NEW c \in Conn, NoPeerAddr(c)
  PROVE  AddressInv' /\ TableConsistent'
<1>1. /\ mc[c] = "found" /\ mc' = [mc EXCEPT ![c] = "done"]
      /\ UNCHANGED target /\ UNCHANGED dist /\ UNCHANGED phase /\ UNCHANGED rxq
  BY DEF NoPeerAddr, sessionVars
<1>2. PICK s \in Session : target[c] = s
  BY <1>1 DEF AddressInv, Targets
<1>3. Announced(s)' = Announced(s) \cup {c} /\ StillThere' = StillThere \ {c}
  BY <1>1, <1>2, PlayerSets
<1>4. c \notin StillThere
  BY <1>1 DEF StillThere, Live
<1>5. ChannelInv(rxq[s], dist[s].clients_addr, Announced(s), StillThere)
      /\ (phase[s] # "serving" => rxq[s] = <<>>)
  BY <1>2 DEF AddressInv, OnlyServing
<1>6. ChannelInv(rxq[s], dist[s].clients_addr, Announced(s)', StillThere')
  BY <1>3, <1>4, <1>5, ChannelFrame
<1> QED BY <1>1, <1>2, <1>5, <1>6, PlayerFrame

LEMMA PlayerAddress ==
  ASSUME TypeOK, AddressInv, TableConsistent, NEW c \in Conn, PlayerStep(c)
  PROVE  AddressInv' /\ TableConsistent'
<1>1. AddrOf[c] \in Addr /\ MaxUp \in Nat
  BY ConstantsAssumption
<1>2. ASSUME NEW n \in 0..MaxUp
      PROVE  /\ PacketMsg(AddrOf[c], [conn |-> c, n |-> n]) \in ClientToProxy
             /\ PacketMsg(AddrOf[c], [conn |-> c, n |-> n]).type # "AddMinecraftClient"
  <2>1. [conn |-> c, n |-> n] \in Chunk
    BY DEF Chunk
  <2> QED BY <1>1, <2>1, MessageTypes DEF PacketMsg
<1>3. RemoveMsg(AddrOf[c]) \in ClientToProxy /\ RemoveMsg(AddrOf[c]).type # "AddMinecraftClient"
  BY <1>1, MessageTypes DEF RemoveMsg
<1>4. CASE SendHello(c)
  <2>1. 0 \in 0..MaxUp
    BY <1>1
  <2> DEFINE m == PacketMsg(AddrOf[c], [conn |-> c, n |-> 0])
  <2>2. m \in ClientToProxy /\ m.type # "AddMinecraftClient"
    BY <1>2, <2>1
  <2>3. /\ mc[c] = "added" /\ Queue(target[c], m) /\ UNCHANGED <<target, dist, phase>>
        /\ mc' = [mc EXCEPT ![c] = IF RxOpen(target[c]) THEN "running" ELSE "done"]
    BY <1>4 DEF SendHello
  <2> HIDE DEF m
  <2> QED BY <2>2, <2>3, SendAddress
<1>5. CASE McRead(c)
  <2>1. sent[c] + 1 \in 0..MaxUp
    BY <1>1, <1>5 DEF McRead, TypeOK
  <2> DEFINE m == PacketMsg(AddrOf[c], [conn |-> c, n |-> sent[c] + 1])
  <2>2. m \in ClientToProxy /\ m.type # "AddMinecraftClient"
    BY <1>2, <2>1
  <2>3. /\ mc[c] = "running" /\ Queue(target[c], m) /\ UNCHANGED <<target, dist, phase>>
        /\ mc' = [mc EXCEPT ![c] = IF RxOpen(target[c]) THEN "running" ELSE "done"]
    BY <1>5 DEF McRead
  <2> HIDE DEF m
  <2> QED BY <2>2, <2>3, SendAddress
<1>6. CASE McGone(c)
  <2>1. /\ mc[c] = "running" /\ Queue(target[c], RemoveMsg(AddrOf[c]))
        /\ UNCHANGED <<target, dist, phase>>
        /\ mc' = [mc EXCEPT ![c] = IF RxOpen(target[c]) THEN "done" ELSE "done"]
    BY <1>6 DEF McGone
  <2> QED BY <1>3, <2>1, SendAddress
<1>7. CASE McDeliver(c)
  BY <1>7, QuietAddress DEF McDeliver, sessionVars
<1> QED
  BY <1>4, <1>5, <1>6, <1>7, LookupAddress, AddClientAddress, ReleasedAddress,
     UnheardAddress DEF PlayerStep

\* The steps of a session that leave its channel and its table alone.
LEMMA SessionQuiet ==
  ASSUME TypeOK, AddressInv, TableConsistent, NEW s \in Session,
         \/ Handshake(s) \/ Register(s) \/ CloseConnection(s)
         \/ PeerData(s) \/ PeerPing(s) \/ PeerOther(s)
  PROVE  AddressInv' /\ TableConsistent'
<1>1. UNCHANGED <<rxq, dist, mc, target>>
  BY DEF Handshake, AcceptHello, NoFirstPacket, UnknownProtocol, AuthOk, AuthFailed, AuthTimeout,
         Register, CloseConnection, PeerData, PeerPing, PeerOther, playerVars
<1>2. \/ UNCHANGED phase
      \/ /\ phase[s] # "serving"
         /\ \E x : phase' = [phase EXCEPT ![s] = x]
  BY DEF Handshake, AcceptHello, NoFirstPacket, UnknownProtocol, AuthOk, AuthFailed, AuthTimeout,
         Register, CloseConnection, PeerData, PeerPing, PeerOther
<1>3. \A u \in Session : phase[u] = "serving" => phase'[u] = "serving"
  BY <1>2 DEF TypeOK
<1> QED BY <1>1, <1>3, QuietAddress

LEMMA SessionAddress ==
  ASSUME TypeOK, AddressInv, TableConsistent, NEW s \in Session, SessionStep(s)
  PROVE  AddressInv' /\ TableConsistent'
<1>1. CASE TooManyClients(s) \/ WrongPacket(s) \/ ChannelClosed(s) \/ LinkLost(s) \/ IdleTimeout(s)
  <2>1. Leave(s) /\ UNCHANGED <<mc, target>>
    BY <1>1 DEF TooManyClients, WrongPacket, ChannelClosed, LinkLost, IdleTimeout, playerVars
  <2> QED BY <2>1, LeaveAddress
<1>2. CASE HandleAdd(s) \/ HandlePacket(s) \/ HandleRemove(s) \/ PeerDisconnects(s)
  BY <1>2, HandleAddAddress, HandlePacketAddress, HandleRemoveAddress, PeerDisconnectsAddress
<1> QED BY <1>1, <1>2, SessionQuiet DEF SessionStep, RxArm, FramedArm

LEMMA OutsideAddress ==
  ASSUME TypeOK, AddressInv, TableConsistent, (\E s \in Session : PeerStep(s)) \/ UNCHANGED vars
  PROVE  AddressInv' /\ TableConsistent'
<1>1. ASSUME NEW s \in Session, PeerStep(s)
      PROVE  /\ UNCHANGED <<rxq, dist, mc, target>>
             /\ \A u \in Session : phase[u] = "serving" => phase'[u] = "serving"
  BY <1>1 DEF TypeOK, PeerStep, PeerConnect, PeerAuth, PeerSend, PeerRecv, PeerClose, playerVars
<1>2. UNCHANGED vars => UNCHANGED <<rxq, dist, mc, target, phase>>
  BY DEF vars, sessionVars, playerVars
<1> QED BY <1>1, <1>2, QuietAddress

LEMMA NextAddress ==
  TypeOK /\ AddressInv /\ TableConsistent /\ [Next]_vars => AddressInv' /\ TableConsistent'
BY SessionAddress, PlayerAddress, OutsideAddress DEF Next, ServerNext

\* However many players come and go on however many sessions, with addresses
\* that are used again as soon as their socket is gone: what the channels and
\* the tables hold fits together, so that insert never meets an address it has.
THEOREM AddressesNeverClash == Spec => []AddressInv
<1>1. Init => TypeOK /\ AddressInv /\ TableConsistent
  BY InitType, InitAddress
<1>2. TypeOK /\ AddressInv /\ TableConsistent /\ [Next]_vars
        => (TypeOK /\ AddressInv /\ TableConsistent)'
  BY NextType, NextAddress
<1> QED
  BY <1>1, <1>2, PTL DEF Spec

\* The two maps of the table of every session mirror each other.
THEOREM TablesMirror == Spec => []TableConsistent
<1>1. Init => TypeOK /\ AddressInv /\ TableConsistent
  BY InitType, InitAddress
<1>2. TypeOK /\ AddressInv /\ TableConsistent /\ [Next]_vars
        => (TypeOK /\ AddressInv /\ TableConsistent)'
  BY NextType, NextAddress
<1> QED
  BY <1>1, <1>2, PTL DEF Spec

\* What AddressInv says of the table: the removal is still in the channel.
LEMMA AddressInvOwned == TypeOK /\ AddressInv => EntriesOwned
<1>1. SUFFICES ASSUME TypeOK, AddressInv, NEW s \in Session,
                      NEW a \in DOMAIN dist[s].clients_addr,
                      NEW c, c = dist[s].clients_addr[a].tx
      PROVE  /\ AddrOf[c] = a /\ target[c] = s
             /\ Live(c) \/ Queued(s, RemoveMsg(a))
  BY DEF EntriesOwned
<1>2. /\ AddrOf[c] = a /\ c \in Announced(s)
      /\ c \in StillThere \/ Between(rxq[s], a, 0, Len(rxq[s]) + 1)
  BY <1>1 DEF AddressInv, ChannelInv, EntriesInv
<1>3. DOMAIN rxq[s] = 1..Len(rxq[s])
  BY DEF TypeOK
<1>4. Between(rxq[s], a, 0, Len(rxq[s]) + 1) => Queued(s, RemoveMsg(a))
  BY <1>3 DEF Between, Queued
<1> QED BY <1>2, <1>4 DEF Announced, StillThere

\* Every entry of every table has its player, or the removal that is coming.
THEOREM EntriesNeverOrphaned == Spec => []EntriesOwned
<1>1. Spec => []TypeOK
  BY TypeCorrect
<1>2. Spec => []AddressInv
  BY AddressesNeverClash
<1> QED BY <1>1, <1>2, AddressInvOwned, PTL
-----------------------------------------------------------------------------
(* Identifiers *)

\* The players of a session who can still send to it.
Served(s) == Announced(s) \cap StillThere

\* What makes DataUnderOwnId so: in every channel, a packet is where its own
\* player's announcement is the last word on its address.
OwnInv == \A s \in Session : PacketInv(rxq[s], dist[s].clients_addr, Served(s))

LEMMA InitOwn == Init => OwnInv
<1> SUFFICES ASSUME Init, NEW s \in Session
    PROVE PacketInv(rxq[s], dist[s].clients_addr, Served(s))
  BY DEF OwnInv
<1>1. rxq[s] = <<>> /\ dist[s].clients_addr = EmptyMap
  BY DEF Init, EmptyTable
<1> QED BY <1>1, OwnEmpty

\* A step about one session at most, of whose players nobody is new elsewhere.
LEMMA OwnFrame ==
  ASSUME OwnInv, NEW s,
         \A u \in Session \ {s} : rxq'[u] = rxq[u] /\ dist'[u] = dist[u] /\ Served(u)' \subseteq Served(u),
         s \in Session => PacketInv(rxq'[s], dist'[s].clients_addr, Served(s)')
  PROVE  OwnInv'
<1>1. ASSUME NEW u \in Session PROVE PacketInv(rxq'[u], dist'[u].clients_addr, Served(u)')
  <2>1. CASE u # s
    <3>1. PacketInv(rxq[u], dist[u].clients_addr, Served(u))
      BY DEF OwnInv
    <3>2. rxq'[u] = rxq[u] /\ dist'[u] = dist[u] /\ Served(u)' \subseteq Served(u)
      BY <2>1
    <3>3. PacketInv(rxq[u], dist[u].clients_addr, Served(u)')
      BY <3>1, <3>2, OwnShrink
    <3> QED BY <3>2, <3>3
  <2>2. CASE u = s
    BY <2>2
  <2> QED BY <2>1, <2>2
<1>2. \A u \in Session : PacketInv(rxq[u], dist[u].clients_addr, Served(u))'
  BY <1>1 DEF PacketInv, OwnBefore, OwnSince
<1> QED BY <1>2 DEF OwnInv

\* A step that touches no channel, table or player's task.
LEMMA QuietOwn ==
  ASSUME OwnInv, UNCHANGED <<rxq, dist, mc, target>>
  PROVE  OwnInv'
<1>1. \A u \in Session : Served(u)' = Served(u)
  BY DEF Served, Announced, StillThere, Live
<1>2. \A u \in Session : PacketInv(rxq'[u], dist'[u].clients_addr, Served(u)')
  BY <1>1 DEF OwnInv
<1>3. \A u \in Session : PacketInv(rxq[u], dist[u].clients_addr, Served(u))'
  BY <1>2 DEF PacketInv, OwnBefore, OwnSince
<1> QED BY <1>3 DEF OwnInv

\* A step of a session, which changes no player's task.
LEMMA SessionOwnFrame ==
  ASSUME OwnInv, NEW s \in Session, UNCHANGED <<mc, target>>,
         \A u \in Session \ {s} : rxq'[u] = rxq[u] /\ dist'[u] = dist[u],
         PacketInv(rxq'[s], dist'[s].clients_addr, Served(s))
  PROVE  OwnInv'
<1>1. \A u \in Session : Served(u)' = Served(u)
  BY DEF Served, Announced, StillThere, Live
<1>2. PacketInv(rxq'[s], dist'[s].clients_addr, Served(s)')
  BY <1>1
<1>3. \A u \in Session \ {s} : rxq'[u] = rxq[u] /\ dist'[u] = dist[u] /\ Served(u)' \subseteq Served(u)
  BY <1>1
<1> QED BY <1>2, <1>3, OwnFrame

LEMMA LeaveOwn ==
  ASSUME TypeOK, OwnInv, NEW s \in Session, Leave(s), UNCHANGED <<mc, target>>
  PROVE  OwnInv'
<1>1. /\ rxq'[s] = <<>> /\ dist'[s].clients_addr = EmptyMap
      /\ \A u \in Session \ {s} : rxq'[u] = rxq[u] /\ dist'[u] = dist[u]
  BY DEF TypeOK, Leave, EmptyTable
<1>2. PacketInv(rxq'[s], dist'[s].clients_addr, Served(s))
  BY <1>1, OwnEmpty
<1> QED BY <1>1, <1>2, SessionOwnFrame

\* The session reads one message and goes on.
LEMMA ConsumeOwn ==
  ASSUME TypeOK, OwnInv, NEW s \in Session, NEW m, Receives(s, m), Consume(s),
         UNCHANGED <<mc, target>>, NEW d, dist' = [dist EXCEPT ![s] = d],
         AfterRecv(rxq[s], dist[s].clients_addr, d.clients_addr)
  PROVE  OwnInv'
<1>1. /\ rxq'[s] = Tail(rxq[s]) /\ dist'[s] = d /\ rxq[s] \in Seq(ClientToProxy) /\ rxq[s] # <<>>
      /\ \A u \in Session \ {s} : rxq'[u] = rxq[u] /\ dist'[u] = dist[u]
  BY DEF TypeOK, Consume, Receives
<1>2. PacketInv(rxq[s], dist[s].clients_addr, Served(s))
  BY DEF OwnInv
<1>3. PacketInv(Tail(rxq[s]), d.clients_addr, Served(s))
  BY <1>1, <1>2, OwnTake
<1>4. PacketInv(rxq'[s], dist'[s].clients_addr, Served(s))
  BY <1>1, <1>3
<1> QED BY <1>1, <1>4, SessionOwnFrame

LEMMA HandlePacketOwn ==
  ASSUME TypeOK, OwnInv, NEW s \in Session, HandlePacket(s)
  PROVE  OwnInv'
<1>1. PICK m \in ClientToProxy : Receives(s, m) /\ m.type = "Packet"
  BY DEF HandlePacket
<1>2. dist' = [dist EXCEPT ![s] = dist[s]] /\ Consume(s) /\ UNCHANGED <<mc, target>>
  BY DEF HandlePacket, TypeOK, playerVars
<1>3. AfterRecv(rxq[s], dist[s].clients_addr, dist[s].clients_addr)
  BY <1>1 DEF AfterRecv, Receives
<1> QED BY <1>1, <1>2, <1>3, ConsumeOwn

LEMMA HandleRemoveOwn ==
  ASSUME TypeOK, OwnInv, NEW s \in Session, HandleRemove(s)
  PROVE  OwnInv'
<1>1. PICK m \in ClientToProxy :
        /\ Receives(s, m) /\ m.type = "RemoveMinecraftClient"
        /\ dist' = [dist EXCEPT ![s] = RemoveByAddr(@, m.addr)]
  BY DEF HandleRemove
<1> DEFINE d == RemoveByAddr(dist[s], m.addr)
<1>2. dist[s] \in Table /\ dist' = [dist EXCEPT ![s] = d]
  BY <1>1 DEF TypeOK
<1>3. /\ DOMAIN d.clients_addr = DOMAIN dist[s].clients_addr \ {m.addr}
      /\ \A x \in DOMAIN d.clients_addr : d.clients_addr[x] = dist[s].clients_addr[x]
  BY <1>2, RemoveByAddrPreserves
<1> HIDE DEF d
<1>4. AfterRecv(rxq[s], dist[s].clients_addr, d.clients_addr)
  BY <1>1, <1>3 DEF AfterRecv, Receives
<1>5. Consume(s) /\ UNCHANGED <<mc, target>>
  BY DEF HandleRemove, playerVars
<1> QED BY <1>1, <1>2, <1>4, <1>5, ConsumeOwn

LEMMA HandleAddOwn ==
  ASSUME TypeOK, OwnInv, NEW s \in Session, HandleAdd(s)
  PROVE  OwnInv'
<1>1. PICK m \in ClientToProxy :
        /\ Receives(s, m) /\ m.type = "AddMinecraftClient"
        /\ dist' = [dist EXCEPT ![s] = Insert(@, m.addr, m.tx)]
  BY DEF HandleAdd
<1> DEFINE d == Insert(dist[s], m.addr, m.tx)
<1>2. dist' = [dist EXCEPT ![s] = d]
  BY <1>1
<1>3. /\ DOMAIN d.clients_addr = DOMAIN dist[s].clients_addr \cup {m.addr}
      /\ d.clients_addr[m.addr].tx = m.tx
      /\ \A x \in DOMAIN d.clients_addr : x # m.addr => d.clients_addr[x] = dist[s].clients_addr[x]
  BY DEF Insert, Put
<1> HIDE DEF d
<1>4. AfterRecv(rxq[s], dist[s].clients_addr, d.clients_addr)
  BY <1>1, <1>3 DEF AfterRecv, Receives
<1>5. Consume(s) /\ UNCHANGED <<mc, target>>
  BY DEF HandleAdd, playerVars
<1> QED BY <1>1, <1>2, <1>4, <1>5, ConsumeOwn

LEMMA PeerDisconnectsOwn ==
  ASSUME TypeOK, OwnInv, NEW s \in Session, PeerDisconnects(s)
  PROVE  OwnInv'
<1>1. PICK p \in PeerPacket : dist' = [dist EXCEPT ![s] = RemoveById(@, p.id)]
  BY DEF PeerDisconnects
<1> DEFINE d == RemoveById(dist[s], p.id)
<1>2. dist[s] \in Table /\ PacketInv(rxq[s], dist[s].clients_addr, Served(s))
  BY DEF TypeOK, OwnInv
<1>3. /\ DOMAIN d.clients_addr \subseteq DOMAIN dist[s].clients_addr
      /\ \A x \in DOMAIN d.clients_addr : d.clients_addr[x] = dist[s].clients_addr[x]
  BY <1>2, RemoveByIdPreserves
<1>4. dist'[s] = d /\ \A u \in Session \ {s} : dist'[u] = dist[u]
  BY <1>1 DEF TypeOK
<1> HIDE DEF d
<1>5. PacketInv(rxq[s], d.clients_addr, Served(s))
  BY <1>2, <1>3, OwnShrink
<1>6. rxq' = rxq /\ UNCHANGED <<mc, target>>
  BY DEF PeerDisconnects, playerVars
<1> QED BY <1>4, <1>5, <1>6, SessionOwnFrame

LEMMA SessionOwn ==
  ASSUME TypeOK, OwnInv, NEW s \in Session, SessionStep(s)
  PROVE  OwnInv'
<1>1. CASE TooManyClients(s) \/ WrongPacket(s) \/ ChannelClosed(s) \/ LinkLost(s) \/ IdleTimeout(s)
  <2>1. Leave(s) /\ UNCHANGED <<mc, target>>
    BY <1>1 DEF TooManyClients, WrongPacket, ChannelClosed, LinkLost, IdleTimeout, playerVars
  <2> QED BY <2>1, LeaveOwn
<1>2. CASE HandleAdd(s) \/ HandlePacket(s) \/ HandleRemove(s) \/ PeerDisconnects(s)
  BY <1>2, HandleAddOwn, HandlePacketOwn, HandleRemoveOwn, PeerDisconnectsOwn
<1>3. CASE \/ Handshake(s) \/ Register(s) \/ CloseConnection(s)
           \/ PeerData(s) \/ PeerPing(s) \/ PeerOther(s)
  <2>1. UNCHANGED <<rxq, dist, mc, target>>
    BY <1>3 DEF Handshake, AcceptHello, NoFirstPacket, UnknownProtocol, AuthOk, AuthFailed,
       AuthTimeout, Register, CloseConnection, PeerData, PeerPing, PeerOther, playerVars
  <2> QED BY <2>1, QuietOwn
<1> QED BY <1>1, <1>2, <1>3 DEF SessionStep, RxArm, FramedArm

\* A player's task sends a packet of its own, or a removal, or ends.
LEMMA SendOwn ==
  ASSUME TypeOK, OwnInv, AddressInv, NEW c \in Conn, mc[c] \in {"added", "running"},
         NEW m \in ClientToProxy, m.type # "AddMinecraftClient", Queue(target[c], m),
         m.type = "Packet" => m.data.conn = c /\ m.addr = AddrOf[c],
         NEW x \in {"added", "running", "done"}, mc' = [mc EXCEPT ![c] = x],
         UNCHANGED <<target, dist>>
  PROVE  OwnInv'
<1>1. PICK s \in Session : target[c] = s
  BY DEF AddressInv, Targets
<1>2. \A u \in Session : Served(u)' \subseteq Served(u)
  BY DEF TypeOK, Served, Announced, StillThere, Live
<1>3. /\ RxOpen(s) => rxq'[s] = Append(rxq[s], m)
      /\ ~RxOpen(s) => rxq' = rxq
      /\ \A u \in Session \ {s} : rxq'[u] = rxq[u]
  BY <1>1, QueueFacts
<1>4. c \in Served(s)
  BY <1>1 DEF Served, Announced, StillThere, Live
<1>5. rxq[s] \in Seq(ClientToProxy) /\ PacketInv(rxq[s], dist[s].clients_addr, Served(s))
  BY DEF TypeOK, OwnInv
<1>6. PacketInv(Append(rxq[s], m), dist[s].clients_addr, Served(s)')
  BY <1>2, <1>4, <1>5, OwnPutOther
<1>7. PacketInv(rxq[s], dist[s].clients_addr, Served(s)')
  BY <1>2, <1>5, OwnShrink
<1>8. PacketInv(rxq'[s], dist'[s].clients_addr, Served(s)')
  BY <1>3, <1>6, <1>7
<1> QED BY <1>2, <1>3, <1>8, OwnFrame

\* The announcement: OneTaskPerAddress leaves nobody else with the address.
LEMMA AddClientOwn ==
  ASSUME TypeOK, OwnInv, AddressInv, NEW c \in Conn, AddClient(c)
  PROVE  OwnInv'
<1>1. PICK s \in Session : target[c] = s
  BY DEF AddClient, AddressInv, Targets
<1> DEFINE m == AddMsg(AddrOf[c], c)
<1>2. /\ mc[c] = "found" /\ Queue(s, m)
      /\ mc' = [mc EXCEPT ![c] = IF RxOpen(s) THEN "added" ELSE "done"]
      /\ UNCHANGED <<target, dist>> /\ AddrOf[c] \in Addr
  BY <1>1, ConstantsAssumption DEF AddClient
<1>3. /\ RxOpen(s) => rxq'[s] = Append(rxq[s], m)
      /\ ~RxOpen(s) => rxq' = rxq
      /\ \A u \in Session \ {s} : rxq'[u] = rxq[u]
  BY <1>2, QueueFacts
<1>4. /\ \A u \in Session \ {s} : Served(u)' \subseteq Served(u)
      /\ Served(s)' \subseteq Served(s) \cup {c}
      /\ ~RxOpen(s) => Served(s)' \subseteq Served(s)
  BY <1>1, <1>2 DEF TypeOK, Served, Announced, StillThere, Live
<1>5. \A d \in Served(s) : AddrOf[d] = AddrOf[c] => d = c
  BY <1>2 DEF AddressInv, OneTaskPerAddress, Served, StillThere, Live
<1>6. rxq[s] \in Seq(ClientToProxy) /\ PacketInv(rxq[s], dist[s].clients_addr, Served(s))
  BY DEF TypeOK, OwnInv
<1>7. PacketInv(Append(rxq[s], m), dist[s].clients_addr, Served(s)')
  BY <1>2, <1>4, <1>5, <1>6, OwnPutAdd
<1>8. ~RxOpen(s) => PacketInv(rxq[s], dist[s].clients_addr, Served(s)')
  BY <1>4, <1>6, OwnShrink
<1> HIDE DEF m
<1>9. PacketInv(rxq'[s], dist'[s].clients_addr, Served(s)')
  BY <1>2, <1>3, <1>7, <1>8
<1> QED BY <1>2, <1>3, <1>4, <1>9, OwnFrame

LEMMA PlayerOwn ==
  ASSUME TypeOK, OwnInv, AddressInv, NEW c \in Conn, PlayerStep(c)
  PROVE  OwnInv'
<1>1. AddrOf[c] \in Addr /\ MaxUp \in Nat
  BY ConstantsAssumption
<1>2. ASSUME NEW n \in 0..MaxUp, NEW m, m = PacketMsg(AddrOf[c], [conn |-> c, n |-> n])
      PROVE  m \in ClientToProxy /\ m.type = "Packet" /\ m.data.conn = c /\ m.addr = AddrOf[c]
  <2>1. [conn |-> c, n |-> n] \in Chunk
    BY DEF Chunk
  <2> QED BY <1>1, <1>2, <2>1, MessageTypes DEF PacketMsg
<1>3. CASE SendHello(c)
  <2>1. PICK m : m = PacketMsg(AddrOf[c], [conn |-> c, n |-> 0])
    OBVIOUS
  <2>2. m \in ClientToProxy /\ m.type = "Packet" /\ m.data.conn = c /\ m.addr = AddrOf[c]
    BY <1>1, <1>2, <2>1
  <2>3. /\ mc[c] = "added" /\ Queue(target[c], m) /\ UNCHANGED <<target, dist>>
        /\ mc' = [mc EXCEPT ![c] = IF RxOpen(target[c]) THEN "running" ELSE "done"]
    BY <1>3, <2>1 DEF SendHello
  <2> QED BY <2>2, <2>3, SendOwn
<1>4. CASE McRead(c)
  <2>1. sent[c] + 1 \in 0..MaxUp
    BY <1>1, <1>4 DEF McRead, TypeOK
  <2>2. PICK m : m = PacketMsg(AddrOf[c], [conn |-> c, n |-> sent[c] + 1])
    OBVIOUS
  <2>3. m \in ClientToProxy /\ m.type = "Packet" /\ m.data.conn = c /\ m.addr = AddrOf[c]
    BY <1>2, <2>1, <2>2
  <2>4. /\ mc[c] = "running" /\ Queue(target[c], m) /\ UNCHANGED <<target, dist>>
        /\ mc' = [mc EXCEPT ![c] = IF RxOpen(target[c]) THEN "running" ELSE "done"]
    BY <1>4, <2>2 DEF McRead
  <2> QED BY <2>3, <2>4, SendOwn
<1>5. CASE McGone(c)
  <2>1. RemoveMsg(AddrOf[c]) \in ClientToProxy /\ RemoveMsg(AddrOf[c]).type = "RemoveMinecraftClient"
    BY <1>1, MessageTypes DEF RemoveMsg
  <2>2. /\ mc[c] = "running" /\ Queue(target[c], RemoveMsg(AddrOf[c])) /\ UNCHANGED <<target, dist>>
        /\ mc' = [mc EXCEPT ![c] = "done"]
    BY <1>5 DEF McGone
  <2> QED BY <2>1, <2>2, SendOwn
<1>6. CASE Lookup(c) \/ NoPeerAddr(c) \/ McDeliver(c) \/ McChannelClosed(c)
  <2>1. UNCHANGED <<rxq, dist>>
    BY <1>6 DEF Lookup, NoPeerAddr, McDeliver, McChannelClosed, sessionVars
  <2>2. \A u \in Session : Served(u)' \subseteq Served(u)
    BY <1>6 DEF Lookup, NoPeerAddr, McDeliver, McChannelClosed, TypeOK, Served, Announced,
                StillThere, Live
  <2>3. PICK s : s \notin Session
    BY ConstantsAssumption
  <2> QED BY <2>1, <2>2, <2>3, OwnFrame
<1> QED BY <1>3, <1>4, <1>5, <1>6, AddClientOwn DEF PlayerStep

LEMMA NextOwn == TypeOK /\ OwnInv /\ AddressInv /\ [Next]_vars => OwnInv'
<1> SUFFICES ASSUME TypeOK, OwnInv, AddressInv, [Next]_vars PROVE OwnInv'
  OBVIOUS
<1>1. ASSUME NEW s \in Session, PeerStep(s) PROVE OwnInv'
  BY <1>1, QuietOwn
     DEF PeerStep, PeerConnect, PeerAuth, PeerSend, PeerRecv, PeerClose, playerVars
<1>2. CASE UNCHANGED vars
  BY <1>2, QuietOwn DEF vars, sessionVars, playerVars
<1> QED BY <1>1, <1>2, SessionOwn, PlayerOwn DEF Next, ServerNext

\* A packet at the head of the channel finds its own player at its address,
\* and the identifier of the entry leads back to the same entry.
LEMMA HeadIsOwn ==
  ASSUME TypeOK, OwnInv, TableConsistent, NEW s \in Session, NEW m, Receives(s, m),
         m.type = "Packet", HasAddr(dist[s], m.addr), NEW i, i = dist[s].clients_addr[m.addr].id
  PROVE  HasId(dist[s], i) /\ GetById(dist[s], i).tx = m.data.conn
<1>1. rxq[s] \in Seq(ClientToProxy) /\ rxq[s] # <<>> /\ m = Head(rxq[s])
  BY DEF TypeOK, Receives
<1>2. 1 \in 1..Len(rxq[s]) /\ rxq[s][1] = m
  BY <1>1, TailShifts
<1>3. /\ AddrOf[m.data.conn] = m.addr
      /\ OwnBefore(rxq[s], dist[s].clients_addr, m.data.conn, 1)
  BY <1>2 DEF OwnInv, PacketInv
<1>4. ~ OwnSince(rxq[s], m.data.conn, 0, 1)
  BY DEF OwnSince
<1>5. dist[s].clients_addr[m.addr].tx = m.data.conn
  BY <1>3, <1>4 DEF OwnBefore, HasAddr
<1>6. i \in DOMAIN dist[s].clients_id /\ dist[s].clients_id[i] = m.addr
  BY DEF TableConsistent, Consistent, HasAddr
<1> QED BY <1>5, <1>6 DEF HasId, GetById, HasAddr

\* A send makes one link longer, by what is sent.
LEMMA SendLast ==
  ASSUME TypeOK, NEW s \in Session, NEW p \in ServerPacket, Send(s, p), NEW u \in Session,
         Len(toClient'[u]) > Len(toClient[u])
  PROVE  u = s /\ toClient'[u][Len(toClient'[u])] = p
<1>1. toClient[s] \in Seq(ServerPacket) /\ toClient[u] \in Seq(ServerPacket)
  BY DEF TypeOK
<1>2. Len(toClient[u]) \in Nat /\ Append(toClient[s], p)[Len(Append(toClient[s], p))] = p
  BY <1>1
<1>3. toClient'[u] = IF u = s /\ peerOpen[s] THEN Append(toClient[s], p) ELSE toClient[u]
  BY DEF Send, TypeOK
<1> QED BY <1>2, <1>3

\* The property of one step, for one session and the last packet on its link.
OwnIdStep(u) ==
  LET p == toClient'[u][Len(toClient'[u])]
  IN  (Len(toClient'[u]) > Len(toClient[u]) /\ p.type = "ProxyData")
        => HasId(dist[u], p.id) /\ GetById(dist[u], p.id).tx = p.data.conn

\* A step that sends something else, or nothing, or takes from a link.
LEMMA OtherSends ==
  ASSUME TypeOK, NEW s \in Session, NEW u \in Session,
         \/ \E p \in ServerPacket : Send(s, p) /\ p.type # "ProxyData"
         \/ toClient'[u] = toClient[u]
         \/ toClient[u] # <<>> /\ toClient'[u] = Tail(toClient[u])
         \/ toClient'[u] = <<>>
  PROVE  OwnIdStep(u)
<1>1. CASE \E p \in ServerPacket : Send(s, p) /\ p.type # "ProxyData"
  BY <1>1, SendLast DEF OwnIdStep
<1>2. toClient[u] \in Seq(ServerPacket)
  BY DEF TypeOK
<1>3. Len(toClient[u]) \in Nat /\ Len(<<>>) = 0
  BY <1>2
<1>4. CASE toClient'[u] = toClient[u]
  <2>1. ~ (Len(toClient'[u]) > Len(toClient[u]))
    BY <1>3, <1>4
  <2> QED BY <2>1 DEF OwnIdStep
<1>5. CASE toClient[u] # <<>> /\ toClient'[u] = Tail(toClient[u])
  <2>1. ~ (Len(toClient'[u]) > Len(toClient[u]))
    BY <1>2, <1>5
  <2> QED BY <2>1 DEF OwnIdStep
<1>6. CASE toClient'[u] = <<>>
  <2>1. ~ (Len(toClient'[u]) > Len(toClient[u]))
    BY <1>3, <1>6
  <2> QED BY <2>1 DEF OwnIdStep
<1> QED BY <1>1, <1>4, <1>5, <1>6

LEMMA PacketSends ==
  ASSUME TypeOK, OwnInv, TableConsistent, NEW s \in Session, HandlePacket(s), NEW u \in Session
  PROVE  OwnIdStep(u)
<1>1. PICK m \in ClientToProxy :
        /\ Receives(s, m) /\ m.type = "Packet" /\ HasAddr(dist[s], m.addr)
        /\ Send(s, ProxyData(dist[s].clients_addr[m.addr].id, m.data))
  BY DEF HandlePacket
<1> DEFINE i == dist[s].clients_addr[m.addr].id
           p == ProxyData(i, m.data)
<1>2. m.data \in Chunk /\ i \in Id
  BY <1>1, MessageKinds, TableEntry DEF TypeOK, HasAddr
<1>3. p \in ServerPacket /\ p.id = i /\ p.data = m.data
  BY <1>2 DEF ServerPacket, ProxyData
<1>4. HasId(dist[s], i) /\ GetById(dist[s], i).tx = m.data.conn
  BY <1>1, HeadIsOwn
<1>5. Send(s, p)
  BY <1>1
<1> HIDE DEF i, p
<1> QED BY <1>3, <1>4, <1>5, SendLast DEF OwnIdStep

LEMMA SessionSends ==
  ASSUME TypeOK, OwnInv, TableConsistent, NEW s \in Session, SessionStep(s), NEW u \in Session
  PROVE  OwnIdStep(u)
<1>1. CASE HandleAdd(s)
  <2>1. PICK m \in ClientToProxy : CanInsert(dist[s]) /\ Send(s, ProxyJoin(LowestFree(dist[s])))
    BY <1>1 DEF HandleAdd
  <2>2. ProxyJoin(LowestFree(dist[s])) \in ServerPacket
    BY <2>1, LowestFreeIsFree DEF ServerPacket, Free
  <2>3. ProxyJoin(LowestFree(dist[s])).type # "ProxyData"
    BY DEF ProxyJoin
  <2> QED BY <2>1, <2>2, <2>3, OtherSends
<1>2. CASE HandleRemove(s)
  <2>1. PICK m \in ClientToProxy :
          IF HasAddr(dist[s], m.addr)
            THEN Send(s, ProxyDisconnect(dist[s].clients_addr[m.addr].id))
            ELSE UNCHANGED toClient
    BY <1>2 DEF HandleRemove
  <2>2. CASE HasAddr(dist[s], m.addr)
    <3>1. dist[s].clients_addr[m.addr].id \in Id
      BY <2>2, TableEntry DEF TypeOK, HasAddr
    <3>2. ProxyDisconnect(dist[s].clients_addr[m.addr].id) \in ServerPacket
      BY <3>1 DEF ServerPacket
    <3>3. ProxyDisconnect(dist[s].clients_addr[m.addr].id).type # "ProxyData"
      BY DEF ProxyDisconnect
    <3> QED BY <2>1, <2>2, <3>2, <3>3, OtherSends
  <2>3. CASE ~HasAddr(dist[s], m.addr)
    BY <2>1, <2>3, OtherSends
  <2> QED BY <2>2, <2>3
<1>3. CASE AcceptHello(s) \/ AuthFailed(s) \/ AuthTimeout(s) \/ Register(s) \/ PeerPing(s)
  <2>1. PICK t \in {"ProxyAuthRequest", "ProxyError", "ProxyHelloResponse", "ProxyPong"} :
          Send(s, Plain(t))
    BY <1>3 DEF AcceptHello, AuthFailed, AuthTimeout, Register, PeerPing
  <2>2. Plain(t) \in ServerPacket /\ Plain(t).type # "ProxyData"
    BY DEF ServerPacket, Plain
  <2> QED BY <2>1, <2>2, OtherSends
<1>4. CASE \/ NoFirstPacket(s) \/ UnknownProtocol(s) \/ AuthOk(s) \/ CloseConnection(s)
           \/ TooManyClients(s) \/ WrongPacket(s) \/ ChannelClosed(s)
           \/ PeerDisconnects(s) \/ PeerData(s) \/ PeerOther(s) \/ LinkLost(s) \/ IdleTimeout(s)
  <2>1. UNCHANGED toClient
    BY <1>4 DEF NoFirstPacket, UnknownProtocol, AuthOk, CloseConnection, TooManyClients,
       WrongPacket, ChannelClosed, PeerDisconnects, PeerData, PeerOther, LinkLost, IdleTimeout
  <2> QED BY <2>1, OtherSends
<1> QED BY <1>1, <1>2, <1>3, <1>4, PacketSends DEF SessionStep, Handshake, RxArm, FramedArm

LEMMA NextSends ==
  ASSUME TypeOK, OwnInv, TableConsistent, [Next]_vars, NEW u \in Session
  PROVE  OwnIdStep(u)
<1>1. ASSUME NEW c \in Conn, PlayerStep(c) PROVE UNCHANGED toClient
  BY <1>1 DEF PlayerStep, Lookup, NoPeerAddr, AddClient, SendHello, McRead, McGone, McDeliver,
              McChannelClosed, sessionVars
<1>2. UNCHANGED vars => UNCHANGED toClient
  BY DEF vars, sessionVars
<1>3. ASSUME NEW s \in Session, PeerStep(s)
      PROVE  \/ toClient'[u] = toClient[u]
             \/ toClient[u] # <<>> /\ toClient'[u] = Tail(toClient[u])
             \/ toClient'[u] = <<>>
  BY <1>3 DEF PeerStep, PeerConnect, PeerAuth, PeerSend, PeerRecv, PeerClose, TypeOK
<1> QED BY <1>1, <1>2, <1>3, SessionSends, OtherSends DEF Next, ServerNext

\* Whatever players come, go and send, with whatever addresses used again and
\* whichever identifiers the proxy client frees in between: no packet of a
\* player ever goes out under the identifier of another one.
THEOREM DataGoesUnderOwnId == Spec => DataUnderOwnId
<1> DEFINE Inv == TypeOK /\ AddressInv /\ TableConsistent /\ OwnInv
<1>1. Init => Inv
  BY InitType, InitAddress, InitOwn
<1>2. Inv /\ [Next]_vars => Inv'
  BY NextType, NextAddress, NextOwn
<1>3. Inv /\ [Next]_vars =>
        [\A s \in Session :
           LET p == toClient'[s][Len(toClient'[s])]
           IN  (Len(toClient'[s]) > Len(toClient[s]) /\ p.type = "ProxyData")
                 => HasId(dist[s], p.id) /\ GetById(dist[s], p.id).tx = p.data.conn]_vars
  BY NextSends DEF OwnIdStep
<1> HIDE DEF Inv
<1> QED BY <1>1, <1>2, <1>3, PTL DEF Spec, DataUnderOwnId
=============================================================================
