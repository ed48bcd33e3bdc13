--------------------------- MODULE MCPacketCodec ---------------------------
(***************************************************************************)
(* PacketCodec for TLC: the streams that the server reads (from Minecraft  *)
(* clients of three ages and from a proxy client), and those that a proxy  *)
(* client reads.  The hello packets are those of shared/src/test.rs.       *)
(***************************************************************************)
EXTENDS PacketCodec

Bytes(n, b) == [i \in 1..n |-> b]
Localhost == <<108, 111, 99, 97, 108, 104, 111, 115, 116>>
Wide(s) == [i \in 1..2 * Len(s) |-> IF i % 2 = 1 THEN 0 ELSE s[i \div 2]]

Hello(data, version, host, port) ==
  [type |-> "MCHello", length |-> Len(data), version |-> version, hostname |-> host,
   port |-> port, data |-> data]

OldPing ==
  Hello(OLD_MINECRAFT_START \o <<0, 11, 73, 0, 2, 0, 104, 0, 105, 0, 0, 99, 221>>,
        73, <<104, 105>>, <<0, 0, 99, 221>>)
OldConnect ==
  Hello(<<2, 73, 0, 3, 0, 80, 0, 101, 0, 110, 0, 9>> \o Wide(Localhost) \o <<0, 0, 99, 221>>,
        73, Localhost, <<0, 0, 99, 221>>)
NewConnect ==
  Hello(<<16, 0, 249, 5, 9>> \o Localhost \o <<99, 221>>, 761, Localhost, <<99, 221>>)

Number16(t, n) == [type |-> t, n |-> n]
Auth(t) == [type |-> t, bytes |-> Bytes(64, 165)]
ProxyHello == [type |-> "ProxyHello", version |-> 1, hostname |-> Bytes(34, 97),
               key |-> Bytes(32, 200)]
Data(id, n) == [type |-> "ProxyData", client_id |-> id, data |-> Bytes(n, 2)]

ToServer ==
  << <<OldPing>>,
     <<OldConnect, MCData(Bytes(5, 2))>>,
     <<NewConnect, MCData(<<1>>), MCData(<<254, 1, 16>>)>>,
     <<ProxyHello, Auth("ProxyAuthResponse"), Number16("ProxyPing", 65535), Data(0, 1),
       Data(1, 600), Data(0, 1522), Number16("ProxyDisconnect", 1)>> >>

ToClient ==
  << <<Auth("ProxyAuthRequest"), Number16("ProxyHelloResponse", 1), Number16("ProxyJoin", 0),
       Data(0, 16), Data(1, 242), Number16("ProxyJoin", 1), Data(1, 497), Data(0, 754),
       Number16("ProxyPong", 512), Number16("ProxyDisconnect", 0)>>,
     <<[type |-> "ProxyError", text |-> Bytes(20, 97)]>> >>

\* A proxy client with a variant more than SocketPacket has.
Newer == <<ProxyHello, MCData(<<0, 4, 14, 0, 0, 0>>)>>

MCStream == ToServer \o ToClient \o <<Newer>>
MCForeign == {Len(MCStream)}

\* A segment of a player's traffic whose frame is 614 bytes long.
MCStreamOfPlayer ==
  << <<Auth("ProxyAuthRequest"), Number16("ProxyHelloResponse", 1), Number16("ProxyJoin", 0),
       Data(0, 600)>> >>

-----------------------------------------------------------------------------
\* What the theorems of CodecProofs say of these streams: of all that two peers
\* of this version send, but not of the one that gets stuck.
ASSUME RegularStreams == \A s \in DOMAIN MCStream \ MCForeign : Regular(MCStream[s])
ASSUME IrregularStream == ~Regular(MCStreamOfPlayer[1])
=============================================================================
