---------------------------- MODULE SocketPacket ----------------------------
(***************************************************************************)
(* The packets of shared/src/socket_packet.rs as bytes: how a sender       *)
(* writes one (encode of the packet and of the codec), and how a receiver  *)
(* reads one from the front of its buffer.  A packet between the server    *)
(* and a proxy client travels in a frame: its length as a u16, then what   *)
(* bincode makes of it (fixed width, little endian).  What a Minecraft     *)
(* client sends is a hello packet and then plain bytes.                    *)
(*                                                                         *)
(* Packets are records with the field `type`.  MCHello, MCData and Unknown *)
(* are never sent in a frame.                                              *)
(***************************************************************************)
EXTENDS HelloParser

MCData(d) == [type |-> "MCData", data |-> d]

\* The enum's variants by number, and by what they hold: one u16 (n), 64
\* bytes, or more.
Variant ==
  [ProxyHello |-> 2, ProxyAuthRequest |-> 3, ProxyAuthResponse |-> 4, ProxyHelloResponse |-> 5,
   ProxyJoin |-> 6, ProxyDisconnect |-> 7, ProxyDisconnectAck |-> 8, ProxyError |-> 9,
   ProxyData |-> 10, ProxyPing |-> 11, ProxyPong |-> 12]
U16Packet == {"ProxyHelloResponse", "ProxyJoin", "ProxyDisconnect", "ProxyDisconnectAck",
              "ProxyPing", "ProxyPong"}
AuthPacket == {"ProxyAuthRequest", "ProxyAuthResponse"}

\* A u16, n bytes, and a String
Word == {n \in Nat : n < 65536}
Block(n) == {s \in ByteString : Len(s) = n}
Text == {s \in ByteString : Utf8(s)}

\* The packets that are sent in a frame.
FramedPacket ==
  [type : U16Packet, n : Word] \cup [type : AuthPacket, bytes : Block(64)]
    \cup [type : {"ProxyError"}, text : Text]
    \cup [type : {"ProxyData"}, client_id : Word, data : ByteString]
    \cup [type : {"ProxyHello"}, version : Word, hostname : Text, key : Block(32)]

-----------------------------------------------------------------------------
(* Writing *)

\* n in k bytes, little endian; every n here is below 2^24.
LittleEndian(n, k) ==
  [i \in 1..k |-> CASE i = 1 -> n % 256
                   [] i = 2 -> (n \div 256) % 256
                   [] i = 3 -> (n \div 65536) % 256
                   [] OTHER -> 0]

\* A Vec<u8> or a String
Vector(s) == LittleEndian(Len(s), 8) \o s

Fields(p) ==
  CASE p.type \in U16Packet   -> LittleEndian(p.n, 2)
    [] p.type \in AuthPacket  -> p.bytes
    [] p.type = "ProxyError"  -> Vector(p.text)
    [] p.type = "ProxyData"   -> LittleEndian(p.client_id, 2) \o Vector(p.data)
    [] p.type = "ProxyHello"  -> LittleEndian(p.version, 2) \o Vector(p.hostname)
                                   \o LittleEndian(0, 4) \o p.key

Serialized(p) == LittleEndian(Variant[p.type], 4) \o Fields(p)

\* A u16 counts the bytes.
Short(b) == Len(b) < 65536
Fits(p) == Short(Serialized(p))

\* `packet.len() as u16`, big endian
LengthPrefix(body) == <<(Len(body) % 65536) \div 256, Len(body) % 256>>

Encode(p) ==
  IF p.type \in {"MCHello", "MCData"} THEN p.data
  ELSE LET body == Serialized(p) IN LengthPrefix(body) \o body

\* A frame that begins as a hello of an old Minecraft client does (with 2, or
\* with 128 or more), or that is one of a new client, of six bytes.
HelloLength(n) == (512 <= n /\ n < 768) \/ n = 1536 \/ n >= 32768
HelloLike(p) == HelloLength(Len(Serialized(p)))

-----------------------------------------------------------------------------
(* Reading *)

Number(bytes) == bytes[1] + 256 * bytes[2]

\* A length of 2^16 or more is longer than any frame: bincode finds its end.
TakeVector(buf, p) ==
  Then(Take(buf, p, 8), LAMBDA size :
    IF \E i \in 3..8 : size.val[i] # 0 THEN Fail("TooSmall")
    ELSE Take(buf, size.pos, Number(size.val)))

TakeString(buf, p) ==
  Then(TakeVector(buf, p), LAMBDA s : IF Utf8(s.val) THEN s ELSE Fail("NotValid"))

ReadHello(body) ==
  Then(Take(body, 4, 2), LAMBDA version :
  Then(TakeString(body, version.pos), LAMBDA host :
  Then(Take(body, host.pos, 4), LAMBDA auth :
    IF auth.val # <<0, 0, 0, 0>> THEN Fail("NotValid")
    ELSE Then(Take(body, auth.pos, 32), LAMBDA key :
           Got([type |-> "ProxyHello", version |-> Number(version.val),
                hostname |-> host.val, key |-> key.val], key.pos)))))

ReadData(body) ==
  Then(Take(body, 4, 2), LAMBDA id :
  Then(TakeVector(body, id.pos), LAMBDA data :
    Got([type |-> "ProxyData", client_id |-> Number(id.val), data |-> data.val], data.pos)))

ReadFields(t, body) ==
  CASE t \in U16Packet  -> Then(Take(body, 4, 2), LAMBDA n :
                             Got([type |-> t, n |-> Number(n.val)], n.pos))
    [] t \in AuthPacket -> Then(Take(body, 4, 64), LAMBDA b :
                             Got([type |-> t, bytes |-> b.val], b.pos))
    [] t = "ProxyError" -> Then(TakeString(body, 4), LAMBDA s :
                             Got([type |-> t, text |-> s.val], s.pos))
    [] t = "ProxyData"  -> ReadData(body)
    [] t = "ProxyHello" -> ReadHello(body)

\* bincode::deserialize, which does not mind bytes that are left over
Deserialize(body) ==
  Then(Take(body, 0, 4), LAMBDA tag :
    LET types == {t \in DOMAIN Variant : LittleEndian(Variant[t], 4) = tag.val}
    IN  IF types = {} THEN Fail("NotValid")
        ELSE ReadFields(CHOOSE t \in types : TRUE, body))

\* Mutant: waits for one byte more than the frame has.
DecodeProxyLate(buf) ==
  Then(Take(buf, 0, 2), LAMBDA length :
  Then(Take(buf, 2, U16(buf, 0)), LAMBDA body :
    IF Len(buf) <= body.pos THEN Fail("TooSmall")
    ELSE Then(Deserialize(body.val), LAMBDA p : Got(p.val, body.pos))))

\* Mutant: advances over the length twice.
DecodeProxyTooFar(buf) ==
  Then(Take(buf, 0, 2), LAMBDA length :
  Then(Take(buf, 2, U16(buf, 0)), LAMBDA body :
    Then(Deserialize(body.val), LAMBDA p : Got(p.val, body.pos + 2))))

DecodeProxy(buf) ==
  Then(Take(buf, 0, 2), LAMBDA length :
  Then(Take(buf, 2, U16(buf, 0)), LAMBDA body :
    LET p == Deserialize(body.val)
    IN  IF p.ok THEN Got(p.val, body.pos) ELSE Fail("NotValid")))

\* Mutant: only NotMatching leads on to the proxy's packets.
FirstPackageUnlessInvalid(buf) ==
  LET hello == MinecraftHello(buf)
  IN  IF hello.ok \/ hello.err # "NotMatching" THEN hello ELSE DecodeProxy(buf)

\* The first packet is a Minecraft hello if it can be read as one.
ParseFirstPackage(buf) ==
  LET hello == MinecraftHello(buf)
  IN  IF hello.ok \/ hello.err \notin {"NotValid", "NotMatching"} THEN hello ELSE DecodeProxy(buf)

\* A hello that is read back from its bytes, and that no frame is as long as.
Readable(h) ==
  /\ h.type = "MCHello" /\ h.data \in ByteString /\ Len(h.data) <= 32768
  /\ MinecraftHello(h.data) = Got(h, Len(h.data))

ParsePacket(buf, protocol) ==
  IF protocol = "MC" THEN Got(MCData(buf), Len(buf)) ELSE DecodeProxy(buf)
=============================================================================
