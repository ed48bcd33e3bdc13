----------------------------- MODULE PacketCodec -----------------------------
(***************************************************************************)
(* One direction of one TCP connection: a sender writes the packets of a   *)
(* stream, one after the other, and the receiver's Framed (external:       *)
(* tokio_util) reads what has been written in pieces and has the           *)
(* PacketCodec (shared/src/packet_codec.rs) cut them into packets again.   *)
(* The codec starts without a protocol and decides for one with the first  *)
(* hello it hands out.                                                     *)
(***************************************************************************)
EXTENDS SocketPacket

CONSTANTS
  Stream,    \* the streams that may be sent: a sequence of sequences of packets
  Foreign,   \* those of them with a packet that this version does not know
  ReadSizes  \* bound: how many bytes one read takes, when as many are there

ASSUME StreamAssumption == DOMAIN Stream # {} /\ Foreign \subseteq DOMAIN Stream

\* A stream is a sequence of packets that are written as bytes, and a read
\* takes a number of bytes.
ASSUME PacketAssumption ==
  \A s \in DOMAIN Stream :
    /\ Len(Stream[s]) \in Nat /\ DOMAIN Stream[s] = 1..Len(Stream[s])
    /\ \A i \in DOMAIN Stream[s] : Encode(Stream[s][i]) \in ByteString
ASSUME ReadAssumption == ReadSizes \subseteq Nat

VARIABLES
  stream,    \* the one that is sent
  wire,      \* the bytes written so far
  bounds,    \* where in wire each of the packets written ends
  taken,     \* number of bytes read from the socket
  cuts,      \* where in wire each of the packets handed out ends
  waiting,   \* decode has said that it needs more bytes
  protocol,  \* PacketCodec.protocol, without the version
  out,       \* the packets handed out
  status     \* of the Framed: open, ended by the peer, or failed

vars == <<stream, wire, bounds, taken, cuts, waiting, protocol, out, status>>

\* Where the i-th of the packets of wire ends, by bounds or by cuts.
End(ends, i) == IF i = 0 THEN 0 ELSE ends[i]

\* The i-th of them in bytes.
Piece(ends, i) == SubSeq(wire, End(ends, i - 1) + 1, End(ends, i))

\* Number of bytes that the packets handed out were made of: the buffer has
\* been advanced over them.
eaten == End(cuts, Len(cuts))
Buffer == SubSeq(wire, eaten + 1, taken)

TypeOK ==
  /\ stream \in DOMAIN Stream
  /\ wire \in ByteString
  /\ bounds \in Seq(0..Len(wire)) /\ Len(bounds) <= Len(Stream[stream])
  /\ taken \in 0..Len(wire)
  /\ cuts \in Seq(0..taken)
  /\ waiting \in BOOLEAN
  /\ protocol \in {"Unknown", "MC", "Proxy"}
  /\ Len(out) = Len(cuts)
  /\ \A i \in DOMAIN out : out[i].type \in DOMAIN Variant \cup {"MCHello", "MCData"}
  /\ status \in {"open", "ended", "failed"}

Init ==
  /\ stream \in DOMAIN Stream
  /\ wire = <<>>
  /\ bounds = <<>>
  /\ taken = 0
  /\ cuts = <<>>
  /\ waiting = TRUE
  /\ protocol = "Unknown"
  /\ out = <<>>
  /\ status = "open"

-----------------------------------------------------------------------------
\* Mutant: decode is not stopped by an empty buffer.
EmptyToo(buf) == TRUE

\* "otherwise decode gets called very often!"
HasBytes(buf) == buf # <<>>

Decoded ==
  IF ~HasBytes(Buffer) THEN Fail("TooSmall")
  ELSE IF protocol = "Unknown" THEN ParseFirstPackage(Buffer)
  ELSE ParsePacket(Buffer, protocol)

\* What the packet handed out makes of the protocol.
ProtocolAfter(p) ==
  IF protocol # "Unknown" THEN protocol
  ELSE CASE p.type = "ProxyHello" -> "Proxy"
         [] p.type = "MCHello"    -> "MC"
         [] OTHER                 -> "Unknown"

\* The sender's encode puts its next packet behind the others.
Write ==
  /\ status = "open"
  /\ Len(bounds) < Len(Stream[stream])
  /\ wire' = wire \o Encode(Stream[stream][Len(bounds) + 1])
  /\ bounds' = Append(bounds, Len(wire'))
  /\ UNCHANGED <<stream, taken, cuts, waiting, protocol, out, status>>

\* A read: only after decode has found the buffer too small.
Read(k) ==
  /\ status = "open"
  /\ waiting
  /\ taken < Len(wire)
  /\ taken' = IF taken + k < Len(wire) THEN taken + k ELSE Len(wire)
  /\ waiting' = FALSE
  /\ UNCHANGED <<stream, wire, bounds, cuts, protocol, out, status>>

Decode ==
  /\ status = "open"
  /\ ~waiting
  /\ Decoded.ok
  /\ out' = Append(out, Decoded.val)
  /\ cuts' = Append(cuts, eaten + Decoded.pos)
  /\ protocol' = ProtocolAfter(Decoded.val)
  /\ UNCHANGED <<stream, wire, bounds, taken, waiting, status>>

NeedMore ==
  /\ status = "open"
  /\ ~waiting
  /\ ~Decoded.ok
  /\ Decoded.err = "TooSmall"
  /\ waiting' = TRUE
  /\ UNCHANGED <<stream, wire, bounds, taken, cuts, protocol, out, status>>

\* Any other error ends the connection.
Refuse ==
  /\ status = "open"
  /\ ~waiting
  /\ ~Decoded.ok
  /\ Decoded.err # "TooSmall"
  /\ status' = "failed"
  /\ UNCHANGED <<stream, wire, bounds, taken, cuts, waiting, protocol, out>>

\* The peer has closed, after any number of packets: bytes that are left over
\* are an error of Framed.
Eof ==
  /\ status = "open"
  /\ waiting
  /\ taken = Len(wire)
  /\ status' = IF eaten = taken THEN "ended" ELSE "failed"
  /\ UNCHANGED <<stream, wire, bounds, taken, cuts, waiting, protocol, out>>

Next ==
  \/ Write
  \/ \E k \in ReadSizes : Read(k)
  \/ Decode
  \/ NeedMore
  \/ Refuse
  \/ Eof

Spec == Init /\ [][Next]_vars

-----------------------------------------------------------------------------
(***************************************************************************)
(* Whatever the pieces in which a stream arrives, the packets handed out   *)
(* are those that were sent, in their order (only the plain bytes of a     *)
(* Minecraft client may be cut elsewhere), and each of them encoded again  *)
(* is exactly the bytes that were consumed for it: nothing is lost,        *)
(* repeated or read across the boundary of two packets, and no Minecraft   *)
(* hello is taken for a packet of the proxy or the other way round.        *)
(***************************************************************************)
PacketsWhole ==
  /\ \A i \in DOMAIN out : out[i].type # "MCData" =>
        i \in DOMAIN Stream[stream] /\ out[i] = Stream[stream][i]
  /\ \A i \in DOMAIN out : Encode(out[i]) = Piece(cuts, i)

\* No stream a correct peer of this version sends is refused, in whatever
\* pieces it comes: half a packet is never an error, and nothing is left over
\* at the end.
NeverRefused == status = "failed" => stream \in Foreign

\* The codec asks for more bytes only when there are more to come: when
\* everything sent has arrived, everything is handed out, and no packet
\* waits in the buffer for the one after it.
NothingStuck == waiting /\ taken = Len(wire) => eaten = taken

\* What two peers of this version send each other, if before a ProxyHello no
\* frame has a length that makes it look like a hello of Minecraft.
Session(packets) ==
  \A i \in DOMAIN packets :
    /\ packets[i] \in FramedPacket /\ Fits(packets[i])
    /\ HelloLike(packets[i]) => \E j \in 1..i - 1 : packets[j].type = "ProxyHello"

\* What a Minecraft client sends: a hello that the parser knows, then bytes.
Player(packets) ==
  \A i \in DOMAIN packets :
    \/ i = 1 /\ Readable(packets[i])
    \/ i > 1 /\ packets[i].type = "MCData" /\ packets[i].data \in ByteString

\* The streams of which PacketsWhole, NeverRefused and NothingStuck are proved.
Regular(packets) == Session(packets) \/ Player(packets)

\* Every packet handed out is made of at least one byte: poll_next cannot
\* turn around forever without reading (the comment on the empty buffer in
\* PacketCodec::decode).
EveryPacketEats == [][out' # out => eaten' > eaten]_vars
=============================================================================
