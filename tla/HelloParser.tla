----------------------------- MODULE HelloParser -----------------------------
(***************************************************************************)
(* What shared/src/minecraft.rs makes of the first bytes of a connection:  *)
(* the cursor (shared/src/cursor.rs), the varint (shared/src/datatypes.rs) *)
(* and the three hello packets of a Minecraft client: the server-list ping *)
(* and the login of old clients, and the handshake of new ones.            *)
(*                                                                         *)
(* A buffer is a sequence of bytes and a cursor the number p of the bytes  *)
(* of it already read.  Every reader takes both and answers Got(value, p)  *)
(* or Fail(error); Then is the operator `?`.                               *)
(***************************************************************************)
EXTENDS Integers, Sequences, SequencesExt, FiniteSetsExt

Byte == 0..255
ByteString == Seq(Byte)

Got(v, p) == [ok |-> TRUE, val |-> v, pos |-> p]
Fail(e) == [ok |-> FALSE, err |-> e]
Then(r, Next(_)) == IF r.ok THEN Next(r) ELSE r

Remaining(buf, p) == Len(buf) - p
Slice(buf, p, n) == SubSeq(buf, p + 1, p + n)

\* throw_error_if_smaller, then n bytes
Take(buf, p, n) ==
  IF n < 0 \/ Remaining(buf, p) < n THEN Fail("TooSmall") ELSE Got(Slice(buf, p, n), p + n)

\* get_u16 and get_u8, where the bytes are there
U16(buf, p) == 256 * buf[p + 1] + buf[p + 2]
U8(buf, p) == buf[p + 1]

MatchBytes(buf, p, bytes) ==
  /\ Remaining(buf, p) >= Len(bytes)
  /\ Slice(buf, p, Len(bytes)) = bytes

-----------------------------------------------------------------------------
(* Numbers and strings *)

\* What the i-th byte adds to the i32: of the fifth only four bits are left,
\* the highest of them the sign.
Septet(b, i) ==
  IF i < 5 THEN (b % 128) * <<1, 128, 16384, 2097152>>[i]
           ELSE (IF b % 16 < 8 THEN b % 16 ELSE (b % 16) - 16) * 268435456

\* A varint ends with the first byte below 128.  One that the buffer does
\* not hold to its end is NotValid, not TooSmall.
GetVarint(buf, p) ==
  LET ends == {n \in 1..5 : n <= Remaining(buf, p) /\ buf[p + n] < 128}
      size == Min(ends)
      part(i) == IF i <= size THEN Septet(buf[p + i], i) ELSE 0
  IN  IF ends = {} THEN Fail("NotValid")
      ELSE Got(part(1) + part(2) + part(3) + part(4) + part(5), p + size)

\* String::from_utf8: every byte leads or continues a character.
Utf8Size(b) == IF b < 128 THEN 1 ELSE IF b \in 194..223 THEN 2
               ELSE IF b \in 224..239 THEN 3 ELSE IF b \in 240..244 THEN 4 ELSE 0
Utf8Second(b) == CASE b = 224 -> 160..191 [] b = 237 -> 128..159
                   [] b = 240 -> 144..191 [] b = 244 -> 128..143 [] OTHER -> 128..191
Utf8(s) ==
  \A i \in DOMAIN s :
    IF Utf8Size(s[i]) > 0
      THEN \A k \in 1..Utf8Size(s[i]) - 1 :
             /\ i + k <= Len(s)
             /\ s[i + k] \in IF k = 1 THEN Utf8Second(s[i]) ELSE 128..191
      ELSE \E k \in 1..3 : i > k /\ Utf8Size(s[i - k]) > k

\* A negative size is a huge usize, for which the buffer is too small.
GetUtf8String(buf, p) ==
  Then(GetVarint(buf, p), LAMBDA size :
  Then(Take(buf, size.pos, size.val), LAMBDA blob :
    IF Utf8(blob.val) THEN blob ELSE Fail("NotValidStringEncoding")))

\* char::decode_utf16: surrogates come in pairs.
HighSurrogate == 55296..56319
LowSurrogate == 56320..57343
Utf16(units) ==
  \A i \in DOMAIN units :
    /\ units[i] \in HighSurrogate => i < Len(units) /\ units[i + 1] \in LowSurrogate
    /\ units[i] \in LowSurrogate => i > 1 /\ units[i - 1] \in HighSurrogate

\* String::len of the decoded string, in bytes of UTF-8
Utf8Len(units) ==
  FoldLeft(LAMBDA n, u : n + (IF u < 128 THEN 1
                              ELSE IF u < 2048 \/ u \in HighSurrogate \cup LowSurrogate THEN 2
                              ELSE 3), 0, units)

\* The string has to be followed by one byte more.
GetUtf16String(buf, p) ==
  Then(Take(buf, p, 2), LAMBDA head :
    LET size == U16(buf, p)
        units == [i \in 1..size |-> U16(buf, head.pos + 2 * (i - 1))]
    IN  IF Remaining(buf, head.pos) <= 2 * size THEN Fail("TooSmall")
        ELSE IF Utf16(units) THEN Got(units, head.pos + 2 * size)
        ELSE Fail("NotValidStringEncoding"))

-----------------------------------------------------------------------------
(* The three hello packets *)

\* id is 0 in all three.  The hostname is the sequence of its characters and
\* the port is that of its bytes, which nobody reads; data is everything the
\* packet was read from, to be sent on.
MCHello(buf, p, version, hostname, port) ==
  Got([type |-> "MCHello", length |-> p, version |-> version, hostname |-> hostname,
       port |-> port, data |-> SubSeq(buf, 1, p)], p)

OLD_MINECRAFT_START ==
  <<254, 1, 250, 0, 11, 0, 77, 0, 67, 0, 124, 0, 80, 0, 105, 0, 110, 0, 103, 0, 72, 0, 111,
    0, 115, 0, 116>>

OldPingPkg(buf) ==
  IF ~MatchBytes(buf, 0, <<254, 1>>) THEN Fail("NotMatching")
  ELSE IF Remaining(buf, 2) < 32 THEN Fail("TooSmall")
  ELSE IF ~MatchBytes(buf, 0, OLD_MINECRAFT_START) THEN Fail("NotValid")
  ELSE Then(GetUtf16String(buf, 30), LAMBDA host :
         IF 7 + 2 * Utf8Len(host.val) # U16(buf, 27) THEN Fail("NotValid")
         ELSE Then(Take(buf, host.pos, 4), LAMBDA port :
                MCHello(buf, port.pos, U8(buf, 29), host.val, port.val)))

OldConnectPkg(buf) ==
  IF ~MatchBytes(buf, 0, <<2>>) THEN Fail("NotMatching")
  ELSE Then(Take(buf, 1, 1), LAMBDA version :
       Then(GetUtf16String(buf, version.pos), LAMBDA username :
       Then(GetUtf16String(buf, username.pos), LAMBDA host :
       Then(Take(buf, host.pos, 4), LAMBDA port :
         MCHello(buf, port.pos, U8(buf, 1), host.val, port.val)))))

\* Mutant: the length is not compared with where the packet ends.
NewPkgAnyLength(buf) ==
  Then(GetVarint(buf, 0), LAMBDA length :
  Then(GetVarint(buf, length.pos), LAMBDA id :
    IF id.val # 0 THEN Fail("NotMatching")
    ELSE Then(GetVarint(buf, id.pos), LAMBDA version :
         Then(GetUtf8String(buf, version.pos), LAMBDA host :
         Then(Take(buf, host.pos, 2), LAMBDA port :
           MCHello(buf, port.pos, version.val, host.val, port.val))))))

NewPkg(buf) ==
  Then(GetVarint(buf, 0), LAMBDA length :
  Then(GetVarint(buf, length.pos), LAMBDA id :
    IF id.val # 0 THEN Fail("NotMatching")
    ELSE Then(GetVarint(buf, id.pos), LAMBDA version :
         Then(GetUtf8String(buf, version.pos), LAMBDA host :
         Then(Take(buf, host.pos, 2), LAMBDA port :
           IF port.pos # length.val THEN Fail("NotValid")
           ELSE MCHello(buf, port.pos, version.val, host.val, port.val))))))

\* MinecraftHelloPacket::new: the first parser that does not answer
\* NotMatching decides.
OrElse(r, s) == IF r.ok \/ r.err # "NotMatching" THEN r ELSE s

MinecraftHello(buf) == OrElse(OldPingPkg(buf), OrElse(OldConnectPkg(buf), NewPkg(buf)))
=============================================================================
