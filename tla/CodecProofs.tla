----------------------------- MODULE CodecProofs -----------------------------
(***************************************************************************)
(* Proofs about the codec: that a packet in a frame and the hello of a     *)
(* Minecraft client are read back as they were sent, whatever follows them *)
(* in the buffer, that a part of one is never taken for the whole, that    *)
(* every packet handed out is made of bytes, and, from all this, that      *)
(* every regular stream is cut into the packets it was made of, in         *)
(* whatever pieces it arrives.                                             *)
(***************************************************************************)
EXTENDS PacketCodec, SequenceTheorems, TLAPS

-----------------------------------------------------------------------------
(* Cutting and joining bytes *)

LEMMA InBlock ==
  ASSUME NEW s \in ByteString
  PROVE  Len(s) \in Nat /\ s \in Block(Len(s))
BY DEF Block, ByteString

LEMMA Concat ==
  ASSUME NEW a \in ByteString, NEW b \in ByteString
  PROVE  a \o b \in ByteString /\ Len(a \o b) = Len(a) + Len(b)
BY ConcatProperties DEF ByteString

LEMMA ConcatNothing ==
  ASSUME NEW a \in ByteString
  PROVE  <<>> \in ByteString /\ a \o <<>> = a /\ <<>> \o a = a
BY ConcatEmptySeq DEF ByteString

LEMMA Regrouped ==
  ASSUME NEW a \in ByteString, NEW b \in ByteString, NEW c \in ByteString
  PROVE  a \o (b \o c) = (a \o b) \o c
BY ConcatAssociative DEF ByteString

LEMMA Cut ==
  ASSUME NEW a \in ByteString, NEW b \in ByteString, NEW c \in ByteString
  PROVE  /\ a \o b \o c \in ByteString
         /\ Len(a \o b \o c) = Len(a) + Len(b) + Len(c)
         /\ SubSeq(a \o b \o c, Len(a) + 1, Len(a) + Len(b)) = b
<1> USE DEF ByteString
<1> DEFINE s == a \o b \o c
<1>1. s \in ByteString /\ Len(s) = Len(a) + Len(b) + Len(c)
  OBVIOUS
<1>2. \A i \in 1..Len(b) : s[Len(a) + i] = b[i]
  OBVIOUS
<1>3. SubSeq(s, Len(a) + 1, Len(a) + Len(b)) \in ByteString
  BY <1>1, SubSeqProperties
<1>4. Len(SubSeq(s, Len(a) + 1, Len(a) + Len(b))) = Len(b)
  BY <1>1, SubSeqProperties
<1>5. \A i \in 1..Len(b) : SubSeq(s, Len(a) + 1, Len(a) + Len(b))[i] = b[i]
  BY <1>1, <1>2, SubSeqProperties
<1>6. SubSeq(s, Len(a) + 1, Len(a) + Len(b)) = b
  BY <1>3, <1>4, <1>5, SeqEqual
<1> QED BY <1>1, <1>6

LEMMA TakeAt ==
  ASSUME NEW s, NEW p \in Nat, NEW n \in Nat, Len(s) \in Nat, p + n <= Len(s)
  PROVE  Take(s, p, n) = Got(SubSeq(s, p + 1, p + n), p + n)
<1>1. ~(n < 0 \/ Len(s) - p < n)
  OBVIOUS
<1> QED BY <1>1 DEF Take, Remaining, Slice

LEMMA TakeSmall ==
  ASSUME NEW s \in ByteString, NEW p \in Nat, NEW n \in Nat, Len(s) < p + n
  PROVE  Take(s, p, n) = Fail("TooSmall")
BY DEF Take, Remaining, ByteString

\* A reader that comes to a part of the buffer takes that part.
LEMMA TakeExact ==
  ASSUME NEW p \in Nat, NEW n \in Nat, NEW a \in Block(p), NEW b \in Block(n), NEW c \in ByteString
  PROVE  Take(a \o b \o c, p, n) = Got(b, p + n)
<1>1. a \in ByteString /\ b \in ByteString /\ Len(a) = p /\ Len(b) = n
  BY DEF Block
<1>2. Take(a \o b \o c, Len(a), Len(b)) = Got(b, Len(a) + Len(b))
  <2>1. a \in ByteString /\ b \in ByteString
    BY <1>1
  <2>2. Len(a \o b \o c) = Len(a) + Len(b) + Len(c)
    BY <2>1, Cut
  <2>3. Len(a) \in Nat /\ Len(b) \in Nat /\ Len(c) \in Nat
    BY <2>1 DEF ByteString
  <2>4. Len(a \o b \o c) \in Nat /\ Len(a) + Len(b) <= Len(a \o b \o c)
    BY <2>2, <2>3
  <2>5. Take(a \o b \o c, Len(a), Len(b))
          = Got(SubSeq(a \o b \o c, Len(a) + 1, Len(a) + Len(b)), Len(a) + Len(b))
    BY <2>3, <2>4, TakeAt
  <2>6. SubSeq(a \o b \o c, Len(a) + 1, Len(a) + Len(b)) = b
    BY <2>1, Cut
  <2> QED BY <2>5, <2>6
<1> QED BY <1>1, <1>2, Zenon

LEMMA TakeFirst ==
  ASSUME NEW n \in Nat, NEW b \in Block(n), NEW c \in ByteString
  PROVE  Take(b \o c, 0, n) = Got(b, n)
<1>1. <<>> \in Block(0) /\ b \in ByteString /\ 0 \in Nat /\ 0 + n = n
  BY DEF Block, ByteString
<1>2. <<>> \o b = b
  BY <1>1, ConcatNothing
<1>3. Take(<<>> \o b \o c, 0, n) = Got(b, 0 + n)
  BY <1>1, TakeExact
<1> QED BY <1>1, <1>2, <1>3

LEMMA TakeLast ==
  ASSUME NEW p \in Nat, NEW n \in Nat, NEW a \in Block(p), NEW b \in Block(n)
  PROVE  Take(a \o b, p, n) = Got(b, p + n)
<1>1. <<>> \in ByteString /\ a \in ByteString /\ b \in ByteString
  BY ConcatNothing DEF Block
<1>2. a \o b \in ByteString
  BY <1>1, Concat
<1>3. (a \o b) \o <<>> = a \o b
  BY <1>2, ConcatNothing
<1>4. Take(a \o b \o <<>>, p, n) = Got(b, p + n)
  BY <1>1, TakeExact
<1> QED BY <1>3, <1>4

LEMMA Joined ==
  ASSUME NEW p \in Nat, NEW n \in Nat, NEW a \in Block(p), NEW b \in Block(n)
  PROVE  a \o b \in Block(p + n)
<1>1. a \in ByteString /\ b \in ByteString /\ p = Len(a) /\ n = Len(b)
  BY DEF Block
<1>2. a \o b \in ByteString /\ Len(a \o b) = p + n
  BY <1>1, Concat
<1> QED BY <1>2 DEF Block

-----------------------------------------------------------------------------
(* Numbers and vectors *)

\* A number is as many bytes as it is meant to be; and the first two are read
\* back as the number, where it is a u16.
LEMMA LittleEndianBytes ==
  ASSUME NEW n \in Nat, NEW k \in Nat
  PROVE  LittleEndian(n, k) \in Block(k)
<1>1. \A i \in 1..k : LittleEndian(n, k)[i] \in Byte
  BY DEF LittleEndian, Byte
<1>2. LittleEndian(n, k) \in [1..k -> Byte]
  BY <1>1 DEF LittleEndian
<1>3. LittleEndian(n, k) \in ByteString /\ Len(LittleEndian(n, k)) = k
  BY <1>2 DEF ByteString
<1>4. PICK s : s = LittleEndian(n, k)
  OBVIOUS
<1>5. s \in Block(k)
  BY <1>3, <1>4 DEF Block
<1> QED BY <1>4, <1>5

LEMMA NumberBack ==
  ASSUME NEW n \in Word, NEW k \in Nat, k >= 2
  PROVE  Number(LittleEndian(n, k)) = n /\ \A i \in 3..k : LittleEndian(n, k)[i] = 0
<1>1. n \in Nat /\ n < 65536
  BY DEF Word
<1>2. LittleEndian(n, k)[1] = n % 256 /\ LittleEndian(n, k)[2] = (n \div 256) % 256
  BY <1>1 DEF LittleEndian
<1>3. (n % 256) + 256 * ((n \div 256) % 256) = n
  BY <1>1
<1>4. \A i \in 3..k : LittleEndian(n, k)[i] = 0
  <2>1. (n \div 65536) % 256 = 0
    BY <1>1
  <2> QED BY <1>1, <2>1 DEF LittleEndian
<1> QED BY <1>2, <1>3, <1>4 DEF Number

LEMMA WordBytes ==
  ASSUME NEW n \in Word
  PROVE  LittleEndian(n, 2) \in Block(2) /\ Number(LittleEndian(n, 2)) = n
<1>1. n \in Nat /\ 2 \in Nat /\ 2 >= 2
  BY DEF Word
<1> QED BY <1>1, LittleEndianBytes, NumberBack

LEMMA VectorBytes ==
  ASSUME NEW n \in Nat, NEW v \in Block(n)
  PROVE  Vector(v) \in Block(8 + n)
<1>1. v \in ByteString /\ Len(v) = n /\ 8 \in Nat
  BY DEF Block
<1>2. LittleEndian(n, 8) \in Block(8)
  BY <1>1, LittleEndianBytes
<1> QED BY <1>1, <1>2, Joined DEF Vector

\* A vector is read back, and the cursor stands behind it.
LEMMA TakeVectorBack ==
  ASSUME NEW p \in Nat, NEW n \in Word, NEW a \in Block(p), NEW v \in Block(n), NEW c \in ByteString
  PROVE  TakeVector(a \o Vector(v) \o c, p) = Got(v, p + 8 + n)
<1>1. a \in ByteString /\ v \in ByteString /\ Len(v) = n /\ n \in Nat /\ 8 \in Nat /\ 8 >= 2
  BY DEF Block, Word
<1>2. PICK w : w = LittleEndian(n, 8)
  OBVIOUS
<1>3. w \in Block(8) /\ Number(w) = n /\ \A i \in 3..8 : w[i] = 0
  BY <1>1, <1>2, LittleEndianBytes, NumberBack
<1>4. w \in ByteString
  BY <1>3 DEF Block
<1>5. a \o w \in Block(p + 8) /\ a \o w \in ByteString
  <2>1. a \o w \in Block(p + 8)
    BY <1>1, <1>3, Joined
  <2>2. a \o w \in ByteString
    BY <1>1, <1>4, Concat
  <2> QED BY <2>1, <2>2
<1>6. v \o c \in ByteString
  BY <1>1, Concat
<1>7. PICK s : s = (a \o w) \o v \o c
  OBVIOUS
<1>8. s = a \o Vector(v) \o c
  <2>1. Vector(v) = w \o v
    BY <1>1, <1>2 DEF Vector
  <2>2. a \o (w \o v) = (a \o w) \o v
    <3>1. a \in ByteString /\ w \in ByteString /\ v \in ByteString
      BY <1>1, <1>4
    <3> QED BY <3>1, Regrouped, SMTT(60)
  <2> QED BY <1>7, <2>1, <2>2
<1>9. s = a \o w \o (v \o c)
  <2>1. a \o w \o (v \o c) = (a \o w) \o v \o c
    BY <1>1, <1>5, Regrouped, SMTT(60)
  <2> QED BY <1>7, <2>1
<1>10. Take(s, p, 8) = Got(w, p + 8)
  BY <1>1, <1>3, <1>6, <1>9, TakeExact
<1>11. Take(s, p + 8, n) = Got(v, p + 8 + n)
  <2>1. p + 8 \in Nat
    OBVIOUS
  <2> QED BY <1>1, <1>5, <1>7, <2>1, TakeExact
<1>12. TakeVector(s, p) = Got(v, p + 8 + n)
  BY <1>3, <1>10, <1>11 DEF TakeVector, Then, Got
<1> QED BY <1>8, <1>12

LEMMA TakeStringBack ==
  ASSUME NEW p \in Nat, NEW n \in Word, NEW a \in Block(p), NEW v \in Block(n), NEW c \in ByteString,
         Utf8(v)
  PROVE  TakeString(a \o Vector(v) \o c, p) = Got(v, p + 8 + n)
<1>1. TakeVector(a \o Vector(v) \o c, p) = Got(v, p + 8 + n)
  BY TakeVectorBack
<1> QED BY <1>1 DEF TakeString, Then, Got

\* One at the end of a packet.
LEMMA LastVector ==
  ASSUME NEW p \in Nat, NEW n \in Word, NEW a \in Block(p), NEW v \in Block(n)
  PROVE  /\ TakeVector(a \o Vector(v), p) = Got(v, p + 8 + n)
         /\ Utf8(v) => TakeString(a \o Vector(v), p) = Got(v, p + 8 + n)
<1>1. n \in Nat
  BY DEF Word
<1>2. Vector(v) \in Block(8 + n)
  BY <1>1, VectorBytes
<1>3. <<>> \in ByteString /\ a \in ByteString /\ Vector(v) \in ByteString
  BY <1>2, ConcatNothing DEF Block
<1>4. a \o Vector(v) \in ByteString
  BY <1>3, Concat
<1>5. (a \o Vector(v)) \o <<>> = a \o Vector(v)
  BY <1>4, ConcatNothing
<1>6. TakeVector(a \o Vector(v) \o <<>>, p) = Got(v, p + 8 + n)
  BY <1>3, TakeVectorBack
<1>7. Utf8(v) => TakeString(a \o Vector(v) \o <<>>, p) = Got(v, p + 8 + n)
  BY <1>3, TakeStringBack
<1> QED BY <1>5, <1>6, <1>7

-----------------------------------------------------------------------------
(* The packets *)

\* What a packet of each kind has after its tag,
LEMMA FieldsOf ==
  ASSUME NEW p
  PROVE  /\ p.type \in U16Packet => Fields(p) = LittleEndian(p.n, 2)
         /\ p.type \in AuthPacket => Fields(p) = p.bytes
         /\ p.type = "ProxyError" => Fields(p) = Vector(p.text)
         /\ p.type = "ProxyData" => Fields(p) = LittleEndian(p.client_id, 2) \o Vector(p.data)
         /\ p.type = "ProxyHello" => Fields(p) = LittleEndian(p.version, 2) \o Vector(p.hostname)
                                                   \o LittleEndian(0, 4) \o p.key
BY DEF Fields, U16Packet, AuthPacket

\* and how it is read.
LEMMA ReadFieldsOf ==
  ASSUME NEW t, NEW body
  PROVE  /\ t \in U16Packet => ReadFields(t, body) =
               LET n == Take(body, 4, 2)
               IN  IF n.ok THEN Got([type |-> t, n |-> Number(n.val)], n.pos) ELSE n
         /\ t \in AuthPacket => ReadFields(t, body) =
               LET b == Take(body, 4, 64)
               IN  IF b.ok THEN Got([type |-> t, bytes |-> b.val], b.pos) ELSE b
         /\ t = "ProxyError" => ReadFields(t, body) =
               LET s == TakeString(body, 4)
               IN  IF s.ok THEN Got([type |-> t, text |-> s.val], s.pos) ELSE s
         /\ t = "ProxyData" => ReadFields(t, body) = ReadData(body)
         /\ t = "ProxyHello" => ReadFields(t, body) = ReadHello(body)
BY DEF ReadFields, U16Packet, AuthPacket, Then

\* What is read from behind the tag T of a packet.
Back(T, p, n) ==
  Fields(p) \in Block(n) /\ ReadFields(p.type, T \o Fields(p)) = Got(p, 4 + n)

LEMMA NumberFieldBack ==
  ASSUME NEW T \in Block(4), NEW t \in U16Packet, NEW n \in Word
  PROVE  Back(T, [type |-> t, n |-> n], 2)
<1> DEFINE p == [type |-> t, n |-> n]
<1>1. PICK w : w = LittleEndian(n, 2)
  OBVIOUS
<1>2. w \in Block(2) /\ Number(w) = n
  BY <1>1, WordBytes
<1>3. p.type = t /\ p.n = n
  OBVIOUS
<1>4. Fields(p) = w
  BY <1>1, <1>3, FieldsOf
<1>5. Take(T \o w, 4, 2) = Got(w, 4 + 2)
  BY <1>2, TakeLast
<1>6. ReadFields(t, T \o w) = Got(p, 4 + 2)
  BY <1>2, <1>5, ReadFieldsOf DEF Got
<1> HIDE DEF p
<1>7. Back(T, p, 2)
  BY <1>2, <1>3, <1>4, <1>6 DEF Back
<1> QED BY <1>7 DEF p

LEMMA AuthBack ==
  ASSUME NEW T \in Block(4), NEW t \in AuthPacket, NEW b \in Block(64)
  PROVE  Back(T, [type |-> t, bytes |-> b], 64)
<1> DEFINE p == [type |-> t, bytes |-> b]
<1>1. p.type = t /\ p.bytes = b
  OBVIOUS
<1>2. Fields(p) = b
  BY <1>1, FieldsOf
<1>3. Take(T \o b, 4, 64) = Got(b, 4 + 64)
  BY TakeLast
<1>4. ReadFields(t, T \o b) = Got(p, 4 + 64)
  BY <1>3, ReadFieldsOf DEF Got
<1> HIDE DEF p
<1>5. Back(T, p, 64)
  BY <1>1, <1>2, <1>4 DEF Back
<1> QED BY <1>5 DEF p

LEMMA ErrorBack ==
  ASSUME NEW T \in Block(4), NEW n \in Word, NEW v \in Block(n), Utf8(v)
  PROVE  Back(T, [type |-> "ProxyError", text |-> v], 8 + n)
<1> DEFINE p == [type |-> "ProxyError", text |-> v]
<1>1. p.type = "ProxyError" /\ p.text = v
  OBVIOUS
<1>2. Fields(p) = Vector(v)
  BY <1>1, FieldsOf
<1>3. n \in Nat /\ 4 \in Nat /\ 4 + 8 + n = 4 + (8 + n)
  BY DEF Word
<1>4. Vector(v) \in Block(8 + n)
  BY <1>3, VectorBytes
<1>5. TakeString(T \o Vector(v), 4) = Got(v, 4 + (8 + n))
  BY <1>3, LastVector
<1>6. ReadFields("ProxyError", T \o Vector(v)) = Got(p, 4 + (8 + n))
  BY <1>5, ReadFieldsOf DEF Got
<1> HIDE DEF p
<1>7. Back(T, p, 8 + n)
  BY <1>1, <1>2, <1>4, <1>6 DEF Back
<1> QED BY <1>7 DEF p

LEMMA ReadDataFrom ==
  ASSUME NEW body, NEW w, NEW d, NEW p,
         Take(body, 4, 2) = Got(w, 6), TakeVector(body, 6) = Got(d, p)
  PROVE  ReadData(body) = Got([type |-> "ProxyData", client_id |-> Number(w), data |-> d], p)
<1>1. /\ Take(body, 4, 2).ok /\ Take(body, 4, 2).val = w /\ Take(body, 4, 2).pos = 6
      /\ TakeVector(body, 6).ok /\ TakeVector(body, 6).val = d /\ TakeVector(body, 6).pos = p
  BY DEF Got
<1> QED BY <1>1 DEF ReadData, Then

LEMMA DataBack ==
  ASSUME NEW T \in Block(4), NEW id \in Word, NEW n \in Word, NEW d \in Block(n)
  PROVE  Back(T, [type |-> "ProxyData", client_id |-> id, data |-> d], 2 + (8 + n))
<1> DEFINE p == [type |-> "ProxyData", client_id |-> id, data |-> d]
<1>1. PICK w : w = LittleEndian(id, 2)
  OBVIOUS
<1>2. w \in Block(2) /\ Number(w) = id
  BY <1>1, WordBytes
<1>3. p.type = "ProxyData" /\ p.client_id = id /\ p.data = d
  OBVIOUS
<1>4. Fields(p) = w \o Vector(d)
  BY <1>1, <1>3, FieldsOf
<1>5. n \in Nat /\ 8 + n \in Nat /\ 6 + 8 + n = 4 + (2 + (8 + n))
  BY DEF Word
<1>6. Vector(d) \in Block(8 + n)
  BY <1>5, VectorBytes
<1>7. w \o Vector(d) \in Block(2 + (8 + n))
  BY <1>2, <1>5, <1>6, Joined
<1>8. T \in ByteString /\ w \in ByteString /\ Vector(d) \in ByteString
  BY <1>2, <1>6 DEF Block
<1>9. Take(T \o w \o Vector(d), 4, 2) = Got(w, 4 + 2)
  BY <1>2, <1>8, TakeExact
<1>10. T \o w \in Block(4 + 2)
  BY <1>2, Joined
<1>11. TakeVector(T \o w \o Vector(d), 6) = Got(d, 6 + 8 + n)
  BY <1>10, LastVector
<1>12. T \o (w \o Vector(d)) = T \o w \o Vector(d)
  BY <1>8, Regrouped
<1>13. ReadData(T \o (w \o Vector(d))) = Got(p, 6 + 8 + n)
  <2>1. ReadData(T \o w \o Vector(d)) = Got(p, 6 + 8 + n)
    BY <1>2, <1>9, <1>11, ReadDataFrom
  <2> QED BY <1>12, <2>1
<1> HIDE DEF p
<1>14. ReadFields("ProxyData", T \o (w \o Vector(d))) = Got(p, 4 + (2 + (8 + n)))
  BY <1>5, <1>13, ReadFieldsOf
<1>15. Back(T, p, 2 + (8 + n))
  BY <1>3, <1>4, <1>7, <1>14 DEF Back
<1> QED BY <1>15 DEF p

LEMMA ZeroBytes == LittleEndian(0, 4) \in Block(4) /\ LittleEndian(0, 4) = <<0, 0, 0, 0>>
<1>1. 0 \in Nat /\ 4 \in Nat
  OBVIOUS
<1>2. LittleEndian(0, 4) \in Block(4)
  BY <1>1, LittleEndianBytes
<1>3. LittleEndian(0, 4) = <<0, 0, 0, 0>>
  BY DEF LittleEndian
<1> QED BY <1>2, <1>3

\* The ways in which five parts are joined to one.
Parts(s, a, b, c, d, e) ==
  /\ s = a \o b \o (c \o (d \o e)) /\ c \o (d \o e) \in ByteString
  /\ s = a \o b \o c \o (d \o e) /\ d \o e \in ByteString
  /\ s = a \o b \o c \o d \o e

LEMMA FiveParts ==
  ASSUME NEW a \in ByteString, NEW b \in ByteString, NEW c \in ByteString, NEW d \in ByteString,
         NEW e \in ByteString
  PROVE  Parts(a \o (b \o c \o d \o e), a, b, c, d, e)
<1> DEFINE J(x, y) == x \o y
<1>1. ASSUME NEW x \in ByteString, NEW y \in ByteString PROVE J(x, y) \in ByteString
  BY Concat
<1>2. ASSUME NEW x \in ByteString, NEW y \in ByteString, NEW z \in ByteString
      PROVE  J(x, J(y, z)) = J(J(x, y), z)
  BY Regrouped, SMTT(60)
<1> HIDE DEF J
<1>3. /\ J(a, b) \in ByteString /\ J(b, c) \in ByteString /\ J(d, e) \in ByteString
      /\ J(J(a, b), c) \in ByteString /\ J(J(b, c), d) \in ByteString /\ J(c, J(d, e)) \in ByteString
  BY <1>1
<1>4. J(a, J(J(J(b, c), d), e)) = J(J(J(J(a, b), c), d), e)
  <2>1. J(a, J(J(J(b, c), d), e)) = J(J(a, J(J(b, c), d)), e)
    BY <1>2, <1>3
  <2>2. J(a, J(J(b, c), d)) = J(J(a, J(b, c)), d)
    BY <1>2, <1>3
  <2>3. J(a, J(b, c)) = J(J(a, b), c)
    BY <1>2
  <2> QED BY <2>1, <2>2, <2>3
<1>5. J(J(J(J(a, b), c), d), e) = J(J(J(a, b), c), J(d, e))
  BY <1>2, <1>3
<1>6. J(J(J(a, b), c), J(d, e)) = J(J(a, b), J(c, J(d, e)))
  BY <1>2, <1>3
<1> DEFINE s == J(a, J(J(J(b, c), d), e))
<1>7. /\ s = J(J(a, b), J(c, J(d, e))) /\ J(c, J(d, e)) \in ByteString
      /\ s = J(J(J(a, b), c), J(d, e)) /\ J(d, e) \in ByteString
      /\ s = J(J(J(J(a, b), c), d), e)
  BY <1>3, <1>4, <1>5, <1>6
<1> QED BY <1>7 DEF J, Parts

LEMMA ReadHelloFrom ==
  ASSUME NEW body, NEW w, NEW host, NEW key, NEW p, NEW q, NEW r,
         Take(body, 4, 2) = Got(w, 6), TakeString(body, 6) = Got(host, p),
         Take(body, p, 4) = Got(<<0, 0, 0, 0>>, q), Take(body, q, 32) = Got(key, r)
  PROVE  ReadHello(body) =
           Got([type |-> "ProxyHello", version |-> Number(w), hostname |-> host, key |-> key], r)
<1>1. /\ Take(body, 4, 2).ok /\ Take(body, 4, 2).val = w /\ Take(body, 4, 2).pos = 6
      /\ TakeString(body, 6).ok /\ TakeString(body, 6).val = host /\ TakeString(body, 6).pos = p
      /\ Take(body, p, 4).ok /\ Take(body, p, 4).val = <<0, 0, 0, 0>> /\ Take(body, p, 4).pos = q
      /\ Take(body, q, 32).ok /\ Take(body, q, 32).val = key /\ Take(body, q, 32).pos = r
  BY DEF Got
<1> QED BY <1>1 DEF ReadHello, Then

LEMMA HelloBack ==
  ASSUME NEW T \in Block(4), NEW version \in Word, NEW n \in Word, NEW host \in Block(n), Utf8(host),
         NEW key \in Block(32)
  PROVE  Back(T, [type |-> "ProxyHello", version |-> version, hostname |-> host, key |-> key],
              2 + (8 + n) + 4 + 32)
<1> DEFINE p == [type |-> "ProxyHello", version |-> version, hostname |-> host, key |-> key]
<1>1. PICK w : w = LittleEndian(version, 2)
  OBVIOUS
<1>2. w \in Block(2) /\ Number(w) = version
  BY <1>1, WordBytes
<1>3. /\ p.type = "ProxyHello" /\ p.version = version
      /\ p.hostname = host /\ p.key = key
  OBVIOUS
<1>4. PICK z : z = LittleEndian(0, 4)
  OBVIOUS
<1>5. z \in Block(4)
  BY <1>4, ZeroBytes
<1>6. PICK h : h = Vector(host)
  OBVIOUS
<1>7. n \in Nat /\ 8 + n \in Nat /\ 2 + (8 + n) \in Nat /\ 2 + (8 + n) + 4 \in Nat
  BY DEF Word
<1>8. h \in Block(8 + n)
  BY <1>6, <1>7, VectorBytes
<1>9. Fields(p) = w \o h \o z \o key
  BY <1>1, <1>3, <1>4, <1>6, FieldsOf
<1>10. w \o h \o z \o key \in Block(2 + (8 + n) + 4 + 32)
  <2>1. w \o h \in Block(2 + (8 + n))
    BY <1>2, <1>7, <1>8, Joined
  <2>2. w \o h \o z \in Block(2 + (8 + n) + 4)
    BY <1>5, <1>7, <2>1, Joined
  <2> QED BY <1>7, <2>2, Joined
<1>11. /\ T \in ByteString /\ w \in ByteString /\ h \in ByteString
       /\ z \in ByteString /\ key \in ByteString
  BY <1>2, <1>5, <1>8 DEF Block
<1>12. PICK body : body = T \o (w \o h \o z \o key)
  OBVIOUS
<1>13. /\ body = T \o w \o (h \o (z \o key)) /\ h \o (z \o key) \in ByteString
       /\ body = T \o w \o h \o (z \o key) /\ z \o key \in ByteString
       /\ body = T \o w \o h \o z \o key
  <2>1. Parts(T \o (w \o h \o z \o key), T, w, h, z, key)
    BY <1>11, FiveParts
  <2> QED BY <1>12, <2>1 DEF Parts
<1>14. T \o w \in Block(6)
  BY <1>2, Joined
<1>15. T \o w \o h \in Block(6 + (8 + n))
  BY <1>7, <1>8, <1>14, Joined
<1>16. /\ 6 + 8 + n = 6 + (8 + n) /\ 6 + (8 + n) \in Nat /\ 6 + (8 + n) + 4 \in Nat
       /\ 6 + 8 + n + 4 + 32 = 4 + (2 + (8 + n) + 4 + 32)
  BY <1>7
<1>17. T \o w \o h \o z \in Block(6 + (8 + n) + 4)
  BY <1>5, <1>15, <1>16, Joined
<1>18. Take(body, 4, 2) = Got(w, 6)
  <2>1. Take(T \o w \o (h \o (z \o key)), 4, 2) = Got(w, 4 + 2)
    BY <1>2, <1>13, TakeExact
  <2> QED BY <1>13, <2>1
<1>19. TakeString(body, 6) = Got(host, 6 + (8 + n))
  <2>1. TakeString(T \o w \o Vector(host) \o (z \o key), 6) = Got(host, 6 + 8 + n)
    BY <1>13, <1>14, TakeStringBack
  <2> QED BY <1>6, <1>13, <1>16, <2>1
<1>20. Take(body, 6 + (8 + n), 4) = Got(z, 6 + (8 + n) + 4)
  <2>1. Take(T \o w \o h \o z \o key, 6 + (8 + n), 4) = Got(z, 6 + (8 + n) + 4)
    BY <1>5, <1>11, <1>15, <1>16, TakeExact
  <2> QED BY <1>13, <2>1
<1>21. Take(body, 6 + (8 + n) + 4, 32) = Got(key, 6 + (8 + n) + 4 + 32)
  <2>1. Take(T \o w \o h \o z \o key, 6 + (8 + n) + 4, 32) = Got(key, 6 + (8 + n) + 4 + 32)
    BY <1>16, <1>17, TakeLast
  <2> QED BY <1>13, <2>1
<1>22. z = <<0, 0, 0, 0>>
  BY <1>4, ZeroBytes
<1>23. ReadHello(body) = Got(p, 6 + (8 + n) + 4 + 32)
  BY <1>2, <1>18, <1>19, <1>20, <1>21, <1>22, ReadHelloFrom
<1> HIDE DEF p
<1>24. ReadFields("ProxyHello", body) = Got(p, 4 + (2 + (8 + n) + 4 + 32))
  BY <1>16, <1>23, ReadFieldsOf
<1>25. Back(T, p, 2 + (8 + n) + 4 + 32)
  BY <1>3, <1>9, <1>10, <1>12, <1>24 DEF Back
<1> QED BY <1>25 DEF p

LEMMA PacketKinds ==
  ASSUME NEW p \in FramedPacket
  PROVE  \/ \E t \in U16Packet, n \in Word : p = [type |-> t, n |-> n]
         \/ \E t \in AuthPacket, b \in Block(64) : p = [type |-> t, bytes |-> b]
         \/ \E v \in Text : p = [type |-> "ProxyError", text |-> v]
         \/ \E id \in Word, d \in ByteString :
              p = [type |-> "ProxyData", client_id |-> id, data |-> d]
         \/ \E version \in Word, v \in Text, key \in Block(32) :
              p = [type |-> "ProxyHello", version |-> version, hostname |-> v, key |-> key]
<1>1. CASE p \in [type : U16Packet, n : Word]
  BY <1>1
<1>2. CASE p \in [type : AuthPacket, bytes : Block(64)]
  BY <1>2
<1>3. CASE p \in [type : {"ProxyError"}, text : Text]
  BY <1>3
<1>4. CASE p \in [type : {"ProxyData"}, client_id : Word, data : ByteString]
  BY <1>4
<1>5. CASE p \in [type : {"ProxyHello"}, version : Word, hostname : Text, key : Block(32)]
  BY <1>5
<1> QED BY <1>1, <1>2, <1>3, <1>4, <1>5 DEF FramedPacket

LEMMA VariantNumbers ==
  /\ DOMAIN Variant = U16Packet \cup AuthPacket \cup {"ProxyError", "ProxyData", "ProxyHello"}
  /\ \A t \in DOMAIN Variant : Variant[t] \in Nat /\ Variant[t] < 256
  /\ \A t, u \in DOMAIN Variant : Variant[t] = Variant[u] => t = u
BY DEF Variant, U16Packet, AuthPacket

\* The tag says which variant it is.
LEMMA TagBack ==
  ASSUME NEW t \in DOMAIN Variant
  PROVE  /\ LittleEndian(Variant[t], 4) \in Block(4)
         /\ {u \in DOMAIN Variant : LittleEndian(Variant[u], 4) = LittleEndian(Variant[t], 4)} = {t}
<1>1. 4 \in Nat /\ Variant[t] \in Nat
  BY VariantNumbers
<1>2. \A u \in DOMAIN Variant : LittleEndian(Variant[u], 4)[1] = Variant[u]
  <2> SUFFICES ASSUME NEW u \in DOMAIN Variant PROVE LittleEndian(Variant[u], 4)[1] = Variant[u]
    OBVIOUS
  <2> DEFINE n == Variant[u]
  <2>1. n \in Nat /\ n < 256
    BY VariantNumbers
  <2> HIDE DEF n
  <2>2. LittleEndian(n, 4)[1] = n
    BY <2>1 DEF LittleEndian
  <2> QED BY <2>2 DEF n
<1>3. \A u \in DOMAIN Variant :
        LittleEndian(Variant[u], 4) = LittleEndian(Variant[t], 4) => u = t
  <2> SUFFICES ASSUME NEW u \in DOMAIN Variant,
                      LittleEndian(Variant[u], 4)[1] = LittleEndian(Variant[t], 4)[1]
               PROVE  u = t
    BY Zenon
  <2> QED BY <1>2, VariantNumbers
<1>4. LittleEndian(Variant[t], 4) \in Block(4)
  BY <1>1, LittleEndianBytes
<1> QED BY <1>3, <1>4, Zenon

\* A packet that fits is short enough for its parts to be read back.
LEMMA VectorFits ==
  ASSUME NEW p \in FramedPacket, Fits(p), NEW v \in ByteString, NEW k \in Nat, NEW j \in Nat,
         Fields(p) \in Block(k + (8 + Len(v)) + j), p.type \in DOMAIN Variant
  PROVE  Len(v) \in Word
<1>1. PICK T : T = LittleEndian(Variant[p.type], 4)
  OBVIOUS
<1>2. T \in Block(4)
  BY <1>1, TagBack
<1>3. Len(v) \in Nat
  BY DEF ByteString
<1>4. PICK m \in Nat : m = k + (8 + Len(v)) + j
  BY <1>3
<1>5. T \o Fields(p) \in Block(4 + m)
  BY <1>2, <1>4, Joined
<1>6. Len(Serialized(p)) = 4 + m
  BY <1>1, <1>5 DEF Serialized, Block
<1> QED BY <1>3, <1>4, <1>6 DEF Fits, Short, Word

\* What a packet is read back from, whatever kind it is of.
LEMMA PacketBack ==
  ASSUME NEW p \in FramedPacket, Fits(p), NEW T \in Block(4)
  PROVE  p.type \in DOMAIN Variant /\ \E n \in Nat : Back(T, p, n)
<1>0. 0 \in Nat /\ 2 \in Nat /\ 64 \in Nat /\ 36 \in Nat
  OBVIOUS
<1>1. CASE \E t \in U16Packet, n \in Word : p = [type |-> t, n |-> n]
  <2>1. PICK t \in U16Packet, n \in Word : p = [type |-> t, n |-> n]
    BY <1>1
  <2>2. Back(T, p, 2)
    BY <2>1, NumberFieldBack
  <2>3. p.type \in DOMAIN Variant
    BY <2>1, VariantNumbers
  <2> QED BY <1>0, <2>2, <2>3
<1>2. CASE \E t \in AuthPacket, b \in Block(64) : p = [type |-> t, bytes |-> b]
  <2>1. PICK t \in AuthPacket, b \in Block(64) : p = [type |-> t, bytes |-> b]
    BY <1>2
  <2>2. Back(T, p, 64)
    BY <2>1, AuthBack
  <2>3. p.type \in DOMAIN Variant
    BY <2>1, VariantNumbers
  <2> QED BY <1>0, <2>2, <2>3
<1>3. CASE \E v \in Text : p = [type |-> "ProxyError", text |-> v]
  <2>1. PICK v \in Text : p = [type |-> "ProxyError", text |-> v]
    BY <1>3
  <2>2. p.type = "ProxyError" /\ p.text = v /\ p.type \in DOMAIN Variant
    BY <2>1, VariantNumbers
  <2>3. v \in ByteString /\ Utf8(v) /\ Len(v) \in Nat /\ v \in Block(Len(v))
    BY InBlock DEF Text
  <2>4. PICK n \in Nat : n = Len(v)
    BY <2>3
  <2>5. Fields(p) \in Block(8 + n)
    <3>1. Fields(p) = Vector(v)
      BY <2>2, FieldsOf
    <3> QED BY <2>3, <2>4, <3>1, VectorBytes
  <2>6. n \in Word
    <3>1. 8 + n = 0 + (8 + n) + 0
      OBVIOUS
    <3> QED BY <1>0, <2>2, <2>3, <2>4, <2>5, <3>1, VectorFits
  <2>7. Back(T, p, 8 + n)
    BY <2>1, <2>3, <2>4, <2>6, ErrorBack
  <2> QED BY <2>2, <2>4, <2>7
<1>4. CASE \E id \in Word, d \in ByteString :
              p = [type |-> "ProxyData", client_id |-> id, data |-> d]
  <2>1. PICK id \in Word, d \in ByteString :
              p = [type |-> "ProxyData", client_id |-> id, data |-> d]
    BY <1>4
  <2>2. p.type = "ProxyData" /\ p.client_id = id /\ p.data = d /\ p.type \in DOMAIN Variant
    BY <2>1, VariantNumbers
  <2>3. Len(d) \in Nat /\ d \in Block(Len(d))
    BY InBlock
  <2>4. PICK n \in Nat : n = Len(d)
    BY <2>3
  <2>5. Fields(p) \in Block(2 + (8 + n))
    <3>1. Fields(p) = LittleEndian(id, 2) \o Vector(d)
      BY <2>2, FieldsOf
    <3>2. LittleEndian(id, 2) \in Block(2) /\ Vector(d) \in Block(8 + n)
      BY <2>3, <2>4, WordBytes, VectorBytes
    <3>3. 2 \in Nat /\ 8 + n \in Nat
      OBVIOUS
    <3> QED BY <3>1, <3>2, <3>3, Joined
  <2>6. n \in Word
    <3>1. 2 + (8 + n) = 2 + (8 + n) + 0
      OBVIOUS
    <3> QED BY <1>0, <2>2, <2>3, <2>4, <2>5, <3>1, VectorFits
  <2>7. Back(T, p, 2 + (8 + n))
    BY <2>1, <2>3, <2>4, <2>6, DataBack
  <2> QED BY <2>2, <2>4, <2>7
<1>5. CASE \E version \in Word, v \in Text, key \in Block(32) :
             p = [type |-> "ProxyHello", version |-> version, hostname |-> v, key |-> key]
  <2>1. PICK version \in Word, v \in Text, key \in Block(32) :
             p = [type |-> "ProxyHello", version |-> version, hostname |-> v, key |-> key]
    BY <1>5
  <2>2. /\ p.type = "ProxyHello" /\ p.version = version /\ p.hostname = v /\ p.key = key
        /\ p.type \in DOMAIN Variant
    BY <2>1, VariantNumbers
  <2>3. v \in ByteString /\ Utf8(v) /\ Len(v) \in Nat /\ v \in Block(Len(v))
    BY InBlock DEF Text
  <2>4. PICK n \in Nat : n = Len(v)
    BY <2>3
  <2>5. Fields(p) \in Block(2 + (8 + n) + 4 + 32)
    <3>1. Fields(p) = LittleEndian(version, 2) \o Vector(v) \o LittleEndian(0, 4) \o key
      BY <2>2, FieldsOf
    <3>2. LittleEndian(version, 2) \in Block(2) /\ Vector(v) \in Block(8 + n)
      BY <2>3, <2>4, WordBytes, VectorBytes
    <3>3. LittleEndian(0, 4) \in Block(4)
      BY ZeroBytes
    <3>4. /\ 2 \in Nat /\ 8 + n \in Nat /\ 4 \in Nat /\ 32 \in Nat
          /\ 2 + (8 + n) \in Nat /\ 2 + (8 + n) + 4 \in Nat
      OBVIOUS
    <3>5. LittleEndian(version, 2) \o Vector(v) \in Block(2 + (8 + n))
      BY <3>2, <3>4, Joined
    <3>6. LittleEndian(version, 2) \o Vector(v) \o LittleEndian(0, 4) \in Block(2 + (8 + n) + 4)
      BY <3>3, <3>4, <3>5, Joined
    <3>7. LittleEndian(version, 2) \o Vector(v) \o LittleEndian(0, 4) \o key
            \in Block(2 + (8 + n) + 4 + 32)
      BY <3>4, <3>6, Joined
    <3> QED BY <3>1, <3>7
  <2>6. n \in Word
    <3>1. 2 + (8 + n) + 4 + 32 = 2 + (8 + n) + 36
      OBVIOUS
    <3> QED BY <1>0, <2>2, <2>3, <2>4, <2>5, <3>1, VectorFits
  <2>7. Back(T, p, 2 + (8 + n) + 4 + 32)
    BY <2>1, <2>3, <2>4, <2>6, HelloBack
  <2> QED BY <2>2, <2>4, <2>7
<1> QED BY <1>1, <1>2, <1>3, <1>4, <1>5, PacketKinds, Zenon

\* bincode reads what bincode wrote.
LEMMA DeserializeBack ==
  ASSUME NEW p \in FramedPacket, Fits(p)
  PROVE  /\ Serialized(p) \in ByteString
         /\ \E k : Deserialize(Serialized(p)) = Got(p, k)
<1>1. p.type \in DOMAIN Variant
  <2>1. \E T : T \in Block(4)
    BY ZeroBytes
  <2> QED BY <2>1, PacketBack
<1>2. PICK T : T = LittleEndian(Variant[p.type], 4)
  OBVIOUS
<1>3. /\ T \in Block(4)
      /\ {u \in DOMAIN Variant : LittleEndian(Variant[u], 4) = T} = {p.type}
  BY <1>1, <1>2, TagBack
<1>4. PICK n \in Nat : Back(T, p, n)
  BY <1>3, PacketBack
<1>5. PICK F : F = Fields(p)
  OBVIOUS
<1>6. F \in Block(n) /\ ReadFields(p.type, T \o F) = Got(p, 4 + n)
  BY <1>4, <1>5 DEF Back
<1>7. T \in ByteString /\ F \in ByteString
  BY <1>3, <1>6 DEF Block
<1>8. PICK body : body = T \o F
  OBVIOUS
<1>9. body \in ByteString
  BY <1>7, <1>8, Concat
<1>10. Serialized(p) = body
  BY <1>2, <1>5, <1>8 DEF Serialized
<1>11. Take(body, 0, 4) = Got(T, 4)
  <2>1. 4 \in Nat
    OBVIOUS
  <2> QED BY <1>3, <1>7, <1>8, <2>1, TakeFirst
<1>12. Deserialize(body) = ReadFields(p.type, body)
  <2>1. Take(body, 0, 4).ok /\ Take(body, 0, 4).val = T
    BY <1>11 DEF Got
  <2>2. (CHOOSE t \in {p.type} : TRUE) = p.type
    OBVIOUS
  <2> QED BY <1>3, <2>1, <2>2 DEF Deserialize, Then
<1>13. Deserialize(body) = Got(p, 4 + n)
  BY <1>6, <1>8, <1>12
<1> QED BY <1>9, <1>10, <1>13

-----------------------------------------------------------------------------
(* The frame *)

LEMMA TwoBytes ==
  ASSUME NEW n \in Nat, n < 65536
  PROVE  /\ n % 65536 = n /\ n \div 256 \in Byte /\ n % 256 \in Byte
         /\ 256 * (n \div 256) + (n % 256) = n
<1>1. n % 65536 = n
  OBVIOUS
<1>2. PICK h : h = n \div 256
  OBVIOUS
<1>3. PICK l : l = n % 256
  OBVIOUS
<1>4. h \in Nat /\ h < 256 /\ l \in Nat /\ l < 256 /\ 256 * h + l = n
  BY <1>2, <1>3
<1>5. h \in Byte /\ l \in Byte
  BY <1>4 DEF Byte
<1> QED BY <1>1, <1>2, <1>3, <1>4, <1>5

LEMMA PrefixBack ==
  ASSUME NEW b \in ByteString, Len(b) < 65536, NEW s
  PROVE  /\ LengthPrefix(b) \in Block(2)
         /\ (s[1] = LengthPrefix(b)[1] /\ s[2] = LengthPrefix(b)[2]) => U16(s, 0) = Len(b)
<1>1. PICK n \in Nat : n = Len(b) /\ n < 65536
  BY DEF ByteString
<1>2. LengthPrefix(b) = <<(n % 65536) \div 256, n % 256>>
  BY <1>1 DEF LengthPrefix
<1>3. (n % 65536) \div 256 \in Byte /\ n % 256 \in Byte
  BY <1>1, TwoBytes
<1>4. 256 * ((n % 65536) \div 256) + (n % 256) = n
  BY <1>1, TwoBytes
<1>5. LengthPrefix(b) \in Block(2)
  BY <1>2, <1>3 DEF Block, ByteString
<1>6. (s[1] = LengthPrefix(b)[1] /\ s[2] = LengthPrefix(b)[2]) => U16(s, 0) = n
  <2>1. LengthPrefix(b)[1] = (n % 65536) \div 256 /\ LengthPrefix(b)[2] = n % 256
    BY <1>2
  <2>2. (s[1] = LengthPrefix(b)[1] /\ s[2] = LengthPrefix(b)[2])
           => U16(s, 0) = 256 * ((n % 65536) \div 256) + (n % 256)
    BY <2>1 DEF U16
  <2> QED BY <1>4, <2>2
<1> QED BY <1>1, <1>5, <1>6

\* A sequence begins with each of its first parts.
LEMMA FirstTwo ==
  ASSUME NEW a \in Block(2), NEW b \in ByteString
  PROVE  (a \o b)[1] = a[1] /\ (a \o b)[2] = a[2]
<1>1. a \in ByteString /\ 2 = Len(a)
  BY DEF Block
<1>2. PICK k \in Nat : k = 2
  OBVIOUS
<1>3. 1 \in 1..k /\ 2 \in 1..k
  BY <1>2
<1>4. k = Len(a)
  BY <1>1, <1>2, Zenon
<1>5. \A i \in 1..Len(a) : (a \o b)[i] = a[i]
  BY <1>1 DEF ByteString
<1> QED BY <1>3, <1>4, <1>5, Zenon

\* How a frame is made up.
LEMMA FrameOf ==
  ASSUME NEW p \in FramedPacket, Fits(p)
  PROVE  \E L \in Block(2), b \in ByteString :
           /\ L = LengthPrefix(b) /\ b = Serialized(p)
           /\ Encode(p) = L \o b /\ Short(b)
           /\ Encode(p) \in ByteString /\ Len(Encode(p)) = 2 + Len(b)
           /\ \E k : Deserialize(b) = Got(p, k)
<1>1. PICK b : b = Serialized(p)
  OBVIOUS
<1>2. b \in ByteString /\ Short(b) /\ \E k : Deserialize(b) = Got(p, k)
  BY <1>1, DeserializeBack DEF Fits
<1>3. PICK L : L = LengthPrefix(b)
  OBVIOUS
<1>4. L \in Block(2) /\ L \in ByteString /\ Len(L) = 2
  BY <1>2, <1>3, PrefixBack DEF Block, Short
<1>5. p.type \notin {"MCHello", "MCData"}
  <2>1. p.type \in DOMAIN Variant
    BY ZeroBytes, PacketBack
  <2> QED BY <2>1, VariantNumbers DEF U16Packet, AuthPacket
<1>6. Encode(p) = L \o b
  BY <1>1, <1>3, <1>5 DEF Encode
<1>7. L \o b \in ByteString /\ Len(L \o b) = 2 + Len(b)
  <2>1. PICK n \in Nat : n = Len(b)
    BY <1>2 DEF ByteString
  <2>2. L \o b \in Block(2 + n)
    <3>1. b \in Block(n) /\ 2 \in Nat
      BY <1>2, <2>1 DEF Block
    <3> QED BY <1>4, <3>1, Joined
  <2> QED BY <2>1, <2>2 DEF Block
<1>8. /\ L = LengthPrefix(b) /\ b = Serialized(p)
      /\ Encode(p) = L \o b /\ Short(b)
      /\ Encode(p) \in ByteString /\ Len(Encode(p)) = 2 + Len(b)
      /\ \E k : Deserialize(b) = Got(p, k)
  <2>1. Encode(p) \in ByteString /\ Len(Encode(p)) = 2 + Len(b)
    BY <1>6, <1>7, Zenon
  <2>2. L = LengthPrefix(b) /\ b = Serialized(p)
    BY <1>1, <1>3, Zenon
  <2>3. Encode(p) = L \o b
    BY <1>6, Zenon
  <2>4. Short(b) /\ \E k : Deserialize(b) = Got(p, k)
    BY <1>2, Zenon
  <2> QED BY <2>1, <2>2, <2>3, <2>4, Zenon
<1> QED BY <1>2, <1>4, <1>8, Zenon

\* A packet in a frame is read back as it was written, and nothing of what
\* follows it in the buffer is read with it (encode, and decode_proxy).
THEOREM FrameReadBack ==
  ASSUME NEW p \in FramedPacket, Fits(p), NEW rest \in ByteString
  PROVE  DecodeProxy(Encode(p) \o rest) = Got(p, Len(Encode(p)))
<1>1. PICK L \in Block(2), b \in ByteString :
           /\ L = LengthPrefix(b) /\ b = Serialized(p)
           /\ Encode(p) = L \o b /\ Short(b)
           /\ Encode(p) \in ByteString /\ Len(Encode(p)) = 2 + Len(b)
           /\ \E k : Deserialize(b) = Got(p, k)
  BY FrameOf
<1>2. PICK buf : buf = L \o b \o rest
  OBVIOUS
<1>3. PICK n \in Nat : n = Len(b) /\ n < 65536
  BY <1>1 DEF ByteString, Short
<1>4. L \in ByteString /\ b \in Block(n) /\ b \o rest \in ByteString /\ 2 \in Nat
  <2>1. L \in ByteString /\ b \in Block(n)
    BY <1>3 DEF Block
  <2>2. b \o rest \in ByteString
    BY Concat
  <2> QED BY <2>1, <2>2
<1>5. buf = L \o (b \o rest)
  <2>1. L \o (b \o rest) = L \o b \o rest
    BY <1>4, Regrouped, SMTT(60)
  <2> QED BY <1>2, <2>1
<1>6. Take(buf, 0, 2) = Got(L, 2)
  BY <1>4, <1>5, TakeFirst
<1>7. Take(buf, 2, n) = Got(b, 2 + n)
  BY <1>2, <1>4, TakeExact
<1>8. U16(buf, 0) = n
  <2>1. buf[1] = L[1] /\ buf[2] = L[2]
    BY <1>4, <1>5, FirstTwo
  <2> QED BY <1>1, <1>3, <2>1, PrefixBack DEF Short
<1>9. PICK k : Deserialize(b) = Got(p, k)
  BY <1>1
<1>10. DecodeProxy(buf) = Got(p, 2 + n)
  <2>1. Take(buf, 0, 2).ok
    BY <1>6 DEF Got
  <2>2. Take(buf, 2, U16(buf, 0)).ok /\ Take(buf, 2, U16(buf, 0)).val = b /\ Take(buf, 2, U16(buf, 0)).pos = 2 + n
    BY <1>7, <1>8 DEF Got
  <2>3. Deserialize(b).ok /\ Deserialize(b).val = p
    BY <1>9 DEF Got
  <2> QED BY <2>1, <2>2, <2>3 DEF DecodeProxy, Then
<1> QED BY <1>1, <1>2, <1>3, <1>10

\* A part of a frame that has not come to its end is waited for: it is never
\* an error, and never taken for a packet.
THEOREM PartOfFrameWaits ==
  ASSUME NEW p \in FramedPacket, Fits(p), NEW k \in Nat, k < Len(Encode(p))
  PROVE  DecodeProxy(SubSeq(Encode(p), 1, k)) = Fail("TooSmall")
<1>1. PICK L \in Block(2), b \in ByteString :
           /\ L = LengthPrefix(b) /\ b = Serialized(p)
           /\ Encode(p) = L \o b /\ Short(b)
           /\ Encode(p) \in ByteString /\ Len(Encode(p)) = 2 + Len(b)
           /\ \E m : Deserialize(b) = Got(p, m)
  BY FrameOf
<1>2. PICK n \in Nat : n = Len(b) /\ n < 65536
  BY <1>1 DEF ByteString, Short
<1>3. PICK e : e = Encode(p)
  OBVIOUS
<1>4. e \in ByteString /\ Len(e) = 2 + n /\ k < 2 + n /\ e[1] = L[1] /\ e[2] = L[2]
  BY <1>1, <1>2, <1>3, FirstTwo
<1>5. PICK buf : buf = SubSeq(e, 1, k)
  OBVIOUS
<1>6. buf \in ByteString /\ Len(buf) = k /\ \A i \in 1..k : buf[i] = e[i]
  BY <1>4, <1>5, SubSeqProperties DEF ByteString
<1>7. CASE k < 2
  <2>1. Take(buf, 0, 2) = Fail("TooSmall")
    BY <1>6, <1>7, TakeSmall
  <2> QED BY <1>3, <1>5, <2>1 DEF DecodeProxy, Then, Fail
<1>8. CASE k >= 2
  <2>1. Take(buf, 0, 2).ok
    BY <1>6, <1>8 DEF Take, Remaining, Got
  <2>2. U16(buf, 0) = n
    <3>1. buf[1] = L[1] /\ buf[2] = L[2]
      BY <1>4, <1>6, <1>8
    <3>2. L = LengthPrefix(b) /\ Len(b) < 65536
      BY <1>1 DEF Short
    <3>3. U16(buf, 0) = Len(b)
      BY <3>1, <3>2, PrefixBack
    <3> QED BY <1>2, <3>3
  <2>3. Take(buf, 2, n) = Fail("TooSmall")
    BY <1>4, <1>6, TakeSmall
  <2> QED BY <1>3, <1>5, <2>1, <2>2, <2>3 DEF DecodeProxy, Then, Fail
<1> QED BY <1>7, <1>8

-----------------------------------------------------------------------------
(* A frame read as a first packet *)

LEMMA BytesAt ==
  ASSUME NEW buf \in ByteString, NEW i \in Nat, i >= 1, i <= Len(buf)
  PROVE  buf[i] \in Byte
BY DEF ByteString

LEMMA NumberAt ==
  ASSUME NEW buf \in ByteString, NEW i \in Nat, i >= 1, i <= Len(buf)
  PROVE  buf[i] \in Nat /\ buf[i] < 256
<1>1. \A b \in Byte : b \in Nat /\ b < 256
  BY DEF Byte
<1> QED BY <1>1, BytesAt

\* A varint of one byte, and of two.
LEMMA VarintShort ==
  ASSUME NEW buf \in ByteString, NEW p \in Nat, p + 1 <= Len(buf), buf[p + 1] < 128
  PROVE  GetVarint(buf, p) = Got(buf[p + 1], p + 1)
<1> DEFINE ends == {n \in 1..5 : n <= Remaining(buf, p) /\ buf[p + n] < 128}
           size == Min(ends)
           part(i) == IF i <= size THEN Septet(buf[p + i], i) ELSE 0
<1>1. PICK b \in Nat : b = buf[p + 1] /\ b < 128
  <2>1. buf[p + 1] \in Byte
    BY BytesAt
  <2> QED BY <2>1, SMTT(30) DEF Byte
<1>2. 1 \in ends /\ \A n \in ends : 1 <= n
  BY DEF Remaining, ByteString
<1>3. ends # {} /\ size = 1
  BY <1>2 DEF Min
<1>4. GetVarint(buf, p) = Got(part(1) + part(2) + part(3) + part(4) + part(5), p + size)
  BY <1>3 DEF GetVarint
<1> HIDE DEF ends, size
<1>5. Septet(b, 1) = b
  <2>1. b % 128 = b
    BY <1>1
  <2> QED BY <2>1 DEF Septet
<1>6. part(1) = b /\ part(2) = 0 /\ part(3) = 0 /\ part(4) = 0 /\ part(5) = 0
  BY <1>1, <1>3, <1>5
<1> HIDE DEF part
<1>7. part(1) + part(2) + part(3) + part(4) + part(5) = b
  BY <1>6
<1> QED BY <1>1, <1>3, <1>4, <1>7

LEMMA VarintOfTwo ==
  ASSUME NEW buf \in ByteString, NEW p \in Nat, p + 2 <= Len(buf), buf[p + 1] >= 128,
         buf[p + 2] >= 1, buf[p + 2] < 128
  PROVE  GetVarint(buf, p).ok /\ GetVarint(buf, p).val # 0
<1> DEFINE ends == {n \in 1..5 : n <= Remaining(buf, p) /\ buf[p + n] < 128}
           size == Min(ends)
           part(i) == IF i <= size THEN Septet(buf[p + i], i) ELSE 0
<1>0. Len(buf) \in Nat
  BY DEF ByteString
<1>1. PICK b \in Nat, c \in Nat : b = buf[p + 1] /\ c = buf[p + 2] /\ b >= 128 /\ 1 <= c /\ c < 128
  <2>1. /\ p + 1 \in Nat /\ p + 1 >= 1 /\ p + 1 <= Len(buf)
        /\ p + 2 \in Nat /\ p + 2 >= 1
    BY <1>0
  <2> QED BY <2>1, NumberAt
<1>2. 2 \in ends /\ \A n \in ends : 2 <= n
  <2>1. 2 \in ends
    BY <1>0, <1>1 DEF Remaining
  <2>2. ~(1 \in ends)
    BY <1>1
  <2>3. \A n \in ends : n \in 1..5
    OBVIOUS
  <2> HIDE DEF ends
  <2> QED BY <2>1, <2>2, <2>3
<1>3. ends # {} /\ size = 2
  BY <1>2 DEF Min
<1>4. GetVarint(buf, p) = Got(part(1) + part(2) + part(3) + part(4) + part(5), p + size)
  BY <1>3 DEF GetVarint
<1> HIDE DEF ends, size
<1>5. Septet(b, 1) \in Nat /\ Septet(c, 2) = c * 128
  <2>1. c % 128 = c /\ b % 128 \in Nat
    BY <1>1
  <2> QED BY <2>1 DEF Septet
<1>6. part(1) = Septet(b, 1) /\ part(2) = c * 128 /\ part(3) = 0 /\ part(4) = 0 /\ part(5) = 0
  BY <1>1, <1>3, <1>5
<1> HIDE DEF part
<1>7. part(1) + part(2) + part(3) + part(4) + part(5) # 0
  BY <1>1, <1>5, <1>6
<1> QED BY <1>4, <1>7 DEF Got

\* One that has not come to its end.
LEMMA VarintCut ==
  ASSUME NEW buf \in ByteString, NEW p \in Nat, NEW n \in Nat, n = Len(buf),
         n = p \/ (n = p + 1 /\ buf[p + 1] >= 128)
  PROVE  GetVarint(buf, p) = Fail("NotValid")
<1> DEFINE ends == {m \in 1..5 : m <= Remaining(buf, p) /\ buf[p + m] < 128}
<1>1. ASSUME n = p + 1 PROVE \E b \in Nat : b = buf[p + 1] /\ b >= 128
  <2>1. PICK q \in Nat : q = p + 1 /\ q >= 1 /\ q <= Len(buf)
    BY <1>1
  <2>2. buf[q] \in Nat
    BY <2>1, NumberAt
  <2> QED BY <1>1, <2>1, <2>2
<1>2. ASSUME NEW m \in ends PROVE FALSE
  <2>1. m \in Nat /\ 1 <= m /\ m <= n - p /\ buf[p + m] < 128
    BY DEF Remaining
  <2>2. m = 1 /\ n = p + 1
    BY <2>1
  <2>3. PICK b \in Nat : b = buf[p + 1] /\ b >= 128
    BY <1>1, <2>2
  <2>4. b < 128
    BY <2>1, <2>2, <2>3
  <2> QED BY <2>3, <2>4
<1>3. ends = {}
  BY <1>2
<1> QED BY <1>3 DEF GetVarint

\* A buffer that begins as a frame does: its length in two bytes, and the tag.
BeginsAsFrame(buf, hi, lo, tag) ==
  /\ buf \in ByteString /\ Len(buf) >= 1
  /\ hi \in Nat /\ lo \in Nat /\ tag \in Nat /\ 1 <= tag /\ tag < 128
  /\ buf[1] = hi
  /\ Len(buf) >= 2 => buf[2] = lo
  /\ Len(buf) >= 3 => buf[3] = tag
  /\ \A i \in 4..6 : i <= Len(buf) => buf[i] = 0

LEMMA OldHellosDiffer ==
  ASSUME NEW buf \in ByteString, Len(buf) >= 1, buf[1] # 254, buf[1] # 2
  PROVE  OldPingPkg(buf) = Fail("NotMatching") /\ OldConnectPkg(buf) = Fail("NotMatching")
<1>1. Len(buf) \in Nat
  BY DEF ByteString
<1>2. ASSUME NEW n \in Nat, n >= 1, n <= Len(buf)
      PROVE  \A s : SubSeq(buf, 1, n) = s => s[1] = buf[1]
  <2>1. \A i \in 1..n : SubSeq(buf, 1, n)[i] = buf[i]
    BY <1>1, <1>2, SubSeqProperties DEF ByteString
  <2>2. 1 \in 1..n
    BY <1>2
  <2> QED BY <1>2, <2>1, <2>2, Zenon
<1>3. ~MatchBytes(buf, 0, << 2 >>)
  <2> SUFFICES ASSUME MatchBytes(buf, 0, << 2 >>) PROVE FALSE
    OBVIOUS
  <2>1. SubSeq(buf, 1, 1) = << 2 >>
    BY DEF MatchBytes, Slice
  <2>2. 1 \in Nat /\ 1 >= 1 /\ 1 <= Len(buf)
    BY <1>1
  <2>3. << 2 >>[1] = buf[1]
    BY <1>2, <2>1, <2>2, Zenon
  <2> QED BY <2>3
<1>4. ~MatchBytes(buf, 0, <<254, 1>>)
  <2> SUFFICES ASSUME MatchBytes(buf, 0, <<254, 1>>) PROVE FALSE
    OBVIOUS
  <2>1. SubSeq(buf, 1, 2) = <<254, 1>> /\ 2 <= Len(buf)
    BY <1>1 DEF MatchBytes, Slice, Remaining
  <2>2. 2 \in Nat /\ 2 >= 1
    OBVIOUS
  <2>3. <<254, 1>>[1] = buf[1]
    BY <1>2, <2>1, <2>2, Zenon
  <2> QED BY <2>3
<1> QED BY <1>3, <1>4 DEF OldPingPkg, OldConnectPkg

\* A string of no bytes.
LEMMA NothingTaken ==
  ASSUME NEW buf, NEW p \in Nat, NEW q \in Nat, NEW n \in Nat, n = Len(buf), q <= n,
         GetVarint(buf, p) = Got(0, q)
  PROVE  GetUtf8String(buf, p) = Got(<<>>, q)
<1>1. GetVarint(buf, p).ok /\ GetVarint(buf, p).val = 0 /\ GetVarint(buf, p).pos = q
  BY DEF Got
<1>2. Take(buf, q, 0) = Got(SubSeq(buf, q + 1, q), q)
  BY DEF Take, Remaining, Slice
<1>3. SubSeq(buf, q + 1, q) = <<>>
  OBVIOUS
<1>4. Utf8(<<>>)
  BY DEF Utf8
<1>5. Take(buf, q, 0).ok /\ Take(buf, q, 0).val = <<>> /\ Take(buf, q, 0) = Got(<<>>, q)
  BY <1>2, <1>3 DEF Got
<1> QED BY <1>1, <1>4, <1>5 DEF GetUtf8String, Then

\* How far the parser of the new handshake comes.
LEMMA NewHelloEnds ==
  ASSUME NEW buf, NEW hi, NEW tag, NEW s, GetVarint(buf, 0) = Got(hi, 1)
  PROVE  /\ GetVarint(buf, 1) = Fail("NotValid") => NewPkg(buf) = Fail("NotValid")
         /\ (GetVarint(buf, 1).ok /\ GetVarint(buf, 1).val # 0) => NewPkg(buf) = Fail("NotMatching")
         /\ GetVarint(buf, 1) = Got(0, 2) =>
              /\ GetVarint(buf, 2) = Fail("NotValid") => NewPkg(buf) = Fail("NotValid")
              /\ GetVarint(buf, 2) = Got(tag, 3) =>
                   /\ GetUtf8String(buf, 3) = Fail("NotValid") => NewPkg(buf) = Fail("NotValid")
                   /\ GetUtf8String(buf, 3) = Got(s, 4) =>
                        /\ Take(buf, 4, 2) = Fail("TooSmall") => NewPkg(buf) = Fail("TooSmall")
                        /\ (Take(buf, 4, 2).ok /\ Take(buf, 4, 2).pos # hi)
                             => NewPkg(buf) = Fail("NotValid")
<1>1. GetVarint(buf, 0).ok /\ GetVarint(buf, 0).val = hi /\ GetVarint(buf, 0).pos = 1
  BY DEF Got
<1>0. \A r, e : r = Fail(e) => ~r.ok
  BY DEF Fail
<1>2. ASSUME GetVarint(buf, 1) = Fail("NotValid") PROVE NewPkg(buf) = Fail("NotValid")
  <2>1. ~GetVarint(buf, 1).ok
    BY <1>0, <1>2
  <2>2. NewPkg(buf) = GetVarint(buf, 1)
    BY <1>1, <2>1 DEF NewPkg, Then
  <2> QED BY <1>2, <2>2
<1>3. ASSUME GetVarint(buf, 1).ok, GetVarint(buf, 1).val # 0 PROVE NewPkg(buf) = Fail("NotMatching")
  BY <1>1, <1>3 DEF NewPkg, Then
<1>4. ASSUME GetVarint(buf, 1) = Got(0, 2), GetVarint(buf, 2) = Fail("NotValid")
      PROVE  NewPkg(buf) = Fail("NotValid")
  <2>1. GetVarint(buf, 1).ok /\ GetVarint(buf, 1).val = 0 /\ GetVarint(buf, 1).pos = 2
    BY <1>4 DEF Got
  <2>2. ~GetVarint(buf, 2).ok
    BY <1>0, <1>4
  <2>3. NewPkg(buf) = GetVarint(buf, 2)
    BY <1>1, <2>1, <2>2 DEF NewPkg, Then
  <2> QED BY <1>4, <2>3
<1>5. ASSUME GetVarint(buf, 1) = Got(0, 2), GetVarint(buf, 2) = Got(tag, 3)
      PROVE  /\ GetVarint(buf, 1).ok /\ GetVarint(buf, 1).val = 0 /\ GetVarint(buf, 1).pos = 2
             /\ GetVarint(buf, 2).ok /\ GetVarint(buf, 2).val = tag /\ GetVarint(buf, 2).pos = 3
  BY <1>5 DEF Got
<1>6. ASSUME GetVarint(buf, 1) = Got(0, 2), GetVarint(buf, 2) = Got(tag, 3),
             GetUtf8String(buf, 3) = Fail("NotValid")
      PROVE  NewPkg(buf) = Fail("NotValid")
  <2>1. ~GetUtf8String(buf, 3).ok
    BY <1>0, <1>6
  <2>2. NewPkg(buf) = GetUtf8String(buf, 3)
    BY <1>1, <1>5, <1>6, <2>1 DEF NewPkg, Then
  <2> QED BY <1>6, <2>2
<1>7. ASSUME GetVarint(buf, 1) = Got(0, 2), GetVarint(buf, 2) = Got(tag, 3),
             GetUtf8String(buf, 3) = Got(s, 4)
      PROVE  /\ Take(buf, 4, 2) = Fail("TooSmall") => NewPkg(buf) = Fail("TooSmall")
             /\ (Take(buf, 4, 2).ok /\ Take(buf, 4, 2).pos # hi) => NewPkg(buf) = Fail("NotValid")
  <2>1. GetUtf8String(buf, 3).ok /\ GetUtf8String(buf, 3).pos = 4
    BY <1>7 DEF Got
  <2>2. ASSUME Take(buf, 4, 2) = Fail("TooSmall") PROVE NewPkg(buf) = Fail("TooSmall")
    <3>1. ~Take(buf, 4, 2).ok
      BY <1>0, <2>2
    <3>2. NewPkg(buf) = Take(buf, 4, 2)
      BY <1>1, <1>5, <1>7, <2>1, <3>1 DEF NewPkg, Then
    <3> QED BY <2>2, <3>2
  <2>3. ASSUME Take(buf, 4, 2).ok, Take(buf, 4, 2).pos # hi PROVE NewPkg(buf) = Fail("NotValid")
    BY <1>1, <1>5, <1>7, <2>1, <2>3 DEF NewPkg, Then
  <2> QED BY <2>2, <2>3
<1> QED BY <1>2, <1>3, <1>4, <1>6, <1>7

\* The new handshake: what a frame is to its parser.
LEMMA NewHelloDiffers ==
  ASSUME NEW buf, NEW hi, NEW lo, NEW tag, BeginsAsFrame(buf, hi, lo, tag),
         hi < 128, lo < 256, ~(hi = 6 /\ lo = 0)
  PROVE  /\ NewPkg(buf) \in {Fail("NotMatching"), Fail("NotValid"), Fail("TooSmall")}
         /\ Len(buf) >= 6 => NewPkg(buf) # Fail("TooSmall")
<1>1. PICK n \in Nat : n = Len(buf) /\ n >= 1
  BY DEF BeginsAsFrame, ByteString
<1>2. buf \in ByteString /\ hi \in Nat /\ lo \in Nat /\ tag \in Nat /\ tag >= 1 /\ tag < 128
  BY DEF BeginsAsFrame
<1>3. buf[1] = hi /\ (n >= 2 => buf[2] = lo) /\ (n >= 3 => buf[3] = tag) /\ (n >= 4 => buf[4] = 0)
  BY <1>1 DEF BeginsAsFrame
<1>4. Fail("NotValid") # Fail("TooSmall") /\ Fail("NotMatching") # Fail("TooSmall")
  BY DEF Fail
<1>5. SUFFICES \/ NewPkg(buf) \in {Fail("NotMatching"), Fail("NotValid")}
               \/ n < 6 /\ NewPkg(buf) = Fail("TooSmall")
  BY <1>1, <1>4
<1>6. GetVarint(buf, 0) = Got(hi, 1)
  BY <1>1, <1>2, <1>3, VarintShort
<1>7. CASE n = 1
  <2>1. GetVarint(buf, 1) = Fail("NotValid")
    BY <1>1, <1>2, <1>7, VarintCut, ZenonT(30)
  <2> QED BY <1>6, <2>1, NewHelloEnds
<1>8. CASE n = 2 /\ lo >= 128
  <2>1. GetVarint(buf, 1) = Fail("NotValid")
    <3>1. n = 1 + 1 /\ buf[1 + 1] >= 128 /\ 1 \in Nat
      BY <1>3, <1>8
    <3> QED BY <1>1, <1>2, <3>1, VarintCut
  <2> QED BY <1>6, <2>1, NewHelloEnds
<1>9. CASE n >= 3 /\ lo >= 128
  <2>1. GetVarint(buf, 1).ok /\ GetVarint(buf, 1).val # 0
    BY <1>1, <1>2, <1>3, <1>9, VarintOfTwo
  <2> QED BY <1>6, <2>1, NewHelloEnds
<1>10. CASE n >= 2 /\ lo < 128
  <2>1. GetVarint(buf, 1) = Got(lo, 2)
    BY <1>1, <1>2, <1>3, <1>10, VarintShort
  <2>2. CASE lo # 0
    <3>1. GetVarint(buf, 1).ok /\ GetVarint(buf, 1).val # 0
      BY <2>1, <2>2 DEF Got
    <3> QED BY <1>6, <3>1, NewHelloEnds
  <2>3. CASE n = 2 /\ lo = 0
    <3>1. GetVarint(buf, 2) = Fail("NotValid")
      BY <1>1, <1>2, <2>3, VarintCut
    <3> QED BY <1>6, <2>1, <2>3, <3>1, NewHelloEnds
  <2>4. CASE n >= 3 /\ lo = 0
    <3>1. GetVarint(buf, 1) = Got(0, 2)
      BY <2>1, <2>4
    <3>2. GetVarint(buf, 2) = Got(tag, 3)
      BY <1>1, <1>2, <1>3, <2>4, VarintShort
    <3>3. CASE n = 3
      <4>1. GetVarint(buf, 3) = Fail("NotValid")
        BY <1>1, <1>2, <3>3, VarintCut
      <4>2. GetUtf8String(buf, 3) = Fail("NotValid")
        <5>1. ~GetVarint(buf, 3).ok
          BY <4>1 DEF Fail
        <5> QED BY <4>1, <5>1 DEF GetUtf8String, Then
      <4> QED BY <1>6, <3>1, <3>2, <4>2, NewHelloEnds
    <3>4. CASE n >= 4
      <4>1. GetVarint(buf, 3) = Got(0, 4)
        BY <1>1, <1>2, <1>3, <3>4, VarintShort
      <4>2. GetUtf8String(buf, 3) = Got(<<>>, 4)
        BY <1>1, <1>2, <3>4, <4>1, NothingTaken
      <4>3. CASE n < 6
        <5>1. Take(buf, 4, 2) = Fail("TooSmall")
          BY <1>1, <4>3 DEF Take, Remaining
        <5>2. NewPkg(buf) = Fail("TooSmall")
          BY <1>6, <3>1, <3>2, <4>2, <5>1, NewHelloEnds
        <5> QED BY <4>3, <5>2
      <4>4. CASE n >= 6 /\ hi # 6
        <5>1. Take(buf, 4, 2).ok /\ Take(buf, 4, 2).pos = 6
          BY <1>1, <4>4 DEF Take, Remaining, Got
        <5> QED BY <1>6, <3>1, <3>2, <4>2, <4>4, <5>1, NewHelloEnds
      <4> QED BY <2>4, <3>4, <4>3, <4>4
    <3> QED BY <2>4, <3>3, <3>4
  <2> QED BY <1>10, <2>2, <2>3, <2>4
<1> QED BY <1>1, <1>2, <1>7, <1>8, <1>9, <1>10

\* No hello parser takes such a buffer for a packet of its own.
LEMMA NotAHello ==
  ASSUME NEW buf, NEW hi, NEW lo, NEW tag, BeginsAsFrame(buf, hi, lo, tag),
         hi < 128, lo < 256, hi # 2, ~(hi = 6 /\ lo = 0)
  PROVE  /\ MinecraftHello(buf) \in {Fail("NotMatching"), Fail("NotValid"), Fail("TooSmall")}
         /\ Len(buf) >= 6 => MinecraftHello(buf) # Fail("TooSmall")
<1>1. buf \in ByteString /\ Len(buf) >= 1 /\ buf[1] # 254 /\ buf[1] # 2
  BY DEF BeginsAsFrame
<1>2. MinecraftHello(buf) = NewPkg(buf)
  BY <1>1, OldHellosDiffer DEF MinecraftHello, OrElse, Fail
<1> QED BY <1>2, NewHelloDiffers

LEMMA ConcatAt ==
  ASSUME NEW a \in ByteString, NEW b \in ByteString, NEW c, c = a \o b, NEW m \in Nat, m = Len(a)
  PROVE  /\ \A i \in Nat : 1 <= i /\ i <= m => c[i] = a[i]
         /\ \A i \in Nat : 1 <= i /\ i <= Len(b) => c[m + i] = b[i]
<1>1. Len(b) \in Nat
  BY DEF ByteString
<1>2. ASSUME NEW i \in Nat, 1 <= i, i <= m PROVE c[i] = a[i]
  BY <1>1, <1>2, ConcatProperties DEF ByteString
<1>3. ASSUME NEW i \in Nat, 1 <= i, i <= Len(b) PROVE c[m + i] = b[i]
  BY <1>1, <1>3, ConcatProperties DEF ByteString
<1> QED BY <1>2, <1>3

\* The first bytes of a frame.
LEMMA FrameBegins ==
  ASSUME NEW p \in FramedPacket, Fits(p)
  PROVE  \E e \in ByteString, n \in Nat, tag \in Nat :
           /\ 1 <= tag /\ tag < 128 /\ e = Encode(p) /\ n = Len(Serialized(p)) /\ n < 65536 /\ Len(e) >= 6
           /\ e[1] = n \div 256 /\ e[2] = n % 256
           /\ e[3] = tag /\ e[4] = 0 /\ e[5] = 0 /\ e[6] = 0
<1>1. p.type \in DOMAIN Variant
  <2>1. \E T : T \in Block(4)
    BY ZeroBytes
  <2> QED BY <2>1, PacketBack
<1>2. PICK tag \in Nat : tag = Variant[p.type] /\ 1 <= tag /\ tag < 128
  BY <1>1 DEF Variant
<1>3. PICK T : T = LittleEndian(tag, 4)
  OBVIOUS
<1>4. T \in Block(4) /\ T[1] = tag /\ T[2] = 0 /\ T[3] = 0 /\ T[4] = 0
  <2>1. T \in Block(4)
    BY <1>3, LittleEndianBytes
  <2>2. T[1] = tag % 256 /\ T[2] = (tag \div 256) % 256 /\ T[3] = (tag \div 65536) % 256 /\ T[4] = 0
    BY <1>3 DEF LittleEndian
  <2>3. tag % 256 = tag /\ (tag \div 256) % 256 = 0 /\ (tag \div 65536) % 256 = 0
    BY <1>2
  <2> QED BY <2>1, <2>2, <2>3
<1>5. PICK F \in ByteString : F = Fields(p)
  <2>1. \E m \in Nat : Back(T, p, m)
    BY <1>4, PacketBack
  <2> QED BY <2>1 DEF Back, Block
<1>6. PICK L \in Block(2), b \in ByteString :
           /\ L = LengthPrefix(b) /\ b = Serialized(p)
           /\ Encode(p) = L \o b /\ Short(b)
           /\ Encode(p) \in ByteString /\ Len(Encode(p)) = 2 + Len(b)
           /\ \E k : Deserialize(b) = Got(p, k)
  BY FrameOf
<1>7. PICK n \in Nat : n = Len(b) /\ n < 65536
  BY <1>6 DEF ByteString, Short
<1>8. b = T \o F
  BY <1>2, <1>3, <1>5, <1>6 DEF Serialized
<1>9. n >= 4 /\ b[1] = tag /\ b[2] = 0 /\ b[3] = 0 /\ b[4] = 0
  <2>1. PICK m \in Nat : m = 4
    OBVIOUS
  <2>2. T \in ByteString /\ m = Len(T)
    BY <1>4, <2>1 DEF Block
  <2>3. Len(b) = m + Len(F) /\ Len(F) \in Nat
    <3>1. Len(T \o F) = Len(T) + Len(F)
      BY <2>2, Concat
    <3>2. Len(F) \in Nat
      BY DEF ByteString
    <3> QED BY <1>8, <2>2, <3>1, <3>2
  <2>4. \A i \in Nat : 1 <= i /\ i <= m => b[i] = T[i]
    BY <1>8, <2>2, ConcatAt
  <2>5. b[1] = T[1] /\ b[2] = T[2] /\ b[3] = T[3] /\ b[4] = T[4]
    BY <2>1, <2>4
  <2>6. n >= 4
    BY <1>7, <2>1, <2>3
  <2> QED BY <1>4, <2>5, <2>6
<1>10. PICK e \in ByteString : e = Encode(p) /\ e = L \o b
  BY <1>6
<1>11. Len(e) = 2 + n /\ e[1] = L[1] /\ e[2] = L[2]
  BY <1>6, <1>7, <1>10, FirstTwo
<1>12. e[3] = b[1] /\ e[4] = b[2] /\ e[5] = b[3] /\ e[6] = b[4]
  <2>1. PICK m \in Nat : m = 2
    OBVIOUS
  <2>2. L \in ByteString /\ m = Len(L)
    BY <2>1 DEF Block
  <2>3. \A i \in Nat : 1 <= i /\ i <= Len(b) => e[m + i] = b[i]
    BY <1>10, <2>2, ConcatAt
  <2>4. 1 <= n /\ 2 <= n /\ 3 <= n /\ 4 <= n
    BY <1>9
  <2>5. e[m + 1] = b[1] /\ e[m + 2] = b[2] /\ e[m + 3] = b[3] /\ e[m + 4] = b[4]
    BY <1>7, <2>3, <2>4
  <2> QED BY <2>1, <2>5
<1>13. L[1] = n \div 256 /\ L[2] = n % 256
  <2>1. LengthPrefix(b) = <<(n % 65536) \div 256, n % 256>>
    BY <1>7 DEF LengthPrefix
  <2>2. n % 65536 = n
    BY <1>7, TwoBytes
  <2> QED BY <1>6, <2>1, <2>2
<1>14. /\ 1 <= tag /\ tag < 128 /\ e = Encode(p) /\ n = Len(Serialized(p)) /\ n < 65536 /\ Len(e) >= 6
       /\ e[1] = n \div 256 /\ e[2] = n % 256
       /\ e[3] = tag /\ e[4] = 0 /\ e[5] = 0 /\ e[6] = 0
  BY <1>2, <1>6, <1>7, <1>9, <1>10, <1>11, <1>12, <1>13
<1> QED BY <1>14, SMTT(30)

\* No hello parser takes a frame for its own, nor a part of it, unless the
\* length of the frame makes it look like one.
LEMMA FrameIsNoHello ==
  ASSUME NEW p \in FramedPacket, Fits(p), ~HelloLike(p), NEW buf \in ByteString, Len(buf) >= 1,
         \A i \in 1..6 : i <= Len(buf) => buf[i] = Encode(p)[i]
  PROVE  /\ MinecraftHello(buf) \in {Fail("NotMatching"), Fail("NotValid"), Fail("TooSmall")}
         /\ Len(buf) >= 6 => MinecraftHello(buf) # Fail("TooSmall")
<1>1. PICK e \in ByteString, n \in Nat, tag \in Nat :
           /\ 1 <= tag /\ tag < 128 /\ e = Encode(p) /\ n = Len(Serialized(p)) /\ n < 65536 /\ Len(e) >= 6
           /\ e[1] = n \div 256 /\ e[2] = n % 256
           /\ e[3] = tag /\ e[4] = 0 /\ e[5] = 0 /\ e[6] = 0
  BY FrameBegins, SMTT(30)
<1>2. ~(512 <= n /\ n < 768) /\ n # 1536 /\ n < 32768
  <2>1. ~HelloLength(n)
    BY <1>1 DEF HelloLike
  <2> QED BY <2>1 DEF HelloLength
<1>3. PICK hi \in Nat, lo \in Nat : hi = n \div 256 /\ lo = n % 256
  OBVIOUS
<1>4. hi < 128 /\ lo < 256 /\ hi # 2 /\ ~(hi = 6 /\ lo = 0)
  <2>1. n = 256 * hi + lo /\ lo < 256
    BY <1>3
  <2> QED BY <1>2, <2>1
<1>5. BeginsAsFrame(buf, hi, lo, tag)
  <2>1. /\ 1 <= Len(buf) => buf[1] = e[1]
        /\ 2 <= Len(buf) => buf[2] = e[2]
        /\ 3 <= Len(buf) => buf[3] = e[3]
        /\ \A i \in 4..6 : i <= Len(buf) => buf[i] = e[i]
    BY <1>1
  <2>2. Len(buf) \in Nat
    BY DEF ByteString
  <2>3. \A i \in 4..6 : e[i] = 0
    BY <1>1
  <2>4. e[1] = hi /\ e[2] = lo /\ e[3] = tag
    BY <1>1, <1>3
  <2>5. \A i \in 4..6 : i <= Len(buf) => buf[i] = 0
    BY <2>1, <2>3
  <2>6. /\ buf[1] = hi
        /\ Len(buf) >= 2 => buf[2] = lo
        /\ Len(buf) >= 3 => buf[3] = tag
    BY <2>1, <2>2, <2>4
  <2>7. 1 <= tag /\ tag < 128
    BY <1>1
  <2> QED BY <2>5, <2>6, <2>7 DEF BeginsAsFrame
<1> QED BY <1>4, <1>5, NotAHello

\* A first packet that does not look like a hello is read back as it was
\* written, whatever follows it (parse_first_package).
THEOREM FirstFrameReadBack ==
  ASSUME NEW p \in FramedPacket, Fits(p), ~HelloLike(p), NEW rest \in ByteString
  PROVE  ParseFirstPackage(Encode(p) \o rest) = Got(p, Len(Encode(p)))
<1>1. PICK e \in ByteString : e = Encode(p) /\ Len(e) >= 6
  BY FrameBegins
<1>2. PICK buf : buf = e \o rest
  OBVIOUS
<1>3. buf \in ByteString /\ Len(buf) >= 6 /\ \A i \in 1..6 : buf[i] = e[i]
  <2>1. buf \in ByteString /\ Len(buf) = Len(e) + Len(rest)
    BY <1>2, Concat
  <2>2. \A i \in 1..Len(e) : (e \o rest)[i] = e[i]
    BY DEF ByteString
  <2>3. Len(e) \in Nat /\ Len(rest) \in Nat
    BY DEF ByteString
  <2> QED BY <1>1, <1>2, <2>1, <2>2, <2>3
<1>4. /\ MinecraftHello(buf) \in {Fail("NotMatching"), Fail("NotValid"), Fail("TooSmall")}
      /\ MinecraftHello(buf) # Fail("TooSmall")
  <2>1. Len(buf) \in Nat
    BY <1>3 DEF ByteString
  <2> QED BY <1>1, <1>3, <2>1, FrameIsNoHello
<1>5. ParseFirstPackage(buf) = DecodeProxy(buf)
  BY <1>4 DEF ParseFirstPackage, Fail
<1>6. DecodeProxy(e \o rest) = Got(p, Len(e))
  BY <1>1, FrameReadBack
<1> QED BY <1>1, <1>2, <1>5, <1>6

\* A part of a first packet that has not come to its end is waited for: it is
\* never taken for a part of a hello (parse_first_package).
THEOREM PartOfFirstFrameWaits ==
  ASSUME NEW p \in FramedPacket, Fits(p), ~HelloLike(p), NEW k \in Nat, 1 <= k, k < Len(Encode(p))
  PROVE  ParseFirstPackage(SubSeq(Encode(p), 1, k)) = Fail("TooSmall")
<1>1. PICK e \in ByteString : e = Encode(p) /\ Len(e) >= 6
  BY FrameBegins
<1>2. PICK buf : buf = SubSeq(e, 1, k)
  OBVIOUS
<1>3. buf \in ByteString /\ Len(buf) = k /\ \A i \in 1..k : buf[i] = e[i]
  BY <1>1, <1>2, SubSeqProperties DEF ByteString
<1>4. MinecraftHello(buf) \in {Fail("NotMatching"), Fail("NotValid"), Fail("TooSmall")}
  <2>1. \A i \in 1..6 : i <= Len(buf) => buf[i] = e[i]
    BY <1>3
  <2> QED BY <1>1, <1>3, <2>1, FrameIsNoHello
<1>5. DecodeProxy(buf) = Fail("TooSmall")
  BY <1>1, <1>2, PartOfFrameWaits
<1>6. ParseFirstPackage(buf) = DecodeProxy(buf) \/ ParseFirstPackage(buf) = Fail("TooSmall")
  <2>1. CASE MinecraftHello(buf) \in {Fail("NotMatching"), Fail("NotValid")}
    BY <2>1 DEF ParseFirstPackage, Fail
  <2>2. CASE MinecraftHello(buf) = Fail("TooSmall")
    <3>1. ~MinecraftHello(buf).ok /\ MinecraftHello(buf).err \notin {"NotValid", "NotMatching"}
      BY <2>2 DEF Fail
    <3> QED BY <2>2, <3>1 DEF ParseFirstPackage
  <2> QED BY <1>4, <2>1, <2>2
<1> QED BY <1>1, <1>2, <1>5, <1>6

-----------------------------------------------------------------------------
(* Parts of what has been written *)

LEMMA PartBytes ==
  ASSUME NEW w \in ByteString, NEW a \in Nat, NEW b \in Nat, a <= b, b <= Len(w)
  PROVE  /\ SubSeq(w, a + 1, b) \in ByteString /\ Len(SubSeq(w, a + 1, b)) = b - a
         /\ \A i \in 1..(b - a) : SubSeq(w, a + 1, b)[i] = w[a + i]
BY SubSeqProperties DEF ByteString

LEMMA SameBytes ==
  ASSUME NEW s \in ByteString, NEW t \in ByteString, Len(s) = Len(t),
         \A i \in 1..Len(s) : s[i] = t[i]
  PROVE  s = t
BY SeqEqual DEF ByteString

\* A part is the part up to a place and that behind it.
LEMMA PartSplit ==
  ASSUME NEW w \in ByteString, NEW a \in Nat, NEW b \in Nat, NEW c \in Nat,
         a <= b, b <= c, c <= Len(w)
  PROVE  SubSeq(w, a + 1, c) = SubSeq(w, a + 1, b) \o SubSeq(w, b + 1, c)
<1>1. PICK s : s = SubSeq(w, a + 1, c)
  OBVIOUS
<1>2. PICK t : t = SubSeq(w, a + 1, b)
  OBVIOUS
<1>3. PICK u : u = SubSeq(w, b + 1, c)
  OBVIOUS
<1>0. Len(w) \in Nat /\ a <= c /\ b <= Len(w)
  BY DEF ByteString
<1>4. s \in ByteString /\ Len(s) = c - a /\ \A i \in 1..(c - a) : s[i] = w[a + i]
  BY <1>0, <1>1, PartBytes
<1>5. t \in ByteString /\ Len(t) = b - a /\ \A i \in 1..(b - a) : t[i] = w[a + i]
  BY <1>0, <1>2, PartBytes
<1>6. u \in ByteString /\ Len(u) = c - b /\ \A i \in 1..(c - b) : u[i] = w[b + i]
  BY <1>0, <1>3, PartBytes
<1>7. PICK v : v = t \o u
  OBVIOUS
<1>8. PICK m \in Nat : m = b - a
  OBVIOUS
<1>9. v \in ByteString /\ Len(v) = c - a
  <2>1. t \o u \in ByteString /\ Len(t \o u) = Len(t) + Len(u)
    BY <1>5, <1>6, Concat
  <2> QED BY <1>5, <1>6, <1>7, <2>1
<1>10. /\ \A i \in Nat : 1 <= i /\ i <= m => v[i] = t[i]
       /\ \A i \in Nat : 1 <= i /\ i <= Len(u) => v[m + i] = u[i]
  BY <1>5, <1>6, <1>7, <1>8, ConcatAt
<1>11. ASSUME NEW i \in 1..(c - a) PROVE s[i] = v[i]
  <2>1. CASE i <= m
    <3>1. v[i] = t[i] /\ t[i] = w[a + i]
      BY <1>5, <1>8, <1>10, <2>1
    <3> QED BY <1>4, <3>1
  <2>2. CASE i > m
    <3>1. PICK j \in Nat : j = i - m /\ 1 <= j /\ j <= c - b /\ i = m + j
      BY <1>8, <2>2
    <3>2. v[m + j] = u[j] /\ u[j] = w[b + j]
      BY <1>6, <1>10, <3>1
    <3>3. s[i] = w[a + i] /\ a + i = b + j
      BY <1>4, <1>8, <3>1
    <3> QED BY <3>1, <3>2, <3>3
  <2> QED BY <1>8, <2>1, <2>2
<1>12. s = v
  BY <1>4, <1>9, <1>11, SameBytes
<1> QED BY <1>1, <1>2, <1>3, <1>7, <1>12

\* The beginning of a part.
LEMMA PartOfPart ==
  ASSUME NEW w \in ByteString, NEW a \in Nat, NEW b \in Nat, NEW c \in Nat,
         a <= b, b <= c, c <= Len(w)
  PROVE  SubSeq(w, a + 1, b) = SubSeq(SubSeq(w, a + 1, c), 1, b - a)
<1>0. Len(w) \in Nat /\ a <= c /\ b <= Len(w)
  BY DEF ByteString
<1>1. PICK s : s = SubSeq(w, a + 1, c)
  OBVIOUS
<1>2. PICK t : t = SubSeq(w, a + 1, b)
  OBVIOUS
<1>3. PICK m \in Nat : m = b - a
  OBVIOUS
<1>4. s \in ByteString /\ Len(s) = c - a /\ \A i \in 1..(c - a) : s[i] = w[a + i]
  BY <1>0, <1>1, PartBytes
<1>5. t \in ByteString /\ Len(t) = m /\ \A i \in 1..m : t[i] = w[a + i]
  BY <1>0, <1>2, <1>3, PartBytes
<1>6. PICK u : u = SubSeq(s, 1, m)
  OBVIOUS
<1>7. u \in ByteString /\ Len(u) = m /\ \A i \in 1..m : u[i] = s[i]
  <2>1. m <= Len(s)
    BY <1>3, <1>4
  <2> QED BY <1>4, <1>6, <2>1, SubSeqProperties DEF ByteString
<1>8. \A i \in 1..m : t[i] = u[i]
  BY <1>3, <1>4, <1>5, <1>7
<1>9. t = u
  BY <1>5, <1>7, <1>8, SameBytes
<1> QED BY <1>1, <1>2, <1>3, <1>6, <1>9

\* What has been written stays what it is.
LEMMA PartKept ==
  ASSUME NEW w \in ByteString, NEW v \in ByteString, NEW m \in Nat, m = Len(w), m <= Len(v),
         \A i \in Nat : 1 <= i /\ i <= m => v[i] = w[i],
         NEW a \in Nat, NEW b \in Nat, a <= b, b <= m
  PROVE  SubSeq(v, a + 1, b) = SubSeq(w, a + 1, b)
<1>1. PICK n \in Nat : n = Len(v)
  BY DEF ByteString
<1>2. PICK s : s = SubSeq(v, a + 1, b)
  OBVIOUS
<1>3. PICK t : t = SubSeq(w, a + 1, b)
  OBVIOUS
<1>4. s \in ByteString /\ Len(s) = b - a /\ \A i \in 1..(b - a) : s[i] = v[a + i]
  BY <1>1, <1>2, PartBytes
<1>5. t \in ByteString /\ Len(t) = b - a /\ \A i \in 1..(b - a) : t[i] = w[a + i]
  BY <1>3, PartBytes
<1>8. ASSUME NEW i \in 1..(b - a) PROVE s[i] = t[i]
  <2>1. a + i \in Nat /\ 1 <= a + i /\ a + i <= m
    OBVIOUS
  <2>2. v[a + i] = w[a + i]
    BY <2>1
  <2> QED BY <1>4, <1>5, <2>2
<1>9. s = t
  BY <1>4, <1>5, <1>8, SameBytes
<1> QED BY <1>2, <1>3, <1>9

LEMMA LastPart ==
  ASSUME NEW e \in ByteString, NEW v \in ByteString, NEW m \in Nat, NEW n \in Nat,
         n = Len(v), n = m + Len(e),
         \A i \in Nat : 1 <= i /\ i <= Len(e) => v[m + i] = e[i]
  PROVE  SubSeq(v, m + 1, n) = e
<1>1. Len(e) \in Nat
  BY DEF ByteString
<1>5. m <= n /\ n <= Len(v) /\ Len(e) = n - m
  BY <1>1
<1>6. PICK s : s = SubSeq(v, m + 1, n)
  OBVIOUS
<1>7. s \in ByteString /\ Len(s) = n - m /\ \A i \in 1..(n - m) : s[i] = v[m + i]
  BY <1>5, <1>6, PartBytes
<1>8. \A i \in Nat : 1 <= i /\ i <= n - m => v[m + i] = e[i]
  BY <1>5, Zenon
<1>9. \A i \in 1..(n - m) : s[i] = e[i]
  BY <1>7, <1>8
<1>10. s = e
  BY <1>5, <1>7, <1>9, SameBytes
<1> QED BY <1>6, <1>10

-----------------------------------------------------------------------------
(* How far a reader gets *)

\* A reader that is content has read to a place in the buffer, at lo or behind.
Reaches(r, lo, buf) == r.ok => r.pos \in Nat /\ lo <= r.pos /\ r.pos <= Len(buf)

LEMMA TakeReaches ==
  ASSUME NEW buf \in ByteString, NEW p \in Nat, NEW n \in Int
  PROVE  Reaches(Take(buf, p, n), p + n, buf) /\ (Take(buf, p, n).ok => n >= 0 /\ Take(buf, p, n).pos = p + n)
<1>1. Len(buf) \in Nat
  BY DEF ByteString
<1>2. CASE n < 0 \/ Len(buf) - p < n
  BY <1>2 DEF Take, Remaining, Fail, Reaches
<1>3. CASE ~(n < 0 \/ Len(buf) - p < n)
  <2>1. Take(buf, p, n).ok /\ Take(buf, p, n).pos = p + n
    BY <1>3 DEF Take, Remaining, Got
  <2> QED BY <1>1, <1>3, <2>1 DEF Reaches
<1> QED BY <1>2, <1>3

LEMMA VarintReaches ==
  ASSUME NEW buf \in ByteString, NEW p \in Nat
  PROVE  /\ Reaches(GetVarint(buf, p), p + 1, buf)
         /\ GetVarint(buf, p).ok => GetVarint(buf, p).val \in Int
<1> DEFINE ends == {n \in 1..5 : n <= Remaining(buf, p) /\ buf[p + n] < 128}
           size == Min(ends)
           part(i) == IF i <= size THEN Septet(buf[p + i], i) ELSE 0
<1>1. Len(buf) \in Nat
  BY DEF ByteString
<1>2. CASE ends = {}
  BY <1>2 DEF GetVarint, Fail, Reaches
<1>3. CASE ends # {}
  <2>1. GetVarint(buf, p) = Got(part(1) + part(2) + part(3) + part(4) + part(5), p + size)
    BY <1>3 DEF GetVarint
  <2>2. \E m \in ends : \A k \in ends : m <= k
    <3>1. \A k \in ends : k \in 1..5
      OBVIOUS
    <3> HIDE DEF ends
    <3>2. 1 \in ends \/ 2 \in ends \/ 3 \in ends \/ 4 \in ends \/ 5 \in ends
      BY <1>3, <3>1
    <3> QED BY <3>1, <3>2
  <2>3. size \in ends
    BY <2>2 DEF Min
  <2>4. size \in 1..5 /\ size <= Len(buf) - p
    BY <2>3 DEF Remaining
  <2> HIDE DEF size, ends
  <2>5. \A i \in 1..5 : part(i) \in Int
    <3> SUFFICES ASSUME NEW i \in 1..5, i <= size PROVE Septet(buf[p + i], i) \in Int
      OBVIOUS
    <3>1. p + i \in Nat /\ p + i >= 1 /\ p + i <= Len(buf)
      BY <1>1, <2>4
    <3>2. PICK b \in Byte : b = buf[p + i]
      BY <3>1, BytesAt
    <3>3. b \in Nat
      BY DEF Byte
    <3>4. i < 5 => <<1, 128, 16384, 2097152>>[i] \in Nat
      OBVIOUS
    <3>5. Septet(b, i) \in Int
      BY <3>3, <3>4 DEF Septet
    <3> QED BY <3>2, <3>5
  <2>6. part(1) \in Int /\ part(2) \in Int /\ part(3) \in Int /\ part(4) \in Int /\ part(5) \in Int
    BY <2>5
  <2> HIDE DEF part
  <2>7. part(1) + part(2) + part(3) + part(4) + part(5) \in Int
    BY <2>6
  <2>8. GetVarint(buf, p).ok /\ GetVarint(buf, p).pos = p + size /\ GetVarint(buf, p).val \in Int
    BY <2>1, <2>7 DEF Got
  <2>9. p + size \in Nat /\ p + 1 <= p + size /\ p + size <= Len(buf)
    BY <1>1, <2>4
  <2> QED BY <2>8, <2>9 DEF Reaches
<1> QED BY <1>2, <1>3

LEMMA U16At ==
  ASSUME NEW buf \in ByteString, NEW p \in Nat, p + 2 <= Len(buf)
  PROVE  U16(buf, p) \in Nat
<1>1. buf[p + 1] \in Byte /\ buf[p + 2] \in Byte
  <2>1. p + 1 \in Nat /\ p + 1 >= 1 /\ p + 1 <= Len(buf) /\ p + 2 \in Nat /\ p + 2 >= 1
    BY DEF ByteString
  <2> QED BY <2>1, BytesAt
<1>2. Byte \subseteq Nat
  BY DEF Byte
<1>3. buf[p + 1] \in Nat /\ buf[p + 2] \in Nat
  BY <1>1, <1>2
<1> QED BY <1>3 DEF U16

LEMMA Utf16Reaches ==
  ASSUME NEW buf \in ByteString, NEW p \in Nat
  PROVE  Reaches(GetUtf16String(buf, p), p + 2, buf)
<1> SUFFICES ASSUME GetUtf16String(buf, p).ok PROVE Reaches(GetUtf16String(buf, p), p + 2, buf)
  BY DEF Reaches
<1>1. Len(buf) \in Nat /\ 2 \in Int
  BY DEF ByteString
<1>2. Take(buf, p, 2).ok
  BY DEF GetUtf16String, Then
<1>3. Take(buf, p, 2).pos = p + 2 /\ p + 2 <= Len(buf)
  BY <1>1, <1>2, TakeReaches DEF Reaches
<1>4. PICK size \in Nat : size = U16(buf, p)
  BY <1>3, U16At
<1>5. ~(Remaining(buf, p + 2) <= 2 * size) /\ GetUtf16String(buf, p).pos = (p + 2) + 2 * size
  BY <1>2, <1>3, <1>4 DEF GetUtf16String, Then, Fail, Got
<1>6. (p + 2) + 2 * size \in Nat /\ p + 2 <= (p + 2) + 2 * size /\ (p + 2) + 2 * size <= Len(buf)
  BY <1>1, <1>5 DEF Remaining
<1> QED BY <1>5, <1>6 DEF Reaches

LEMMA Utf8Reaches ==
  ASSUME NEW buf \in ByteString, NEW p \in Nat
  PROVE  Reaches(GetUtf8String(buf, p), p + 1, buf)
<1> SUFFICES ASSUME GetUtf8String(buf, p).ok PROVE Reaches(GetUtf8String(buf, p), p + 1, buf)
  BY DEF Reaches
<1>1. Len(buf) \in Nat
  BY DEF ByteString
<1>2. GetVarint(buf, p).ok
  BY DEF GetUtf8String, Then
<1>3. PICK q \in Nat, n \in Int : /\ q = GetVarint(buf, p).pos /\ n = GetVarint(buf, p).val
                                  /\ p + 1 <= q /\ q <= Len(buf)
  BY <1>2, VarintReaches DEF Reaches
<1>4. Take(buf, q, n).ok /\ GetUtf8String(buf, p) = Take(buf, q, n)
  BY <1>2, <1>3 DEF GetUtf8String, Then, Fail
<1>5. Reaches(Take(buf, q, n), q + n, buf) /\ n >= 0
  BY <1>4, TakeReaches
<1>6. Take(buf, q, n).pos \in Nat /\ q + n <= Take(buf, q, n).pos /\ Take(buf, q, n).pos <= Len(buf)
  BY <1>4, <1>5 DEF Reaches
<1>7. p + 1 <= Take(buf, q, n).pos
  BY <1>3, <1>5, <1>6
<1> QED BY <1>4, <1>6, <1>7 DEF Reaches

-----------------------------------------------------------------------------
(* What is handed out *)

\* A packet handed out is of a known kind, and is made of bytes of the buffer:
\* of at least one.
Handed(r, buf) ==
  r.ok => /\ r.val.type \in DOMAIN Variant \cup {"MCHello", "MCData"}
          /\ r.pos \in Nat /\ 1 <= r.pos /\ r.pos <= Len(buf)

LEMMA HelloHanded ==
  ASSUME NEW buf, NEW p \in Nat, 1 <= p, p <= Len(buf), NEW v, NEW h, NEW q
  PROVE  Handed(MCHello(buf, p, v, h, q), buf)
<1>1. /\ MCHello(buf, p, v, h, q).pos = p
      /\ MCHello(buf, p, v, h, q).val.type = "MCHello"
  BY DEF MCHello, Got
<1> QED BY <1>1 DEF Handed

LEMMA OldPingHanded ==
  ASSUME NEW buf \in ByteString
  PROVE  Handed(OldPingPkg(buf), buf)
<1> SUFFICES ASSUME OldPingPkg(buf).ok PROVE Handed(OldPingPkg(buf), buf)
  BY DEF Handed
<1>1. 4 \in Int /\ 30 \in Nat
  OBVIOUS
<1>2. GetUtf16String(buf, 30).ok
  BY DEF OldPingPkg, Then, Fail
<1>3. PICK p \in Nat : p = GetUtf16String(buf, 30).pos /\ 30 + 2 <= p
  BY <1>1, <1>2, Utf16Reaches DEF Reaches
<1>4. Take(buf, p, 4).ok
  BY <1>2, <1>3 DEF OldPingPkg, Then, Fail
<1>5. PICK q \in Nat : q = Take(buf, p, 4).pos /\ p + 4 <= q /\ q <= Len(buf)
  BY <1>1, <1>4, TakeReaches DEF Reaches
<1>6. \E v, h, port : OldPingPkg(buf) = MCHello(buf, q, v, h, port)
  BY <1>2, <1>3, <1>4, <1>5 DEF OldPingPkg, Then, Fail
<1>7. 1 <= q
  BY <1>3, <1>5
<1> QED BY <1>5, <1>6, <1>7, HelloHanded

LEMMA OldConnectHanded ==
  ASSUME NEW buf \in ByteString
  PROVE  Handed(OldConnectPkg(buf), buf)
<1> SUFFICES ASSUME OldConnectPkg(buf).ok PROVE Handed(OldConnectPkg(buf), buf)
  BY DEF Handed
<1>1. 4 \in Int /\ 1 \in Int /\ 1 \in Nat
  OBVIOUS
<1>2. Take(buf, 1, 1).ok
  BY DEF OldConnectPkg, Then, Fail
<1>3. PICK p \in Nat : p = Take(buf, 1, 1).pos /\ 1 + 1 <= p
  BY <1>1, <1>2, TakeReaches DEF Reaches
<1>4. GetUtf16String(buf, p).ok
  BY <1>2, <1>3 DEF OldConnectPkg, Then, Fail
<1>5. PICK q \in Nat : q = GetUtf16String(buf, p).pos /\ p + 2 <= q
  BY <1>4, Utf16Reaches DEF Reaches
<1>6. GetUtf16String(buf, q).ok
  BY <1>2, <1>3, <1>4, <1>5 DEF OldConnectPkg, Then, Fail
<1>7. PICK r \in Nat : r = GetUtf16String(buf, q).pos /\ q + 2 <= r
  BY <1>6, Utf16Reaches DEF Reaches
<1>8. Take(buf, r, 4).ok
  BY <1>2, <1>3, <1>4, <1>5, <1>6, <1>7 DEF OldConnectPkg, Then, Fail
<1>9. PICK s \in Nat : s = Take(buf, r, 4).pos /\ r + 4 <= s /\ s <= Len(buf)
  BY <1>1, <1>8, TakeReaches DEF Reaches
<1>10. \E v, h, port : OldConnectPkg(buf) = MCHello(buf, s, v, h, port)
  BY <1>2, <1>3, <1>4, <1>5, <1>6, <1>7, <1>8, <1>9 DEF OldConnectPkg, Then, Fail
<1>11. 1 <= s
  BY <1>3, <1>5, <1>7, <1>9
<1> QED BY <1>9, <1>10, <1>11, HelloHanded

LEMMA NewHanded ==
  ASSUME NEW buf \in ByteString
  PROVE  Handed(NewPkg(buf), buf)
<1> SUFFICES ASSUME NewPkg(buf).ok PROVE Handed(NewPkg(buf), buf)
  BY DEF Handed
<1>1. 0 \in Nat /\ 2 \in Int
  OBVIOUS
<1>2. GetVarint(buf, 0).ok
  BY DEF NewPkg, Then
<1>3. PICK p \in Nat : p = GetVarint(buf, 0).pos /\ 0 + 1 <= p
  BY <1>1, <1>2, VarintReaches DEF Reaches
<1>4. GetVarint(buf, p).ok
  BY <1>2, <1>3 DEF NewPkg, Then
<1>5. PICK q \in Nat : q = GetVarint(buf, p).pos /\ p + 1 <= q
  BY <1>4, VarintReaches DEF Reaches
<1>6. GetVarint(buf, q).ok
  BY <1>2, <1>3, <1>4, <1>5 DEF NewPkg, Then, Fail
<1>7. PICK r \in Nat : r = GetVarint(buf, q).pos /\ q + 1 <= r
  BY <1>6, VarintReaches DEF Reaches
<1>8. GetUtf8String(buf, r).ok
  BY <1>2, <1>3, <1>4, <1>5, <1>6, <1>7 DEF NewPkg, Then, Fail
<1>9. PICK s \in Nat : s = GetUtf8String(buf, r).pos /\ r + 1 <= s
  BY <1>8, Utf8Reaches DEF Reaches
<1>10. Take(buf, s, 2).ok
  BY <1>2, <1>3, <1>4, <1>5, <1>6, <1>7, <1>8, <1>9 DEF NewPkg, Then, Fail
<1>11. PICK t \in Nat : t = Take(buf, s, 2).pos /\ s + 2 <= t /\ t <= Len(buf)
  BY <1>1, <1>10, TakeReaches DEF Reaches
<1>12. \E v, h, port : NewPkg(buf) = MCHello(buf, t, v, h, port)
  BY <1>2, <1>3, <1>4, <1>5, <1>6, <1>7, <1>8, <1>9, <1>10, <1>11 DEF NewPkg, Then, Fail
<1>13. 1 <= t
  BY <1>3, <1>5, <1>7, <1>9, <1>11
<1> QED BY <1>11, <1>12, <1>13, HelloHanded

LEMMA MinecraftHelloHanded ==
  ASSUME NEW buf \in ByteString
  PROVE  Handed(MinecraftHello(buf), buf)
<1>1. \A r, s : OrElse(r, s) = r \/ OrElse(r, s) = s
  BY DEF OrElse
<1>2. MinecraftHello(buf) \in {OldPingPkg(buf), OldConnectPkg(buf), NewPkg(buf)}
  BY <1>1 DEF MinecraftHello
<1> QED BY <1>2, OldPingHanded, OldConnectHanded, NewHanded

LEMMA ReadDataType ==
  ASSUME NEW body, ReadData(body).ok
  PROVE  ReadData(body).val.type = "ProxyData"
<1>1. \E n, d, p : ReadData(body) = Got([type |-> "ProxyData", client_id |-> n, data |-> d], p)
  BY DEF ReadData, Then
<1> QED BY <1>1 DEF Got

LEMMA ReadHelloType ==
  ASSUME NEW body, ReadHello(body).ok
  PROVE  ReadHello(body).val.type = "ProxyHello"
<1>1. \E v, h, k, p :
         ReadHello(body) = Got([type |-> "ProxyHello", version |-> v, hostname |-> h, key |-> k], p)
  BY DEF ReadHello, Then, Fail
<1> QED BY <1>1 DEF Got

LEMMA ReadFieldsType ==
  ASSUME NEW t \in DOMAIN Variant, NEW body, ReadFields(t, body).ok
  PROVE  ReadFields(t, body).val.type = t
<1>1. CASE t \in U16Packet
  <2>1. \E n, p : ReadFields(t, body) = Got([type |-> t, n |-> n], p)
    BY <1>1, ReadFieldsOf
  <2> QED BY <2>1 DEF Got
<1>2. CASE t \in AuthPacket
  <2>1. \E b, p : ReadFields(t, body) = Got([type |-> t, bytes |-> b], p)
    BY <1>2, ReadFieldsOf, ZenonT(30)
  <2> QED BY <2>1 DEF Got
<1>3. CASE t = "ProxyError"
  <2>1. TakeString(body, 4).ok /\ ReadFields(t, body) =
          Got([type |-> t, text |-> TakeString(body, 4).val], TakeString(body, 4).pos)
    BY <1>3, ReadFieldsOf
  <2> QED BY <2>1 DEF Got
<1>4. CASE t = "ProxyData"
  <2>1. ReadFields(t, body) = ReadData(body)
    BY <1>4, ReadFieldsOf
  <2> QED BY <1>4, <2>1, ReadDataType
<1>5. CASE t = "ProxyHello"
  <2>1. ReadFields(t, body) = ReadHello(body)
    BY <1>5, ReadFieldsOf
  <2> QED BY <1>5, <2>1, ReadHelloType
<1> QED BY <1>1, <1>2, <1>3, <1>4, <1>5, VariantNumbers

LEMMA DeserializeType ==
  ASSUME NEW body, Deserialize(body).ok
  PROVE  Deserialize(body).val.type \in DOMAIN Variant
<1>1. PICK T : T = Take(body, 0, 4)
  OBVIOUS
<1> DEFINE types == {t \in DOMAIN Variant : LittleEndian(Variant[t], 4) = T.val}
           t == CHOOSE u \in types : TRUE
<1>2. T.ok /\ types # {} /\ Deserialize(body) = ReadFields(t, body)
  BY <1>1 DEF Deserialize, Then, Fail
<1>3. t \in types
  BY <1>2
<1>4. t \in DOMAIN Variant
  BY <1>3
<1> HIDE DEF t
<1> QED BY <1>2, <1>4, ReadFieldsType

LEMMA ProxyHanded ==
  ASSUME NEW buf \in ByteString
  PROVE  Handed(DecodeProxy(buf), buf)
<1> SUFFICES ASSUME DecodeProxy(buf).ok PROVE Handed(DecodeProxy(buf), buf)
  BY DEF Handed
<1>1. 0 \in Nat /\ 2 \in Int /\ 2 \in Nat
  OBVIOUS
<1>2. Take(buf, 0, 2).ok
  BY DEF DecodeProxy, Then
<1>3. 0 + 2 <= Len(buf)
  <2>1. Reaches(Take(buf, 0, 2), 0 + 2, buf)
    BY <1>1, TakeReaches
  <2>2. Len(buf) \in Nat
    BY DEF ByteString
  <2> QED BY <1>2, <2>1, <2>2 DEF Reaches
<1>4. PICK n \in Nat : n = U16(buf, 0)
  BY <1>1, <1>3, U16At
<1>5. Take(buf, 2, n).ok
  BY <1>2, <1>4 DEF DecodeProxy, Then
<1>6. PICK q \in Nat : q = Take(buf, 2, n).pos /\ 2 + n <= q /\ q <= Len(buf)
  BY <1>1, <1>5, TakeReaches DEF Reaches
<1>7. PICK body : body = Take(buf, 2, n).val
  OBVIOUS
<1>8. Deserialize(body).ok /\ DecodeProxy(buf) = Got(Deserialize(body).val, q)
  BY <1>2, <1>4, <1>5, <1>6, <1>7 DEF DecodeProxy, Then, Fail
<1>9. DecodeProxy(buf).val.type \in DOMAIN Variant /\ DecodeProxy(buf).pos = q
  BY <1>8, DeserializeType DEF Got
<1>10. 1 <= q
  BY <1>6
<1> QED BY <1>6, <1>9, <1>10 DEF Handed

-----------------------------------------------------------------------------
(* A hello read from a buffer that is longer or shorter *)

\* Two buffers that are the same as far as both go.
Alike(buf, e) ==
  /\ buf \in ByteString /\ e \in ByteString
  /\ \A i \in Nat : 1 <= i /\ i <= Len(buf) /\ i <= Len(e) => buf[i] = e[i]

\* A reader content with e answers the same to a buffer of n bytes alike, if
\* that has all the bytes needed, and one of the failures if it has not.
AsFar(r, s, need, n, failures) == r.ok => IF need <= n THEN s = r ELSE s \in failures

TooSmall == {Fail("TooSmall")}
Waits == {Fail("TooSmall"), Fail("NotValid")}

LEMMA AlikePart ==
  ASSUME NEW buf, NEW e, Alike(buf, e), NEW p \in Nat, NEW q \in Nat,
         p <= q, q <= Len(buf), q <= Len(e)
  PROVE  SubSeq(buf, p + 1, q) = SubSeq(e, p + 1, q)
<1>1. buf \in ByteString /\ e \in ByteString
  BY DEF Alike
<1>2. PICK s : s = SubSeq(buf, p + 1, q)
  OBVIOUS
<1>3. PICK t : t = SubSeq(e, p + 1, q)
  OBVIOUS
<1>4. s \in ByteString /\ Len(s) = q - p /\ \A i \in 1..(q - p) : s[i] = buf[p + i]
  BY <1>1, <1>2, PartBytes
<1>5. t \in ByteString /\ Len(t) = q - p /\ \A i \in 1..(q - p) : t[i] = e[p + i]
  BY <1>1, <1>3, PartBytes
<1>6. ASSUME NEW i \in 1..(q - p) PROVE s[i] = t[i]
  <2>1. Len(buf) \in Nat /\ Len(e) \in Nat
    BY <1>1 DEF ByteString
  <2>2. p + i \in Nat /\ 1 <= p + i /\ p + i <= Len(buf) /\ p + i <= Len(e)
    BY <2>1
  <2>3. buf[p + i] = e[p + i]
    BY <2>2 DEF Alike
  <2> QED BY <1>4, <1>5, <2>3
<1>7. s = t
  BY <1>4, <1>5, <1>6, SameBytes
<1> QED BY <1>2, <1>3, <1>7

LEMMA TakeAlike ==
  ASSUME NEW buf, NEW e, Alike(buf, e), NEW p \in Nat, NEW n \in Int
  PROVE  AsFar(Take(e, p, n), Take(buf, p, n), Take(e, p, n).pos, Len(buf), TooSmall)
<1> SUFFICES ASSUME Take(e, p, n).ok
             PROVE  IF Take(e, p, n).pos <= Len(buf) THEN Take(buf, p, n) = Take(e, p, n)
                                                     ELSE Take(buf, p, n) = Fail("TooSmall")
  BY DEF AsFar, TooSmall
<1>1. buf \in ByteString /\ e \in ByteString /\ Len(buf) \in Nat /\ Len(e) \in Nat
  BY DEF Alike, ByteString
<1>2. ~(n < 0 \/ Remaining(e, p) < n)
  BY DEF Take, Fail
<1>3. n \in Nat /\ p + n <= Len(e) /\ p + n \in Nat /\ p <= p + n
  BY <1>1, <1>2 DEF Remaining
<1>4. Take(e, p, n) = Got(SubSeq(e, p + 1, p + n), p + n) /\ Take(e, p, n).pos = p + n
  BY <1>2 DEF Take, Got, Slice
<1>5. CASE p + n <= Len(buf)
  <2>1. Take(buf, p, n) = Got(SubSeq(buf, p + 1, p + n), p + n)
    BY <1>1, <1>3, <1>5, TakeAt
  <2>2. SubSeq(buf, p + 1, p + n) = SubSeq(e, p + 1, p + n)
    <3>1. PICK q \in Nat : q = p + n /\ p <= q /\ q <= Len(buf) /\ q <= Len(e)
      BY <1>3, <1>5
    <3>2. SubSeq(buf, p + 1, q) = SubSeq(e, p + 1, q)
      BY <3>1, AlikePart
    <3> QED BY <3>1, <3>2
  <2> QED BY <1>4, <1>5, <2>1, <2>2
<1>6. CASE ~(p + n <= Len(buf))
  <2>1. Remaining(buf, p) < n
    BY <1>1, <1>3, <1>6 DEF Remaining
  <2> QED BY <1>4, <1>6, <2>1 DEF Take
<1> QED BY <1>5, <1>6

LEMMA LeastOf ==
  ASSUME NEW S, NEW m \in Nat, m \in S, \A k \in S : k \in Nat /\ m <= k
  PROVE  Min(S) = m
<1>1. \A x \in S : (\A y \in S : x <= y) => x = m
  OBVIOUS
<1> QED BY <1>1 DEF Min

LEMMA VarintAlike ==
  ASSUME NEW buf, NEW e, Alike(buf, e), NEW p \in Nat
  PROVE  AsFar(GetVarint(e, p), GetVarint(buf, p), GetVarint(e, p).pos, Len(buf), Waits)
<1> SUFFICES ASSUME GetVarint(e, p).ok
             PROVE  IF GetVarint(e, p).pos <= Len(buf) THEN GetVarint(buf, p) = GetVarint(e, p)
                                                       ELSE GetVarint(buf, p) = Fail("NotValid")
  BY DEF AsFar, Waits
<1> DEFINE ends(b) == {n \in 1..5 : n <= Remaining(b, p) /\ b[p + n] < 128}
           part(b, size, i) == IF i <= size THEN Septet(b[p + i], i) ELSE 0
           sum(b, size) == part(b, size, 1) + part(b, size, 2) + part(b, size, 3)
                             + part(b, size, 4) + part(b, size, 5)
<1>1. Len(buf) \in Nat /\ Len(e) \in Nat
  BY DEF Alike, ByteString
<1>2. \A b : GetVarint(b, p) = IF ends(b) = {} THEN Fail("NotValid")
                               ELSE Got(sum(b, Min(ends(b))), p + Min(ends(b)))
  BY DEF GetVarint
<1>3. ends(e) # {}
  <2> HIDE DEF ends, sum
  <2> SUFFICES ASSUME ends(e) = {} PROVE FALSE
    OBVIOUS
  <2>1. GetVarint(e, p) = Fail("NotValid")
    BY <1>2
  <2> QED BY <2>1 DEF Fail
<1>4. PICK m \in ends(e) : \A k \in ends(e) : m <= k
  <2>1. \A k \in ends(e) : k \in 1..5
    OBVIOUS
  <2> HIDE DEF ends
  <2>2. 1 \in ends(e) \/ 2 \in ends(e) \/ 3 \in ends(e) \/ 4 \in ends(e) \/ 5 \in ends(e)
    BY <1>3, <2>1
  <2> QED BY <2>1, <2>2
<1>5. m \in Nat /\ 1 <= m /\ m <= 5 /\ m <= Len(e) - p
  BY <1>4 DEF Remaining
<1>6. \A k \in ends(e) : k \in Nat
  OBVIOUS
<1>7. \A k \in ends(buf) : k \in Nat /\ 1 <= k /\ k <= Len(buf) - p /\ buf[p + k] < 128 /\ k \in 1..5
  BY DEF Remaining
<1>8. ASSUME NEW k \in ends(buf), k <= Len(e) - p PROVE k \in ends(e)
  <2>1. p + k \in Nat /\ 1 <= p + k /\ p + k <= Len(buf) /\ p + k <= Len(e)
    BY <1>1, <1>7, <1>8
  <2>2. buf[p + k] = e[p + k]
    BY <2>1 DEF Alike
  <2>3. k \in 1..5 /\ k <= Remaining(e, p) /\ e[p + k] < 128
    BY <1>7, <1>8, <2>2 DEF Remaining
  <2> QED BY <2>3
<1>9. \A k \in ends(buf) : m <= k
  <2> SUFFICES ASSUME NEW k \in ends(buf), k < m PROVE FALSE
    BY <1>5, <1>7
  <2>1. k <= Len(e) - p /\ k \in Nat
    BY <1>1, <1>5, <1>7
  <2>2. k \in ends(e)
    BY <1>8, <2>1
  <2> QED BY <1>4, <1>5, <2>1, <2>2
<1>10. Min(ends(e)) = m
  <2> HIDE DEF ends
  <2> QED BY <1>4, <1>5, <1>6, LeastOf
<1>11. GetVarint(e, p) = Got(sum(e, m), p + m) /\ GetVarint(e, p).pos = p + m
  <2> HIDE DEF ends, sum
  <2> QED BY <1>2, <1>3, <1>10 DEF Got
<1>12. CASE p + m <= Len(buf)
  <2>1. \A i \in Nat : 1 <= i /\ i <= m => buf[p + i] = e[p + i]
    <3> SUFFICES ASSUME NEW i \in Nat, 1 <= i, i <= m PROVE buf[p + i] = e[p + i]
      OBVIOUS
    <3>1. p + i \in Nat /\ 1 <= p + i /\ p + i <= Len(buf) /\ p + i <= Len(e)
      BY <1>1, <1>5, <1>12
    <3> QED BY <3>1 DEF Alike
  <2>2. m \in ends(buf)
    <3>1. m \in 1..5 /\ e[p + m] < 128
      BY <1>4
    <3>2. buf[p + m] < 128
      BY <1>5, <2>1, <3>1
    <3>3. m <= Remaining(buf, p)
      BY <1>1, <1>5, <1>12 DEF Remaining
    <3> QED BY <3>1, <3>2, <3>3
  <2>3. Min(ends(buf)) = m
    <3> HIDE DEF ends
    <3> QED BY <1>5, <1>7, <1>9, <2>2, LeastOf
  <2>4. \A i \in 1..5 : part(buf, m, i) = part(e, m, i)
    BY <2>1
  <2>5. sum(buf, m) = sum(e, m)
    <3> HIDE DEF part
    <3> QED BY <2>4
  <2>6. GetVarint(buf, p) = Got(sum(buf, m), p + m)
    <3> HIDE DEF ends, sum
    <3> QED BY <1>2, <2>2, <2>3
  <2> HIDE DEF sum
  <2> QED BY <1>11, <1>12, <2>5, <2>6
<1>13. CASE ~(p + m <= Len(buf))
  <2>1. ends(buf) = {}
    <3> SUFFICES ASSUME NEW k \in ends(buf) PROVE FALSE
      OBVIOUS
    <3>1. k \in Nat /\ k <= Len(buf) - p /\ m <= k
      BY <1>7, <1>9
    <3> QED BY <1>1, <1>5, <1>13, <3>1
  <2>2. GetVarint(buf, p) = Fail("NotValid")
    <3> HIDE DEF ends, sum
    <3> QED BY <1>2, <2>1
  <2> QED BY <1>11, <1>13, <2>2
<1> QED BY <1>12, <1>13

LEMMA Utf8Alike ==
  ASSUME NEW buf, NEW e, Alike(buf, e), NEW p \in Nat
  PROVE  AsFar(GetUtf8String(e, p), GetUtf8String(buf, p), GetUtf8String(e, p).pos, Len(buf), Waits)
<1> SUFFICES ASSUME GetUtf8String(e, p).ok
             PROVE  IF GetUtf8String(e, p).pos <= Len(buf)
                      THEN GetUtf8String(buf, p) = GetUtf8String(e, p)
                      ELSE GetUtf8String(buf, p) \in Waits
  BY DEF AsFar
<1>0. e \in ByteString /\ Len(e) \in Nat /\ Len(buf) \in Nat
  BY DEF Alike, ByteString
<1>1. GetVarint(e, p).ok
  BY DEF GetUtf8String, Then
<1>2. PICK V : V = GetVarint(e, p)
  OBVIOUS
<1>3. PICK q \in Nat, n \in Int : q = V.pos /\ n = V.val /\ V.ok
  BY <1>0, <1>1, <1>2, VarintReaches DEF Reaches
<1>4. PICK T : T = Take(e, q, n) /\ T.ok /\ Utf8(T.val) /\ GetUtf8String(e, p) = T
  BY <1>1, <1>2, <1>3 DEF GetUtf8String, Then, Fail
<1>5. T.pos = q + n /\ n >= 0
  BY <1>0, <1>3, <1>4, TakeReaches
<1>6. AsFar(V, GetVarint(buf, p), q, Len(buf), Waits) /\ AsFar(T, Take(buf, q, n), T.pos, Len(buf), TooSmall)
  BY <1>2, <1>3, <1>4, VarintAlike, TakeAlike
<1>7. CASE q <= Len(buf)
  <2>1. GetVarint(buf, p) = V
    BY <1>3, <1>6, <1>7 DEF AsFar
  <2>2. GetUtf8String(buf, p) = IF Take(buf, q, n).ok
                                  THEN IF Utf8(Take(buf, q, n).val) THEN Take(buf, q, n) ELSE Fail("NotValidStringEncoding")
                                  ELSE Take(buf, q, n)
    BY <1>3, <2>1 DEF GetUtf8String, Then
  <2>3. CASE T.pos <= Len(buf)
    BY <1>4, <1>6, <2>2, <2>3 DEF AsFar
  <2>4. CASE ~(T.pos <= Len(buf))
    <3>1. Take(buf, q, n) \in Waits /\ ~Take(buf, q, n).ok
      BY <1>4, <1>6, <2>4 DEF AsFar, TooSmall, Waits, Fail
    <3> QED BY <1>4, <2>2, <2>4, <3>1
  <2> QED BY <2>3, <2>4
<1>8. CASE ~(q <= Len(buf))
  <2>1. GetVarint(buf, p) \in Waits
    BY <1>3, <1>6, <1>8 DEF AsFar
  <2>2. ~GetVarint(buf, p).ok
    BY <2>1 DEF Waits, Fail
  <2>3. GetUtf8String(buf, p) = GetVarint(buf, p)
    BY <2>2 DEF GetUtf8String, Then
  <2>4. ~(T.pos <= Len(buf))
    BY <1>0, <1>3, <1>5, <1>8
  <2> QED BY <1>4, <2>1, <2>3, <2>4
<1> QED BY <1>7, <1>8

LEMMA U16Alike ==
  ASSUME NEW buf, NEW e, Alike(buf, e), NEW p \in Nat, p + 2 <= Len(buf), p + 2 <= Len(e)
  PROVE  U16(buf, p) = U16(e, p)
<1>1. Len(buf) \in Nat /\ Len(e) \in Nat
  BY DEF Alike, ByteString
<1>2. /\ p + 1 \in Nat /\ 1 <= p + 1 /\ p + 1 <= Len(buf) /\ p + 1 <= Len(e)
      /\ p + 2 \in Nat /\ 1 <= p + 2
  BY <1>1
<1>3. buf[p + 1] = e[p + 1] /\ buf[p + 2] = e[p + 2]
  BY <1>2 DEF Alike
<1> QED BY <1>3 DEF U16

\* The string has to be followed by one byte more.
LEMMA Utf16Alike ==
  ASSUME NEW buf, NEW e, Alike(buf, e), NEW p \in Nat
  PROVE  AsFar(GetUtf16String(e, p), GetUtf16String(buf, p), GetUtf16String(e, p).pos + 1, Len(buf), TooSmall)
<1> SUFFICES ASSUME GetUtf16String(e, p).ok
             PROVE  IF GetUtf16String(e, p).pos + 1 <= Len(buf)
                      THEN GetUtf16String(buf, p) = GetUtf16String(e, p)
                      ELSE GetUtf16String(buf, p) = Fail("TooSmall")
  BY DEF AsFar, TooSmall
<1> DEFINE units(b, size) == [i \in 1..size |-> U16(b, (p + 2) + 2 * (i - 1))]
<1>0. e \in ByteString /\ Len(e) \in Nat /\ Len(buf) \in Nat /\ 2 \in Int
  BY DEF Alike, ByteString
<1>1. Take(e, p, 2).ok
  BY DEF GetUtf16String, Then
<1>2. Take(e, p, 2).pos = p + 2 /\ p + 2 <= Len(e)
  BY <1>0, <1>1, TakeReaches DEF Reaches
<1>3. PICK size \in Nat : size = U16(e, p)
  BY <1>0, <1>2, U16At
<1>4. /\ ~(Remaining(e, p + 2) <= 2 * size) /\ Utf16(units(e, size))
      /\ GetUtf16String(e, p) = Got(units(e, size), (p + 2) + 2 * size)
  BY <1>1, <1>2, <1>3 DEF GetUtf16String, Then, Fail
<1>5. GetUtf16String(e, p).pos = (p + 2) + 2 * size /\ (p + 2) + 2 * size < Len(e)
  BY <1>0, <1>4 DEF Got, Remaining
<1>6. AsFar(Take(e, p, 2), Take(buf, p, 2), p + 2, Len(buf), TooSmall)
  BY <1>0, <1>2, TakeAlike
<1>7. CASE p + 2 <= Len(buf)
  <2>1. Take(buf, p, 2) = Take(e, p, 2)
    BY <1>1, <1>6, <1>7 DEF AsFar
  <2>2. U16(buf, p) = size
    BY <1>2, <1>3, <1>7, U16Alike
  <2>3. GetUtf16String(buf, p) = IF Remaining(buf, p + 2) <= 2 * size THEN Fail("TooSmall")
                                 ELSE IF Utf16(units(buf, size)) THEN Got(units(buf, size), (p + 2) + 2 * size)
                                 ELSE Fail("NotValidStringEncoding")
    BY <1>1, <1>2, <2>1, <2>2 DEF GetUtf16String, Then
  <2>4. CASE (p + 2) + 2 * size + 1 <= Len(buf)
    <3>1. ~(Remaining(buf, p + 2) <= 2 * size)
      BY <1>0, <2>4 DEF Remaining
    <3>2. \A i \in 1..size : U16(buf, (p + 2) + 2 * (i - 1)) = U16(e, (p + 2) + 2 * (i - 1))
      <4> SUFFICES ASSUME NEW i \in 1..size
                   PROVE  U16(buf, (p + 2) + 2 * (i - 1)) = U16(e, (p + 2) + 2 * (i - 1))
        OBVIOUS
      <4>1. PICK j \in Nat : j = (p + 2) + 2 * (i - 1) /\ j + 2 <= Len(buf) /\ j + 2 <= Len(e)
        BY <1>0, <1>5, <2>4
      <4>2. U16(buf, j) = U16(e, j)
        BY <4>1, U16Alike
      <4> QED BY <4>1, <4>2
    <3>3. units(buf, size) = units(e, size)
      BY <3>2
    <3> HIDE DEF units
    <3> QED BY <1>4, <1>5, <2>3, <2>4, <3>1, <3>3
  <2>5. CASE ~((p + 2) + 2 * size + 1 <= Len(buf))
    <3>1. Remaining(buf, p + 2) <= 2 * size
      BY <1>0, <2>5 DEF Remaining
    <3> QED BY <1>5, <2>3, <2>5, <3>1
  <2> QED BY <2>4, <2>5
<1>8. CASE ~(p + 2 <= Len(buf))
  <2>1. Take(buf, p, 2) = Fail("TooSmall")
    BY <1>1, <1>6, <1>8 DEF AsFar, TooSmall
  <2>2. ~Take(buf, p, 2).ok
    BY <2>1 DEF Fail
  <2>3. GetUtf16String(buf, p) = Take(buf, p, 2)
    BY <2>2 DEF GetUtf16String, Then
  <2>4. ~(GetUtf16String(e, p).pos + 1 <= Len(buf))
    BY <1>0, <1>5, <1>8
  <2> QED BY <2>1, <2>3, <2>4
<1> QED BY <1>7, <1>8

LEMMA MatchAlike ==
  ASSUME NEW buf, NEW e, Alike(buf, e), NEW bytes, NEW k \in Nat, k = Len(bytes),
         k <= Len(buf), k <= Len(e)
  PROVE  MatchBytes(buf, 0, bytes) <=> MatchBytes(e, 0, bytes)
<1>1. Len(buf) \in Nat /\ Len(e) \in Nat
  BY DEF Alike, ByteString
<1>2. SubSeq(buf, 0 + 1, k) = SubSeq(e, 0 + 1, k)
  BY AlikePart
<1>3. \A b : MatchBytes(b, 0, bytes) <=> Len(b) - 0 >= k /\ SubSeq(b, 0 + 1, 0 + k) = bytes
  BY DEF MatchBytes, Remaining, Slice
<1> QED BY <1>1, <1>2, <1>3

LEMMA HelloOfAlike ==
  ASSUME NEW buf, NEW e, Alike(buf, e), NEW p \in Nat, p <= Len(buf), p <= Len(e),
         NEW v, NEW h, NEW q
  PROVE  MCHello(buf, p, v, h, q) = MCHello(e, p, v, h, q)
<1>1. SubSeq(buf, 0 + 1, p) = SubSeq(e, 0 + 1, p)
  BY AlikePart
<1> QED BY <1>1 DEF MCHello

LEMMA StartsAlike ==
  ASSUME NEW buf, NEW e, Alike(buf, e)
  PROVE  /\ 2 <= Len(buf) /\ 2 <= Len(e) =>
              (MatchBytes(buf, 0, <<254, 1>>) <=> MatchBytes(e, 0, <<254, 1>>))
         /\ 27 <= Len(buf) /\ 27 <= Len(e) =>
              (MatchBytes(buf, 0, OLD_MINECRAFT_START) <=> MatchBytes(e, 0, OLD_MINECRAFT_START))
         /\ 1 <= Len(buf) /\ 1 <= Len(e) =>
              (MatchBytes(buf, 0, << 2 >>) <=> MatchBytes(e, 0, << 2 >>))
<1>1. 2 = Len(<<254, 1>>) /\ 1 = Len(<< 2 >>) /\ 27 = Len(OLD_MINECRAFT_START)
  BY DEF OLD_MINECRAFT_START
<1>2. 2 \in Nat /\ 27 \in Nat /\ 1 \in Nat
  OBVIOUS
<1> QED BY <1>1, <1>2, MatchAlike, ZenonT(60)

LEMMA OldPingAlike ==
  ASSUME NEW buf, NEW e, Alike(buf, e), OldPingPkg(e).ok, Len(buf) >= 2
  PROVE  AsFar(OldPingPkg(e), OldPingPkg(buf), OldPingPkg(e).pos, Len(buf), TooSmall)
<1>0. e \in ByteString /\ buf \in ByteString /\ 4 \in Int /\ 30 \in Nat
  BY DEF Alike
<1>1. PICK k \in Nat, n \in Nat : k = Len(buf) /\ n = Len(e)
  BY <1>0 DEF ByteString
<1>2. /\ MatchBytes(e, 0, <<254, 1>>) /\ ~(Remaining(e, 2) < 32)
      /\ MatchBytes(e, 0, OLD_MINECRAFT_START) /\ GetUtf16String(e, 30).ok
  BY DEF OldPingPkg, Then, Fail
<1>3. PICK H : H = GetUtf16String(e, 30)
  OBVIOUS
<1>4. PICK p \in Nat : p = H.pos /\ H.ok /\ 32 <= p
  BY <1>0, <1>2, <1>3, Utf16Reaches DEF Reaches
<1>5. 7 + 2 * Utf8Len(H.val) = U16(e, 27)
  BY <1>2, <1>3, <1>4 DEF OldPingPkg, Then, Fail
<1>6. PICK P : P = Take(e, p, 4)
  OBVIOUS
<1>7. P.ok
  BY <1>2, <1>3, <1>4, <1>5, <1>6 DEF OldPingPkg, Then
<1>8. PICK q \in Nat : q = P.pos /\ q = p + 4 /\ q <= n
  BY <1>0, <1>1, <1>6, <1>7, TakeReaches DEF Reaches
<1>9. OldPingPkg(e) = MCHello(e, q, U8(e, 29), H.val, P.val)
  BY <1>2, <1>3, <1>4, <1>5, <1>6, <1>7, <1>8 DEF OldPingPkg, Then
<1>10. OldPingPkg(e).pos = q
  BY <1>9 DEF MCHello, Got
<1>11. n >= 34
  BY <1>1, <1>2 DEF Remaining
<1>12. MatchBytes(buf, 0, <<254, 1>>)
  <2>1. 2 <= Len(buf) /\ 2 <= Len(e)
    BY <1>1, <1>11
  <2> QED BY <1>2, <2>1, StartsAlike
<1>13. CASE Remaining(buf, 2) < 32
  <2>1. OldPingPkg(buf) = Fail("TooSmall")
    BY <1>12, <1>13 DEF OldPingPkg
  <2>2. ~(q <= k)
    BY <1>1, <1>4, <1>8, <1>13 DEF Remaining
  <2> QED BY <1>1, <1>10, <2>1, <2>2 DEF AsFar, TooSmall
<1>14. CASE ~(Remaining(buf, 2) < 32)
  <2>1. k >= 34
    BY <1>1, <1>14 DEF Remaining
  <2>2. MatchBytes(buf, 0, OLD_MINECRAFT_START)
    <3>1. 27 <= Len(buf) /\ 27 <= Len(e)
      BY <1>1, <1>11, <2>1
    <3> QED BY <1>2, <3>1, StartsAlike
  <2>3. U16(buf, 27) = U16(e, 27)
    BY <1>1, <1>11, <2>1, U16Alike
  <2>4. U8(buf, 29) = U8(e, 29)
    <3>1. buf[30] = e[30]
      BY <1>1, <1>11, <2>1 DEF Alike
    <3> QED BY <3>1 DEF U8
  <2>5. AsFar(H, GetUtf16String(buf, 30), p + 1, k, TooSmall)
    BY <1>0, <1>1, <1>3, <1>4, Utf16Alike
  <2>6. AsFar(P, Take(buf, p, 4), q, k, TooSmall)
    BY <1>0, <1>1, <1>6, <1>8, TakeAlike
  <2>7. CASE p + 1 <= k
    <3>1. GetUtf16String(buf, 30) = H
      BY <1>4, <2>5, <2>7 DEF AsFar
    <3>2. OldPingPkg(buf) = IF Take(buf, p, 4).ok
                              THEN MCHello(buf, Take(buf, p, 4).pos, U8(buf, 29), H.val, Take(buf, p, 4).val)
                              ELSE Take(buf, p, 4)
      BY <1>4, <1>5, <1>12, <1>14, <2>2, <2>3, <3>1 DEF OldPingPkg, Then
    <3>3. CASE q <= k
      <4>1. Take(buf, p, 4) = P
        BY <1>7, <2>6, <3>3 DEF AsFar
      <4>2. OldPingPkg(buf) = MCHello(buf, q, U8(e, 29), H.val, P.val)
        BY <1>7, <1>8, <2>4, <3>2, <4>1
      <4>3. MCHello(buf, q, U8(e, 29), H.val, P.val) = MCHello(e, q, U8(e, 29), H.val, P.val)
        BY <1>1, <1>8, <3>3, HelloOfAlike
      <4> QED BY <1>1, <1>9, <1>10, <3>3, <4>2, <4>3 DEF AsFar
    <3>4. CASE ~(q <= k)
      <4>1. Take(buf, p, 4) = Fail("TooSmall")
        BY <1>7, <2>6, <3>4 DEF AsFar, TooSmall
      <4>2. ~Take(buf, p, 4).ok
        BY <4>1 DEF Fail
      <4> QED BY <1>1, <1>10, <3>2, <3>4, <4>1, <4>2 DEF AsFar, TooSmall
    <3> QED BY <3>3, <3>4
  <2>8. CASE ~(p + 1 <= k)
    <3>1. GetUtf16String(buf, 30) = Fail("TooSmall")
      BY <1>4, <2>5, <2>8 DEF AsFar, TooSmall
    <3>2. ~GetUtf16String(buf, 30).ok
      BY <3>1 DEF Fail
    <3>3. OldPingPkg(buf) = GetUtf16String(buf, 30)
      BY <1>12, <1>14, <2>2, <3>2 DEF OldPingPkg, Then
    <3>4. ~(q <= k)
      BY <1>8, <2>8
    <3> QED BY <1>1, <1>10, <3>1, <3>3, <3>4 DEF AsFar, TooSmall
  <2> QED BY <2>7, <2>8
<1> QED BY <1>13, <1>14

LEMMA OldConnectAlike ==
  ASSUME NEW buf, NEW e, Alike(buf, e), OldConnectPkg(e).ok, Len(buf) >= 1
  PROVE  AsFar(OldConnectPkg(e), OldConnectPkg(buf), OldConnectPkg(e).pos, Len(buf), TooSmall)
<1>0. e \in ByteString /\ buf \in ByteString /\ 4 \in Int /\ 1 \in Nat /\ 1 \in Int
  BY DEF Alike
<1>1. PICK k \in Nat, n \in Nat : k = Len(buf) /\ n = Len(e)
  BY <1>0 DEF ByteString
<1>2. MatchBytes(e, 0, << 2 >>) /\ Take(e, 1, 1).ok
  BY DEF OldConnectPkg, Then, Fail
<1>3. PICK V : V = Take(e, 1, 1)
  OBVIOUS
<1>4. V.ok /\ V.pos = 2 /\ 2 \in Nat /\ 2 <= n
  BY <1>0, <1>1, <1>2, <1>3, TakeReaches DEF Reaches
<1>5. PICK N : N = GetUtf16String(e, 2)
  OBVIOUS
<1>6. N.ok
  BY <1>2, <1>3, <1>4, <1>5 DEF OldConnectPkg, Then, Fail
<1>7. PICK p \in Nat : p = N.pos /\ 4 <= p
  BY <1>0, <1>4, <1>5, <1>6, Utf16Reaches DEF Reaches
<1>8. PICK H : H = GetUtf16String(e, p)
  OBVIOUS
<1>9. H.ok
  BY <1>2, <1>3, <1>4, <1>5, <1>6, <1>7, <1>8 DEF OldConnectPkg, Then
<1>10. PICK q \in Nat : q = H.pos /\ p + 2 <= q
  BY <1>0, <1>8, <1>9, Utf16Reaches DEF Reaches
<1>11. PICK P : P = Take(e, q, 4)
  OBVIOUS
<1>12. P.ok
  BY <1>2, <1>3, <1>4, <1>5, <1>6, <1>7, <1>8, <1>9, <1>10, <1>11 DEF OldConnectPkg, Then
<1>13. PICK r \in Nat : r = P.pos /\ r = q + 4 /\ r <= n
  BY <1>0, <1>1, <1>11, <1>12, TakeReaches DEF Reaches
<1>14. OldConnectPkg(e) = MCHello(e, r, U8(e, 1), H.val, P.val)
  BY <1>2, <1>3, <1>4, <1>5, <1>6, <1>7, <1>8, <1>9, <1>10, <1>11, <1>12, <1>13
     DEF OldConnectPkg, Then
<1>15. OldConnectPkg(e).pos = r
  BY <1>14 DEF MCHello, Got
<1>16. MatchBytes(buf, 0, << 2 >>)
  <2>1. 1 <= Len(buf) /\ 1 <= Len(e)
    BY <1>1, <1>4
  <2> QED BY <1>2, <2>1, StartsAlike
<1>17. /\ AsFar(V, Take(buf, 1, 1), 2, k, TooSmall)
       /\ AsFar(N, GetUtf16String(buf, 2), p + 1, k, TooSmall)
       /\ AsFar(H, GetUtf16String(buf, p), q + 1, k, TooSmall)
       /\ AsFar(P, Take(buf, q, 4), r, k, TooSmall)
  BY <1>0, <1>1, <1>3, <1>4, <1>5, <1>7, <1>8, <1>10, <1>11, <1>13, TakeAlike, Utf16Alike
<1>18. \A s : s \in TooSmall => ~s.ok /\ s = Fail("TooSmall")
  BY DEF TooSmall, Fail
<1>19. ASSUME OldConnectPkg(buf) \in TooSmall, k < r
       PROVE  AsFar(OldConnectPkg(e), OldConnectPkg(buf), OldConnectPkg(e).pos, Len(buf), TooSmall)
  BY <1>1, <1>15, <1>19 DEF AsFar
<1>20. CASE ~(2 <= k)
  <2>1. Take(buf, 1, 1) \in TooSmall /\ ~Take(buf, 1, 1).ok
    BY <1>4, <1>17, <1>18, <1>20 DEF AsFar
  <2>2. OldConnectPkg(buf) = Take(buf, 1, 1)
    BY <1>16, <2>1 DEF OldConnectPkg, Then
  <2>3. k < r
    BY <1>7, <1>10, <1>13, <1>20
  <2> QED BY <1>19, <2>1, <2>2, <2>3
<1>21. CASE 2 <= k
  <2>1. Take(buf, 1, 1) = V
    BY <1>4, <1>17, <1>21 DEF AsFar
  <2>2. CASE ~(p + 1 <= k)
    <3>1. GetUtf16String(buf, 2) \in TooSmall /\ ~GetUtf16String(buf, 2).ok
      BY <1>6, <1>17, <1>18, <2>2 DEF AsFar
    <3>2. OldConnectPkg(buf) = GetUtf16String(buf, 2)
      BY <1>4, <1>16, <2>1, <3>1 DEF OldConnectPkg, Then
    <3>3. k < r
      BY <1>10, <1>13, <2>2
    <3> QED BY <1>19, <3>1, <3>2, <3>3
  <2>3. CASE p + 1 <= k
    <3>1. GetUtf16String(buf, 2) = N
      BY <1>6, <1>17, <2>3 DEF AsFar
    <3>2. CASE ~(q + 1 <= k)
      <4>1. GetUtf16String(buf, p) \in TooSmall /\ ~GetUtf16String(buf, p).ok
        BY <1>9, <1>17, <1>18, <3>2 DEF AsFar
      <4>2. OldConnectPkg(buf) = GetUtf16String(buf, p)
        BY <1>4, <1>6, <1>7, <1>16, <2>1, <3>1, <4>1 DEF OldConnectPkg, Then
      <4>3. k < r
        BY <1>13, <3>2
      <4> QED BY <1>19, <4>1, <4>2, <4>3
    <3>3. CASE q + 1 <= k
      <4>1. GetUtf16String(buf, p) = H
        BY <1>9, <1>17, <3>3 DEF AsFar
      <4>2. OldConnectPkg(buf) = IF Take(buf, q, 4).ok
                                   THEN MCHello(buf, Take(buf, q, 4).pos, U8(buf, 1), H.val, Take(buf, q, 4).val)
                                   ELSE Take(buf, q, 4)
        BY <1>4, <1>6, <1>7, <1>9, <1>10, <1>16, <2>1, <3>1, <4>1 DEF OldConnectPkg, Then
      <4>3. CASE ~(r <= k)
        <5>1. Take(buf, q, 4) \in TooSmall /\ ~Take(buf, q, 4).ok
          BY <1>12, <1>17, <1>18, <4>3 DEF AsFar
        <5> QED BY <1>19, <4>2, <4>3, <5>1
      <4>4. CASE r <= k
        <5>1. Take(buf, q, 4) = P
          BY <1>12, <1>17, <4>4 DEF AsFar
        <5>2. U8(buf, 1) = U8(e, 1)
          <6>1. buf[2] = e[2]
            BY <1>1, <1>4, <1>21 DEF Alike
          <6> QED BY <6>1 DEF U8
        <5>3. OldConnectPkg(buf) = MCHello(buf, r, U8(e, 1), H.val, P.val)
          BY <1>12, <1>13, <4>2, <5>1, <5>2
        <5>4. MCHello(buf, r, U8(e, 1), H.val, P.val) = MCHello(e, r, U8(e, 1), H.val, P.val)
          BY <1>1, <1>13, <4>4, HelloOfAlike
        <5> QED BY <1>1, <1>14, <1>15, <4>4, <5>3, <5>4 DEF AsFar
      <4> QED BY <4>3, <4>4
    <3> QED BY <3>2, <3>3
  <2> QED BY <2>2, <2>3
<1> QED BY <1>20, <1>21

LEMMA NewAlike ==
  ASSUME NEW buf, NEW e, Alike(buf, e), NewPkg(e).ok
  PROVE  /\ AsFar(NewPkg(e), NewPkg(buf), NewPkg(e).pos, Len(buf), Waits)
         /\ GetVarint(e, 0).ok /\ GetVarint(e, 0).val = NewPkg(e).pos /\ NewPkg(e).pos >= 4
<1>0. e \in ByteString /\ buf \in ByteString /\ 0 \in Nat /\ 2 \in Int
  BY DEF Alike
<1>1. PICK k \in Nat, n \in Nat : k = Len(buf) /\ n = Len(e)
  BY <1>0 DEF ByteString
<1>2. PICK L : L = GetVarint(e, 0)
  OBVIOUS
<1>3. L.ok
  BY <1>2 DEF NewPkg, Then
<1>4. PICK p \in Nat : p = L.pos /\ 1 <= p
  BY <1>0, <1>2, <1>3, VarintReaches DEF Reaches
<1>5. PICK I : I = GetVarint(e, p)
  OBVIOUS
<1>6. I.ok
  BY <1>2, <1>3, <1>4, <1>5 DEF NewPkg, Then
<1>7. PICK q \in Nat : q = I.pos /\ p + 1 <= q
  BY <1>0, <1>5, <1>6, VarintReaches DEF Reaches
<1>8. I.val = 0
  BY <1>2, <1>3, <1>4, <1>5, <1>6 DEF NewPkg, Then, Fail
<1>9. PICK V : V = GetVarint(e, q)
  OBVIOUS
<1>10. V.ok
  BY <1>2, <1>3, <1>4, <1>5, <1>6, <1>7, <1>8, <1>9 DEF NewPkg, Then
<1>11. PICK r \in Nat : r = V.pos /\ q + 1 <= r
  BY <1>0, <1>9, <1>10, VarintReaches DEF Reaches
<1>12. PICK H : H = GetUtf8String(e, r)
  OBVIOUS
<1>13. H.ok
  BY <1>2, <1>3, <1>4, <1>5, <1>6, <1>7, <1>8, <1>9, <1>10, <1>11, <1>12 DEF NewPkg, Then
<1>14. PICK s \in Nat : s = H.pos /\ r + 1 <= s
  BY <1>0, <1>12, <1>13, Utf8Reaches DEF Reaches
<1>15. PICK P : P = Take(e, s, 2)
  OBVIOUS
<1>16. P.ok
  BY <1>2, <1>3, <1>4, <1>5, <1>6, <1>7, <1>8, <1>9, <1>10, <1>11, <1>12, <1>13, <1>14, <1>15
     DEF NewPkg, Then
<1>17. PICK t \in Nat : t = P.pos /\ t = s + 2 /\ t <= n
  BY <1>0, <1>1, <1>15, <1>16, TakeReaches DEF Reaches
<1>18. NewPkg(e) = IF t # L.val THEN Fail("NotValid") ELSE MCHello(e, t, V.val, H.val, P.val)
  BY <1>2, <1>3, <1>4, <1>5, <1>6, <1>7, <1>8, <1>9, <1>10, <1>11, <1>12, <1>13, <1>14, <1>15,
     <1>16, <1>17 DEF NewPkg, Then
<1>19. t = L.val /\ NewPkg(e) = MCHello(e, t, V.val, H.val, P.val)
  BY <1>18 DEF Fail
<1>20. NewPkg(e).pos = t
  BY <1>19 DEF MCHello, Got
<1>21. t >= 4
  BY <1>4, <1>7, <1>11, <1>14, <1>17
<1>22. /\ AsFar(L, GetVarint(buf, 0), p, k, Waits)
       /\ AsFar(I, GetVarint(buf, p), q, k, Waits)
       /\ AsFar(V, GetVarint(buf, q), r, k, Waits)
       /\ AsFar(H, GetUtf8String(buf, r), s, k, Waits)
       /\ AsFar(P, Take(buf, s, 2), t, k, TooSmall)
  <2>1. AsFar(L, GetVarint(buf, 0), p, k, Waits)
    BY <1>0, <1>1, <1>2, <1>4, VarintAlike
  <2>2. AsFar(I, GetVarint(buf, p), q, k, Waits)
    BY <1>1, <1>5, <1>7, VarintAlike
  <2>3. AsFar(V, GetVarint(buf, q), r, k, Waits)
    BY <1>1, <1>9, <1>11, VarintAlike
  <2>4. AsFar(H, GetUtf8String(buf, r), s, k, Waits)
    BY <1>1, <1>12, <1>14, Utf8Alike
  <2>5. AsFar(P, Take(buf, s, 2), t, k, TooSmall)
    BY <1>0, <1>1, <1>15, <1>17, TakeAlike
  <2> QED BY <2>1, <2>2, <2>3, <2>4, <2>5
<1>23. TooSmall \subseteq Waits /\ \A w : w \in Waits => ~w.ok
  BY DEF TooSmall, Waits, Fail
<1>24. ASSUME NewPkg(buf) \in Waits, k < t
       PROVE  AsFar(NewPkg(e), NewPkg(buf), NewPkg(e).pos, Len(buf), Waits)
  BY <1>1, <1>20, <1>24 DEF AsFar
<1>25. AsFar(NewPkg(e), NewPkg(buf), NewPkg(e).pos, Len(buf), Waits)
  <2>1. CASE ~(p <= k)
    <3>1. GetVarint(buf, 0) \in Waits /\ ~GetVarint(buf, 0).ok
      BY <1>3, <1>22, <1>23, <2>1 DEF AsFar
    <3>2. NewPkg(buf) = GetVarint(buf, 0)
      BY <3>1 DEF NewPkg, Then
    <3>3. k < t
      BY <1>7, <1>11, <1>14, <1>17, <2>1
    <3> QED BY <1>24, <3>1, <3>2, <3>3
  <2>2. CASE p <= k /\ ~(q <= k)
    <3>1. GetVarint(buf, 0) = L
      BY <1>3, <1>22, <2>2 DEF AsFar
    <3>2. GetVarint(buf, p) \in Waits /\ ~GetVarint(buf, p).ok
      BY <1>6, <1>22, <1>23, <2>2 DEF AsFar
    <3>3. NewPkg(buf) = GetVarint(buf, p)
      BY <1>3, <1>4, <3>1, <3>2 DEF NewPkg, Then
    <3>4. k < t
      BY <1>11, <1>14, <1>17, <2>2
    <3> QED BY <1>24, <3>2, <3>3, <3>4
  <2>3. CASE q <= k
    <3>0. p <= k
      BY <1>7, <2>3
    <3>1. GetVarint(buf, 0) = L /\ GetVarint(buf, p) = I
      BY <1>3, <1>6, <1>22, <2>3, <3>0 DEF AsFar
    <3>2. CASE ~(r <= k)
      <4>1. GetVarint(buf, q) \in Waits /\ ~GetVarint(buf, q).ok
        BY <1>10, <1>22, <1>23, <3>2 DEF AsFar
      <4>2. NewPkg(buf) = GetVarint(buf, q)
        BY <1>3, <1>4, <1>6, <1>7, <1>8, <3>1, <4>1 DEF NewPkg, Then
      <4>3. k < t
        BY <1>14, <1>17, <3>2
      <4> QED BY <1>24, <4>1, <4>2, <4>3
    <3>3. CASE r <= k /\ ~(s <= k)
      <4>1. GetVarint(buf, q) = V
        BY <1>10, <1>22, <3>3 DEF AsFar
      <4>2. GetUtf8String(buf, r) \in Waits /\ ~GetUtf8String(buf, r).ok
        BY <1>13, <1>22, <1>23, <3>3 DEF AsFar
      <4>3. NewPkg(buf) = GetUtf8String(buf, r)
        BY <1>3, <1>4, <1>6, <1>7, <1>8, <1>10, <1>11, <3>1, <4>1, <4>2 DEF NewPkg, Then
      <4>4. k < t
        BY <1>17, <3>3
      <4> QED BY <1>24, <4>2, <4>3, <4>4
    <3>4. CASE s <= k
      <4>0. r <= k
        BY <1>14, <3>4
      <4>1. GetVarint(buf, q) = V /\ GetUtf8String(buf, r) = H
        BY <1>10, <1>13, <1>22, <3>4, <4>0 DEF AsFar
      <4>2. NewPkg(buf) = IF Take(buf, s, 2).ok
                            THEN IF Take(buf, s, 2).pos # L.val THEN Fail("NotValid")
                                 ELSE MCHello(buf, Take(buf, s, 2).pos, V.val, H.val, Take(buf, s, 2).val)
                            ELSE Take(buf, s, 2)
        BY <1>3, <1>4, <1>6, <1>7, <1>8, <1>10, <1>11, <1>13, <1>14, <3>1, <4>1 DEF NewPkg, Then
      <4>3. CASE ~(t <= k)
        <5>1. Take(buf, s, 2) \in Waits /\ ~Take(buf, s, 2).ok
          BY <1>16, <1>22, <1>23, <4>3 DEF AsFar
        <5> QED BY <1>24, <4>2, <4>3, <5>1
      <4>4. CASE t <= k
        <5>1. Take(buf, s, 2) = P
          BY <1>16, <1>22, <4>4 DEF AsFar
        <5>2. NewPkg(buf) = MCHello(buf, t, V.val, H.val, P.val)
          BY <1>16, <1>17, <1>19, <4>2, <5>1
        <5>3. MCHello(buf, t, V.val, H.val, P.val) = MCHello(e, t, V.val, H.val, P.val)
          BY <1>1, <1>17, <4>4, HelloOfAlike
        <5> QED BY <1>1, <1>19, <1>20, <4>4, <5>2, <5>3 DEF AsFar
      <4> QED BY <4>3, <4>4
    <3> QED BY <3>2, <3>3, <3>4
  <2> QED BY <2>1, <2>2, <2>3
<1> QED BY <1>2, <1>3, <1>19, <1>20, <1>21, <1>25

\* A parser of an old hello that does not match has seen other bytes.
LEMMA Utf16Errors ==
  ASSUME NEW buf, NEW p, ~GetUtf16String(buf, p).ok
  PROVE  GetUtf16String(buf, p).err # "NotMatching"
BY DEF GetUtf16String, Then, Take, Fail, Got

LEMMA TakeErrors ==
  ASSUME NEW buf, NEW p, NEW n, ~Take(buf, p, n).ok
  PROVE  Take(buf, p, n).err # "NotMatching"
BY DEF Take, Fail, Got

LEMMA OldPingNotMatching ==
  ASSUME NEW buf, ~OldPingPkg(buf).ok, OldPingPkg(buf).err = "NotMatching"
  PROVE  ~MatchBytes(buf, 0, <<254, 1>>)
<1> SUFFICES ASSUME MatchBytes(buf, 0, <<254, 1>>) PROVE FALSE
  OBVIOUS
<1>1. PICK H : H = GetUtf16String(buf, 30)
  OBVIOUS
<1>2. PICK P : P = Take(buf, H.pos, 4)
  OBVIOUS
<1>3. \/ OldPingPkg(buf) = Fail("TooSmall")
      \/ OldPingPkg(buf) = Fail("NotValid")
      \/ ~H.ok /\ OldPingPkg(buf) = H
      \/ ~P.ok /\ OldPingPkg(buf) = P
      \/ \E v, h, q : OldPingPkg(buf) = MCHello(buf, P.pos, v, h, q)
  BY <1>1, <1>2 DEF OldPingPkg, Then
<1>4. ~H.ok => H.err # "NotMatching"
  BY <1>1, Utf16Errors
<1>5. ~P.ok => P.err # "NotMatching"
  BY <1>2, TakeErrors
<1>6. ~(\E v, h, q : OldPingPkg(buf) = MCHello(buf, P.pos, v, h, q))
  BY DEF MCHello, Got
<1>7. OldPingPkg(buf) # Fail("TooSmall") /\ OldPingPkg(buf) # Fail("NotValid")
  BY DEF Fail
<1> QED BY <1>3, <1>4, <1>5, <1>6, <1>7

LEMMA OldConnectNotMatching ==
  ASSUME NEW buf, ~OldConnectPkg(buf).ok, OldConnectPkg(buf).err = "NotMatching"
  PROVE  ~MatchBytes(buf, 0, << 2 >>)
<1> SUFFICES ASSUME MatchBytes(buf, 0, << 2 >>) PROVE FALSE
  OBVIOUS
<1>1. PICK V : V = Take(buf, 1, 1)
  OBVIOUS
<1>2. PICK N : N = GetUtf16String(buf, V.pos)
  OBVIOUS
<1>3. PICK H : H = GetUtf16String(buf, N.pos)
  OBVIOUS
<1>4. PICK P : P = Take(buf, H.pos, 4)
  OBVIOUS
<1>5. \/ ~V.ok /\ OldConnectPkg(buf) = V
      \/ ~N.ok /\ OldConnectPkg(buf) = N
      \/ ~H.ok /\ OldConnectPkg(buf) = H
      \/ ~P.ok /\ OldConnectPkg(buf) = P
      \/ \E v, h, q : OldConnectPkg(buf) = MCHello(buf, P.pos, v, h, q)
  BY <1>1, <1>2, <1>3, <1>4 DEF OldConnectPkg, Then
<1>6. (~N.ok => N.err # "NotMatching") /\ (~H.ok => H.err # "NotMatching")
  BY <1>2, <1>3, Utf16Errors
<1>7. (~V.ok => V.err # "NotMatching") /\ (~P.ok => P.err # "NotMatching")
  BY <1>1, <1>4, TakeErrors
<1>8. ~(\E v, h, q : OldConnectPkg(buf) = MCHello(buf, P.pos, v, h, q))
  BY DEF MCHello, Got
<1> QED BY <1>5, <1>6, <1>7, <1>8

LEMMA FirstByte ==
  ASSUME NEW e \in ByteString, NEW k \in Nat, 1 <= k, k <= Len(e)
  PROVE  \A s : SubSeq(e, 0 + 1, k) = s => s[1] = e[1]
<1>1. \A i \in 1..(k - 0) : SubSeq(e, 0 + 1, k)[i] = e[0 + i]
  BY PartBytes
<1>2. SubSeq(e, 0 + 1, k)[1] = e[1]
  BY <1>1
<1> QED BY <1>2, Zenon

\* What MinecraftHello makes of a buffer alike one that it has read a hello in:
\* the same hello, or it waits, or, for a part of a new hello or for one byte,
\* it is not sure of it.
LEMMA HelloAlike ==
  ASSUME NEW buf, NEW e, Alike(buf, e), Len(buf) >= 1, MinecraftHello(e).ok
  PROVE  IF MinecraftHello(e).pos <= Len(buf) THEN MinecraftHello(buf) = MinecraftHello(e)
         ELSE \/ MinecraftHello(buf) = Fail("TooSmall")
              \/ /\ MinecraftHello(buf) = Fail("NotValid")
                 /\ Len(buf) = 1 \/ (NewPkg(e).ok /\ MinecraftHello(e) = NewPkg(e))
<1>0. e \in ByteString /\ buf \in ByteString
  BY DEF Alike
<1>1. PICK k \in Nat, n \in Nat : k = Len(buf) /\ n = Len(e) /\ k >= 1
  BY <1>0 DEF ByteString
<1>2. \A r : r = Fail("NotMatching") => ~r.ok /\ r.err = "NotMatching"
  BY DEF Fail
<1>3. \A r : r \in TooSmall => ~r.ok /\ r.err # "NotMatching" /\ r = Fail("TooSmall")
  BY DEF Fail, TooSmall
<1>4. \A r, s : (r.ok \/ r.err # "NotMatching") => OrElse(r, s) = r
  BY DEF OrElse
<1>5. \A r, s : (~r.ok /\ r.err = "NotMatching") => OrElse(r, s) = s
  BY DEF OrElse
<1>6. PICK O : O = OrElse(OldConnectPkg(e), NewPkg(e))
  OBVIOUS
<1>7. PICK o : o = OrElse(OldConnectPkg(buf), NewPkg(buf))
  OBVIOUS
<1>8. MinecraftHello(e) = OrElse(OldPingPkg(e), O) /\ MinecraftHello(buf) = OrElse(OldPingPkg(buf), o)
  BY <1>6, <1>7 DEF MinecraftHello
<1>9. CASE OldPingPkg(e).ok /\ k >= 2
  <2>1. MinecraftHello(e) = OldPingPkg(e)
    BY <1>4, <1>8, <1>9
  <2>2. AsFar(OldPingPkg(e), OldPingPkg(buf), OldPingPkg(e).pos, k, TooSmall)
    BY <1>1, <1>9, OldPingAlike
  <2>3. CASE OldPingPkg(e).pos <= k
    <3>1. OldPingPkg(buf) = OldPingPkg(e)
      BY <1>9, <2>2, <2>3 DEF AsFar
    <3>2. MinecraftHello(buf) = OldPingPkg(e)
      BY <1>4, <1>8, <1>9, <3>1
    <3> QED BY <1>1, <2>1, <2>3, <3>2
  <2>4. CASE ~(OldPingPkg(e).pos <= k)
    <3>1. OldPingPkg(buf) \in TooSmall
      BY <1>9, <2>2, <2>4 DEF AsFar
    <3>2. MinecraftHello(buf) = Fail("TooSmall")
      BY <1>3, <1>4, <1>8, <3>1
    <3> QED BY <1>1, <2>1, <2>4, <3>2
  <2> QED BY <2>3, <2>4
<1>10. CASE OldPingPkg(e).ok /\ k = 1
  <2>1. MatchBytes(e, 0, <<254, 1>>)
    BY <1>10 DEF OldPingPkg, Fail
  <2>2. n >= 2 /\ e[1] = 254
    <3>1. Len(<<254, 1>>) \in Nat /\ 2 <= Len(<<254, 1>>) /\ Len(<<254, 1>>) <= 2
      OBVIOUS
    <3>2. n >= 2 /\ SubSeq(e, 0 + 1, 2) = <<254, 1>>
      BY <1>1, <2>1, <3>1 DEF MatchBytes, Remaining, Slice
    <3>3. \A s : SubSeq(e, 0 + 1, 2) = s => s[1] = e[1]
      BY <1>1, <3>2, FirstByte
    <3>4. <<254, 1>>[1] = e[1]
      BY <3>2, <3>3, Zenon
    <3> QED BY <3>2, <3>4
  <2>3. buf[1] = 254
    BY <1>1, <2>2 DEF Alike
  <2>4. OldPingPkg(buf) = Fail("NotMatching")
    <3>1. ~MatchBytes(buf, 0, <<254, 1>>)
      BY <1>1, <1>10 DEF MatchBytes, Remaining
    <3> QED BY <3>1 DEF OldPingPkg
  <2>5. OldConnectPkg(buf) = Fail("NotMatching")
    <3>1. ~MatchBytes(buf, 0, << 2 >>)
      <4> SUFFICES ASSUME MatchBytes(buf, 0, << 2 >>) PROVE FALSE
        OBVIOUS
      <4>1. SubSeq(buf, 0 + 1, 1) = << 2 >>
        BY DEF MatchBytes, Slice
      <4>2. \A s : SubSeq(buf, 0 + 1, 1) = s => s[1] = buf[1]
        BY <1>0, <1>1, FirstByte
      <4>3. << 2 >>[1] = buf[1]
        BY <4>1, <4>2, Zenon
      <4> QED BY <2>3, <4>3
    <3> QED BY <3>1 DEF OldConnectPkg
  <2>6. NewPkg(buf) = Fail("NotValid")
    <3>1. k = 0 + 1 /\ buf[0 + 1] >= 128
      BY <1>10, <2>3
    <3>2. GetVarint(buf, 0) = Fail("NotValid")
      BY <1>0, <1>1, <3>1, VarintCut
    <3>3. ~GetVarint(buf, 0).ok
      BY <3>2 DEF Fail
    <3> QED BY <3>2, <3>3 DEF NewPkg, Then
  <2>7. MinecraftHello(buf) = Fail("NotValid")
    BY <1>2, <1>5, <1>7, <1>8, <2>4, <2>5, <2>6
  <2>8. ~(MinecraftHello(e).pos <= k)
    <3>1. MinecraftHello(e) = OldPingPkg(e)
      BY <1>4, <1>8, <1>10
    <3>2. MinecraftHello(e).pos \in Nat /\ MinecraftHello(e).pos >= 2
      <4>1. GetUtf16String(e, 30).ok /\ 30 \in Nat /\ 4 \in Int
        BY <1>10 DEF OldPingPkg, Then, Fail
      <4>2. PICK p \in Nat : p = GetUtf16String(e, 30).pos
        BY <1>0, <4>1, Utf16Reaches DEF Reaches
      <4>3. Take(e, p, 4).ok
        BY <1>10, <4>1, <4>2 DEF OldPingPkg, Then, Fail
      <4>4. Take(e, p, 4).pos = p + 4
        BY <1>0, <4>1, <4>3, TakeReaches, ZenonT(30)
      <4>5. \E v, h, q : OldPingPkg(e) = MCHello(e, p + 4, v, h, q)
        BY <1>10, <4>1, <4>2, <4>3, <4>4 DEF OldPingPkg, Then, Fail
      <4>6. OldPingPkg(e).pos = p + 4
        BY <4>5 DEF MCHello, Got
      <4> QED BY <3>1, <4>6
    <3> QED BY <1>10, <3>2
  <2> QED BY <1>1, <1>10, <2>7, <2>8
<1>11. CASE ~OldPingPkg(e).ok
  <2>1. OldPingPkg(e).err = "NotMatching" /\ MinecraftHello(e) = O
    BY <1>4, <1>5, <1>8, <1>11
  <2>2. ~MatchBytes(e, 0, <<254, 1>>)
    BY <1>11, <2>1, OldPingNotMatching
  <2>3. \/ O = OldConnectPkg(e) /\ OldConnectPkg(e).ok
        \/ O = NewPkg(e) /\ NewPkg(e).ok /\ ~OldConnectPkg(e).ok /\ OldConnectPkg(e).err = "NotMatching"
    BY <1>4, <1>5, <1>6, <2>1
  <2>4. n >= 2
    <3>1. MinecraftHello(e).pos \in Nat /\ MinecraftHello(e).pos <= n
      BY <1>0, <1>1, MinecraftHelloHanded DEF Handed
    <3>2. CASE O = NewPkg(e) /\ NewPkg(e).ok
      BY <1>0, <1>1, <2>1, <3>1, <3>2, NewAlike DEF Alike
    <3>3. CASE O = OldConnectPkg(e) /\ OldConnectPkg(e).ok
      <4>1. Take(e, 1, 1).ok /\ 1 \in Nat /\ 1 \in Int
        BY <3>3, SMTT(30) DEF OldConnectPkg, Then, Fail
      <4>2. 1 + 1 <= n
        BY <1>0, <1>1, <4>1, TakeReaches DEF Reaches
      <4> QED BY <4>2
    <3> QED BY <2>3, <3>2, <3>3
  <2>5. OldPingPkg(buf) = Fail("NotMatching")
    <3>1. ~MatchBytes(buf, 0, <<254, 1>>)
      <4>1. CASE k >= 2
        BY <1>1, <2>2, <2>4, <4>1, StartsAlike
      <4>2. CASE k = 1
        BY <1>1, <4>2 DEF MatchBytes, Remaining
      <4> QED BY <1>1, <4>1, <4>2
    <3> QED BY <3>1 DEF OldPingPkg
  <2>6. MinecraftHello(buf) = o
    BY <1>2, <1>5, <1>8, <2>5
  <2>7. CASE O = OldConnectPkg(e) /\ OldConnectPkg(e).ok
    <3>1. AsFar(OldConnectPkg(e), OldConnectPkg(buf), OldConnectPkg(e).pos, k, TooSmall)
      BY <1>1, <2>7, OldConnectAlike
    <3>2. CASE OldConnectPkg(e).pos <= k
      <4>1. OldConnectPkg(buf) = OldConnectPkg(e)
        BY <2>7, <3>1, <3>2 DEF AsFar
      <4>2. o = OldConnectPkg(e)
        BY <1>4, <1>7, <2>7, <4>1
      <4> QED BY <1>1, <2>1, <2>6, <2>7, <3>2, <4>2
    <3>3. CASE ~(OldConnectPkg(e).pos <= k)
      <4>1. OldConnectPkg(buf) \in TooSmall
        BY <2>7, <3>1, <3>3 DEF AsFar
      <4>2. o = Fail("TooSmall")
        BY <1>3, <1>4, <1>7, <4>1
      <4> QED BY <1>1, <2>1, <2>6, <2>7, <3>3, <4>2
    <3> QED BY <3>2, <3>3
  <2>8. CASE O = NewPkg(e) /\ NewPkg(e).ok /\ ~OldConnectPkg(e).ok /\ OldConnectPkg(e).err = "NotMatching"
    <3>1. ~MatchBytes(e, 0, << 2 >>)
      BY <2>8, OldConnectNotMatching
    <3>2. ~MatchBytes(buf, 0, << 2 >>)
      BY <1>1, <2>4, <3>1, StartsAlike
    <3>3. OldConnectPkg(buf) = Fail("NotMatching")
      BY <3>2 DEF OldConnectPkg
    <3>4. o = NewPkg(buf)
      BY <1>2, <1>5, <1>7, <3>3
    <3>5. AsFar(NewPkg(e), NewPkg(buf), NewPkg(e).pos, k, Waits)
      BY <1>1, <2>8, NewAlike
    <3> QED BY <1>1, <2>1, <2>6, <2>8, <3>4, <3>5 DEF AsFar, Waits
  <2> QED BY <2>3, <2>7, <2>8
<1> QED BY <1>1, <1>9, <1>10, <1>11

\* The two bytes that a part of a new hello begins with, read as the length of
\* a frame, promise more than is there.
LEMMA PartOfNewHelloWaits ==
  ASSUME NEW buf, NEW e, Alike(buf, e), NewPkg(e).ok, NewPkg(e).pos = Len(e),
         Len(e) <= 32768, Len(buf) >= 1, Len(buf) < Len(e)
  PROVE  DecodeProxy(buf) = Fail("TooSmall")
<1>0. e \in ByteString /\ buf \in ByteString /\ 0 \in Nat
  BY DEF Alike
<1>1. PICK k \in Nat, n \in Nat : k = Len(buf) /\ n = Len(e) /\ k >= 1 /\ k < n /\ n <= 32768
  BY <1>0 DEF ByteString
<1>2. GetVarint(e, 0).ok /\ GetVarint(e, 0).val = n
  BY <1>1, NewAlike
<1>3. PICK b \in Nat : b = e[1] /\ b < 256
  BY <1>0, <1>1, NumberAt
<1>4. CASE k = 1
  <2>1. Take(buf, 0, 2) = Fail("TooSmall")
    BY <1>1, <1>4 DEF Take, Remaining
  <2>2. ~Take(buf, 0, 2).ok
    BY <2>1 DEF Fail
  <2> QED BY <2>1, <2>2 DEF DecodeProxy, Then
<1>5. CASE k >= 2
  <2>1. PICK c \in Nat : c = e[2]
    BY <1>0, <1>1, <1>5, NumberAt
  <2>2. buf[1] = b /\ buf[2] = c
    BY <1>1, <1>3, <1>5, <2>1 DEF Alike
  <2>3. U16(buf, 0) = 256 * b + c
    BY <2>2 DEF U16
  <2>4. 256 * b + c >= n
    <3>1. CASE b < 128
      <4>1. GetVarint(e, 0) = Got(b, 1)
        BY <1>0, <1>1, <1>3, <3>1, VarintShort, SMTT(30)
      <4>2. n = b
        BY <1>2, <4>1 DEF Got
      <4> QED BY <4>2
    <3>2. CASE b >= 128
      BY <1>1, <3>2
    <3> QED BY <3>1, <3>2
  <2>5. PICK u \in Nat : u = U16(buf, 0) /\ u >= n
    BY <2>3, <2>4
  <2>6. Take(buf, 0, 2).ok
    BY <1>1, <1>5 DEF Take, Remaining, Got
  <2>7. Take(buf, 2, u) = Fail("TooSmall")
    BY <1>1, <2>5 DEF Take, Remaining
  <2>8. ~Take(buf, 2, u).ok
    BY <2>7 DEF Fail
  <2> QED BY <2>5, <2>6, <2>7, <2>8 DEF DecodeProxy, Then
<1> QED BY <1>1, <1>4, <1>5

-----------------------------------------------------------------------------
(* A hello read as a first packet *)

\* A hello that the parser can read whole is read back as it was written,
\* whatever follows it in the buffer, and of the rest no byte is taken
\* (parse_first_package, MinecraftHelloPacket::new).
THEOREM HelloReadBack ==
  ASSUME NEW h, Readable(h), NEW rest \in ByteString
  PROVE  ParseFirstPackage(h.data \o rest) = Got(h, Len(h.data))
<1>1. PICK e \in ByteString : e = h.data
  BY DEF Readable
<1>2. PICK buf : buf = e \o rest
  OBVIOUS
<1>3. MinecraftHello(e) = Got(h, Len(e))
  BY <1>1 DEF Readable
<1>4. MinecraftHello(e).ok /\ MinecraftHello(e).pos = Len(e)
  BY <1>3 DEF Got
<1>5. PICK n \in Nat, m \in Nat : n = Len(e) /\ m = Len(rest)
  BY DEF ByteString
<1>6. buf \in ByteString /\ Len(buf) = n + m
  BY <1>2, <1>5, Concat
<1>7. n >= 1
  BY <1>4, <1>5, MinecraftHelloHanded DEF Handed
<1>8. Alike(buf, e)
  <2>1. \A i \in Nat : 1 <= i /\ i <= n => buf[i] = e[i]
    BY <1>2, <1>5, ConcatAt
  <2> QED BY <1>5, <1>6, <2>1 DEF Alike
<1>9. MinecraftHello(buf) = MinecraftHello(e)
  <2>1. MinecraftHello(e).pos <= Len(buf) /\ Len(buf) >= 1
    BY <1>4, <1>5, <1>6, <1>7
  <2> QED BY <1>4, <1>8, <2>1, HelloAlike
<1>10. ParseFirstPackage(buf) = MinecraftHello(e)
  BY <1>4, <1>9 DEF ParseFirstPackage
<1> QED BY <1>1, <1>2, <1>3, <1>10

\* A part of a hello that has not come to its end is waited for: what the
\* parsers do not ask more bytes for is tried as a frame of the proxy, and there
\* is less of it than that frame would have (parse_first_package).
THEOREM PartOfHelloWaits ==
  ASSUME NEW h, Readable(h), NEW k \in Nat, 1 <= k, k < Len(h.data)
  PROVE  ParseFirstPackage(SubSeq(h.data, 1, k)) = Fail("TooSmall")
<1>1. PICK e \in ByteString : e = h.data /\ k < Len(e) /\ Len(e) <= 32768
  BY DEF Readable
<1>2. PICK buf : buf = SubSeq(e, 1, k)
  OBVIOUS
<1>3. MinecraftHello(e) = Got(h, Len(e))
  BY <1>1 DEF Readable
<1>4. MinecraftHello(e).ok /\ MinecraftHello(e).pos = Len(e)
  BY <1>3 DEF Got
<1>5. PICK n \in Nat : n = Len(e)
  BY DEF ByteString
<1>6. buf \in ByteString /\ Len(buf) = k /\ \A i \in 1..k : buf[i] = e[i]
  BY <1>1, <1>2, SubSeqProperties DEF ByteString
<1>7. Alike(buf, e)
  BY <1>6 DEF Alike
<1>8. ~(MinecraftHello(e).pos <= Len(buf)) /\ Len(buf) >= 1 /\ Len(buf) < Len(e)
  BY <1>1, <1>4, <1>5, <1>6
<1>9. \/ MinecraftHello(buf) = Fail("TooSmall")
      \/ /\ MinecraftHello(buf) = Fail("NotValid")
         /\ Len(buf) = 1 \/ (NewPkg(e).ok /\ MinecraftHello(e) = NewPkg(e))
  BY <1>4, <1>7, <1>8, HelloAlike
<1>10. CASE MinecraftHello(buf) = Fail("TooSmall")
  <2>1. ~MinecraftHello(buf).ok /\ MinecraftHello(buf).err \notin {"NotValid", "NotMatching"}
    BY <1>10 DEF Fail
  <2>2. ParseFirstPackage(buf) = MinecraftHello(buf)
    BY <2>1 DEF ParseFirstPackage
  <2> QED BY <1>1, <1>2, <1>10, <2>2
<1>11. CASE MinecraftHello(buf) = Fail("NotValid")
  <2>1. ~MinecraftHello(buf).ok /\ MinecraftHello(buf).err = "NotValid"
    BY <1>11 DEF Fail
  <2>2. ParseFirstPackage(buf) = DecodeProxy(buf)
    BY <2>1 DEF ParseFirstPackage
  <2>3. DecodeProxy(buf) = Fail("TooSmall")
    <3>1. CASE Len(buf) = 1
      <4>1. Take(buf, 0, 2) = Fail("TooSmall")
        BY <3>1 DEF Take, Remaining
      <4>2. ~Take(buf, 0, 2).ok
        BY <4>1 DEF Fail
      <4> QED BY <4>1, <4>2 DEF DecodeProxy, Then
    <3>2. CASE NewPkg(e).ok /\ MinecraftHello(e) = NewPkg(e)
      <4>1. NewPkg(e).pos = Len(e)
        BY <1>4, <3>2
      <4> QED BY <1>1, <1>7, <1>8, <3>2, <4>1, PartOfNewHelloWaits
    <3>3. Fail("NotValid") # Fail("TooSmall")
      BY DEF Fail
    <3> QED BY <1>9, <1>11, <3>1, <3>2, <3>3
  <2> QED BY <1>1, <1>2, <2>2, <2>3
<1> QED BY <1>9, <1>10, <1>11

-----------------------------------------------------------------------------
(* The codec *)

\* Places in a stream of n bytes: the last of them, and what one more changes.
LEMMA LastEnd ==
  ASSUME NEW n \in Nat, NEW s \in Seq(0..n)
  PROVE  /\ Len(s) \in Nat /\ End(s, Len(s)) \in 0..n
         /\ \A i \in 0..Len(s) : End(s, i) \in 0..n
<1>1. Len(s) \in Nat /\ \A i \in 1..Len(s) : s[i] \in 0..n
  OBVIOUS
<1>2. ASSUME NEW i \in 0..Len(s) PROVE End(s, i) \in 0..n
  <2>1. CASE i = 0
    BY <2>1 DEF End
  <2>2. CASE i # 0
    BY <1>1, <2>2 DEF End
  <2> QED BY <2>1, <2>2
<1> QED BY <1>1, <1>2

LEMMA Widened ==
  ASSUME NEW n \in Nat, NEW s \in Seq(0..n), NEW k \in Nat, n <= k
  PROVE  s \in Seq(0..k)
<1> DEFINE S == 0..k
<1>1. \A i \in 0..n : i \in S
  OBVIOUS
<1> HIDE DEF S
<1>2. Len(s) \in Nat /\ s \in [1..Len(s) -> S]
  BY <1>1
<1>3. s \in Seq(S)
  BY <1>2
<1> QED BY <1>3 DEF S

LEMMA OneMoreEnd ==
  ASSUME NEW k \in Nat, NEW s \in Seq(0..k), NEW m \in 0..k, NEW t \in Seq(0..k),
         Len(t) = Len(s) + 1, t[Len(s) + 1] = m, \A i \in 1..Len(s) : t[i] = s[i]
  PROVE  /\ End(t, Len(t)) = m
         /\ \A i \in 0..Len(s) : End(t, i) = End(s, i)
<1>1. Len(s) \in Nat
  OBVIOUS
<1> QED BY <1>1 DEF End

\* What TypeOK says of the places.
LEMMA Places ==
  ASSUME TypeOK
  PROVE  /\ Len(wire) \in Nat /\ taken \in Nat /\ taken <= Len(wire)
         /\ eaten \in Nat /\ eaten <= taken
         /\ Len(cuts) \in Nat /\ Len(bounds) \in Nat
<1>1. Len(wire) \in Nat
  BY DEF TypeOK, ByteString
<1>2. taken \in Nat /\ taken <= Len(wire)
  BY <1>1 DEF TypeOK
<1>3. Len(cuts) \in Nat /\ eaten \in 0..taken
  BY <1>2, LastEnd DEF TypeOK, eaten
<1>4. Len(bounds) \in Nat
  BY <1>1, LastEnd DEF TypeOK
<1> QED BY <1>1, <1>2, <1>3, <1>4

LEMMA BufferBytes ==
  ASSUME TypeOK
  PROVE  Buffer \in ByteString /\ Len(Buffer) = taken - eaten
<1>1. PICK w \in ByteString : w = wire
  BY DEF TypeOK
<1>2. PICK e \in Nat, t \in Nat : e = eaten /\ t = taken /\ e <= t /\ t <= Len(w)
  BY <1>1, Places
<1>3. SubSeq(w, e + 1, t) \in ByteString /\ Len(SubSeq(w, e + 1, t)) = t - e
  BY <1>2, PartBytes
<1> QED BY <1>1, <1>2, <1>3 DEF Buffer

LEMMA DecodedHanded ==
  ASSUME TypeOK
  PROVE  Handed(Decoded, Buffer)
<1>1. Buffer \in ByteString
  BY BufferBytes
<1>2. PICK buf \in ByteString : buf = Buffer
  BY <1>1
<1>3. Handed(DecodeProxy(buf), buf) /\ Handed(MinecraftHello(buf), buf)
  BY ProxyHanded, MinecraftHelloHanded
<1>4. Handed(ParseFirstPackage(buf), buf)
  BY <1>3 DEF ParseFirstPackage
<1>5. CASE ~HasBytes(buf)
  BY <1>2, <1>5 DEF Decoded, Fail, Handed
<1>6. CASE HasBytes(buf) /\ protocol = "Unknown"
  BY <1>2, <1>4, <1>6 DEF Decoded
<1>7. CASE HasBytes(buf) /\ protocol # "Unknown" /\ protocol # "MC"
  BY <1>2, <1>3, <1>7 DEF Decoded, ParsePacket
<1>8. CASE HasBytes(buf) /\ protocol # "Unknown" /\ protocol = "MC"
  <2>1. Len(buf) \in Nat /\ 1 <= Len(buf)
    BY <1>8 DEF HasBytes, ByteString
  <2>2. Handed(Got(MCData(buf), Len(buf)), buf)
    BY <2>1 DEF Handed, Got, MCData
  <2> QED BY <1>2, <1>8, <2>2 DEF Decoded, ParsePacket
<1> QED BY <1>5, <1>6, <1>7, <1>8

\* What is handed out is a sequence.
OutIsSequence == out \in Seq({out[i] : i \in DOMAIN out})

CodecInv == TypeOK /\ OutIsSequence

LEMMA Appended ==
  ASSUME NEW s, s \in Seq({s[i] : i \in DOMAIN s}), NEW v, NEW u, u = Append(s, v)
  PROVE  /\ u \in Seq({u[i] : i \in DOMAIN u})
         /\ \A i \in DOMAIN u : u[i] = v \/ \E j \in DOMAIN s : u[i] = s[j]
         /\ Len(s) \in Nat /\ Len(u) = Len(s) + 1 /\ DOMAIN u = 1..Len(u) /\ DOMAIN s = 1..Len(s)
         /\ u[Len(s) + 1] = v /\ \A i \in 1..Len(s) : u[i] = s[i]
<1> DEFINE S == {s[i] : i \in DOMAIN s} \cup {v}
<1>1. s \in Seq(S)
  BY SeqDef
<1>2. /\ u \in Seq(S)
      /\ \A i \in 1..Len(s) : u[i] = s[i]
      /\ u[Len(s) + 1] = v /\ Len(u) = Len(s) + 1 /\ Len(s) \in Nat
  BY <1>1, AppendProperties
<1>3. DOMAIN u = 1..Len(u) /\ DOMAIN s = 1..Len(s) /\ u \in [1..Len(u) -> S] /\ Len(u) \in Nat
  <2> HIDE DEF S
  <2>1. \A T, w : w \in Seq(T) => DOMAIN w = 1..Len(w) /\ w \in [1..Len(w) -> T] /\ Len(w) \in Nat
    BY LenProperties
  <2> QED BY <1>1, <1>2, <2>1
<1>4. \A i \in DOMAIN u : u[i] = v \/ \E j \in DOMAIN s : u[i] = s[j]
  BY <1>2, <1>3
<1> HIDE DEF S
<1>5. u \in [1..Len(u) -> {u[i] : i \in DOMAIN u}]
  BY <1>3
<1>6. u \in Seq({u[i] : i \in DOMAIN u})
  <2>1. ASSUME NEW T, NEW n \in Nat, NEW w \in [1..n -> T] PROVE w \in Seq(T)
    OBVIOUS
  <2> QED BY <1>3, <1>5, <2>1, Zenon
<1> QED BY <1>2, <1>3, <1>4, <1>6

\* decode hands out a packet of the buffer.
LEMMA DecodeTakes ==
  ASSUME TypeOK, Decode
  PROVE  /\ Decoded.val.type \in DOMAIN Variant \cup {"MCHello", "MCData"}
         /\ cuts' \in Seq(0..taken') /\ Len(cuts') = Len(cuts) + 1
         /\ \A i \in 0..Len(cuts) : End(cuts', i) = End(cuts, i)
         /\ eaten' = eaten + Decoded.pos /\ eaten' > eaten
<1>1. PICK n \in Nat : n = Decoded.pos /\ 1 <= n /\ n <= Len(Buffer)
  BY DecodedHanded DEF Handed, Decode
<1>2. Decoded.val.type \in DOMAIN Variant \cup {"MCHello", "MCData"}
  BY DecodedHanded DEF Handed, Decode
<1>3. PICK t \in Nat, e \in Nat : t = taken /\ e = eaten /\ e <= t
  BY Places
<1>11. PICK s \in Seq(0..t) : s = cuts
  BY <1>3 DEF TypeOK
<1>4. n <= t - e
  BY <1>1, <1>3, BufferBytes
<1>5. PICK m \in 0..t : m = e + n
  BY <1>4
<1>6. PICK u : u = cuts' /\ u = Append(s, m)
  BY <1>1, <1>3, <1>5, <1>11 DEF Decode
<1>12. u \in Seq(0..t) /\ Len(u) = Len(s) + 1 /\ u[Len(s) + 1] = m /\ \A i \in 1..Len(s) : u[i] = s[i]
  BY <1>6, AppendProperties
<1>7. /\ End(u, Len(u)) = m
      /\ \A i \in 0..Len(s) : End(u, i) = End(s, i)
  BY <1>12, OneMoreEnd, SMTT(30)
<1>8. taken' = t
  BY <1>3 DEF Decode
<1>9. eaten' = m
  BY <1>6, <1>7 DEF eaten
<1>10. m = e + n /\ m > e
  BY <1>1, <1>5
<1> QED BY <1>1, <1>2, <1>3, <1>6, <1>7, <1>8, <1>9, <1>10, <1>11, <1>12

\* encode appends what it writes.
LEMMA WriteAppends ==
  ASSUME TypeOK, Write
  PROVE  /\ Len(bounds) + 1 \in 1..Len(Stream[stream])
         /\ Encode(Stream[stream][Len(bounds) + 1]) \in ByteString
         /\ wire' \in ByteString
         /\ Len(wire') = Len(wire) + Len(Encode(Stream[stream][Len(bounds) + 1]))
         /\ bounds' \in Seq(0..Len(wire')) /\ Len(bounds') = Len(bounds) + 1
         /\ End(bounds', Len(bounds')) = Len(wire')
         /\ \A i \in 0..Len(bounds) : End(bounds', i) = End(bounds, i)
<1>0. PICK n \in Nat : n = Len(wire)
  BY Places
<1>9. PICK s \in Seq(0..n) : s = bounds
  BY <1>0 DEF TypeOK
<1>1. n = Len(wire) /\ s = bounds /\ \E m \in Nat : m = Len(s)
  BY <1>0, <1>9, Places
<1>10. PICK m \in Nat : m = Len(s)
  BY <1>1
<1>2. stream \in DOMAIN Stream /\ m < Len(Stream[stream]) /\ Len(Stream[stream]) \in Nat
      /\ DOMAIN Stream[stream] = 1..Len(Stream[stream])
  BY <1>1, <1>10, PacketAssumption DEF TypeOK, Write
<1>3. m + 1 \in 1..Len(Stream[stream])
  BY <1>2
<1>4. PICK e \in ByteString : e = Encode(Stream[stream][m + 1])
  BY <1>2, <1>3, PacketAssumption
<1>5. PICK w \in ByteString, v \in ByteString : w = wire /\ v = wire' /\ v = w \o e /\ Len(v) = Len(w) + Len(e)
  <2>1. wire \in ByteString
    BY DEF TypeOK
  <2>2. wire' = wire \o e
    BY <1>1, <1>4, <1>10 DEF Write
  <2>3. wire \o e \in ByteString /\ Len(wire \o e) = Len(wire) + Len(e)
    BY <2>1, Concat
  <2> QED BY <2>1, <2>2, <2>3
<1>6. PICK k \in Nat : k = Len(v) /\ n <= k
  BY <1>1, <1>5 DEF ByteString
<1>7. PICK u : u = bounds' /\ u = Append(s, k)
  BY <1>1, <1>5, <1>6 DEF Write
<1>11. k \in 0..k /\ s \in Seq(0..k)
  BY <1>6, Widened
<1>12. u \in Seq(0..k) /\ Len(u) = Len(s) + 1 /\ u[Len(s) + 1] = k /\ \A i \in 1..Len(s) : u[i] = s[i]
  BY <1>7, <1>11, AppendProperties
<1>8. /\ End(u, Len(u)) = k
      /\ \A i \in 0..Len(s) : End(u, i) = End(s, i)
  BY <1>11, <1>12, OneMoreEnd, SMTT(30)
<1> QED BY <1>1, <1>3, <1>4, <1>5, <1>6, <1>7, <1>8, <1>10, <1>12

LEMMA CodecInitial == Init => CodecInv
<1> SUFFICES ASSUME Init PROVE CodecInv
  OBVIOUS
<1>1. wire = <<>> /\ bounds = <<>> /\ cuts = <<>> /\ out = <<>> /\ taken = 0
  BY DEF Init
<1>2. wire \in ByteString /\ Len(wire) = 0
  BY <1>1 DEF ByteString
<1>3. bounds \in Seq(0..Len(wire)) /\ Len(bounds) = 0 /\ cuts \in Seq(0..taken)
  BY <1>1
<1>4. Len(bounds) <= Len(Stream[stream])
  BY <1>3, PacketAssumption DEF Init
<1>5. Len(out) = Len(cuts) /\ DOMAIN out = {}
  BY <1>1
<1>6. TypeOK
  BY <1>1, <1>2, <1>3, <1>4, <1>5 DEF Init, TypeOK
<1>7. OutIsSequence
  BY <1>1 DEF OutIsSequence
<1> QED BY <1>6, <1>7 DEF CodecInv

LEMMA CodecStep == CodecInv /\ [Next]_vars => CodecInv'
<1> SUFFICES ASSUME CodecInv, [Next]_vars PROVE CodecInv'
  OBVIOUS
<1>1. TypeOK /\ OutIsSequence
  BY DEF CodecInv
<1>2. Len(wire) \in Nat /\ taken \in Nat /\ taken <= Len(wire)
  BY <1>1, Places
<1>3. CASE Write
  <2>1. stream' = stream /\ UNCHANGED <<taken, cuts, waiting, protocol, out, status>>
    BY <1>3 DEF Write
  <2>2. wire' \in ByteString /\ bounds' \in Seq(0..Len(wire')) /\ Len(bounds') <= Len(Stream[stream])
    <3>1. Len(Stream[stream]) \in Nat /\ Len(bounds) \in Nat
      BY <1>1, Places, PacketAssumption DEF TypeOK
    <3> QED BY <1>1, <1>3, <3>1, WriteAppends
  <2>3. taken \in 0..Len(wire')
    <3>1. Len(Encode(Stream[stream][Len(bounds) + 1])) \in Nat
      BY <1>1, <1>3, WriteAppends DEF ByteString
    <3>2. Len(wire') = Len(wire) + Len(Encode(Stream[stream][Len(bounds) + 1]))
      BY <1>1, <1>3, WriteAppends
    <3> QED BY <1>2, <3>1, <3>2
  <2>4. TypeOK'
    BY <1>1, <2>1, <2>2, <2>3 DEF TypeOK
  <2> QED BY <1>1, <2>1, <2>4 DEF CodecInv, OutIsSequence
<1>4. CASE \E k \in ReadSizes : Read(k)
  <2>1. PICK k \in Nat : Read(k)
    BY <1>4, ReadAssumption
  <2>2. taken' \in Nat /\ taken <= taken' /\ taken' <= Len(wire)
    BY <1>2, <2>1 DEF Read
  <2>3. cuts \in Seq(0..taken')
    BY <1>1, <1>2, <2>2, Widened DEF TypeOK
  <2>4. UNCHANGED <<stream, wire, bounds, cuts, protocol, out, status>> /\ waiting' = FALSE
    BY <2>1 DEF Read
  <2>5. taken' \in 0..Len(wire)
    BY <1>2, <2>2
  <2>6. TypeOK'
    BY <1>1, <2>3, <2>4, <2>5 DEF TypeOK
  <2> QED BY <1>1, <2>4, <2>6 DEF CodecInv, OutIsSequence
<1>5. CASE Decode
  <2>1. PICK v : v = Decoded.val
    OBVIOUS
  <2>2. PICK u : u = out' /\ u = Append(out, v)
    BY <1>5, <2>1 DEF Decode
  <2>3. /\ u \in Seq({u[i] : i \in DOMAIN u})
        /\ \A i \in DOMAIN u : u[i] = v \/ \E j \in DOMAIN out : u[i] = out[j]
        /\ Len(u) = Len(out) + 1
    BY <1>1, <2>2, Appended DEF OutIsSequence
  <2>4. OutIsSequence'
    BY <2>2, <2>3 DEF OutIsSequence
  <2>5. v.type \in DOMAIN Variant \cup {"MCHello", "MCData"}
    BY <1>1, <1>5, <2>1, DecodeTakes
  <2>6. \A i \in DOMAIN out' : out'[i].type \in DOMAIN Variant \cup {"MCHello", "MCData"}
    BY <1>1, <2>2, <2>3, <2>5 DEF TypeOK
  <2>7. cuts' \in Seq(0..taken') /\ Len(out') = Len(cuts')
    BY <1>1, <1>5, <2>2, <2>3, DecodeTakes DEF TypeOK
  <2>8. protocol' \in {"Unknown", "MC", "Proxy"}
    BY <1>1, <1>5 DEF TypeOK, Decode, ProtocolAfter
  <2>9. UNCHANGED <<stream, wire, bounds, taken, waiting, status>>
    BY <1>5 DEF Decode
  <2>10. TypeOK'
    BY <1>1, <2>6, <2>7, <2>8, <2>9 DEF TypeOK
  <2> QED BY <2>4, <2>10 DEF CodecInv
<1>6. CASE NeedMore
  BY <1>1, <1>6 DEF CodecInv, TypeOK, OutIsSequence, NeedMore
<1>7. CASE Refuse
  BY <1>1, <1>7 DEF CodecInv, TypeOK, OutIsSequence, Refuse
<1>8. CASE Eof
  BY <1>1, <1>8 DEF CodecInv, TypeOK, OutIsSequence, Eof
<1>9. CASE UNCHANGED vars
  BY <1>1, <1>9 DEF CodecInv, TypeOK, OutIsSequence, vars
<1> QED BY <1>3, <1>4, <1>5, <1>6, <1>7, <1>8, <1>9 DEF Next

\* What has been written is the packets of the stream, each at its place.
WireLaid ==
  /\ End(bounds, Len(bounds)) = Len(wire)
  /\ \A i \in 1..Len(bounds) :
       /\ End(bounds, i - 1) <= End(bounds, i)
       /\ Piece(bounds, i) = Encode(Stream[stream][i])

LEMMA WireLaidInitially == Init => WireLaid
BY DEF Init, WireLaid, End

LEMMA WireLaidKept == CodecInv /\ WireLaid /\ [Next]_vars => WireLaid'
<1> SUFFICES ASSUME CodecInv, WireLaid, [Next]_vars PROVE WireLaid'
  OBVIOUS
<1>1. TypeOK
  BY DEF CodecInv
<1>2. CASE UNCHANGED <<stream, wire, bounds>>
  BY <1>2 DEF WireLaid, End, Piece
<1>3. CASE Write
  <2>1. PICK n \in Nat, m \in Nat, w \in ByteString : n = Len(bounds) /\ w = wire /\ m = Len(w)
    BY <1>1, Places DEF TypeOK
  <2>0. PICK e \in ByteString, v \in ByteString :
          e = Encode(Stream[stream][n + 1]) /\ v = wire' /\ Len(v) = m + Len(e)
    BY <1>1, <1>3, <2>1, WriteAppends
  <2>9. PICK k \in Nat : k = Len(v) /\ k = m + Len(e) /\ m <= k
    <3>1. Len(v) \in Nat /\ Len(e) \in Nat
      BY DEF ByteString
    <3> QED BY <2>0, <3>1
  <2>10. /\ \A i \in Nat : 1 <= i /\ i <= m => v[i] = w[i]
         /\ \A i \in Nat : 1 <= i /\ i <= Len(e) => v[m + i] = e[i]
    <3>1. v = w \o e
      BY <1>3, <2>0, <2>1 DEF Write
    <3> QED BY <2>1, <3>1, ConcatAt
  <2>2. e = Encode(Stream[stream][n + 1]) /\ v = wire' /\ k = Len(v) /\ m <= k
    BY <2>0, <2>9
  <2>3. /\ Len(bounds') = n + 1 /\ End(bounds', n + 1) = k
        /\ \A i \in 0..n : End(bounds', i) = End(bounds, i)
    BY <1>1, <1>3, <2>1, <2>2, WriteAppends
  <2>4. stream' = stream
    BY <1>3 DEF Write
  <2>5. End(bounds, n) = m
    BY <2>1 DEF WireLaid
  <2>6. ASSUME NEW i \in 1..n
        PROVE  /\ End(bounds', i - 1) <= End(bounds', i)
               /\ Piece(bounds, i)' = Encode(Stream[stream][i])
    <3>1. PICK a \in Nat, b \in Nat : a = End(bounds, i - 1) /\ b = End(bounds, i) /\ b <= m
      <4>1. i - 1 \in 0..n /\ i \in 0..n
        BY <2>1
      <4>2. \A j \in 0..n : End(bounds, j) \in 0..m
        BY <1>1, <2>1, LastEnd DEF TypeOK
      <4> QED BY <4>1, <4>2
    <3>2. a <= b /\ SubSeq(w, a + 1, b) = Encode(Stream[stream][i])
      BY <2>1, <3>1 DEF WireLaid, Piece
    <3>3. End(bounds', i - 1) = a /\ End(bounds', i) = b
      BY <2>1, <2>3, <3>1
    <3>4. SubSeq(v, a + 1, b) = SubSeq(w, a + 1, b)
      <4>1. m = Len(w) /\ m <= Len(v) /\ a <= b /\ b <= m
        BY <2>1, <2>9, <3>1, <3>2
      <4>2. \A j \in Nat : 1 <= j /\ j <= m => v[j] = w[j]
        BY <2>10
      <4> QED BY <4>1, <4>2, PartKept, SMTT(30)
    <3> QED BY <2>2, <3>2, <3>3, <3>4 DEF Piece
  <2>7. End(bounds', n) <= End(bounds', n + 1) /\ Piece(bounds, n + 1)' = Encode(Stream[stream][n + 1])
    <3>1. End(bounds', n) = m
      BY <2>3, <2>5
    <3>2. SubSeq(v, m + 1, k) = e
      BY <2>9, <2>10, LastPart
    <3>3. Piece(bounds, n + 1)' = SubSeq(v, m + 1, k)
      <4>1. (n + 1) - 1 = n
        OBVIOUS
      <4>2. Piece(bounds, n + 1)' = SubSeq(wire', End(bounds', (n + 1) - 1) + 1, End(bounds', n + 1))
        BY DEF Piece, End
      <4> QED BY <2>2, <2>3, <3>1, <4>1, <4>2
    <3> QED BY <2>2, <2>3, <3>1, <3>2, <3>3
  <2>8. ASSUME NEW i \in 1..(n + 1)
        PROVE  /\ End(bounds', i - 1) <= End(bounds', i)
               /\ Piece(bounds, i)' = Encode(Stream[stream][i])
    <3>1. CASE i \in 1..n
      BY <2>6, <3>1
    <3>2. CASE i = n + 1
      <4>1. i - 1 = n
        BY <3>2
      <4> QED BY <2>7, <3>2, <4>1
    <3> QED BY <3>1, <3>2
  <2> QED BY <2>2, <2>3, <2>4, <2>8 DEF WireLaid
<1>4. Next => Write \/ UNCHANGED <<stream, wire, bounds>>
  BY DEF Next, Read, Decode, NeedMore, Refuse, Eof
<1> QED BY <1>2, <1>3, <1>4 DEF vars

\* The place of each packet written, and the frame at it.
LEMMA PieceAt ==
  ASSUME TypeOK, WireLaid, NEW i \in Nat, i < Len(bounds)
  PROVE  /\ i + 1 \in 1..Len(Stream[stream])
         /\ End(bounds, i) \in Nat /\ End(bounds, i + 1) \in Nat
         /\ End(bounds, i) <= End(bounds, i + 1) /\ End(bounds, i + 1) <= Len(wire)
         /\ SubSeq(wire, End(bounds, i) + 1, End(bounds, i + 1)) = Encode(Stream[stream][i + 1])
         /\ Encode(Stream[stream][i + 1]) \in ByteString
         /\ Len(Encode(Stream[stream][i + 1])) = End(bounds, i + 1) - End(bounds, i)
<1>1. PICK n \in Nat, m \in Nat, w \in ByteString : n = Len(bounds) /\ w = wire /\ m = Len(w)
  BY Places DEF TypeOK
<1>2. i + 1 \in 1..n /\ i \in 0..n /\ i + 1 \in 0..n /\ (i + 1) - 1 = i
  BY <1>1
<1>3. PICK a \in Nat, b \in Nat : a = End(bounds, i) /\ b = End(bounds, i + 1) /\ b <= m
  <2>1. \A j \in 0..n : End(bounds, j) \in 0..m
    BY <1>1, LastEnd DEF TypeOK
  <2> QED BY <1>2, <2>1
<1>4. a <= b /\ SubSeq(w, a + 1, b) = Encode(Stream[stream][i + 1])
  BY <1>1, <1>2, <1>3 DEF WireLaid, Piece
<1>5. SubSeq(w, a + 1, b) \in ByteString /\ Len(SubSeq(w, a + 1, b)) = b - a
  BY <1>1, <1>3, <1>4, PartBytes
<1>6. i + 1 \in 1..Len(Stream[stream])
  BY <1>1, <1>2, PacketAssumption DEF TypeOK
<1> QED BY <1>1, <1>3, <1>4, <1>5, <1>6

-----------------------------------------------------------------------------
(* A session *)

\* What decode answers to a buffer that begins with a frame.
LEMMA FrameDecoded ==
  ASSUME NEW p \in FramedPacket, Fits(p), protocol \in {"Unknown", "Proxy"},
         HelloLike(p) => protocol = "Proxy",
         NEW rest \in ByteString, NEW buf \in ByteString, buf = Encode(p) \o rest, Buffer = buf
  PROVE  Decoded = Got(p, Len(Encode(p)))
<1>1. PICK e \in ByteString : e = Encode(p) /\ Len(e) >= 6
  BY FrameBegins
<1>2. Len(buf) = Len(e) + Len(rest)
  BY <1>1, Concat
<1>3. Len(e) \in Nat /\ Len(rest) \in Nat
  BY DEF ByteString
<1>4. HasBytes(buf)
  BY <1>1, <1>2, <1>3 DEF HasBytes
<1>5. CASE protocol = "Proxy"
  <2>1. DecodeProxy(buf) = Got(p, Len(Encode(p)))
    BY FrameReadBack
  <2>2. Decoded = DecodeProxy(buf)
    BY <1>4, <1>5 DEF Decoded, ParsePacket
  <2> QED BY <2>1, <2>2
<1>6. CASE protocol = "Unknown"
  <2>1. ~HelloLike(p)
    BY <1>6
  <2>2. ParseFirstPackage(buf) = Got(p, Len(Encode(p)))
    BY <2>1, FirstFrameReadBack
  <2>3. Decoded = ParseFirstPackage(buf)
    BY <1>4, <1>6 DEF Decoded
  <2> QED BY <2>2, <2>3
<1> QED BY <1>5, <1>6

\* ... and to a buffer that has not all of it, or nothing.
LEMMA PartDecoded ==
  ASSUME NEW p \in FramedPacket, Fits(p), protocol \in {"Unknown", "Proxy"},
         HelloLike(p) => protocol = "Proxy",
         NEW k \in Nat, k < Len(Encode(p)), NEW buf \in ByteString,
         buf = SubSeq(Encode(p), 1, k), Len(buf) = k, Buffer = buf
  PROVE  Decoded = Fail("TooSmall")
<1>1. CASE ~HasBytes(buf)
  BY <1>1 DEF Decoded
<1>2. CASE HasBytes(buf) /\ protocol = "Proxy"
  <2>1. DecodeProxy(buf) = Fail("TooSmall")
    BY PartOfFrameWaits
  <2>2. Decoded = DecodeProxy(buf)
    BY <1>2 DEF Decoded, ParsePacket
  <2> QED BY <2>1, <2>2
<1>3. CASE HasBytes(buf) /\ protocol = "Unknown"
  <2>1. ~HelloLike(p)
    BY <1>3
  <2>2. 1 <= k
    <3>1. CASE k = 0
      <4>1. buf = <<>>
        BY <3>1 DEF ByteString
      <4> QED BY <1>3, <4>1 DEF HasBytes
    <3> QED BY <3>1
  <2>3. ParseFirstPackage(buf) = Fail("TooSmall")
    BY <2>1, <2>2, PartOfFirstFrameWaits
  <2>4. Decoded = ParseFirstPackage(buf)
    BY <1>3 DEF Decoded
  <2> QED BY <2>3, <2>4
<1> QED BY <1>1, <1>2, <1>3

\* Among the first n packets of the stream is a ProxyHello.
Introduced(n) == \E j \in 1..n : Stream[stream][j].type = "ProxyHello"

\* The packets handed out are the first ones of the stream, each cut out where
\* it was written, and decode knows whether a ProxyHello is one of them; while
\* it waits, the next packet, if it has been written, has not arrived whole.
InOrder ==
  /\ Len(out) <= Len(bounds)
  /\ \A i \in 1..Len(out) : out[i] = Stream[stream][i]
  /\ \A i \in 0..Len(out) : End(cuts, i) = End(bounds, i)
  /\ protocol = IF Introduced(Len(out)) THEN "Proxy" ELSE "Unknown"
  /\ status # "failed"
  /\ waiting /\ Len(out) < Len(bounds) => taken < End(bounds, Len(out) + 1)

\* Decode either hands out the next packet, which has arrived whole, or waits.
LEMMA DecodedInOrder ==
  ASSUME TypeOK, WireLaid, InOrder, Session(Stream[stream])
  PROVE  \/ /\ Len(out) < Len(bounds) /\ End(bounds, Len(out) + 1) <= taken
            /\ Decoded = Got(Stream[stream][Len(out) + 1],
                             End(bounds, Len(out) + 1) - End(bounds, Len(out)))
         \/ /\ Len(out) < Len(bounds) => taken < End(bounds, Len(out) + 1)
            /\ Decoded = Fail("TooSmall")
<1>1. PICK n \in Nat, m \in Nat : n = Len(out) /\ n = Len(cuts) /\ m = Len(bounds) /\ n <= m
  BY Places DEF TypeOK, InOrder
<1>2. PICK w \in ByteString, t \in Nat : w = wire /\ t = taken /\ t <= Len(w)
  BY Places DEF TypeOK
<1>3. PICK a \in Nat : a = eaten /\ a = End(bounds, n) /\ a <= t
  <2>1. eaten \in Nat /\ eaten <= t
    BY <1>2, Places
  <2>2. eaten = End(cuts, n) /\ End(cuts, n) = End(bounds, n)
    BY <1>1 DEF eaten, InOrder
  <2> QED BY <2>1, <2>2
<1>4. PICK buf \in ByteString : buf = Buffer /\ Len(buf) = t - a
  BY <1>2, <1>3, BufferBytes
<1>5. buf = SubSeq(w, a + 1, t)
  BY <1>2, <1>3, <1>4 DEF Buffer
<1>6. CASE n = m
  <2>1. a = Len(w)
    BY <1>1, <1>2, <1>3, <1>6 DEF WireLaid
  <2>2. Len(buf) = 0
    BY <1>2, <1>3, <1>4, <2>1
  <2>3. ~HasBytes(buf)
    BY <2>2 DEF HasBytes, ByteString
  <2>4. Decoded = Fail("TooSmall")
    BY <1>4, <2>3 DEF Decoded
  <2> QED BY <1>1, <1>6, <2>4
<1>7. CASE n < m
  <2>1. PICK b \in Nat : b = End(bounds, n + 1) /\ a <= b /\ b <= Len(w)
    BY <1>1, <1>2, <1>3, <1>7, PieceAt
  <2>2. PICK p : p = Stream[stream][n + 1]
    OBVIOUS
  <2>3. PICK e \in ByteString : e = Encode(p) /\ SubSeq(w, a + 1, b) = e /\ Len(e) = b - a
    BY <1>1, <1>2, <1>3, <1>7, <2>1, <2>2, PieceAt
  <2>4. n + 1 \in DOMAIN Stream[stream]
    BY <1>1, <1>7, PieceAt, PacketAssumption DEF TypeOK
  <2>5. p \in FramedPacket /\ Fits(p)
    BY <2>2, <2>4 DEF Session
  <2>6. protocol \in {"Unknown", "Proxy"}
    BY DEF InOrder
  <2>7. HelloLike(p) => protocol = "Proxy"
    <3>1. (n + 1) - 1 = n
      OBVIOUS
    <3>2. HelloLike(p) => Introduced(n)
      BY <2>2, <2>4, <3>1 DEF Session, Introduced
    <3> QED BY <1>1, <3>2 DEF InOrder
  <2>10. b <= t => SubSeq(w, a + 1, t) = SubSeq(w, a + 1, b) \o SubSeq(w, b + 1, t)
    <3>1. a <= b /\ t <= Len(w)
      BY <1>2, <2>1
    <3> QED BY <3>1, PartSplit, SMTT(60)
  <2>8. CASE b <= t
    <3>1. PICK rest : rest = SubSeq(w, b + 1, t)
      OBVIOUS
    <3>2. rest \in ByteString
      BY <1>2, <2>8, <3>1, PartBytes
    <3>4. buf = Encode(p) \o rest
      BY <1>5, <2>3, <2>8, <2>10, <3>1
    <3>5. Decoded = Got(p, Len(Encode(p)))
      BY <1>4, <2>5, <2>6, <2>7, <3>2, <3>4, FrameDecoded
    <3>6. Len(Encode(p)) = b - a
      BY <2>3
    <3> QED BY <1>1, <1>2, <1>3, <1>7, <2>1, <2>2, <2>8, <3>5, <3>6
  <2>9. CASE t < b
    <3>1. SubSeq(w, a + 1, t) = SubSeq(SubSeq(w, a + 1, b), 1, t - a)
      BY <1>3, <2>1, <2>9, PartOfPart
    <3>2. PICK k \in Nat : k = t - a /\ k < b - a
      BY <1>3, <2>1, <2>9
    <3>3. buf = SubSeq(Encode(p), 1, k)
      BY <1>5, <2>3, <3>1, <3>2
    <3>4. k < Len(Encode(p)) /\ Len(buf) = k
      BY <1>4, <2>3, <3>2
    <3>5. Decoded = Fail("TooSmall")
      BY <1>4, <2>5, <2>6, <2>7, <3>3, <3>4, PartDecoded
    <3> QED BY <1>1, <1>2, <2>1, <2>9, <3>5
  <2> QED BY <2>8, <2>9
<1> QED BY <1>1, <1>6, <1>7

LEMMA InOrderInitially == Init => InOrder
<1> SUFFICES ASSUME Init PROVE InOrder
  OBVIOUS
<1>1. bounds = <<>> /\ cuts = <<>> /\ out = <<>> /\ protocol = "Unknown" /\ status = "open"
  BY DEF Init
<1>2. Len(out) = 0 /\ Len(bounds) = 0
  BY <1>1
<1>3. ~Introduced(Len(out))
  BY <1>2 DEF Introduced
<1> QED BY <1>1, <1>2, <1>3 DEF InOrder, End

\* Between the steps of Decode, only what decode waits for is to be shown.
LEMMA InOrderWritten ==
  ASSUME CodecInv, WireLaid, InOrder, Session(Stream[stream]), Write
  PROVE  InOrder'
<1>1. TypeOK
  BY DEF CodecInv
<1>2. PICK n \in Nat, m \in Nat : n = Len(out) /\ m = Len(bounds) /\ n <= m
  BY <1>1, Places DEF TypeOK, InOrder
<1>3. UNCHANGED <<stream, taken, cuts, waiting, protocol, out, status>>
  BY DEF Write
<1>4. /\ Len(bounds') = m + 1 /\ End(bounds', m + 1) = Len(wire')
      /\ \A i \in 0..m : End(bounds', i) = End(bounds, i)
  BY <1>1, <1>2, WriteAppends
<1>5. \A i \in 0..n : End(cuts', i) = End(bounds', i)
  BY <1>2, <1>3, <1>4 DEF InOrder, End
<1>6. ASSUME waiting PROVE taken < End(bounds', n + 1)
  <2>1. CASE n < m
    <3>1. taken < End(bounds, n + 1)
      BY <1>2, <1>6, <2>1 DEF InOrder
    <3> QED BY <1>2, <1>4, <2>1, <3>1
  <2>2. CASE n = m
    <3>1. PICK p : p = Stream[stream][m + 1]
      OBVIOUS
    <3>2. p \in FramedPacket /\ Fits(p)
      <4>1. m + 1 \in DOMAIN Stream[stream]
        BY <1>1, <1>2, WriteAppends, PacketAssumption DEF TypeOK
      <4> QED BY <3>1, <4>1 DEF Session
    <3>3. PICK k \in Nat : k = Len(Encode(p)) /\ k >= 6
      BY <3>2, FrameBegins DEF ByteString
    <3>4. Len(wire') = Len(wire) + k
      BY <1>1, <1>2, <3>1, <3>3, WriteAppends
    <3>5. taken <= Len(wire) /\ taken \in Nat /\ Len(wire) \in Nat
      BY <1>1, Places
    <3>6. taken < Len(wire')
      BY <3>3, <3>4, <3>5
    <3> QED BY <1>4, <2>2, <3>6
  <2> QED BY <1>2, <2>1, <2>2
<1>7. Introduced(Len(out))' <=> Introduced(Len(out))
  BY <1>3 DEF Introduced
<1>8. Len(out') <= Len(bounds')
  BY <1>2, <1>3, <1>4
<1> QED BY <1>2, <1>3, <1>5, <1>6, <1>7, <1>8 DEF InOrder

LEMMA InOrderDecoded ==
  ASSUME CodecInv, WireLaid, InOrder, Session(Stream[stream]), Decode
  PROVE  InOrder'
<1>1. TypeOK /\ OutIsSequence
  BY DEF CodecInv
<1>2. PICK n \in Nat, m \in Nat : n = Len(out) /\ n = Len(cuts) /\ m = Len(bounds) /\ n <= m
  BY <1>1, Places DEF TypeOK, InOrder
<1>3. UNCHANGED <<stream, wire, bounds, taken, waiting, status>> /\ waiting = FALSE
  BY <1>1 DEF Decode, TypeOK
<1>4. PICK p : p = Stream[stream][n + 1]
  OBVIOUS
<1>5. PICK c : c = End(bounds, n + 1) - End(bounds, n)
  OBVIOUS
<1>6. n < m /\ Decoded = Got(p, c)
  <2>1. Decoded # Fail("TooSmall")
    BY DEF Decode, Fail
  <2> QED BY <1>1, <1>2, <1>4, <1>5, <2>1, DecodedInOrder
<1>7. Decoded.val = p /\ Decoded.pos = c
  BY <1>6 DEF Got
<1>8. /\ Len(out') = n + 1 /\ out'[n + 1] = p
      /\ \A i \in 1..n : out'[i] = out[i]
  <2>1. PICK u : u = out' /\ u = Append(out, p)
    BY <1>7 DEF Decode
  <2>2. /\ Len(u) = Len(out) + 1 /\ u[Len(out) + 1] = p
        /\ \A i \in 1..Len(out) : u[i] = out[i]
    BY <1>1, <2>1, Appended DEF OutIsSequence
  <2> QED BY <1>2, <2>1, <2>2
<1>9. \A i \in 1..(n + 1) : out'[i] = Stream[stream][i]
  BY <1>2, <1>4, <1>8 DEF InOrder
<1>10. End(cuts', n + 1) = End(bounds, n + 1)
  <2>1. Len(cuts') = n + 1
    BY <1>1, <1>2, DecodeTakes
  <2>2. eaten' = End(cuts', n + 1)
    BY <2>1 DEF eaten, End
  <2>3. eaten' = eaten + c
    BY <1>1, <1>7, DecodeTakes
  <2>4. eaten = End(bounds, n)
    BY <1>2 DEF eaten, InOrder
  <2>5. End(bounds, n) \in Nat /\ End(bounds, n + 1) \in Nat
    BY <1>1, <1>2, <1>6, PieceAt
  <2> QED BY <1>5, <2>2, <2>3, <2>4, <2>5
<1>11. \A i \in 0..(n + 1) : End(cuts', i) = End(bounds', i)
  <2>1. ASSUME NEW i \in 0..(n + 1) PROVE End(cuts', i) = End(bounds, i)
    <3>1. CASE i = n + 1
      BY <1>10, <3>1
    <3>2. CASE i # n + 1
      <4>1. i \in 0..n
        BY <3>2
      <4>2. End(cuts', i) = End(cuts, i)
        BY <1>1, <1>2, <4>1, DecodeTakes
      <4> QED BY <1>2, <4>1, <4>2 DEF InOrder
    <3> QED BY <3>1, <3>2
  <2> QED BY <1>3, <2>1 DEF End
<1>12. protocol' = IF Introduced(n + 1) THEN "Proxy" ELSE "Unknown"
  <2>1. protocol' = ProtocolAfter(p)
    BY <1>7 DEF Decode
  <2>2. protocol = IF Introduced(n) THEN "Proxy" ELSE "Unknown"
    BY <1>2 DEF InOrder
  <2>3. Introduced(n + 1) <=> Introduced(n) \/ p.type = "ProxyHello"
    <3>1. \A j : j \in 1..(n + 1) <=> j \in 1..n \/ j = n + 1
      OBVIOUS
    <3> QED BY <1>4, <3>1 DEF Introduced
  <2>4. p.type # "MCHello"
    <3>1. n + 1 \in DOMAIN Stream[stream]
      BY <1>1, <1>2, <1>6, PieceAt, PacketAssumption DEF TypeOK
    <3>2. p \in FramedPacket
      BY <1>4, <3>1 DEF Session
    <3> QED BY <3>2 DEF FramedPacket, U16Packet, AuthPacket
  <2> QED BY <2>1, <2>2, <2>3, <2>4 DEF ProtocolAfter
<1>13. Introduced(n + 1)' <=> Introduced(n + 1)
  BY <1>3 DEF Introduced
<1>14. Len(out') <= Len(bounds')
  BY <1>2, <1>3, <1>6, <1>8
<1>15. status' # "failed" /\ waiting' = FALSE
  BY <1>3 DEF InOrder
<1> QED BY <1>3, <1>8, <1>9, <1>11, <1>12, <1>13, <1>14, <1>15 DEF InOrder

\* When everything has arrived and decode waits, everything is handed out.
LEMMA AllHandedOut ==
  ASSUME TypeOK, WireLaid, InOrder, waiting, taken = Len(wire)
  PROVE  eaten = taken
<1>1. PICK n \in Nat, m \in Nat : n = Len(out) /\ n = Len(cuts) /\ m = Len(bounds) /\ n <= m
  BY Places DEF TypeOK, InOrder
<1>2. taken \in Nat
  BY Places
<1>3. ~(n < m)
  <2> SUFFICES ASSUME n < m PROVE FALSE
    OBVIOUS
  <2>1. End(bounds, n + 1) \in Nat /\ End(bounds, n + 1) <= taken
    BY <1>1, PieceAt
  <2>2. taken < End(bounds, n + 1)
    BY <1>1 DEF InOrder
  <2> QED BY <1>2, <2>1, <2>2
<1>4. n = m
  BY <1>1, <1>3
<1>5. End(bounds, m) = Len(wire)
  BY <1>1 DEF WireLaid
<1>6. eaten = End(bounds, n)
  BY <1>1 DEF eaten, InOrder
<1> QED BY <1>4, <1>5, <1>6

LEMMA InOrderKept ==
  CodecInv /\ WireLaid /\ InOrder /\ Session(Stream[stream]) /\ [Next]_vars => InOrder'
<1> SUFFICES ASSUME CodecInv, WireLaid, InOrder, Session(Stream[stream]), [Next]_vars PROVE InOrder'
  OBVIOUS
<1>1. TypeOK
  BY DEF CodecInv
<1>2. Len(out) \in Nat /\ Len(bounds) \in Nat
  BY <1>1, Places DEF TypeOK
<1>3. CASE Write
  BY <1>3, InOrderWritten
<1>4. CASE \E k \in ReadSizes : Read(k)
  <2>1. UNCHANGED <<stream, bounds, cuts, protocol, out, status>> /\ waiting' = FALSE
    BY <1>4 DEF Read
  <2> QED BY <2>1 DEF InOrder, End, Introduced
<1>5. CASE Decode
  BY <1>5, InOrderDecoded
<1>6. CASE NeedMore
  <2>1. UNCHANGED <<stream, bounds, taken, cuts, protocol, out, status>> /\ ~Decoded.ok
    BY <1>6 DEF NeedMore
  <2>2. Len(out) < Len(bounds) => taken < End(bounds, Len(out) + 1)
    <3>1. Decoded # Got(Stream[stream][Len(out) + 1], End(bounds, Len(out) + 1) - End(bounds, Len(out)))
      BY <2>1 DEF Got
    <3> QED BY <1>1, <3>1, DecodedInOrder
  <2> QED BY <2>1, <2>2 DEF InOrder, End, Introduced
<1>7. CASE Refuse
  <2>1. ~Decoded.ok /\ Decoded.err # "TooSmall"
    BY <1>7 DEF Refuse
  <2>2. Decoded # Got(Stream[stream][Len(out) + 1], End(bounds, Len(out) + 1) - End(bounds, Len(out)))
    BY <2>1 DEF Got
  <2>3. Decoded # Fail("TooSmall")
    BY <2>1 DEF Fail
  <2> QED BY <1>1, <2>2, <2>3, DecodedInOrder
<1>8. CASE Eof
  <2>1. UNCHANGED <<stream, bounds, taken, cuts, waiting, protocol, out>> /\ status' = "ended"
    BY <1>1, <1>8, AllHandedOut DEF Eof
  <2> QED BY <2>1 DEF InOrder, End, Introduced
<1>9. CASE UNCHANGED vars
  BY <1>9 DEF vars, InOrder, End, Introduced
<1> QED BY <1>3, <1>4, <1>5, <1>6, <1>7, <1>8, <1>9 DEF Next

\* A session that is in order is whole.
LEMMA InOrderIsWhole ==
  ASSUME CodecInv, WireLaid, InOrder
  PROVE  PacketsWhole /\ NeverRefused /\ NothingStuck
<1>0. TypeOK /\ OutIsSequence
  BY DEF CodecInv
<1>1. NothingStuck
  BY <1>0, AllHandedOut DEF NothingStuck
<1>2. NeverRefused
  BY DEF NeverRefused, InOrder
<1>3. PICK n \in Nat, m \in Nat : n = Len(out) /\ m = Len(bounds) /\ n <= m
  BY <1>0, Places DEF TypeOK, InOrder
<1>4. DOMAIN out = 1..n
  <2>1. \A S, s : s \in Seq(S) => DOMAIN s = 1..Len(s)
    BY LenProperties
  <2> QED BY <1>0, <1>3, <2>1 DEF OutIsSequence
<1>5. ASSUME NEW i \in 1..n
      PROVE  /\ i \in DOMAIN Stream[stream] /\ out[i] = Stream[stream][i]
             /\ Encode(out[i]) = Piece(cuts, i)
  <2>1. PICK j \in Nat : j = i - 1 /\ j < m /\ i = j + 1
    BY <1>3
  <2>2. i \in DOMAIN Stream[stream]
    <3>1. j + 1 \in 1..Len(Stream[stream])
      BY <1>0, <1>3, <2>1, PieceAt
    <3> QED BY <1>0, <2>1, <3>1, PacketAssumption DEF TypeOK
  <2>3. out[i] = Stream[stream][i]
    BY <1>3 DEF InOrder
  <2>4. Piece(bounds, i) = Encode(Stream[stream][i])
    BY <1>3 DEF WireLaid
  <2>5. End(cuts, i) = End(bounds, i) /\ End(cuts, i - 1) = End(bounds, i - 1)
    <3>1. i \in 0..n /\ i - 1 \in 0..n
      OBVIOUS
    <3> QED BY <1>3, <3>1 DEF InOrder
  <2>6. Piece(cuts, i) = Piece(bounds, i)
    BY <2>5 DEF Piece
  <2> QED BY <2>2, <2>3, <2>4, <2>6
<1>6. PacketsWhole
  BY <1>4, <1>5 DEF PacketsWhole
<1> QED BY <1>1, <1>2, <1>6

-----------------------------------------------------------------------------
(* A Minecraft client *)

\* The hello is handed out as it was sent, and then every byte that has
\* arrived, in the pieces in which it arrives; until the hello is handed out,
\* waiting means that it has not arrived whole.
InPlay ==
  /\ status # "failed"
  /\ Len(out) = 0 =>
       protocol = "Unknown" /\ (waiting /\ 0 < Len(bounds) => taken < End(bounds, 1))
  /\ Len(out) > 0 =>
       /\ protocol = "MC" /\ Len(bounds) > 0
       /\ out[1] = Stream[stream][1] /\ End(cuts, 1) = End(bounds, 1)
       /\ waiting => taken = eaten
  /\ \A i \in 2..Len(out) : out[i].type = "MCData" /\ out[i].data = Piece(cuts, i)

LEMMA InPlayInitially == Init => InPlay
<1> SUFFICES ASSUME Init PROVE InPlay
  OBVIOUS
<1>1. bounds = <<>> /\ out = <<>> /\ protocol = "Unknown" /\ status = "open"
  BY DEF Init
<1>2. Len(out) = 0 /\ Len(bounds) = 0
  BY <1>1
<1> QED BY <1>1, <1>2 DEF InPlay

\* The hello of a stream that has begun.
LEMMA FirstIsReadable ==
  ASSUME TypeOK, Player(Stream[stream]), NEW i \in 1..Len(Stream[stream])
  PROVE  /\ 1 \in DOMAIN Stream[stream] /\ Readable(Stream[stream][1])
         /\ Encode(Stream[stream][1]) = Stream[stream][1].data
         /\ Len(Stream[stream][1].data) \in Nat /\ Len(Stream[stream][1].data) >= 1
<1>1. PICK p : p = Stream[stream]
  OBVIOUS
<1>2. Len(p) \in Nat /\ DOMAIN p = 1..Len(p)
  BY <1>1, PacketAssumption DEF TypeOK
<1>3. 1 \in DOMAIN p
  BY <1>1, <1>2
<1>4. Readable(p[1])
  BY <1>1, <1>3 DEF Player
<1>5. PICK h : h = p[1]
  OBVIOUS
<1>6. h.type = "MCHello" /\ h.data \in ByteString /\ MinecraftHello(h.data) = Got(h, Len(h.data))
  BY <1>4, <1>5 DEF Readable
<1>7. Encode(h) = h.data
  BY <1>6 DEF Encode
<1>8. MinecraftHello(h.data).ok /\ MinecraftHello(h.data).pos = Len(h.data)
  BY <1>6 DEF Got
<1>9. Len(h.data) \in Nat /\ Len(h.data) >= 1
  BY <1>6, <1>8, MinecraftHelloHanded DEF Handed
<1> QED BY <1>1, <1>3, <1>4, <1>5, <1>7, <1>9

\* Decode hands out the hello when it has arrived whole, and then whatever
\* there is.
LEMMA DecodedFirst ==
  ASSUME TypeOK, WireLaid, InPlay, Player(Stream[stream]), Len(out) = 0
  PROVE  \/ /\ 0 < Len(bounds) /\ End(bounds, 1) <= taken
            /\ Decoded = Got(Stream[stream][1], End(bounds, 1))
         \/ /\ 0 < Len(bounds) => taken < End(bounds, 1)
            /\ Decoded = Fail("TooSmall")
<1>1. PICK m \in Nat : m = Len(bounds)
  BY Places
<1>2. PICK w \in ByteString, t \in Nat : w = wire /\ t = taken /\ t <= Len(w)
  BY Places DEF TypeOK
<1>3. eaten = 0
  BY DEF TypeOK, eaten, End
<1>4. PICK buf \in ByteString : buf = Buffer /\ Len(buf) = t
  BY <1>2, <1>3, BufferBytes
<1>5. buf = SubSeq(w, 0 + 1, t)
  BY <1>2, <1>3, <1>4 DEF Buffer
<1>6. CASE ~HasBytes(buf)
  <2>1. Decoded = Fail("TooSmall")
    BY <1>4, <1>6 DEF Decoded
  <2>2. t = 0
    <3>1. buf = <<>>
      BY <1>6 DEF HasBytes
    <3> QED BY <1>4, <3>1
  <2>3. 0 < m => taken < End(bounds, 1)
    <3> SUFFICES ASSUME 0 < m PROVE taken < End(bounds, 1)
      OBVIOUS
    <3>1. 0 \in Nat /\ 0 < Len(bounds) /\ 0 + 1 = 1
      BY <1>1
    <3>2. 1 \in 1..Len(Stream[stream]) /\ Len(Encode(Stream[stream][1])) = End(bounds, 1) - End(bounds, 0)
          /\ End(bounds, 1) \in Nat
      BY <3>1, PieceAt
    <3>3. Len(Encode(Stream[stream][1])) >= 1 /\ Len(Encode(Stream[stream][1])) \in Nat
      BY <3>2, FirstIsReadable
    <3>4. End(bounds, 0) = 0
      BY DEF End
    <3> QED BY <1>2, <2>2, <3>2, <3>3, <3>4
  <2> QED BY <1>1, <2>1, <2>3
<1>7. CASE HasBytes(buf)
  <2>1. Decoded = ParseFirstPackage(buf)
    BY <1>4, <1>7 DEF Decoded, InPlay
  <2>2. 1 <= t
    <3>1. buf # <<>>
      BY <1>7 DEF HasBytes
    <3>2. t # 0
      <4> SUFFICES ASSUME t = 0 PROVE FALSE
        OBVIOUS
      <4>1. buf = <<>>
        BY <1>4 DEF ByteString
      <4> QED BY <3>1, <4>1
    <3> QED BY <3>2
  <2>3. 0 < m
    <3> SUFFICES ASSUME m = 0 PROVE FALSE
      BY <1>1
    <3>1. End(bounds, m) = 0
      BY DEF End
    <3>2. Len(w) = 0
      BY <1>1, <1>2, <3>1 DEF WireLaid
    <3> QED BY <1>2, <2>2, <3>2
  <2>4. 0 \in Nat /\ 0 < Len(bounds) /\ 0 + 1 = 1 /\ End(bounds, 0) = 0
    BY <1>1, <2>3 DEF End
  <2>5. PICK b \in Nat : b = End(bounds, 1) /\ b <= Len(w)
    BY <1>2, <2>4, PieceAt
  <2>6. PICK h : h = Stream[stream][1]
    OBVIOUS
  <2>7. 1 \in 1..Len(Stream[stream])
    BY <2>4, PieceAt
  <2>8. Readable(h) /\ Encode(h) = h.data
    BY <2>6, <2>7, FirstIsReadable
  <2>9. SubSeq(w, 0 + 1, b) = h.data /\ Len(h.data) = b
    <3>1. /\ SubSeq(wire, End(bounds, 0) + 1, End(bounds, 1)) = Encode(Stream[stream][1])
          /\ Len(Encode(Stream[stream][1])) = End(bounds, 1) - End(bounds, 0)
      BY <2>4, PieceAt
    <3>2. SubSeq(w, 0 + 1, b) = Encode(h)
      BY <1>2, <2>4, <2>5, <2>6, <3>1
    <3>3. Len(Encode(h)) = b - 0
      BY <2>4, <2>5, <2>6, <3>1
    <3>4. b - 0 = b
      OBVIOUS
    <3> QED BY <2>8, <3>2, <3>3, <3>4
  <2>10. h.data \in ByteString
    BY <2>8 DEF Readable
  <2>11. b <= t => SubSeq(w, 0 + 1, t) = SubSeq(w, 0 + 1, b) \o SubSeq(w, b + 1, t)
    <3>1. 0 \in Nat /\ 0 <= b /\ t <= Len(w)
      BY <1>2
    <3> QED BY <3>1, PartSplit, SMTT(60)
  <2>12. CASE b <= t
    <3>1. PICK rest : rest = SubSeq(w, b + 1, t)
      OBVIOUS
    <3>2. rest \in ByteString
      BY <1>2, <2>12, <3>1, PartBytes
    <3>3. buf = h.data \o rest
      BY <1>5, <2>9, <2>11, <2>12, <3>1
    <3>4. ParseFirstPackage(buf) = Got(h, Len(h.data))
      BY <2>8, <3>2, <3>3, HelloReadBack
    <3> QED BY <1>1, <1>2, <2>1, <2>3, <2>5, <2>6, <2>9, <2>12, <3>4
  <2>13. CASE t < b
    <3>1. SubSeq(w, 0 + 1, t) = SubSeq(SubSeq(w, 0 + 1, b), 1, t - 0)
      <4>1. 0 \in Nat /\ 0 <= t /\ t <= b /\ b <= Len(w)
        BY <2>5, <2>13
      <4> QED BY <4>1, PartOfPart
    <3>2. t - 0 = t
      OBVIOUS
    <3>3. buf = SubSeq(h.data, 1, t)
      BY <1>5, <2>9, <3>1, <3>2
    <3>4. ParseFirstPackage(buf) = Fail("TooSmall")
      BY <2>2, <2>8, <2>9, <2>13, <3>3, PartOfHelloWaits
    <3> QED BY <1>2, <2>1, <2>5, <2>13, <3>4
  <2> QED BY <2>12, <2>13
<1> QED BY <1>6, <1>7

LEMMA DecodedLater ==
  ASSUME TypeOK, InPlay, Len(out) > 0
  PROVE  \/ Decoded = Got(MCData(Buffer), taken - eaten)
         \/ taken = eaten /\ Decoded = Fail("TooSmall")
<1>1. PICK t \in Nat, a \in Nat : t = taken /\ a = eaten /\ a <= t
  BY Places
<1>2. PICK buf \in ByteString : buf = Buffer /\ Len(buf) = t - a
  BY <1>1, BufferBytes
<1>3. protocol = "MC"
  BY DEF InPlay
<1>4. CASE HasBytes(buf)
  BY <1>1, <1>2, <1>3, <1>4 DEF Decoded, ParsePacket
<1>5. CASE ~HasBytes(buf)
  <2>1. Decoded = Fail("TooSmall")
    BY <1>2, <1>5 DEF Decoded
  <2>2. buf = <<>>
    BY <1>5 DEF HasBytes
  <2>3. t = a
    BY <1>1, <1>2, <2>2
  <2> QED BY <1>1, <2>1, <2>3
<1> QED BY <1>4, <1>5

\* The pieces handed out stay where they are, whatever is written or handed
\* out behind them.
LEMMA PiecesKept ==
  ASSUME CodecInv, [Next]_vars, NEW i \in 1..Len(out)
  PROVE  Piece(cuts, i)' = Piece(cuts, i) /\ End(cuts, i)' = End(cuts, i)
<1>1. TypeOK
  BY DEF CodecInv
<1>2. PICK n \in Nat : n = Len(cuts) /\ n = Len(out)
  BY <1>1, Places DEF TypeOK
<1>3. \A j \in 0..n : End(cuts, j)' = End(cuts, j)
  <2>1. CASE Decode
    <3>1. \A j \in 0..n : End(cuts', j) = End(cuts, j)
      BY <1>1, <1>2, <2>1, DecodeTakes
    <3> QED BY <3>1 DEF End
  <2>2. CASE UNCHANGED cuts
    BY <2>2 DEF End
  <2>3. Decode \/ UNCHANGED cuts
    BY DEF Next, Write, Read, NeedMore, Refuse, Eof, vars
  <2> QED BY <2>1, <2>2, <2>3
<1>4. i \in 0..n /\ i - 1 \in 0..n
  BY <1>2
<1>5. PICK a, b : a = End(cuts, i - 1) /\ b = End(cuts, i)
  OBVIOUS
<1>6. End(cuts, i - 1)' = a /\ End(cuts, i)' = b
  BY <1>3, <1>4, <1>5
<1>7. Piece(cuts, i)' = SubSeq(wire', a + 1, b)
  BY <1>6 DEF Piece, End
<1>8. SubSeq(wire', a + 1, b) = SubSeq(wire, a + 1, b)
  <2>1. CASE UNCHANGED wire
    BY <2>1
  <2>2. CASE Write
    <3>1. PICK w \in ByteString, v \in ByteString, e \in ByteString :
            /\ w = wire /\ v = wire' /\ e = Encode(Stream[stream][Len(bounds) + 1])
      BY <1>1, <2>2, WriteAppends DEF TypeOK
    <3>2. v = w \o e
      BY <2>2, <3>1 DEF Write
    <3>3. PICK m \in Nat, k \in Nat : m = Len(w) /\ k = Len(v) /\ m <= k
      <4>1. Len(v) = Len(w) + Len(e)
        BY <3>2, Concat
      <4>2. Len(w) \in Nat /\ Len(v) \in Nat /\ Len(e) \in Nat
        BY DEF ByteString
      <4> QED BY <4>1, <4>2
    <3>4. \A j \in Nat : 1 <= j /\ j <= m => v[j] = w[j]
      BY <3>2, <3>3, ConcatAt
    <3>5. \A j \in 0..n : End(cuts, j) \in 0..taken
      BY <1>1, <1>2, Places, LastEnd DEF TypeOK
    <3>6. a \in Nat /\ b \in Nat /\ b <= m
      BY <1>1, <1>4, <1>5, <3>1, <3>3, <3>5, Places
    <3>7. CASE a <= b
      <4>1. m <= Len(v)
        BY <3>3
      <4>2. SubSeq(v, a + 1, b) = SubSeq(w, a + 1, b)
        BY <3>3, <3>4, <3>6, <3>7, <4>1, PartKept, SMTT(60)
      <4> QED BY <3>1, <4>2
    <3>8. CASE ~(a <= b)
      <4>1. \A s \in ByteString : SubSeq(s, a + 1, b) = <<>>
        BY <3>6, <3>8 DEF ByteString
      <4> QED BY <3>1, <4>1
    <3> QED BY <3>7, <3>8
  <2>3. Write \/ UNCHANGED wire
    BY DEF Next, Decode, Read, NeedMore, Refuse, Eof, vars
  <2> QED BY <2>1, <2>2, <2>3
<1>9. Piece(cuts, i) = SubSeq(wire, a + 1, b)
  BY <1>5 DEF Piece
<1> QED BY <1>3, <1>4, <1>7, <1>8, <1>9

LEMMA InPlayWritten ==
  ASSUME CodecInv, WireLaid, InPlay, Player(Stream[stream]), Write
  PROVE  InPlay'
<1>1. TypeOK
  BY DEF CodecInv
<1>2. PICK n \in Nat, m \in Nat : n = Len(out) /\ m = Len(bounds)
  BY <1>1, Places DEF TypeOK
<1>3. UNCHANGED <<stream, taken, cuts, waiting, protocol, out, status>> /\ eaten' = eaten
  BY DEF Write, eaten, End
<1>4. /\ Len(bounds') = m + 1 /\ End(bounds', m + 1) = Len(wire')
      /\ \A i \in 0..m : End(bounds', i) = End(bounds, i)
  BY <1>1, <1>2, WriteAppends
<1>5. \A i \in 1..n : Piece(cuts, i)' = Piece(cuts, i)
  BY <1>2, PiecesKept DEF Next
<1>6. ASSUME n = 0, waiting PROVE taken < End(bounds', 1)
  <2>1. CASE 0 < m
    BY <1>2, <1>4, <1>6, <2>1 DEF InPlay
  <2>2. CASE m = 0
    <3>1. Len(wire') = Len(wire) + Len(Encode(Stream[stream][1])) /\ 1 \in 1..Len(Stream[stream])
      BY <1>1, <1>2, <2>2, WriteAppends
    <3>2. Len(Encode(Stream[stream][1])) \in Nat /\ Len(Encode(Stream[stream][1])) >= 1
      BY <1>1, <3>1, FirstIsReadable
    <3>3. taken <= Len(wire) /\ taken \in Nat /\ Len(wire) \in Nat
      BY <1>1, Places
    <3> QED BY <1>4, <2>2, <3>1, <3>2, <3>3
  <2> QED BY <1>2, <2>1, <2>2
<1>7. n > 0 => m > 0 /\ End(cuts', 1) = End(bounds', 1)
  <2> SUFFICES ASSUME n > 0 PROVE m > 0 /\ End(cuts', 1) = End(bounds', 1)
    OBVIOUS
  <2>1. m > 0 /\ End(cuts, 1) = End(bounds, 1)
    BY <1>2 DEF InPlay
  <2>2. End(bounds', 1) = End(bounds, 1)
    BY <1>4, <2>1
  <2>3. End(cuts', 1) = End(cuts, 1)
    BY <1>3
  <2> QED BY <2>1, <2>2, <2>3
<1>8. \A i \in 2..n : out'[i].type = "MCData" /\ out'[i].data = Piece(cuts, i)'
  BY <1>2, <1>3, <1>5 DEF InPlay
<1>9. status' # "failed" /\ (n = 0 => protocol' = "Unknown")
      /\ (n > 0 => protocol' = "MC" /\ out'[1] = Stream[stream'][1] /\ (waiting' => taken' = eaten'))
  BY <1>2, <1>3 DEF InPlay
<1>10. Len(out') = n /\ Len(bounds') > 0
  BY <1>2, <1>3, <1>4
<1> QED BY <1>3, <1>4, <1>6, <1>7, <1>8, <1>9, <1>10 DEF InPlay, End

LEMMA InPlayDecoded ==
  ASSUME CodecInv, WireLaid, InPlay, Player(Stream[stream]), Decode
  PROVE  InPlay'
<1>1. TypeOK /\ OutIsSequence
  BY DEF CodecInv
<1>2. PICK n \in Nat, m \in Nat : n = Len(out) /\ n = Len(cuts) /\ m = Len(bounds)
  BY <1>1, Places DEF TypeOK
<1>3. UNCHANGED <<stream, wire, bounds, taken, waiting, status>> /\ waiting = FALSE
  BY <1>1 DEF Decode, TypeOK
<1>4. PICK v : v = Decoded.val
  OBVIOUS
<1>5. /\ Len(out') = n + 1 /\ out'[n + 1] = v
      /\ \A i \in 1..n : out'[i] = out[i]
  <2>1. PICK u : u = out' /\ u = Append(out, v)
    BY <1>4 DEF Decode
  <2>2. /\ Len(u) = Len(out) + 1 /\ u[Len(out) + 1] = v
        /\ \A i \in 1..Len(out) : u[i] = out[i]
    BY <1>1, <2>1, Appended DEF OutIsSequence
  <2> QED BY <1>2, <2>1, <2>2
<1>6. /\ \A i \in 1..n : Piece(cuts, i)' = Piece(cuts, i) /\ End(cuts, i)' = End(cuts, i)
  BY <1>2, PiecesKept DEF Next
<1>7. Len(cuts') = n + 1 /\ eaten' = End(cuts', n + 1) /\ eaten' = eaten + Decoded.pos
      /\ eaten = End(cuts, n) /\ End(cuts', n) = eaten
  <2>1. Len(cuts') = n + 1 /\ eaten' = eaten + Decoded.pos /\ End(cuts', n) = End(cuts, n)
    BY <1>1, <1>2, DecodeTakes
  <2> QED BY <1>2, <2>1 DEF eaten, End
<1>8. Decoded # Fail("TooSmall")
  BY DEF Decode, Fail
<1>9. CASE n = 0
  <2>1. 0 < m /\ Decoded = Got(Stream[stream][1], End(bounds, 1))
    BY <1>1, <1>2, <1>8, <1>9, DecodedFirst
  <2>2. v = Stream[stream][1] /\ Decoded.pos = End(bounds, 1)
    BY <1>4, <2>1 DEF Got
  <2>3. 0 \in Nat /\ 0 < Len(bounds) /\ 0 + 1 = 1
    BY <1>2, <2>1
  <2>4. End(bounds, 1) \in Nat /\ 1 \in 1..Len(Stream[stream])
    BY <1>1, <2>3, PieceAt
  <2>5. End(cuts', 1) = End(bounds, 1)
    <3>1. eaten = 0
      BY <1>7, <1>9 DEF End
    <3> QED BY <1>7, <1>9, <2>2, <2>4, <3>1
  <2>6. v.type = "MCHello"
    BY <1>1, <2>2, <2>4, FirstIsReadable DEF Readable
  <2>7. protocol' = "MC"
    <3>1. protocol = "Unknown"
      BY <1>2, <1>9 DEF InPlay
    <3> QED BY <1>4, <2>6, <3>1 DEF Decode, ProtocolAfter
  <2>8. Len(out') = 1 /\ Len(out') > 0 /\ Len(bounds') > 0 /\ out'[1] = Stream[stream'][1] /\ 2..Len(out') = {}
    BY <1>2, <1>3, <1>5, <1>9, <2>1, <2>2
  <2>9. End(bounds', 1) = End(bounds, 1)
    BY <1>3
  <2>10. status' # "failed" /\ ~waiting'
    BY <1>3 DEF InPlay
  <2> QED BY <2>5, <2>7, <2>8, <2>9, <2>10 DEF InPlay, End
<1>10. CASE n > 0
  <2>1. Decoded = Got(MCData(Buffer), taken - eaten)
    BY <1>1, <1>2, <1>8, <1>10, DecodedLater
  <2>2. v = MCData(Buffer) /\ Decoded.pos = taken - eaten
    BY <1>4, <2>1 DEF Got
  <2>3. eaten' = taken
    BY <1>1, <1>7, <2>2, Places
  <2>4. v.type = "MCData" /\ v.data = Buffer
    BY <2>2 DEF MCData
  <2>5. Piece(cuts, n + 1)' = Buffer
    <3>1. (n + 1) - 1 = n
      OBVIOUS
    <3>2. Piece(cuts, n + 1)' = SubSeq(wire', End(cuts', (n + 1) - 1) + 1, End(cuts', n + 1))
      BY DEF Piece, End
    <3> QED BY <1>3, <1>7, <2>3, <3>1, <3>2 DEF Buffer
  <2>6. \A i \in 2..(n + 1) : out'[i].type = "MCData" /\ out'[i].data = Piece(cuts, i)'
    <3> SUFFICES ASSUME NEW i \in 2..(n + 1)
                 PROVE  out'[i].type = "MCData" /\ out'[i].data = Piece(cuts, i)'
      OBVIOUS
    <3>1. CASE i = n + 1
      BY <1>5, <2>4, <2>5, <3>1
    <3>2. CASE i # n + 1
      <4>1. i \in 2..n /\ i \in 1..n
        BY <3>2
      <4> QED BY <1>2, <1>5, <1>6, <4>1 DEF InPlay
    <3> QED BY <3>1, <3>2
  <2>7. protocol' = "MC"
    <3>1. protocol = "MC"
      BY <1>2, <1>10 DEF InPlay
    <3>2. protocol' = ProtocolAfter(v)
      BY <1>4 DEF Decode
    <3>3. ProtocolAfter(v) = protocol
      <4>1. protocol # "Unknown"
        BY <3>1
      <4> QED BY <4>1 DEF ProtocolAfter
    <3> QED BY <3>1, <3>2, <3>3
  <2>8. Len(bounds) > 0 /\ out'[1] = Stream[stream][1] /\ End(cuts, 1)' = End(bounds, 1)
    <3>1. 1 \in 1..n
      BY <1>10
    <3> QED BY <1>2, <1>5, <1>6, <1>10, <3>1 DEF InPlay
  <2>9. Len(out') = n + 1 /\ Len(out') > 0 /\ Len(out') # 0
    BY <1>5
  <2>10. status' # "failed" /\ ~waiting'
    BY <1>3 DEF InPlay
  <2> QED BY <1>3, <2>6, <2>7, <2>8, <2>9, <2>10 DEF InPlay, End
<1> QED BY <1>2, <1>9, <1>10

\* When everything has arrived and decode waits, everything is handed out.
LEMMA AllPlayed ==
  ASSUME TypeOK, WireLaid, InPlay, waiting, taken = Len(wire)
  PROVE  eaten = taken
<1>1. PICK n \in Nat, m \in Nat : n = Len(out) /\ n = Len(cuts) /\ m = Len(bounds)
  BY Places DEF TypeOK
<1>2. CASE n > 0
  BY <1>1, <1>2 DEF InPlay
<1>3. CASE n = 0
  <2>1. taken \in Nat /\ eaten = 0
    BY <1>1, <1>3, Places DEF eaten, End
  <2>2. CASE m = 0
    <3>1. End(bounds, m) = 0 /\ End(bounds, m) = Len(wire)
      BY <1>1, <2>2 DEF WireLaid, End
    <3> QED BY <2>1, <3>1
  <2>3. CASE 0 < m
    <3>1. 0 \in Nat /\ 0 < Len(bounds) /\ 0 + 1 = 1
      BY <1>1, <2>3
    <3>2. End(bounds, 1) \in Nat /\ End(bounds, 1) <= taken
      BY <3>1, PieceAt
    <3>3. taken < End(bounds, 1)
      BY <1>1, <1>3, <2>3 DEF InPlay
    <3> QED BY <2>1, <3>2, <3>3
  <2> QED BY <1>1, <2>2, <2>3
<1> QED BY <1>1, <1>2, <1>3

LEMMA InPlayKept ==
  CodecInv /\ WireLaid /\ InPlay /\ Player(Stream[stream]) /\ [Next]_vars => InPlay'
<1> SUFFICES ASSUME CodecInv, WireLaid, InPlay, Player(Stream[stream]), [Next]_vars PROVE InPlay'
  OBVIOUS
<1>1. TypeOK
  BY DEF CodecInv
<1>2. Len(out) \in Nat
  BY <1>1, Places DEF TypeOK
<1>3. CASE Write
  BY <1>3, InPlayWritten
<1>4. CASE Decode
  BY <1>4, InPlayDecoded
<1>5. ASSUME UNCHANGED <<stream, wire, bounds, cuts, protocol, out>>, status' # "failed",
             waiting' => \/ waiting /\ taken' = taken
                         \/ /\ Len(out) = 0 => (0 < Len(bounds) => taken' < End(bounds, 1))
                            /\ Len(out) > 0 => taken' = eaten
      PROVE  InPlay'
  <2>1. eaten' = eaten
    BY <1>5 DEF eaten, End
  <2>2. waiting' => /\ Len(out) = 0 => (0 < Len(bounds) => taken' < End(bounds, 1))
                    /\ Len(out) > 0 => taken' = eaten
    BY <1>5 DEF InPlay
  <2>3. \A i \in 2..Len(out) : Piece(cuts, i)' = Piece(cuts, i)
    BY <1>5 DEF Piece, End
  <2> QED BY <1>5, <2>1, <2>2, <2>3 DEF InPlay, End
<1>6. CASE \E k \in ReadSizes : Read(k)
  <2>1. UNCHANGED <<stream, wire, bounds, cuts, protocol, out, status>> /\ waiting' = FALSE
    BY <1>6 DEF Read
  <2> QED BY <1>5, <2>1 DEF InPlay
<1>7. CASE NeedMore
  <2>1. UNCHANGED <<stream, wire, bounds, taken, cuts, protocol, out, status>> /\ ~Decoded.ok
    BY <1>7 DEF NeedMore
  <2>2. \A p, c : Decoded # Got(p, c)
    BY <2>1 DEF Got
  <2>3. Len(out) = 0 => (0 < Len(bounds) => taken < End(bounds, 1))
    BY <1>1, <2>2, DecodedFirst
  <2>4. Len(out) > 0 => taken = eaten
    BY <1>1, <2>2, DecodedLater
  <2> QED BY <1>5, <2>1, <2>3, <2>4 DEF InPlay
<1>8. CASE Refuse
  <2>1. ~Decoded.ok /\ Decoded.err # "TooSmall"
    BY <1>8 DEF Refuse
  <2>2. (\A p, c : Decoded # Got(p, c)) /\ Decoded # Fail("TooSmall")
    BY <2>1 DEF Got, Fail
  <2>3. CASE Len(out) = 0
    BY <1>1, <2>2, <2>3, DecodedFirst
  <2>4. CASE Len(out) > 0
    BY <1>1, <2>2, <2>4, DecodedLater
  <2> QED BY <1>2, <2>3, <2>4
<1>9. CASE Eof
  <2>1. UNCHANGED <<stream, wire, bounds, taken, cuts, waiting, protocol, out>> /\ status' = "ended"
    BY <1>1, <1>9, AllPlayed DEF Eof
  <2> QED BY <1>5, <2>1
<1>10. CASE UNCHANGED vars
  BY <1>5, <1>10 DEF vars, InPlay
<1> QED BY <1>3, <1>4, <1>6, <1>7, <1>8, <1>9, <1>10 DEF Next

LEMMA InPlayIsWhole ==
  ASSUME CodecInv, WireLaid, InPlay, Player(Stream[stream])
  PROVE  PacketsWhole /\ NeverRefused /\ NothingStuck
<1>0. TypeOK /\ OutIsSequence
  BY DEF CodecInv
<1>1. NothingStuck
  BY <1>0, AllPlayed DEF NothingStuck
<1>2. NeverRefused
  BY DEF NeverRefused, InPlay
<1>3. PICK n \in Nat, m \in Nat : n = Len(out) /\ m = Len(bounds)
  BY <1>0, Places DEF TypeOK
<1>4. DOMAIN out = 1..n
  <2>1. \A S, s : s \in Seq(S) => DOMAIN s = 1..Len(s)
    BY LenProperties
  <2> QED BY <1>0, <1>3, <2>1 DEF OutIsSequence
<1>5. ASSUME NEW i \in 2..n
      PROVE  out[i].type = "MCData" /\ Encode(out[i]) = Piece(cuts, i)
  <2>1. out[i].type = "MCData" /\ out[i].data = Piece(cuts, i)
    BY <1>3 DEF InPlay
  <2> QED BY <2>1 DEF Encode
<1>6. ASSUME n > 0
      PROVE  /\ 1 \in DOMAIN Stream[stream] /\ out[1] = Stream[stream][1]
             /\ Encode(out[1]) = Piece(cuts, 1)
  <2>1. out[1] = Stream[stream][1] /\ m > 0 /\ End(cuts, 1) = End(bounds, 1)
    BY <1>3, <1>6 DEF InPlay
  <2>2. 0 \in Nat /\ 0 < Len(bounds) /\ 0 + 1 = 1
    BY <1>3, <2>1
  <2>3. 1 \in 1..Len(Stream[stream])
    BY <1>0, <2>2, PieceAt
  <2>4. 1 \in DOMAIN Stream[stream]
    BY <1>0, <2>3, FirstIsReadable
  <2>5. Piece(bounds, 1) = Encode(Stream[stream][1])
    <3>1. 1 \in 1..Len(bounds)
      BY <1>3, <2>1
    <3> QED BY <3>1 DEF WireLaid
  <2>6. Piece(cuts, 1) = Piece(bounds, 1)
    <3>1. 1 - 1 = 0
      OBVIOUS
    <3> QED BY <2>1, <3>1 DEF Piece, End
  <2> QED BY <2>1, <2>4, <2>5, <2>6
<1>7. ASSUME NEW i \in 1..n
      PROVE  /\ out[i].type # "MCData" => i \in DOMAIN Stream[stream] /\ out[i] = Stream[stream][i]
             /\ Encode(out[i]) = Piece(cuts, i)
  <2>1. CASE i = 1
    BY <1>6, <2>1
  <2>2. CASE i # 1
    <3>1. i \in 2..n
      BY <2>2
    <3> QED BY <1>5, <3>1
  <2> QED BY <2>1, <2>2
<1>8. PacketsWhole
  BY <1>4, <1>7 DEF PacketsWhole
<1> QED BY <1>1, <1>2, <1>8

-----------------------------------------------------------------------------
(* What holds of every stream *)

\* The invariant of the whole: what holds of each of the two kinds of stream.
RegularInv ==
  /\ CodecInv /\ WireLaid
  /\ Session(Stream[stream]) => InOrder
  /\ Player(Stream[stream]) => InPlay

LEMMA RegularInvariant == Spec => []RegularInv
<1>1. Init => RegularInv
  BY CodecInitial, WireLaidInitially, InOrderInitially, InPlayInitially DEF RegularInv
<1>2. RegularInv /\ [Next]_vars => RegularInv'
  <2> SUFFICES ASSUME RegularInv, [Next]_vars PROVE RegularInv'
    OBVIOUS
  <2>1. CodecInv' /\ WireLaid'
    BY CodecStep, WireLaidKept DEF RegularInv
  <2>2. stream' = stream
    BY DEF Next, Write, Read, Decode, NeedMore, Refuse, Eof, vars
  <2>3. /\ Session(Stream[stream])' <=> Session(Stream[stream])
        /\ Player(Stream[stream])' <=> Player(Stream[stream])
    BY <2>2 DEF Session, Player
  <2>4. Session(Stream[stream]) => InOrder'
    BY InOrderKept DEF RegularInv
  <2>5. Player(Stream[stream]) => InPlay'
    BY InPlayKept DEF RegularInv
  <2> QED BY <2>1, <2>3, <2>4, <2>5 DEF RegularInv
<1> QED BY <1>1, <1>2, PTL DEF Spec

LEMMA RegularIsWhole ==
  RegularInv => (Regular(Stream[stream]) => PacketsWhole /\ NeverRefused /\ NothingStuck)
BY InOrderIsWhole, InPlayIsWhole DEF RegularInv, Regular

\* The packets handed out of a regular stream are those that were sent, in
\* their order, each made of exactly the bytes it was encoded to, in whatever
\* pieces the stream is read (PacketCodec::decode).
THEOREM RegularStreamsWhole == Spec => [](Regular(Stream[stream]) => PacketsWhole)
<1>1. RegularInv => (Regular(Stream[stream]) => PacketsWhole)
  BY RegularIsWhole
<1> QED BY <1>1, RegularInvariant, PTL

\* A regular stream is never an error of decode, in whatever pieces it is
\* read, and leaves no bytes over when its sender closes.
THEOREM RegularStreamsNeverRefused == Spec => [](Regular(Stream[stream]) => NeverRefused)
<1>1. RegularInv => (Regular(Stream[stream]) => NeverRefused)
  BY RegularIsWhole
<1> QED BY <1>1, RegularInvariant, PTL

\* The codec asks for more bytes of a regular stream only when there are more
\* to come: no packet that has arrived is kept in the buffer.
THEOREM RegularStreamsNotStuck == Spec => [](Regular(Stream[stream]) => NothingStuck)
<1>1. RegularInv => (Regular(Stream[stream]) => NothingStuck)
  BY RegularIsWhole
<1> QED BY <1>1, RegularInvariant, PTL

\* The codec never runs past what has been read, nor a read past what has been
\* written, and it hands out packets of known kinds only.
THEOREM CodecTypeCorrect == Spec => []TypeOK
<1>1. CodecInv => TypeOK
  BY DEF CodecInv
<1> QED BY <1>1, CodecInitial, CodecStep, PTL DEF Spec

\* No packet is handed out that is made of no bytes, whatever bytes the peer
\* sends: poll_next cannot turn around forever without reading.
THEOREM CodecEats == Spec => EveryPacketEats
<1>1. CodecInv /\ [Next]_vars => [out' # out => eaten' > eaten]_vars
  <2> SUFFICES ASSUME CodecInv, Next, out' # out PROVE eaten' > eaten
    BY DEF vars
  <2>1. Decode
    BY DEF Next, Write, Read, NeedMore, Refuse, Eof
  <2> QED BY <2>1, DecodeTakes DEF CodecInv
<1> QED BY <1>1, CodecInitial, CodecStep, PTL DEF Spec, EveryPacketEats

\* In whatever state the codec is, a frame that has arrived is handed out, as
\* the packet that was sent and without a byte of the next; decode neither asks
\* for more nor fails.
THEOREM FrameHandedOut ==
  ASSUME NEW p \in FramedPacket, Fits(p), protocol \in {"Unknown", "Proxy"},
         HelloLike(p) => protocol = "Proxy", NEW rest \in ByteString, Buffer = Encode(p) \o rest
  PROVE  /\ ~NeedMore /\ ~Refuse
         /\ Decode => out' = Append(out, p) /\ cuts' = Append(cuts, eaten + Len(Encode(p)))
<1>1. PICK e \in ByteString : e = Encode(p)
  BY FrameBegins
<1>2. PICK buf \in ByteString : buf = Encode(p) \o rest
  BY <1>1, Concat
<1>3. Buffer = buf
  BY <1>2
<1>4. Decoded = Got(p, Len(Encode(p)))
  BY <1>2, <1>3, FrameDecoded
<1>5. Decoded.ok /\ Decoded.val = p /\ Decoded.pos = Len(Encode(p))
  BY <1>4 DEF Got
<1> QED BY <1>5 DEF NeedMore, Refuse, Decode

\* In whatever state the codec is, decode waits for the rest of a frame that
\* has begun to arrive: nothing is handed out of it, and it is not an error.
THEOREM PartOfFrameIsKept ==
  ASSUME NEW p \in FramedPacket, Fits(p), protocol \in {"Unknown", "Proxy"},
         HelloLike(p) => protocol = "Proxy",
         NEW k \in Nat, k < Len(Encode(p)), Buffer = SubSeq(Encode(p), 1, k)
  PROVE  ~Decode /\ ~Refuse
<1>1. PICK e \in ByteString : e = Encode(p)
  BY FrameBegins
<1>2. SubSeq(e, 1, k) \in ByteString /\ Len(SubSeq(e, 1, k)) = k
  BY <1>1, SubSeqProperties DEF ByteString
<1>3. PICK buf \in ByteString : buf = SubSeq(Encode(p), 1, k) /\ Len(buf) = k
  BY <1>1, <1>2
<1>4. Buffer = buf
  BY <1>3
<1>5. Decoded = Fail("TooSmall")
  BY <1>3, <1>4, PartDecoded
<1> QED BY <1>5 DEF Decode, Refuse, Fail
=============================================================================
