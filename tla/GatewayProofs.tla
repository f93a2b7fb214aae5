---------------------------- MODULE GatewayProofs ----------------------------
(***************************************************************************)
(* Theorems about the gateway (module Gateway), the packets it reads and   *)
(* writes (module Packet) and the numbers they are given (module           *)
(* Sequence): for every set of channels and chat servers, every number of  *)
(* messages, and every width of the counter.                               *)
(*                                                                         *)
(* The argument for the gateway.  A packet on its way is the one its       *)
(* goroutine was started with, stamped with the client's channel and, once *)
(* a chat server was found, marked with the gateway's name (OnTheWay).     *)
(* What arrived at a chat server is what a goroutine that is done had      *)
(* marked (Arrived), and no two places hold the same bytes (Apart): for    *)
(* its number and its channel tell whose packet it is, and the bytes tell  *)
(* the packet, since what was written is read as it was.  What chat        *)
(* servers push is made from what arrived (Linked), so what is delivered   *)
(* to a channel is a pong, for a ping that was handled (Ponged), or the    *)
(* answer to a packet of that channel's, without the metas that led it     *)
(* there (Delivered).                                                      *)
(***************************************************************************)
EXTENDS Gateway, Sequence, Integers, SequenceTheorems, FiniteSetTheorems,
        WellFoundedInduction, TLAPS

(***************************************************************************)
(* Packets.  A reader that is given what a writer wrote, and anything      *)
(* behind it, returns it and leaves the rest; one that is given less       *)
(* fails.                                                                  *)
(***************************************************************************)
Bytes == 0 .. 255

\* What the elements of byte strings are taken from.
Alphabet(X) == Bytes \subseteq X

\* A number that fits in 2 bytes.
Word16 == 0 .. 65535

\* A string whose length fits the 4 bytes it is written in.
Short(s) == Len(s) < 65536 * 65536

\* One byte string after the other.  The proofs keep it opaque.
Cat(s, t) == s \o t

\* The length of a byte string, opaque too.
Size(s) == Len(s)

\* Strings over an alphabet make strings over it.
LEMMA CatString ==
  \A X : \A a, b \in Seq(X) : Cat(a, b) \in Seq(X)
BY DEF Cat

\* It does not matter which two of three are put together first.
LEMMA CatAssociative ==
  \A X : \A a, b, c \in Seq(X) : Cat(Cat(a, b), c) = Cat(a, Cat(b, c))
<1> TAKE X
<1> TAKE a, b, c \in Seq(X)
<1> QED  BY ConcatAssociative DEF Cat

\* The empty string changes nothing.
LEMMA CatEmpty ==
  \A X : \A a \in Seq(X) : Cat(a, <<>>) = a
BY ConcatEmptySeq DEF Cat

\* What a reader that did not fail returned.
LEMMA GotParts ==
  ASSUME NEW r, NEW v, NEW w, r = Got(v, w)
  PROVE  r.ok /\ r.val = v /\ r.rest = w
BY DEF Got

\* Cutting a string at the end of its first part.
LEMMA Cut ==
  ASSUME NEW X, NEW a \in Seq(X), NEW b \in Seq(X), NEW n, n = Len(a)
  PROVE  ReadFixedBytes(n, Cat(a, b)) = Got(a, b)
<1>1. Len(a \o b) = Len(a) + Len(b) /\ a \o b \in Seq(X) /\ Len(a) \in Nat /\ Len(b) \in Nat
  OBVIOUS
<1>2. SubSeq(a \o b, 1, Len(a)) = a
  OBVIOUS
<1>3. SubSeq(a \o b, Len(a) + 1, Len(a \o b)) = b
  OBVIOUS
<1>4. ~(Len(a \o b) < Len(a))
  BY <1>1
<1> QED
  BY <1>2, <1>3, <1>4 DEF ReadFixedBytes, Cat

\* What Byte takes out of a number is one byte.
LEMMA OneByte ==
  ASSUME NEW n \in Nat
  PROVE  /\ Byte(n, 16777216) \in Bytes /\ Byte(n, 65536) \in Bytes
         /\ Byte(n, 256) \in Bytes /\ Byte(n, 1) \in Bytes
BY SMT DEF Byte, Bytes

\* A length written in 4 bytes is read again.
LEMMA Numbers ==
  ASSUME NEW X, Alphabet(X), NEW s, Len(s) \in Nat, Short(s)
  PROVE  /\ Uint32(Len(s)) \in Seq(X) /\ Len(Uint32(Len(s))) = 4
         /\ Value32(Uint32(Len(s))) = Len(s)
<1> DEFINE n == Len(s)
<1>0. n < 4294967296 /\ n \in Nat
  BY SMT DEF Short
<1> HIDE DEF n
<1>1. Byte(n, 16777216) \in X /\ Byte(n, 65536) \in X /\ Byte(n, 256) \in X /\ Byte(n, 1) \in X
  BY <1>0, OneByte, SMT DEF Alphabet
<1>2. 16777216 * Byte(n, 16777216) + 65536 * Byte(n, 65536) + 256 * Byte(n, 256) + Byte(n, 1) = n
  BY <1>0, SMT DEF Byte
<1>3. Uint32(n) \in Seq(X) /\ Len(Uint32(n)) = 4
  BY <1>1, SMT DEF Uint32
<1>4. Value32(Uint32(n)) = n
  BY <1>2, SMT DEF Uint32, Value32
<1> QED
  BY <1>3, <1>4 DEF n

\* A number written in 2 bytes is read again.
LEMMA Numbers16 ==
  ASSUME NEW X, Alphabet(X), NEW n \in Word16
  PROVE  Uint16(n) \in Seq(X) /\ Len(Uint16(n)) = 2 /\ Value16(Uint16(n)) = n
<1>0. n \in Nat
  BY SMT DEF Word16
<1>1. Byte(n, 256) \in X /\ Byte(n, 1) \in X
  BY <1>0, OneByte, SMT DEF Alphabet
<1>2. 256 * Byte(n, 256) + Byte(n, 1) = n
  <2>1. n < 65536
    BY SMT DEF Word16
  <2> QED  BY <1>0, <2>1, SMT DEF Byte
<1> QED
  BY <1>1, <1>2, SMT DEF Uint16, Value16

\* A number in 2 bytes is read, and what follows it is left.
LEMMA ReadNumber ==
  ASSUME NEW X, Alphabet(X), NEW n \in Word16, NEW rest \in Seq(X)
  PROVE  ReadUint16(Cat(Uint16(n), rest)) = Got(n, rest)
<1> DEFINE b == Uint16(n)
           s == Cat(b, rest)
<1>1. b \in Seq(X) /\ 2 = Len(b) /\ Value16(b) = n
  BY Numbers16
<1> HIDE DEF b
<1>2. ReadFixedBytes(2, s) = Got(b, rest)
  BY <1>1, Cut
<1>3. ReadFixedBytes(2, s).ok /\ ReadFixedBytes(2, s).val = b /\ ReadFixedBytes(2, s).rest = rest
  BY <1>2, GotParts
<1> HIDE DEF s
<1>4. ReadUint16(s) = Got(n, rest)
  BY <1>1, <1>3 DEF ReadUint16, Then
<1> QED
  BY <1>4 DEF b, s

\* What WriteBytes writes: the length, then the bytes.
LEMMA WrittenBytes ==
  ASSUME NEW X, Alphabet(X), NEW b \in Seq(X), Short(b)
  PROVE  WriteBytes(b) \in Seq(X) /\ WriteBytes(b) = Cat(Uint32(Len(b)), b)
<1>1. Len(b) \in Nat
  OBVIOUS
<1>2. Uint32(Len(b)) \in Seq(X)
  BY <1>1, Numbers
<1> QED
  BY <1>2, CatString DEF WriteBytes, Cat

\* What WriteBytes wrote is read, and what follows it is left.
LEMMA ReadWritten ==
  ASSUME NEW X, Alphabet(X), NEW b \in Seq(X), Short(b), NEW rest \in Seq(X)
  PROVE  ReadBytes(Cat(WriteBytes(b), rest)) = Got(b, rest)
<1> DEFINE n == Uint32(Len(b))
           more == Cat(b, rest)
           s == Cat(WriteBytes(b), rest)
<1>0. Len(b) \in Nat
  OBVIOUS
<1>1. n \in Seq(X) /\ 4 = Len(n) /\ Value32(n) = Len(b)
  BY <1>0, Numbers
<1>2. s = Cat(n, more) /\ more \in Seq(X)
  <2>1. WriteBytes(b) = Cat(n, b)
    BY WrittenBytes
  <2>2. Cat(Cat(n, b), rest) = Cat(n, more)
    BY <1>1, CatAssociative
  <2>3. more \in Seq(X)
    BY CatString, Zenon
  <2> QED  BY <2>1, <2>2, <2>3, Zenon
<1> HIDE DEF n, s
<1>3. ReadFixedBytes(4, s) = Got(n, more)
  BY <1>1, <1>2, Cut
<1>4. ReadFixedBytes(4, s).ok /\ ReadFixedBytes(4, s).val = n /\ ReadFixedBytes(4, s).rest = more
  BY <1>3, GotParts
<1>5. ReadUint32(s) = Got(Len(b), more)
  BY <1>1, <1>4 DEF ReadUint32, Then
<1>6. ReadUint32(s).ok /\ ReadUint32(s).val = Len(b) /\ ReadUint32(s).rest = more
  BY <1>5, GotParts
<1>7. ReadFixedBytes(Len(b), more) = Got(b, rest)
  BY Cut
<1>8. ReadBytes(s) = Got(b, rest)
  BY <1>6, <1>7 DEF ReadBytes, Then
<1> QED
  BY <1>8 DEF s

\* A header survives its encoding, whose length fits in 4 bytes.
LEMMA Protobuf ==
  ASSUME NEW X, NEW h \in X
  PROVE  /\ ProtoMarshal(h) \in Seq(X) /\ Short(ProtoMarshal(h))
         /\ ProtoUnmarshal(ProtoMarshal(h)) = h
<1>1. ProtoMarshal(h) \in Seq(X) /\ (Len(ProtoMarshal(h)) = 0 \/ Len(ProtoMarshal(h)) = 1)
  BY DEF ProtoMarshal
<1>2. Short(ProtoMarshal(h))
  <2> DEFINE n == Len(ProtoMarshal(h))
  <2>1. n = 0 \/ n = 1
    BY <1>1
  <2> HIDE DEF n
  <2>2. n < 4294967296
    BY <2>1, SMT
  <2> QED  BY <2>2, SMT DEF Short, n
<1>3. ProtoUnmarshal(ProtoMarshal(h)) = h
  BY DEF ProtoUnmarshal, ProtoMarshal
<1> QED
  BY <1>1, <1>2, <1>3

\* The magic numbers are 4 bytes each, and differ.
LEMMA Magics ==
  ASSUME NEW X, Alphabet(X)
  PROVE  /\ MagicLogicPkt \in Seq(X) /\ Len(MagicLogicPkt) = 4
         /\ MagicBasicPkt \in Seq(X) /\ Len(MagicBasicPkt) = 4
         /\ MagicLogicPkt # MagicBasicPkt
BY SMT DEF MagicLogicPkt, MagicBasicPkt, Bytes, Alphabet

\* What a logic packet is encoded to.
LEMMA LogicString ==
  ASSUME NEW X, Alphabet(X), NEW h \in X, NEW b \in Seq(X), Short(b)
  PROVE  LET p == [kind |-> "logic", body |-> b, header |-> h]
             s == Cat(WriteBytes(ProtoMarshal(h)), WriteBytes(b))
         IN  Marshal(p) = Cat(MagicLogicPkt, s) /\ s \in Seq(X) /\ Marshal(p) \in Seq(X)
<1> DEFINE p == [kind |-> "logic", body |-> b, header |-> h]
           w == WriteBytes(ProtoMarshal(h))
           s == Cat(w, WriteBytes(b))
<1>1. w \in Seq(X) /\ WriteBytes(b) \in Seq(X)
  BY Protobuf, WrittenBytes
<1>2. Marshal(p) = Cat(Cat(MagicLogicPkt, w), WriteBytes(b))
  BY DEF Marshal, Cat
<1>3. MagicLogicPkt \in Seq(X)
  BY Magics, Zenon
<1> HIDE DEF w, p
<1>4. Cat(Cat(MagicLogicPkt, w), WriteBytes(b)) = Cat(MagicLogicPkt, Cat(w, WriteBytes(b)))
  BY <1>1, <1>3, CatAssociative
<1>5. Cat(w, WriteBytes(b)) \in Seq(X)
  BY <1>1, CatString, Zenon
<1>6. Cat(MagicLogicPkt, Cat(w, WriteBytes(b))) \in Seq(X)
  BY <1>3, <1>5, CatString, Zenon
<1>7. Marshal(p) = Cat(MagicLogicPkt, s) /\ s \in Seq(X) /\ Marshal(p) \in Seq(X)
  BY <1>2, <1>4, <1>5, <1>6, Zenon
<1> QED
  BY <1>7 DEF w, p

\* A logic packet is read as it was written, and what follows it is left.
LEMMA LogicRoundTrip ==
  ASSUME NEW X, Alphabet(X), NEW h \in X, NEW b \in Seq(X), Short(b), NEW rest \in Seq(X)
  PROVE  LET p == [kind |-> "logic", body |-> b, header |-> h]
         IN  Read(Cat(Marshal(p), rest)) = Got(p, rest)
<1> DEFINE p == [kind |-> "logic", body |-> b, header |-> h]
           ph == ProtoMarshal(h)
           after == Cat(WriteBytes(b), rest)
           s == Cat(WriteBytes(ph), after)
           t == Cat(Marshal(p), rest)
           r == ReadFixedBytes(4, t)
<1>1. ph \in Seq(X) /\ Short(ph) /\ ProtoUnmarshal(ph) = h
  BY Protobuf
<1>2. WriteBytes(ph) \in Seq(X) /\ WriteBytes(b) \in Seq(X)
  BY <1>1, WrittenBytes
<1>3. Marshal(p) = Cat(MagicLogicPkt, Cat(WriteBytes(ph), WriteBytes(b)))
  BY LogicString
<1> HIDE DEF ph, p
<1>4. t = Cat(MagicLogicPkt, s) /\ s \in Seq(X) /\ after \in Seq(X)
  <2> DEFINE w == WriteBytes(ph)
             v == WriteBytes(b)
  <2>1. MagicLogicPkt \in Seq(X) /\ w \in Seq(X) /\ v \in Seq(X)
    BY <1>2, Magics, Zenon
  <2> HIDE DEF w, v
  <2>2. Cat(w, v) \in Seq(X) /\ Cat(v, rest) \in Seq(X)
    BY <2>1, CatString, Zenon
  <2>3. Cat(w, Cat(v, rest)) \in Seq(X)
    BY <2>1, <2>2, CatString, Zenon
  <2>4. Cat(Cat(MagicLogicPkt, Cat(w, v)), rest) = Cat(MagicLogicPkt, Cat(Cat(w, v), rest))
    BY <2>1, <2>2, CatAssociative
  <2>5. Cat(Cat(w, v), rest) = Cat(w, Cat(v, rest))
    BY <2>1, CatAssociative
  <2> QED  BY <1>3, <2>2, <2>3, <2>4, <2>5, Zenon DEF w, v
<1> HIDE DEF t
<1>5. ReadBytes(s) = Got(ph, after) /\ ReadBytes(after) = Got(b, rest)
  BY <1>1, <1>4, ReadWritten
<1> HIDE DEF after, s
<1>6. r = Got(MagicLogicPkt, s)
  BY <1>4, Magics, Cut
<1>7. DecodeLogic(s) = Got(p, rest)
  <2>1. ReadBytes(s).ok /\ ReadBytes(s).val = ph /\ ReadBytes(s).rest = after
    BY <1>5, GotParts
  <2>2. ReadBytes(after).ok /\ ReadBytes(after).val = b /\ ReadBytes(after).rest = rest
    BY <1>5, GotParts
  <2>3. [kind |-> "logic", header |-> ProtoUnmarshal(ph), body |-> b] = p
    BY <1>1 DEF p
  <2> QED  BY <2>1, <2>2, <2>3 DEF DecodeLogic, Then
<1>8. Read(t) = DecodeLogic(s)
  <2>1. r.ok /\ r.val = MagicLogicPkt /\ r.rest = s
    BY <1>6, GotParts
  <2>2. MagicLogicPkt # MagicBasicPkt
    BY DEF MagicLogicPkt, MagicBasicPkt
  <2> QED  BY <2>1, <2>2 DEF Read, Then
<1> QED
  BY <1>7, <1>8 DEF p, t

\* A basic packet whose length is its body's or was never set, and what is
\* written of that body.
Basic(code, n, b) == [kind |-> "basic", code |-> code, length |-> n, body |-> b]

Written16(n, b) == IF n > 0 THEN b ELSE <<>>

\* Zero fits in 2 bytes, and what does is a number.
LEMMA Words == 0 \in Word16 /\ \A n \in Word16 : n \in Nat
BY SMT DEF Word16

\* It is as long as the packet says.
LEMMA WrittenBody ==
  ASSUME NEW X, NEW b \in Seq(X), Len(b) \in Word16, NEW n \in {0, Len(b)}
  PROVE  n \in Word16 /\ Written16(n, b) \in Seq(X) /\ Len(Written16(n, b)) = n
<1>1. 0 \in Word16
  BY Words, Zenon
<1>2. <<>> \in Seq(X) /\ Len(<<>>) = 0 /\ Len(b) \in Nat
  OBVIOUS
<1>3. CASE n = 0
  BY <1>1, <1>2, <1>3 DEF Written16
<1>4. CASE n = Len(b) /\ n # 0
  BY <1>2, <1>4 DEF Written16
<1> QED  BY <1>3, <1>4

\* What a basic packet is encoded to.
LEMMA BasicString ==
  ASSUME NEW X, Alphabet(X), NEW code \in Word16, NEW body \in Seq(X), Len(body) \in Word16,
         NEW n \in {0, Len(body)}
  PROVE  LET p == Basic(code, n, body)
             b == Written16(n, body)
             s == Cat(Uint16(code), Cat(Uint16(n), b))
         IN  Marshal(p) = Cat(MagicBasicPkt, s) /\ s \in Seq(X) /\ Marshal(p) \in Seq(X)
<1> DEFINE p == Basic(code, n, body)
           b == Written16(n, body)
           m == MagicBasicPkt
           c == Uint16(code)
           l == Uint16(n)
           lb == Cat(l, b)
           clb == Cat(c, lb)
           mc == Cat(m, c)
<1>1. m \in Seq(X) /\ c \in Seq(X) /\ l \in Seq(X) /\ b \in Seq(X)
  BY Magics, Numbers16, WrittenBody
<1>2. Marshal(p) = Cat(Cat(mc, l), b)
  <2>1. p.kind = "basic" /\ p.code = code /\ p.length = n /\ p.body = body /\ "basic" # "logic"
    BY DEF Basic
  <2> HIDE DEF p
  <2> QED  BY <2>1 DEF Marshal, Cat, Written16
<1> HIDE DEF m, c, l, p, b
<1>3. lb \in Seq(X) /\ mc \in Seq(X)
  BY <1>1, CatString, Zenon
<1>4. clb \in Seq(X)
  BY <1>1, <1>3, CatString, Zenon
<1>5. Cat(m, clb) \in Seq(X)
  BY <1>1, <1>4, CatString, Zenon
<1>6. Cat(Cat(mc, l), b) = Cat(mc, lb)
  <2> HIDE DEF mc
  <2> QED  BY <1>1, <1>3, CatAssociative
<1>7. Cat(mc, lb) = Cat(m, clb)
  <2> HIDE DEF lb
  <2> QED  BY <1>1, <1>3, CatAssociative
<1> QED  BY <1>2, <1>4, <1>5, <1>6, <1>7, Zenon DEF m, c, l, p, b

\* A basic packet is read with its code and its length, and what follows it is
\* left; its body is read when its length was set to the body's, and lost when
\* it was not (BasicPkt.Encode, Decode).
LEMMA BasicRoundTrip ==
  ASSUME NEW X, Alphabet(X), NEW code \in Word16, NEW body \in Seq(X), Len(body) \in Word16,
         NEW n \in {0, Len(body)}, NEW rest \in Seq(X)
  PROVE  Read(Cat(Marshal(Basic(code, n, body)), rest))
            = Got(Basic(code, n, IF n = Len(body) THEN body ELSE <<>>), rest)
<1> DEFINE p == Basic(code, n, body)
           b == Written16(n, body)
           m == MagicBasicPkt
           c == Uint16(code)
           l == Uint16(n)
           tail == Cat(b, rest)
           more == Cat(l, tail)
           s == Cat(c, more)
           t == Cat(Marshal(p), rest)
           r == ReadFixedBytes(4, t)
<1>0. n \in Word16 /\ b \in Seq(X) /\ Len(b) = n /\ b = IF n = Len(body) THEN body ELSE <<>>
  <2>1. n \in Nat /\ Len(body) \in Nat /\ (Len(body) = 0 => body = <<>>)
    BY EmptySeq
  <2> QED  BY <2>1, WrittenBody DEF Written16
<1>1. m \in Seq(X) /\ c \in Seq(X) /\ l \in Seq(X)
  BY <1>0, Magics, Numbers16
<1>2. Marshal(p) = Cat(m, Cat(c, Cat(l, b))) /\ Cat(c, Cat(l, b)) \in Seq(X)
  BY BasicString
<1>x. n = 0 => b = <<>>
  BY DEF Written16
<1> HIDE DEF p, m, c, l, b
<1>3. tail \in Seq(X) /\ more \in Seq(X) /\ s \in Seq(X)
  <2>1. tail \in Seq(X)
    BY <1>0, CatString, Zenon
  <2>2. more \in Seq(X)
    BY <1>1, <2>1, CatString, Zenon
  <2> QED  BY <1>1, <2>1, <2>2, CatString, Zenon
<1>4. t = Cat(m, s)
  <2> DEFINE lb == Cat(l, b)
             clb == Cat(c, lb)
  <2>1. lb \in Seq(X) /\ clb \in Seq(X)
    <3>1. lb \in Seq(X)
      BY <1>0, <1>1, CatString, Zenon
    <3> QED  BY <1>1, <3>1, CatString, Zenon
  <2>2. Cat(lb, rest) = more
    <3>1. b \in Seq(X)
      BY <1>0, Zenon
    <3> QED  BY <1>1, <3>1, CatAssociative
  <2>3. Cat(clb, rest) = Cat(c, Cat(lb, rest))
    <3> HIDE DEF lb
    <3> QED  BY <1>1, <2>1, CatAssociative
  <2>4. Cat(Cat(m, clb), rest) = Cat(m, Cat(clb, rest))
    <3> HIDE DEF clb
    <3> QED  BY <1>1, <2>1, CatAssociative
  <2> QED  BY <1>2, <2>2, <2>3, <2>4, Zenon
<1> HIDE DEF t
<1>5. r = Got(m, s)
  BY <1>1, <1>3, <1>4, Magics, Cut DEF m
<1>6. ReadUint16(s) = Got(code, more) /\ ReadUint16(more) = Got(n, tail)
  BY <1>0, <1>3, ReadNumber DEF c, l
<1>7. (IF n > 0 THEN ReadFixedBytes(n, tail) ELSE Got(<<>>, tail)) = Got(b, rest)
  <2>1. CASE n > 0
    BY <1>0, <2>1, Cut
  <2>2. CASE ~(n > 0)
    <3>1. n = 0
      <4>1. n \in Nat
        BY <1>0, Words
      <4> QED  BY <2>2, <4>1
    <3>2. b = <<>>
      BY <1>x, <3>1
    <3>3. tail = rest
      BY <3>2 DEF Cat
    <3> QED  BY <2>2, <3>2, <3>3
  <2> QED  BY <2>1, <2>2
<1> HIDE DEF tail, more, s
<1> DEFINE body2 == IF n > 0 THEN ReadFixedBytes(n, tail) ELSE Got(<<>>, tail)
<1>8. DecodeBasic(s) = Got(Basic(code, n, b), rest)
  <2>1. ReadUint16(s).ok /\ ReadUint16(s).val = code /\ ReadUint16(s).rest = more
    BY <1>6, GotParts
  <2>2. ReadUint16(more).ok /\ ReadUint16(more).val = n /\ ReadUint16(more).rest = tail
    BY <1>6, GotParts
  <2>3. body2.ok /\ body2.val = b /\ body2.rest = rest
    BY <1>7, GotParts
  <2> QED  BY <2>1, <2>2, <2>3 DEF DecodeBasic, Then, Basic
<1>9. Read(t) = DecodeBasic(s)
  <2>1. r.ok /\ r.val = MagicBasicPkt /\ r.rest = s
    BY <1>5, GotParts DEF m
  <2>2. MagicLogicPkt # MagicBasicPkt
    BY DEF MagicLogicPkt, MagicBasicPkt
  <2> QED  BY <2>1, <2>2 DEF Read, Then
<1> QED
  BY <1>0, <1>8, <1>9 DEF p, t

\* Two ways to put the same string together.
Joins(s, u, a, b) == Cat(s, u) = Cat(a, b)

\* What a reader takes from the front of a string it does not find cut off.
LEMMA CutOff ==
  \A X, s, u, a, b, n :
     /\ s \in Seq(X) /\ u \in Seq(X) /\ a \in Seq(X) /\ b \in Seq(X)
     /\ n = Size(a) /\ Joins(s, u, a, b) /\ ReadFixedBytes(n, s) # Fail
     => \E t \in Seq(X) : ReadFixedBytes(n, s) = Got(a, t) /\ Cat(t, u) = b
<1> TAKE X, s, u, a, b, n
<1> HAVE /\ s \in Seq(X) /\ u \in Seq(X) /\ a \in Seq(X) /\ b \in Seq(X)
         /\ n = Size(a) /\ Joins(s, u, a, b) /\ ReadFixedBytes(n, s) # Fail
<1> DEFINE f == SubSeq(s, 1, n)
           t == SubSeq(s, n + 1, Len(s))
<1>0. n = Len(a)
  BY DEF Size
<1>1. n \in Nat /\ Len(s) \in Nat /\ n <= Len(s)
  BY <1>0 DEF ReadFixedBytes
<1>2. f \in Seq(X) /\ Len(f) = n /\ \A i \in 1 .. n : f[i] = s[i]
  BY <1>1
<1>3. t \in Seq(X) /\ Len(t) = Len(s) - n /\ \A i \in 1 .. Len(s) - n : t[i] = s[n + i]
  BY <1>1
<1>4. s \o u = a \o b
  BY DEF Joins, Cat
<1>5. ReadFixedBytes(n, s) = Got(f, t)
  BY <1>1 DEF ReadFixedBytes
<1> HIDE DEF f, t
<1>6. f = a
  <2>1. \A i \in 1 .. n : (s \o u)[i] = s[i] /\ (a \o b)[i] = a[i]
    BY <1>0, <1>1
  <2>2. \A i \in 1 .. n : f[i] = a[i]
    BY <1>2, <1>4, <2>1
  <2> QED  BY <1>0, <1>2, <2>2, SeqEqual
<1>7. t \o u = b
  <2>1. Len(t \o u) = Len(b) /\ t \o u \in Seq(X)
    <3>1. Len(s) + Len(u) = Len(a) + Len(b)
      <4>1. Len(s \o u) = Len(s) + Len(u) /\ Len(a \o b) = Len(a) + Len(b)
        OBVIOUS
      <4> QED  BY <1>4, <4>1
    <3>2. Len(t \o u) = Len(t) + Len(u) /\ t \o u \in Seq(X) /\ Len(u) \in Nat /\ Len(b) \in Nat
      BY <1>3, ConcatProperties, LenProperties
    <3> QED  BY <1>0, <1>1, <1>3, <3>1, <3>2
  <2>2. \A i \in 1 .. Len(b) : (a \o b)[n + i] = b[i]
    BY <1>0, <1>1
  <2>3. \A i \in 1 .. Len(t \o u) : (s \o u)[n + i] = (t \o u)[i]
    BY <1>1, <1>3
  <2>4. \A i \in 1 .. Len(t \o u) : (t \o u)[i] = b[i]
    BY <1>4, <2>1, <2>2, <2>3
  <2> QED  BY <2>1, <2>4, SeqEqual
<1> QED
  BY <1>3, <1>5, <1>6, <1>7 DEF Cat

\* What was written with WriteBytes is read as it was, or found cut off.
LEMMA BytesCutOff ==
  \A X, s, u, b, c :
     /\ Alphabet(X)
     /\ s \in Seq(X) /\ u \in Seq(X) /\ b \in Seq(X) /\ c \in Seq(X)
     /\ Short(b) /\ Joins(s, u, WriteBytes(b), c) /\ ReadBytes(s) # Fail
     => \E t \in Seq(X) : ReadBytes(s) = Got(b, t) /\ Cat(t, u) = c
<1> TAKE X, s, u, b, c
<1> HAVE /\ Alphabet(X)
         /\ s \in Seq(X) /\ u \in Seq(X) /\ b \in Seq(X) /\ c \in Seq(X)
         /\ Short(b) /\ Joins(s, u, WriteBytes(b), c) /\ ReadBytes(s) # Fail
<1> DEFINE n == Uint32(Len(b))
           r == ReadFixedBytes(4, s)
<1>0. Fail.ok = FALSE
  BY DEF Fail
<1>1. Len(b) \in Nat
  OBVIOUS
<1>2. n \in Seq(X) /\ 4 = Size(n) /\ Value32(n) = Len(b) /\ Size(b) = Len(b)
  BY <1>1, Numbers DEF Size
<1>3. Joins(s, u, n, Cat(b, c))
  <2>1. WriteBytes(b) = Cat(n, b)
    BY WrittenBytes
  <2>2. Cat(Cat(n, b), c) = Cat(n, Cat(b, c))
    BY <1>2, CatAssociative
  <2> QED  BY <2>1, <2>2, Zenon DEF Joins
<1>4. Cat(b, c) \in Seq(X)
  BY CatString, Zenon
<1> HIDE DEF n
<1>5. r # Fail
  <2>1. ASSUME r = Fail PROVE FALSE
    <3>1. ReadUint32(s) = Fail
      BY <1>0, <2>1 DEF ReadUint32, Then
    <3> QED  BY <1>0, <3>1 DEF ReadBytes, Then
  <2> QED  BY <2>1
<1>6. PICK v \in Seq(X) : r = Got(n, v) /\ Joins(v, u, b, c)
  <2>1. \E v \in Seq(X) : r = Got(n, v) /\ Cat(v, u) = Cat(b, c)
    BY <1>2, <1>3, <1>4, <1>5, CutOff
  <2> QED  BY <2>1 DEF Joins
<1>7. r.ok /\ r.val = n /\ r.rest = v
  BY <1>6, GotParts
<1>8. ReadUint32(s) = Got(Len(b), v)
  BY <1>2, <1>7 DEF ReadUint32, Then
<1>9. ReadUint32(s).ok /\ ReadUint32(s).val = Len(b) /\ ReadUint32(s).rest = v
  BY <1>8, GotParts
<1>10. ReadBytes(s) = ReadFixedBytes(Len(b), v)
  BY <1>9 DEF ReadBytes, Then
<1>11. ReadFixedBytes(Len(b), v) # Fail
  BY <1>0, <1>10
<1>12. PICK t \in Seq(X) : ReadFixedBytes(Len(b), v) = Got(b, t) /\ Cat(t, u) = c
  BY <1>2, <1>6, <1>11, CutOff
<1> QED
  BY <1>10, <1>12

\* A logic packet whose end is missing, wherever it was cut off, is not read.
LEMMA CutOffLogic ==
  ASSUME NEW X, Alphabet(X), NEW h \in X, NEW b \in Seq(X), Short(b),
         NEW s \in Seq(X), NEW u \in Seq(X), u # <<>>,
         Cat(s, u) = Marshal([kind |-> "logic", body |-> b, header |-> h])
  PROVE  ~Read(s).ok
<1> SUFFICES ASSUME Read(s).ok PROVE FALSE
  OBVIOUS
<1> DEFINE ph == ProtoMarshal(h)
           w == WriteBytes(ph)
           v == WriteBytes(b)
           r == ReadFixedBytes(4, s)
           nil == <<>>
<1>0. Fail.ok = FALSE
  BY DEF Fail
<1>1. ph \in Seq(X) /\ Short(ph)
  BY Protobuf
<1>2. w \in Seq(X) /\ v \in Seq(X) /\ Cat(w, v) \in Seq(X)
  <2>1. w \in Seq(X) /\ v \in Seq(X)
    BY <1>1, WrittenBytes
  <2> QED  BY <2>1, CatString, Zenon
<1>3. Joins(s, u, MagicLogicPkt, Cat(w, v))
  BY LogicString DEF Joins
<1> HIDE DEF ph
<1>4. r # Fail
  BY <1>0 DEF Read, Then
<1>5. PICK t1 \in Seq(X) : r = Got(MagicLogicPkt, t1) /\ Joins(t1, u, w, v)
  <2>1. MagicLogicPkt \in Seq(X) /\ 4 = Size(MagicLogicPkt)
    BY Magics DEF Size
  <2>2. \E t1 \in Seq(X) : r = Got(MagicLogicPkt, t1) /\ Cat(t1, u) = Cat(w, v)
    BY <1>2, <1>3, <1>4, <2>1, CutOff
  <2> QED  BY <2>2 DEF Joins
<1>6. r.ok /\ r.val = MagicLogicPkt /\ r.rest = t1
  BY <1>5, GotParts
<1>7. Read(s) = DecodeLogic(t1)
  <2>1. MagicLogicPkt # MagicBasicPkt
    BY DEF MagicLogicPkt, MagicBasicPkt
  <2> QED  BY <1>6, <2>1 DEF Read, Then
<1>8. ReadBytes(t1).ok /\ ReadBytes(t1) # Fail
  BY <1>0, <1>7 DEF DecodeLogic, Then
<1>9. PICK t2 \in Seq(X) : ReadBytes(t1) = Got(ph, t2) /\ Joins(t2, u, v, nil)
  <2>1. \E t2 \in Seq(X) : ReadBytes(t1) = Got(ph, t2) /\ Cat(t2, u) = v
    BY <1>1, <1>2, <1>5, <1>8, BytesCutOff
  <2>2. Cat(v, nil) = v
    BY <1>2, CatEmpty, Zenon
  <2> QED  BY <2>1, <2>2 DEF Joins
<1>10. ReadBytes(t1).rest = t2
  BY <1>9, GotParts
<1>11. ReadBytes(t2) # Fail
  BY <1>0, <1>7, <1>8, <1>10 DEF DecodeLogic, Then
<1>12. nil \in Seq(X)
  OBVIOUS
<1> HIDE DEF nil
<1>13. PICK t3 \in Seq(X) : Cat(t3, u) = nil
  BY <1>2, <1>9, <1>11, <1>12, BytesCutOff
<1> QED
  BY <1>13, ConcatEqualIffEmpty DEF Cat, nil

\* A basic packet whose end is missing is not read either.
LEMMA CutOffBasic ==
  ASSUME NEW X, Alphabet(X), NEW code \in Word16, NEW body \in Seq(X), Len(body) \in Word16,
         NEW n \in {0, Len(body)}, NEW s \in Seq(X), NEW u \in Seq(X), u # <<>>,
         Cat(s, u) = Marshal(Basic(code, n, body))
  PROVE  ~Read(s).ok
<1> SUFFICES ASSUME Read(s).ok PROVE FALSE
  OBVIOUS
<1> DEFINE m == MagicBasicPkt
           c == Uint16(code)
           b == Written16(n, body)
           l == Uint16(n)
           lb == Cat(l, b)
           clb == Cat(c, lb)
           r == ReadFixedBytes(4, s)
           nil == <<>>
<1>0. Fail.ok = FALSE
  BY DEF Fail
<1>1. /\ m \in Seq(X) /\ 4 = Size(m) /\ c \in Seq(X) /\ 2 = Size(c)
      /\ l \in Seq(X) /\ 2 = Size(l) /\ b \in Seq(X) /\ Size(b) = n /\ n \in Word16
  BY Magics, Numbers16, WrittenBody DEF Size
<1>2. lb \in Seq(X) /\ clb \in Seq(X)
  <2>1. lb \in Seq(X)
    BY <1>1, CatString, Zenon
  <2> QED  BY <1>1, <2>1, CatString, Zenon
<1>3. Joins(s, u, m, clb)
  BY BasicString DEF Joins
<1>x. n = 0 => b = <<>>
  BY DEF Written16
<1> HIDE DEF b, c, l, lb, clb
<1>4. r # Fail
  BY <1>0 DEF Read, Then
<1>5. PICK t1 \in Seq(X) : r = Got(m, t1) /\ Joins(t1, u, c, lb)
  <2>1. \E t1 \in Seq(X) : r = Got(m, t1) /\ Cat(t1, u) = clb
    BY <1>1, <1>2, <1>3, <1>4, CutOff
  <2> QED  BY <2>1 DEF Joins, clb
<1>6. r.ok /\ r.val = MagicBasicPkt /\ r.rest = t1
  BY <1>5, GotParts
<1>7. Read(s) = DecodeBasic(t1)
  <2>1. MagicLogicPkt # MagicBasicPkt
    BY DEF MagicLogicPkt, MagicBasicPkt
  <2> QED  BY <1>6, <2>1 DEF Read, Then
<1>8. ReadUint16(t1).ok
  BY <1>0, <1>7 DEF DecodeBasic, Then
<1>9. ReadFixedBytes(2, t1) # Fail
  BY <1>0, <1>8 DEF ReadUint16, Then
<1>10. PICK t2 \in Seq(X) : ReadFixedBytes(2, t1) = Got(c, t2) /\ Joins(t2, u, l, b)
  <2>1. \E t2 \in Seq(X) : ReadFixedBytes(2, t1) = Got(c, t2) /\ Cat(t2, u) = lb
    BY <1>1, <1>2, <1>5, <1>9, CutOff
  <2> QED  BY <2>1 DEF Joins, lb
<1>11. ReadUint16(t1).rest = t2
  <2>1. ReadFixedBytes(2, t1).ok /\ ReadFixedBytes(2, t1).val = c /\ ReadFixedBytes(2, t1).rest = t2
    BY <1>10, GotParts
  <2>2. ReadUint16(t1) = Got(Value16(c), t2)
    BY <2>1 DEF ReadUint16, Then
  <2> QED  BY <2>2, GotParts
<1>12. ReadUint16(t2).ok
  BY <1>0, <1>7, <1>8, <1>11 DEF DecodeBasic, Then
<1>13. ReadFixedBytes(2, t2) # Fail
  BY <1>0, <1>12 DEF ReadUint16, Then
<1>14. PICK t3 \in Seq(X) : ReadFixedBytes(2, t2) = Got(l, t3) /\ Joins(t3, u, b, nil)
  <2>1. \E t3 \in Seq(X) : ReadFixedBytes(2, t2) = Got(l, t3) /\ Cat(t3, u) = b
    BY <1>1, <1>10, <1>13, CutOff
  <2>2. Cat(b, nil) = b
    BY <1>1, CatEmpty, Zenon
  <2> QED  BY <2>1, <2>2 DEF Joins
<1>15. ReadUint16(t2).val = n /\ ReadUint16(t2).rest = t3
  <2>1. ReadFixedBytes(2, t2).ok /\ ReadFixedBytes(2, t2).val = l /\ ReadFixedBytes(2, t2).rest = t3
    BY <1>14, GotParts
  <2>2. ReadUint16(t2) = Got(Value16(l), t3)
    BY <2>1 DEF ReadUint16, Then
  <2>3. Value16(l) = n
    BY <1>1, Numbers16 DEF l
  <2> QED  BY <2>2, <2>3, GotParts
<1>16. nil \in Seq(X)
  OBVIOUS
<1> HIDE DEF nil
<1>17. PICK t4 \in Seq(X) : Cat(t4, u) = nil
  <2>1. CASE n > 0
    <3>1. ReadFixedBytes(n, t3) # Fail
      BY <1>0, <1>7, <1>8, <1>11, <1>12, <1>15, <2>1 DEF DecodeBasic, Then
    <3> QED  BY <1>1, <1>14, <1>16, <3>1, CutOff
  <2>2. CASE ~(n > 0)
    <3>1. n = 0
      <4>1. n \in Nat
        BY <1>1, Words
      <4> QED  BY <2>2, <4>1
    <3>2. Cat(t3, u) = Cat(nil, nil)
      BY <1>14, <1>x, <3>1 DEF Joins, nil
    <3>3. Cat(nil, nil) = nil
      BY <1>16, CatEmpty, Zenon DEF nil
    <3> QED  BY <1>14, <3>2, <3>3
  <2> QED  BY <2>1, <2>2
<1> QED
  BY <1>17, ConcatEqualIffEmpty DEF Cat, nil
-----------------------------------------------------------------------------
(***************************************************************************)
(* Metas.  GetMeta finds the first meta with a key, DelMeta takes out the  *)
(* only one.                                                               *)
(***************************************************************************)
\* A set of numbers that is not empty has a least element.
LEMMA Least ==
  ASSUME NEW T \in SUBSET Nat, T # {}
  PROVE  \E m \in T : \A n \in T : m <= n
<1> DEFINE R == OpToRel(<, Nat)
<1>1. \A x, y \in Nat : x < y => <<x, y>> \in R
  BY Zenon DEF OpToRel
<1>2. IsWellFoundedOn(R, Nat)
  BY NatLessThanWellFounded, Zenon
<1> HIDE DEF R
<1>0. T \subseteq Nat /\ T # {}
  OBVIOUS
<1>3. PICK m \in T : \A n \in T : ~(<<n, m>> \in R)
  BY <1>0, <1>2, WFMin, Zenon
<1>4. \A n \in T : ~(n < m)
  BY <1>0, <1>1, <1>3, Zenon
<1> QED
  BY <1>0, <1>4

List(metas) == Len(metas) \in Nat /\ DOMAIN metas = 1 .. Len(metas)

\* The place of the first meta with a key, and of the only one.
First(metas, key, k) ==
    /\ List(metas) /\ k \in DOMAIN metas /\ metas[k].key = key
    /\ \A i \in DOMAIN metas : i < k => metas[i].key # key

Only(metas, key, k) ==
    /\ List(metas) /\ k \in DOMAIN metas /\ metas[k].key = key
    /\ \A i \in DOMAIN metas : i # k => metas[i].key # key

\* The list after DelMeta took the k-th meta out, with what is left behind its end.
Shifted(metas, k) ==
    [array |-> [j \in DOMAIN metas |->
                   IF k <= j /\ j < Len(metas) THEN metas[j + 1] ELSE metas[j]],
     len |-> Len(metas) - 1]

Start(metas) == [array |-> metas, len |-> Len(metas)]

\* DelMeta's loop, where the k-th meta is the only one with the key.
LEMMA DelOnly ==
  ASSUME NEW metas, NEW key, NEW k, Only(metas, key, k)
  PROVE  DelLoop(key, metas) = Shifted(metas, k)
<1> /\ k \in DOMAIN metas /\ metas[k].key = key
    /\ \A i \in DOMAIN metas : i # k => metas[i].key # key
    /\ Len(metas) \in Nat /\ DOMAIN metas = 1 .. Len(metas)
  BY DEF Only, List
<1> DEFINE n == Len(metas)
           F(f) == [i \in 0 .. n |-> IF i = 0 THEN Start(metas) ELSE DelTurn(key, f[i - 1], i)]
           g == [i \in 0 .. n |-> IF i < k THEN Start(metas) ELSE Shifted(metas, k)]
           list == CHOOSE f : f = F(f)
<1>1. n \in Nat /\ k \in 1 .. n /\ DOMAIN metas = 1 .. n
  OBVIOUS
<1>2. ASSUME NEW i \in 1 .. n
      PROVE  g[i] = DelTurn(key, g[i - 1], i)
  <2>1. CASE i < k
    <3>1. g[i] = Start(metas) /\ g[i - 1] = Start(metas)
      BY <1>1, <2>1
    <3>2. metas[i].key # key
      BY <1>1, <2>1
    <3> QED  BY <3>1, <3>2 DEF DelTurn, Start
  <2>2. CASE i = k
    <3>1. g[i] = Shifted(metas, k) /\ g[i - 1] = Start(metas)
      BY <1>1, <2>2
    <3>2. metas[i].key = key
      BY <2>2
    <3> DEFINE a == [j \in DOMAIN metas |->
                       IF k <= j /\ j < n THEN metas[j + 1] ELSE metas[j]]
    <3>3. DelTurn(key, Start(metas), k) = [array |-> a, len |-> n - 1]
      BY <2>2, <3>2 DEF DelTurn, Start
    <3> QED  BY <2>2, <3>1, <3>3 DEF Shifted
  <2>3. CASE i > k
    <3>1. g[i] = Shifted(metas, k) /\ g[i - 1] = Shifted(metas, k)
      BY <1>1, <2>3
    <3>2. Shifted(metas, k).array[i].key # key
      BY <1>1, <2>3 DEF Shifted
    <3> QED  BY <3>1, <3>2 DEF DelTurn
  <2> QED  BY <1>1, <2>1, <2>2, <2>3
<1>3. g = F(g)
  <2>1. g[0] = Start(metas)
    BY <1>1
  <2>2. \A i \in 0 .. n : g[i] = IF i = 0 THEN Start(metas) ELSE DelTurn(key, g[i - 1], i)
    <3> HIDE DEF g
    <3> QED  BY <1>1, <1>2, <2>1
  <2> HIDE DEF g
  <2>3. g = [i \in 0 .. n |-> g[i]]
    BY DEF g
  <2> QED  BY <2>2, <2>3
<1>4. list = F(list)
  <2> HIDE DEF g, F
  <2> QED  BY <1>3
<1>5. \A i \in 0 .. n : list[i] = g[i]
  <2> DEFINE T == {i \in 0 .. n : list[i] # g[i]}
  <2> SUFFICES ASSUME T # {} PROVE FALSE
    OBVIOUS
  <2>0. T \subseteq Nat
    BY <1>1
  <2>1. PICK i \in T : \A j \in T : i <= j
    <3> HIDE DEF T
    <3> QED  BY <2>0, Least
  <2> HIDE DEF g, list
  <2>2. \A j \in 0 .. n : list[j] = IF j = 0 THEN Start(metas) ELSE DelTurn(key, list[j - 1], j)
    BY <1>4
  <2>3. \A j \in 0 .. n : g[j] = IF j = 0 THEN Start(metas) ELSE DelTurn(key, g[j - 1], j)
    BY <1>3
  <2>4. i # 0
    BY <2>2, <2>3
  <2>5. i - 1 \in 0 .. n /\ list[i - 1] = g[i - 1]
    BY <1>1, <2>1, <2>4
  <2> QED  BY <2>2, <2>3, <2>4, <2>5
<1>6. DelLoop(key, metas) = list[n]
  BY DEF DelLoop, Start
<1>7. g[n] = Shifted(metas, k)
  BY <1>1
<1> QED  BY <1>1, <1>5, <1>6, <1>7

\* GetMeta finds the first meta with the key.
LEMMA GetFirst ==
  ASSUME NEW p, NEW metas, NEW key, NEW k, p.header.meta = metas,
         First(metas, key, k)
  PROVE  GetMeta(p, key) = Got(metas[k].value, <<>>)
<1> /\ k \in DOMAIN metas /\ metas[k].key = key
    /\ \A i \in DOMAIN metas : i < k => metas[i].key # key
    /\ Len(metas) \in Nat /\ DOMAIN metas = 1 .. Len(metas)
  BY DEF First, List
<1> DEFINE I == {i \in 1 .. Len(metas) : metas[i].key = key}
<1>1. DOMAIN metas = 1 .. Len(metas) /\ Len(metas) \in Nat
  OBVIOUS
<1>2. k \in I /\ \A i \in I : k <= i
  BY <1>1
<1>3. I \subseteq Nat
  BY <1>1
<1> HIDE DEF I
<1>4. Min(I) = k
  <2>1. Min(I) \in I /\ \A i \in I : Min(I) <= i
    BY <1>2 DEF Min
  <2> QED  BY <1>2, <1>3, <2>1
<1>5. SelectInSeq(metas, LAMBDA m : m.key = key) = k
  BY <1>2, <1>4 DEF SelectInSeq, I
<1>6. k # 0
  BY <1>1
<1> QED  BY <1>5, <1>6 DEF GetMeta

\* GetMeta finds nothing where no meta has the key.
LEMMA GetNone ==
  ASSUME NEW p, NEW metas, NEW key, List(metas), p.header.meta = metas,
         \A i \in DOMAIN metas : metas[i].key # key
  PROVE  GetMeta(p, key) = Fail
<1>1. {i \in 1 .. Len(metas) : metas[i].key = key} = {}
  BY DEF List
<1>2. SelectInSeq(metas, LAMBDA m : m.key = key) = 0
  BY <1>1 DEF SelectInSeq
<1> QED  BY <1>2 DEF GetMeta

\* What is left of the list, as far as it goes.
Others(metas, k) == SubSeq(Shifted(metas, k).array, 1, Len(metas) - 1)

\* The packet without its k-th meta.
Without(p, k) == [p EXCEPT !.header.meta = Others(p.header.meta, k)]

\* DelMeta takes the only meta with the key out.
LEMMA DelMetaOnly ==
  ASSUME NEW p, NEW key, NEW k, Only(p.header.meta, key, k)
  PROVE  DelMeta(p, key) = Without(p, k)
<1> DEFINE metas == p.header.meta
<1>1. DelLoop(key, metas) = Shifted(metas, k)
  BY DelOnly
<1>2. Shifted(metas, k).len = Len(metas) - 1
  BY DEF Shifted
<1> QED  BY <1>1, <1>2, Zenon DEF DelMeta, Others, Without

\* The others are those before and those behind, one place nearer.
LEMMA OthersAre ==
  ASSUME NEW X, NEW metas \in Seq(X), NEW k \in DOMAIN metas
  PROVE  /\ Others(metas, k) \in Seq(X) /\ Len(Others(metas, k)) = Len(metas) - 1
         /\ \A j \in 1 .. Len(metas) - 1 :
               Others(metas, k)[j] = IF k <= j THEN metas[j + 1] ELSE metas[j]
<1> DEFINE n == Len(metas)
           a == Shifted(metas, k).array
<1>1. n \in Nat /\ k \in 1 .. n /\ DOMAIN metas = 1 .. n /\ \A j \in 1 .. n : metas[j] \in X
  OBVIOUS
<1>2. a = [j \in 1 .. n |-> IF k <= j /\ j < n THEN metas[j + 1] ELSE metas[j]]
  BY <1>1 DEF Shifted
<1>3. a \in Seq(X) /\ Len(a) = n
        /\ \A j \in 1 .. n : a[j] = IF k <= j /\ j < n THEN metas[j + 1] ELSE metas[j]
  <2>1. a \in [1 .. n -> X]
    BY <1>1, <1>2
  <2>2. a \in Seq(X) /\ DOMAIN a = 1 .. n
    BY <1>1, <2>1, SeqDef
  <2> QED  BY <1>1, <1>2, <2>2
<1> HIDE DEF a
<1>4. /\ SubSeq(a, 1, n - 1) \in Seq(X) /\ Len(SubSeq(a, 1, n - 1)) = n - 1
      /\ \A j \in 1 .. n - 1 : SubSeq(a, 1, n - 1)[j] = a[j]
  BY <1>1, <1>3
<1>5. Others(metas, k) = SubSeq(a, 1, n - 1)
  BY DEF Others, a
<1> QED  BY <1>1, <1>3, <1>4, <1>5
\* A logic packet, by what the packets of the gateway differ in.
Logic(cmd, n, c, body, metas) ==
    [kind |-> "logic", body |-> body,
     header |-> [command |-> cmd, sequence |-> n, status |-> "Success",
                 channelId |-> c, dest |-> "", meta |-> metas]]

Body == {<<>>, <<1, 2>>}

ToChannel(c) == Meta(MetaDestChannels, <<c>>)
ToServer(v) == Meta(MetaDestServer, v)
ToGate == ToServer(Gate)
Test == Meta("test", "test")

\* Other metas make the packet with these metas.
LEMMA NewMetas ==
  ASSUME NEW cmd, NEW n, NEW c, NEW body, NEW old, NEW new
  PROVE  [Logic(cmd, n, c, body, old) EXCEPT !.header.meta = new] = Logic(cmd, n, c, body, new)
<1> DEFINE H(metas) == [command |-> cmd, sequence |-> n, status |-> "Success",
                        channelId |-> c, dest |-> "", meta |-> metas]
           P(h) == [kind |-> "logic", body |-> body, header |-> h]
<1>1. [H(old) EXCEPT !.meta = new] = H(new)
  <2> DEFINE st == "Success"
             d == ""
  <2> HIDE DEF st, d
  <2>1. [[command |-> cmd, sequence |-> n, status |-> st,
           channelId |-> c, dest |-> d, meta |-> old] EXCEPT !.meta = new]
           = [command |-> cmd, sequence |-> n, status |-> st,
              channelId |-> c, dest |-> d, meta |-> new]
    OBVIOUS
  <2> QED  BY <2>1, Zenon DEF st, d, H
<1>2. \A h, i : [P(h) EXCEPT !.header = i] = P(i) /\ P(h).header = h
  OBVIOUS
<1> HIDE DEF H, P
<1>3. [P(H(old)) EXCEPT !.header.meta = new] = P(H(new))
  BY <1>1, <1>2, Zenon
<1> QED  BY <1>3, Zenon DEF Logic, H, P

\* What the dispatcher and container.Push mark: the gateway finds the name it is
\* for and the receiver, and takes both metas out.
LEMMA MarkedInOrder ==
  ASSUME NEW cmd, NEW n, NEW c, NEW body, NEW v
  PROVE  LET p == Logic(cmd, n, c, body, <<ToChannel(c), ToServer(v)>>)
         IN  /\ GetMeta(p, MetaDestServer) = Got(v, <<>>)
             /\ GetMeta(p, MetaDestChannels) = Got(<<c>>, <<>>)
             /\ Stripped(p) = Logic(cmd, n, c, body, <<>>)
<1> DEFINE p == Logic(cmd, n, c, body, <<ToChannel(c), ToServer(v)>>)
           q == Logic(cmd, n, c, body, <<ToChannel(c)>>)
           ms == <<ToChannel(c), ToServer(v)>>
           ns == <<ToChannel(c)>>
           X == {ToChannel(c), ToServer(v)}
<1>1. p.header.meta = ms /\ q.header.meta = ns
  BY DEF Logic
<1>2. /\ ToServer(v).key = MetaDestServer /\ ToServer(v).value = v
      /\ ToChannel(c).key = MetaDestChannels /\ ToChannel(c).value = <<c>>
      /\ MetaDestServer # MetaDestChannels
  BY DEF ToServer, ToChannel, Meta, MetaDestServer, MetaDestChannels
<1>3. /\ ms \in Seq(X) /\ DOMAIN ms = {1, 2} /\ Len(ms) = 2 /\ ms[1] = ToChannel(c) /\ ms[2] = ToServer(v)
      /\ ns \in Seq(X) /\ DOMAIN ns = {1} /\ Len(ns) = 1 /\ ns[1] = ToChannel(c)
  OBVIOUS
<1>4. \A metas : /\ [p EXCEPT !.header.meta = metas] = Logic(cmd, n, c, body, metas)
                 /\ [q EXCEPT !.header.meta = metas] = Logic(cmd, n, c, body, metas)
  BY NewMetas
<1>5. /\ First(ms, MetaDestServer, 2) /\ First(ms, MetaDestChannels, 1)
      /\ Only(ms, MetaDestServer, 2) /\ Only(ns, MetaDestChannels, 1)
  BY <1>2, <1>3 DEF First, Only, List
<1>6. q = Logic(cmd, n, c, body, ns)
  OBVIOUS
<1> HIDE DEF p, q, ms, ns, X
<1>7. GetMeta(p, MetaDestServer) = Got(ms[2].value, <<>>)
  BY <1>1, <1>5, GetFirst
<1>8. GetMeta(p, MetaDestChannels) = Got(ms[1].value, <<>>)
  BY <1>1, <1>5, GetFirst
<1>9. DelMeta(p, MetaDestServer) = q
  <2>1. DelMeta(p, MetaDestServer) = Without(p, 2)
    <3>1. Only(p.header.meta, MetaDestServer, 2)
      BY <1>1, <1>5
    <3> QED  BY <3>1, DelMetaOnly
  <2>2. Others(ms, 2) = ns
    <3>1. Others(ms, 2) \in Seq(X) /\ Len(Others(ms, 2)) = 1 /\ Others(ms, 2)[1] = ToChannel(c)
      <4>1. 2 \in DOMAIN ms
        BY <1>3
      <4>2. /\ Others(ms, 2) \in Seq(X) /\ Len(Others(ms, 2)) = Len(ms) - 1
            /\ \A j \in 1 .. Len(ms) - 1 :
                  Others(ms, 2)[j] = IF 2 <= j THEN ms[j + 1] ELSE ms[j]
        BY <1>3, <4>1, OthersAre, Zenon
      <4> QED  BY <1>3, <4>2
    <3> QED  BY <3>1 DEF ns
  <2> QED  BY <1>1, <1>4, <1>6, <2>1, <2>2 DEF Without
<1>10. DelMeta(q, MetaDestChannels) = Logic(cmd, n, c, body, <<>>)
  <2>1. DelMeta(q, MetaDestChannels) = Without(q, 1)
    <3>1. Only(q.header.meta, MetaDestChannels, 1)
      BY <1>1, <1>5
    <3> QED  BY <3>1, DelMetaOnly
  <2>2. Others(ns, 1) = <<>>
    <3>1. Others(ns, 1) \in Seq(X) /\ Len(Others(ns, 1)) = 0
      BY <1>3, OthersAre
    <3> QED  BY <3>1
  <2> QED  BY <1>1, <1>4, <2>1, <2>2 DEF Without
<1>11. Stripped(p) = Logic(cmd, n, c, body, <<>>)
  BY <1>9, <1>10 DEF Stripped
<1> QED  BY <1>2, <1>3, <1>7, <1>8, <1>11 DEF p, ms

\* The order of TestReadPkt, behind a meta of its own, which is left.
LEMMA MarkedBehind ==
  ASSUME NEW cmd, NEW n, NEW c, NEW body, NEW v
  PROVE  LET p == Logic(cmd, n, c, body, <<Test, ToServer(v), ToChannel(c)>>)
         IN  /\ GetMeta(p, MetaDestServer) = Got(v, <<>>)
             /\ GetMeta(p, MetaDestChannels) = Got(<<c>>, <<>>)
             /\ Stripped(p) = Logic(cmd, n, c, body, <<Test>>)
<1> DEFINE p == Logic(cmd, n, c, body, <<Test, ToServer(v), ToChannel(c)>>)
           q == Logic(cmd, n, c, body, <<Test, ToChannel(c)>>)
           ms == <<Test, ToServer(v), ToChannel(c)>>
           ns == <<Test, ToChannel(c)>>
           X == {ToChannel(c), ToServer(v), Test}
<1>1. p.header.meta = ms /\ q.header.meta = ns
  BY DEF Logic
<1>2. /\ ToServer(v).key = MetaDestServer /\ ToServer(v).value = v
      /\ ToChannel(c).key = MetaDestChannels /\ ToChannel(c).value = <<c>>
      /\ MetaDestServer # MetaDestChannels
      /\ Test.key # MetaDestServer /\ Test.key # MetaDestChannels
  BY DEF ToServer, ToChannel, Test, Meta, MetaDestServer, MetaDestChannels
<1>3. /\ ms \in Seq(X) /\ DOMAIN ms = {1, 2, 3} /\ Len(ms) = 3
      /\ ms[1] = Test /\ ms[2] = ToServer(v) /\ ms[3] = ToChannel(c)
      /\ ns \in Seq(X) /\ DOMAIN ns = {1, 2} /\ Len(ns) = 2 /\ ns[1] = Test /\ ns[2] = ToChannel(c)
  OBVIOUS
<1>4. \A metas : /\ [p EXCEPT !.header.meta = metas] = Logic(cmd, n, c, body, metas)
                 /\ [q EXCEPT !.header.meta = metas] = Logic(cmd, n, c, body, metas)
  BY NewMetas
<1>5. /\ First(ms, MetaDestServer, 2) /\ First(ms, MetaDestChannels, 3)
      /\ Only(ms, MetaDestServer, 2) /\ Only(ns, MetaDestChannels, 2)
  BY <1>2, <1>3 DEF First, Only, List
<1>6. q = Logic(cmd, n, c, body, ns)
  OBVIOUS
<1> HIDE DEF p, q, ms, ns, X
<1>7. GetMeta(p, MetaDestServer) = Got(ms[2].value, <<>>)
  BY <1>1, <1>5, GetFirst
<1>8. GetMeta(p, MetaDestChannels) = Got(ms[3].value, <<>>)
  BY <1>1, <1>5, GetFirst
<1>9. DelMeta(p, MetaDestServer) = q
  <2>1. DelMeta(p, MetaDestServer) = Without(p, 2)
    <3>1. Only(p.header.meta, MetaDestServer, 2)
      BY <1>1, <1>5
    <3> QED  BY <3>1, DelMetaOnly
  <2>2. Others(ms, 2) = ns
    <3>1. 2 \in DOMAIN ms
      BY <1>3
    <3>2. /\ Others(ms, 2) \in Seq(X) /\ Len(Others(ms, 2)) = Len(ms) - 1
          /\ \A j \in 1 .. Len(ms) - 1 :
                Others(ms, 2)[j] = IF 2 <= j THEN ms[j + 1] ELSE ms[j]
      BY <1>3, <3>1, OthersAre, Zenon
    <3>3. /\ Others(ms, 2) \in Seq(X) /\ Len(Others(ms, 2)) = 2
          /\ Others(ms, 2)[1] = Test /\ Others(ms, 2)[2] = ToChannel(c)
      BY <1>3, <3>2
    <3> QED  BY <3>3 DEF ns
  <2> QED  BY <1>1, <1>4, <1>6, <2>1, <2>2 DEF Without
<1>10. DelMeta(q, MetaDestChannels) = Logic(cmd, n, c, body, <<Test>>)
  <2>1. DelMeta(q, MetaDestChannels) = Without(q, 2)
    <3>1. Only(q.header.meta, MetaDestChannels, 2)
      BY <1>1, <1>5
    <3> QED  BY <3>1, DelMetaOnly
  <2>2. Others(ns, 2) = <<Test>>
    <3>1. 2 \in DOMAIN ns
      BY <1>3
    <3>2. /\ Others(ns, 2) \in Seq(X) /\ Len(Others(ns, 2)) = Len(ns) - 1
          /\ \A j \in 1 .. Len(ns) - 1 :
                Others(ns, 2)[j] = IF 2 <= j THEN ns[j + 1] ELSE ns[j]
      BY <1>3, <3>1, OthersAre, Zenon
    <3>3. Others(ns, 2) \in Seq(X) /\ Len(Others(ns, 2)) = 1 /\ Others(ns, 2)[1] = Test
      BY <1>3, <3>2
    <3> QED  BY <3>3
  <2> QED  BY <1>1, <1>4, <2>1, <2>2 DEF Without
<1>11. Stripped(p) = Logic(cmd, n, c, body, <<Test>>)
  BY <1>9, <1>10 DEF Stripped
<1> QED  BY <1>2, <1>3, <1>7, <1>8, <1>11 DEF p, ms

\* Two strings of one element.
LEMMA OneAndOne ==
  \A x, y : Cat(<<x>>, <<y>>) = <<x, y>>
<1> TAKE x, y
<1> DEFINE a == <<x>>
           b == <<y>>
           s == <<x, y>>
           X == {x, y}
<1>1. a \in Seq(X) /\ b \in Seq(X) /\ Len(a) = 1 /\ Len(b) = 1 /\ a[1] = x /\ b[1] = y
  OBVIOUS
<1>2. s \in Seq(X) /\ Len(s) = 2 /\ s[1] = x /\ s[2] = y
  OBVIOUS
<1> HIDE DEF a, b, s, X
<1>3. a \o b \in Seq(X) /\ Len(a \o b) = 2 /\ (a \o b)[1] = x /\ (a \o b)[2] = y
  <2>1. a \o b \in Seq(X) /\ Len(a \o b) = Len(a) + Len(b)
    BY <1>1, ConcatProperties
  <2>2. \A i \in 1 .. Len(a) + Len(b) :
           (a \o b)[i] = IF i <= Len(a) THEN a[i] ELSE b[i - Len(a)]
    BY <1>1, ConcatProperties
  <2> QED  BY <1>1, <2>1, <2>2
<1>4. \A i \in 1 .. 2 : (a \o b)[i] = s[i]
  BY <1>2, <1>3
<1>5. a \o b = s
  BY <1>2, <1>3, <1>4, SeqEqual
<1> QED  BY <1>5, Zenon DEF a, b, s, Cat

\* AddMeta puts the new metas behind the old.
LEMMA AddedMetas ==
  ASSUME NEW cmd, NEW n, NEW c, NEW body, NEW old, NEW new
  PROVE  AddMeta(Logic(cmd, n, c, body, old), new) = Logic(cmd, n, c, body, Cat(old, new))
<1>1. Logic(cmd, n, c, body, old).header.meta = old
  BY DEF Logic
<1>2. AddMeta(Logic(cmd, n, c, body, old), new)
        = [Logic(cmd, n, c, body, old) EXCEPT !.header.meta = Cat(old, new)]
  BY <1>1, Zenon DEF AddMeta, Cat
<1> QED  BY <1>2, NewMetas

\* What a chat server may push in answer to a packet, whatever its metas.
LEMMA PushedPackets ==
  ASSUME NEW cmd, NEW n, NEW c, NEW body, NEW metas
  PROVE  \E v : Pushed(Logic(cmd, n, c, body, metas)) =
            {Logic(cmd, n, c, <<>>, <<>>),
             Logic(cmd, n, c, <<>>, <<ToChannel(c), ToServer(v)>>),
             Logic(cmd, n, c, <<>>, <<Test, ToServer(v), ToChannel(c)>>)}
<1> DEFINE p == Logic(cmd, n, c, body, metas)
           v == GetMeta(p, MetaDestServer).val
           h == p.header
           q == Logic(cmd, n, c, <<>>, <<>>)
           server == Meta(MetaDestServer, v)
<1>1. /\ h.command = cmd /\ h.sequence = n /\ h.status = "Success" /\ h.channelId = c
      /\ h.dest = ""
  BY DEF Logic
<1>2. NewFrom(h) = q
  BY <1>1 DEF NewFrom, Header, Logic
<1>3. server = ToServer(v)
  BY DEF ToServer
<1>4. Meta(MetaDestChannels, <<h.channelId>>) = ToChannel(c)
  BY <1>1 DEF ToChannel
<1> HIDE DEF p, h, v
<1>5. AddMeta(q, <<ToChannel(c)>>) = Logic(cmd, n, c, <<>>, <<ToChannel(c)>>)
  <2>1. Cat(<<>>, <<ToChannel(c)>>) = <<ToChannel(c)>>
    BY DEF Cat
  <2> QED  BY <2>1, AddedMetas
<1>6. AddMeta(AddMeta(q, <<ToChannel(c)>>), <<ToServer(v)>>)
        = Logic(cmd, n, c, <<>>, <<ToChannel(c), ToServer(v)>>)
  <2>1. Cat(<<ToChannel(c)>>, <<ToServer(v)>>) = <<ToChannel(c), ToServer(v)>>
    BY OneAndOne
  <2> QED  BY <1>5, <2>1, AddedMetas
<1>7. AddMeta(q, <<Test, ToServer(v), ToChannel(c)>>)
        = Logic(cmd, n, c, <<>>, <<Test, ToServer(v), ToChannel(c)>>)
  <2>1. Cat(<<>>, <<Test, ToServer(v), ToChannel(c)>>) = <<Test, ToServer(v), ToChannel(c)>>
    BY DEF Cat
  <2> QED  BY <2>1, AddedMetas
<1> HIDE DEF q, server
<1>8. Pushed(p) = {q, AddMeta(AddMeta(q, <<ToChannel(c)>>), <<ToServer(v)>>),
                   AddMeta(q, <<Test, ToServer(v), ToChannel(c)>>)}
  BY <1>2, <1>3, <1>4, Zenon DEF Pushed, Test, h, server, v
<1> QED  BY <1>6, <1>7, <1>8, Zenon DEF p, q

\* Without metas a packet is for nobody.
LEMMA ForNobody ==
  ASSUME NEW cmd, NEW n, NEW c, NEW body
  PROVE  ~ForMe(Logic(cmd, n, c, body, <<>>))
<1> DEFINE p == Logic(cmd, n, c, body, <<>>)
           ms == <<>>
<1>1. p.header.meta = ms
  BY DEF Logic
<1>2. List(ms) /\ \A i \in DOMAIN ms : ms[i].key # MetaDestServer
  BY DEF List
<1> HIDE DEF p, ms
<1>3. GetMeta(p, MetaDestServer) = Fail
  BY <1>1, <1>2, GetNone
<1>4. ~ForMe(p)
  BY <1>3 DEF ForMe, Fail
<1> QED  BY <1>4 DEF p, ms

\* A body is a string of bytes, and short.
LEMMA BodyBytes ==
  ASSUME NEW b \in Body
  PROVE  b \in Seq(Bytes) /\ Short(b) /\ Len(b) \in Word16
<1>1. b \in Seq(Bytes) /\ (Len(b) = 0 \/ Len(b) = 2)
  <2>1. CASE b = <<>>
    BY <2>1
  <2>2. CASE b = <<1, 2>>
    <3>1. 1 \in Bytes /\ 2 \in Bytes
      BY DEF Bytes
    <3> QED  BY <2>2, <3>1
  <2> QED  BY <2>1, <2>2 DEF Body
<1>2. Short(b) /\ Len(b) \in Word16
  <2> DEFINE n == Len(b)
  <2>1. n = 0 \/ n = 2
    BY <1>1
  <2> HIDE DEF n
  <2>2. n < 4294967296
    BY <2>1, SMT
  <2>3. n \in Word16
    BY <2>1, SMT DEF Word16
  <2> QED  BY <2>2, <2>3, SMT DEF Short, n
<1> QED  BY <1>1, <1>2

\* What the gateway and the chat servers write is read as it was written.
LEMMA ReadLogic ==
  ASSUME NEW cmd, NEW n, NEW c, NEW body \in Body, NEW metas
  PROVE  LET p == Logic(cmd, n, c, body, metas)
         IN  Read(Marshal(p)) = Got(p, <<>>) /\ MustReadLogicPkt(Marshal(p)) = Got(p, <<>>)
<1> DEFINE p == Logic(cmd, n, c, body, metas)
           h == p.header
           X == Bytes \cup {h}
           nil == <<>>
<1>1. p = [kind |-> "logic", body |-> body, header |-> h] /\ p.kind = "logic"
  BY DEF Logic
<1>2. Alphabet(X) /\ h \in X /\ nil \in Seq(X)
  BY DEF Alphabet
<1>3. body \in Seq(X) /\ Short(body)
  <2>1. Seq(Bytes) \subseteq Seq(X)
    OBVIOUS
  <2> QED  BY <2>1, BodyBytes
<1> HIDE DEF h, X, p, nil
<1>4. Read(Cat(Marshal(p), nil)) = Got(p, nil)
  BY <1>1, <1>2, <1>3, LogicRoundTrip
<1>5. Marshal(p) \in Seq(X)
  BY <1>1, <1>2, <1>3, LogicString
<1>6. Cat(Marshal(p), nil) = Marshal(p)
  BY <1>5, CatEmpty, Zenon DEF nil
<1>7. Read(Marshal(p)) = Got(p, nil)
  BY <1>4, <1>6
<1>8. MustReadLogicPkt(Marshal(p)) = Got(p, nil)
  BY <1>1, <1>7, GotParts DEF MustReadLogicPkt
<1> QED  BY <1>7, <1>8 DEF p, nil

\* A ping or a pong is read as it was written, and is no logic packet.
LEMMA ReadBasic ==
  ASSUME NEW code \in {CodePing, CodePong}
  PROVE  /\ Read(Marshal(BasicPkt(code))) = Got(BasicPkt(code), <<>>)
         /\ ~MustReadLogicPkt(Marshal(BasicPkt(code))).ok
<1> DEFINE p == BasicPkt(code)
           nil == <<>>
           X == Bytes
<1>1. p = Basic(code, 0, nil) /\ p.kind = "basic" /\ 0 \in {0, Len(nil)}
  BY DEF BasicPkt, Basic
<1>2. Alphabet(X) /\ nil \in Seq(X) /\ Len(nil) \in Word16 /\ nil \in Body /\ 0 = Len(nil)
  BY BodyBytes DEF Alphabet, Body
<1>3. code \in Word16
  BY SMT DEF CodePing, CodePong, Word16
<1> HIDE DEF p, nil, X
<1>4. Read(Cat(Marshal(p), nil)) = Got(p, nil)
  BY <1>1, <1>2, <1>3, BasicRoundTrip
<1>5. Marshal(p) \in Seq(X)
  BY <1>1, <1>2, <1>3, BasicString
<1>6. Cat(Marshal(p), nil) = Marshal(p)
  BY <1>5, CatEmpty, Zenon DEF nil
<1>7. Read(Marshal(p)) = Got(p, nil)
  BY <1>4, <1>6
<1>8. ~MustReadLogicPkt(Marshal(p)).ok
  BY <1>1, <1>7, GotParts DEF MustReadLogicPkt, Fail
<1> QED  BY <1>7, <1>8 DEF p, nil

\* What is delivered has lost the metas that led it there, and no other.
LEMMA LostOnlyTheWay ==
  ASSUME NEW cmd, NEW n, NEW c, NEW body, NEW ms \in {<<>>, <<Test>>}
  PROVE  LET p == Logic(cmd, n, c, body, ms)
         IN  /\ Has(p, MetaDestServer) = 0 /\ Has(p, MetaDestChannels) = 0
             /\ Has(p, "test") = Len(ms)
<1>1. Logic(cmd, n, c, body, ms).header.meta = ms
  BY DEF Logic
<1>2. /\ {i \in DOMAIN ms : ms[i].key = MetaDestServer} = {}
      /\ {i \in DOMAIN ms : ms[i].key = MetaDestChannels} = {}
  BY DEF Test, Meta, MetaDestServer, MetaDestChannels
<1>3. \/ {i \in DOMAIN ms : ms[i].key = "test"} = {} /\ Len(ms) = 0
      \/ {i \in DOMAIN ms : ms[i].key = "test"} = {1} /\ Len(ms) = 1
  <2>1. CASE ms = <<>>
    BY <2>1
  <2>2. CASE ms = <<Test>>
    BY <2>2 DEF Test, Meta
  <2> QED  BY <2>1, <2>2
<1>4. Cardinality({}) = 0 /\ Cardinality({1}) = 1
  BY FS_EmptySet, FS_Singleton
<1>5. Has(Logic(cmd, n, c, body, ms), MetaDestServer) = 0
  BY <1>1, <1>2, <1>4, Zenon DEF Has
<1>6. Has(Logic(cmd, n, c, body, ms), MetaDestChannels) = 0
  BY <1>1, <1>2, <1>4, Zenon DEF Has
<1>7. Has(Logic(cmd, n, c, body, ms), "test") = Len(ms)
  BY <1>1, <1>3, <1>4, Zenon DEF Has
<1> QED  BY <1>5, <1>6, <1>7

\* Stamp changes nothing but the channel.
LEMMA NewChannel ==
  ASSUME NEW m, NEW cmd, NEW n, NEW old, NEW body, NEW metas
  PROVE  Stamp(m, Logic(cmd, n, old, body, metas)) = Logic(cmd, n, Ag(m), body, metas)
<1> DEFINE new == Ag(m)
<1> HIDE DEF new
<1> DEFINE H(c) == [command |-> cmd, sequence |-> n, status |-> "Success",
                    channelId |-> c, dest |-> "", meta |-> metas]
           P(h) == [kind |-> "logic", body |-> body, header |-> h]
<1>1. [H(old) EXCEPT !.channelId = new] = H(new)
  <2> DEFINE st == "Success"
             d == ""
  <2> HIDE DEF st, d
  <2>1. [[command |-> cmd, sequence |-> n, status |-> st,
           channelId |-> old, dest |-> d, meta |-> metas] EXCEPT !.channelId = new]
           = [command |-> cmd, sequence |-> n, status |-> st,
              channelId |-> new, dest |-> d, meta |-> metas]
    OBVIOUS
  <2> QED  BY <2>1, Zenon DEF st, d, H
<1>2. \A h, i : [P(h) EXCEPT !.header = i] = P(i) /\ P(h).header = h
  OBVIOUS
<1> HIDE DEF H, P
<1>3. [P(H(old)) EXCEPT !.header.channelId = new] = P(H(new))
  BY <1>1, <1>2, Zenon
<1> QED  BY <1>3, Zenon DEF Stamp, Logic, H, P, new

\* A new logic packet.
LEMMA NewLogic ==
  ASSUME NEW cmd, NEW n, NEW c, NEW body
  PROVE  New(cmd, 0, n, c, "", body) = Logic(cmd, n, c, body, <<>>)
BY DEF New, Header, Logic

\* A client's logic packet, with the metas it has of its own.
LEMMA ClientLogic ==
  ASSUME NEW cmd, NEW n, NEW body, NEW own
  PROVE  AddMeta(New(cmd, 0, n, "", "", body), own) = Logic(cmd, n, "", body, Cat(<<>>, own))
<1> DEFINE none == ""
           nil == <<>>
<1>1. New(cmd, 0, n, "", "", body) = Logic(cmd, n, none, body, nil)
  BY NewLogic
<1> HIDE DEF none, nil
<1>2. AddMeta(Logic(cmd, n, none, body, nil), own) = Logic(cmd, n, none, body, Cat(nil, own))
  BY AddedMetas
<1> QED  BY <1>1, <1>2, Zenon DEF none, nil

\* A string that is not empty, without its last byte.
LEMMA FrontLast ==
  ASSUME NEW X, NEW s \in Seq(X), Len(s) > 0
  PROVE  Front(s) \in Seq(X) /\ Cat(Front(s), <<s[Len(s)]>>) = s
<1> DEFINE n == Len(s)
           k == n - 1
           f == SubSeq(s, 1, k)
           l == <<s[n]>>
<1>1. n \in Nat /\ k \in Nat /\ n = k + 1 /\ s[n] \in X
  OBVIOUS
<1>2. s = Append(f, s[n])
  <2>1. f \in Seq(X) /\ Len(f) = k
    <3>1. \A i \in 1 .. k : s[i] \in X
      BY <1>1
    <3> HIDE DEF k
    <3>2. Len(f) = IF 1 <= k THEN k - 1 + 1 ELSE 0
      BY <1>1, <3>1, SubSeqProperties
    <3>3. f \in Seq(X)
      BY <1>1, <3>1, SubSeqProperties
    <3> QED  BY <1>1, <3>2, <3>3
  <2>2. \A i \in 1 .. k : f[i] = s[i]
    <3> HIDE DEF k
    <3> QED  BY <1>1
  <2> HIDE DEF f, k
  <2>3. /\ Append(f, s[n]) \in Seq(X) /\ Len(Append(f, s[n])) = n
        /\ \A i \in 1 .. n : Append(f, s[n])[i] = s[i]
    BY <1>1, <2>1, <2>2
  <2> QED  BY <2>3, SeqEqual
<1>3. f \in Seq(X)
  BY <1>1
<1> HIDE DEF k, f
<1>4. Append(f, s[n]) = Cat(f, l)
  BY <1>1, <1>3, AppendIsConcat DEF Cat
<1> QED  BY <1>2, <1>3, <1>4, Zenon DEF Front, f, k, l

\* A part of a packet is not read.
LEMMA PartUnread ==
  ASSUME NEW n \in Msg, NEW bytes \in Parts(n)
  PROVE  ~Read(bytes).ok
<1>1. PICK p \in ClientPackets(n) : bytes = Front(Marshal(p))
  BY DEF Parts
<1> DEFINE m == Marshal(p)
           l == <<m[Len(m)]>>
<1>2. ASSUME NEW X, m \in Seq(X), NEW magic \in Seq(X), Len(magic) = 4,
             NEW s \in Seq(X), m = Cat(magic, s)
      PROVE  bytes \in Seq(X) /\ Cat(bytes, l) = m /\ l # <<>> /\ l \in Seq(X)
  <2>1. Len(m) > 0
    <3>1. Len(magic \o s) = Len(magic) + Len(s)
      BY ConcatProperties
    <3>2. Len(s) \in Nat
      OBVIOUS
    <3> QED  BY <1>2, <3>1, <3>2 DEF Cat
  <2>2. l \in Seq(X) /\ l # <<>>
    <3> HIDE DEF m
    <3> QED  BY <1>2, <2>1
  <2> HIDE DEF m
  <2>3. Front(m) \in Seq(X) /\ Cat(Front(m), <<m[Len(m)]>>) = m
    BY <1>2, <2>1, FrontLast
  <2> QED  BY <1>1, <2>2, <2>3 DEF m
<1> HIDE DEF l
<1>3. CASE p = BasicPkt(CodePing)
  <2> DEFINE X == Bytes
             code == CodePing
             nil == <<>>
  <2>1. p = Basic(code, 0, nil) /\ 0 \in {0, Len(nil)}
    BY <1>3 DEF BasicPkt, Basic
  <2>2. Alphabet(X) /\ nil \in Seq(X) /\ Len(nil) \in Word16 /\ nil \in Body
    BY BodyBytes DEF Alphabet, Body
  <2>3. code \in Word16
    BY SMT DEF CodePing, Word16
  <2> HIDE DEF nil, X, code
  <2> DEFINE after == Cat(Uint16(code), Cat(Uint16(0), Written16(0, nil)))
  <2>4. m = Cat(MagicBasicPkt, after)
    BY <2>1, <2>2, <2>3, BasicString
  <2>5. m \in Seq(X) /\ after \in Seq(X)
    BY <2>1, <2>2, <2>3, BasicString
  <2> HIDE DEF after
  <2>6. MagicBasicPkt \in Seq(X) /\ Len(MagicBasicPkt) = 4
    BY <2>2, Magics
  <2>7. bytes \in Seq(X) /\ Cat(bytes, l) = m /\ l # <<>> /\ l \in Seq(X)
    BY <1>2, <2>4, <2>5, <2>6
  <2> QED  BY <2>1, <2>2, <2>3, <2>7, CutOffBasic
<1>4. ASSUME NEW cmd, NEW own, p = AddMeta(New(cmd, 0, n, "", "", <<1, 2>>), own)
      PROVE  ~Read(bytes).ok
  <2> DEFINE body == <<1, 2>>
             h == p.header
             X == Bytes \cup {h}
             s == Cat(WriteBytes(ProtoMarshal(h)), WriteBytes(body))
  <2>1. p = [kind |-> "logic", body |-> body, header |-> h]
    <3>1. p = Logic(cmd, n, "", body, Cat(<<>>, own))
      BY <1>4, ClientLogic
    <3>2. h = Logic(cmd, n, "", body, Cat(<<>>, own)).header
      BY <3>1
    <3> HIDE DEF h
    <3> QED  BY <3>1, <3>2 DEF Logic
  <2>2. Alphabet(X) /\ h \in X /\ body \in Seq(X) /\ Short(body)
    <3>1. Seq(Bytes) \subseteq Seq(X)
      OBVIOUS
    <3>2. body \in Body
      BY DEF Body
    <3> QED  BY <3>1, <3>2, BodyBytes DEF Alphabet
  <2> HIDE DEF body, h, X
  <2>3. m = Cat(MagicLogicPkt, s) /\ s \in Seq(X) /\ m \in Seq(X)
    BY <2>1, <2>2, LogicString
  <2> HIDE DEF s
  <2>4. MagicLogicPkt \in Seq(X) /\ Len(MagicLogicPkt) = 4
    BY <2>2, Magics
  <2>5. bytes \in Seq(X) /\ Cat(bytes, l) = m /\ l # <<>> /\ l \in Seq(X)
    BY <1>2, <2>3, <2>4
  <2> QED  BY <2>1, <2>2, <2>5, CutOffLogic
<1> QED  BY <1>3, <1>4 DEF ClientPackets
-----------------------------------------------------------------------------
(***************************************************************************)
(* The inductive invariant of the gateway.                                 *)
(***************************************************************************)
SignOut(c) == New(CommandLoginSignOut, 0, MaxMsg + 1, c, "", <<>>)

\* The goroutines whose packet is forwarded: of a whole logic packet, and of the
\* end of a connection.
Forwarded(t) ==
    \/ t \in Channel \ on
    \/ t \in DOMAIN sent /\ sent[t].pkt \in ClientPackets(t) /\ sent[t].pkt.kind = "logic"

\* What such a goroutine forwards, before and after it was marked.
Base(t) == IF t \in Channel THEN SignOut(t) ELSE Stamp(t, sent[t].pkt)

Marked(t) == AddStringMeta(Base(t), MetaDestServer, Gate)

\* The parts of it.
CommandOf(t) == IF t \in Channel THEN CommandLoginSignOut ELSE sent[t].pkt.header.command
Number(t) == IF t \in Channel THEN MaxMsg + 1 ELSE t
ChannelOf(t) == IF t \in Channel THEN t ELSE sent[t].from
BodyOf(t) == IF t \in Channel THEN <<>> ELSE <<1, 2>>
MetasOf(t) == IF t \in Channel THEN <<>> ELSE sent[t].pkt.header.meta

\* What a chat server's answer to it is delivered as.
Answers(t) ==
    {Logic(CommandOf(t), Number(t), ChannelOf(t), <<>>, ms) : ms \in {<<>>, <<Test>>}}

IsSeq(s) == s \in Seq({s[i] : i \in DOMAIN s})

Sequences ==
    /\ DOMAIN inbox = Service /\ \A s \in Service : IsSeq(inbox[s])
    /\ DOMAIN link = Service /\ \A s \in Service : IsSeq(link[s])
    /\ DOMAIN out = Channel /\ \A c \in Channel : IsSeq(out[c])

Tasks ==
    /\ on \subseteq Channel
    /\ at \in [Task -> Places] /\ dest \in [Task -> Service \cup {None}]
    /\ DOMAIN packet = Task
    /\ \A t \in Task : dest[t] # None <=> at[t] \in {"get", "send"}
    /\ \A t \in Task : at[t] \in {"none", "done"} => packet[t] = None

Bounds ==
    /\ pool \subseteq Service /\ changes \in Nat /\ changes <= MaxChange
    /\ IsFiniteSet(taken) /\ answers = Cardinality(taken) /\ answers <= MaxAnswer

Messages ==
    /\ IsSeq(sent) /\ Len(sent) <= MaxMsg
    /\ \A n \in DOMAIN sent :
          sent[n] \in [from : Channel, pkt : ClientPackets(n) \cup {None}]
    /\ \A m \in Msg : at[m] = "none" <=> m \notin DOMAIN sent
    /\ \A c \in Channel : at[c] # "receive" /\ (at[c] = "none" <=> c \in on)
    /\ \A m \in Msg : at[m] = "receive" =>
          IF sent[m].pkt = None THEN packet[m] \in Parts(m)
          ELSE packet[m] = Marshal(sent[m].pkt)

OnTheWay ==
    /\ \A t \in Task : at[t] \in {"select", "get"} => Forwarded(t) /\ packet[t] = Base(t)
    /\ \A t \in Task : at[t] = "send" => Forwarded(t) /\ packet[t] = Marked(t)

Arrived ==
    \A s \in Service : \A i \in DOMAIN inbox[s] :
        \E t \in Task : at[t] = "done" /\ Forwarded(t) /\ inbox[s][i] = Marshal(Marked(t))

\* No packet is in two places.
Apart ==
    \A s1, s2 \in Service : \A i \in DOMAIN inbox[s1], j \in DOMAIN inbox[s2] :
        inbox[s1][i] = inbox[s2][j] => s1 = s2 /\ i = j

Linked ==
    \A s \in Service : \A i \in DOMAIN link[s] :
        \E t \in Task : Forwarded(t) /\ \E q \in Pushed(Marked(t)) : link[s][i].payload = Marshal(q)

Pong == Marshal(BasicPkt(CodePong))

Delivered ==
    \A c \in Channel : \A i \in DOMAIN out[c] :
        \/ out[c][i] = Pong
        \/ \E n \in DOMAIN sent : /\ Forwarded(n) /\ sent[n].from = c
                                  /\ \E p \in Answers(n) : out[c][i] = Marshal(p)

Pongs(c) == {i \in DOMAIN out[c] : out[c][i] = Pong}
Handled(c) ==
    {n \in DOMAIN sent : sent[n] = [from |-> c, pkt |-> BasicPkt(CodePing)] /\ at[n] = "done"}
Ponged == \A c \in Channel : Cardinality(Pongs(c)) <= Cardinality(Handled(c))

IInv == /\ Tasks /\ Bounds /\ Sequences /\ Messages /\ OnTheWay
        /\ Arrived /\ Apart /\ Linked /\ Delivered /\ Ponged
-----------------------------------------------------------------------------
(***************************************************************************)
(* What is forwarded, and what may come back.                              *)
(***************************************************************************)
\* A client's packet is a new logic packet or a ping.
LEMMA ClientPacket ==
  ASSUME NEW n, NEW p \in ClientPackets(n)
  PROVE  \/ p = BasicPkt(CodePing) /\ p.kind = "basic" /\ p.code = CodePing
         \/ \E cmd, own : /\ p = Logic(cmd, n, "", <<1, 2>>, own) /\ p.kind = "logic"
                          /\ p.header.command = cmd /\ p.body = <<1, 2>>
                          /\ p.header.meta = own
<1>1. CASE p = BasicPkt(CodePing)
  BY <1>1 DEF BasicPkt
<1>2. ASSUME NEW h \in Written[n], p = AddMeta(New(h.command, 0, n, "", "", <<1, 2>>), h.meta)
      PROVE  \E cmd, own : /\ p = Logic(cmd, n, "", <<1, 2>>, own) /\ p.kind = "logic"
                           /\ p.header.command = cmd /\ p.body = <<1, 2>>
                           /\ p.header.meta = own
  <2> DEFINE own == Cat(<<>>, h.meta)
  <2>1. p = Logic(h.command, n, "", <<1, 2>>, own)
    BY <1>2, ClientLogic
  <2> HIDE DEF own
  <2>2. /\ p.kind = "logic" /\ p.header.command = h.command /\ p.body = <<1, 2>>
        /\ p.header.meta = own
    BY <2>1 DEF Logic
  <2> QED  BY <2>1, <2>2
<1> QED  BY <1>1, <1>2 DEF ClientPackets

\* The channel a goroutine works for, and where it stands among all.
LEMMA WhoseItIs ==
  ASSUME Messages, on \subseteq Channel, NEW t, Forwarded(t)
  PROVE  /\ t \in Task /\ ChannelOf(t) \in Channel /\ BodyOf(t) \in Body
         /\ t \notin Channel => t \in DOMAIN sent /\ t \in Msg
         /\ t \in Channel => t \notin on
<1>1. DOMAIN sent \subseteq Msg
  BY GatewayAssumption DEF Messages, IsSeq, Msg
<1>2. t \in Channel => t \notin Msg
  BY GatewayAssumption DEF Msg
<1> QED  BY <1>1, <1>2 DEF Forwarded, Task, ChannelOf, BodyOf, Body, Messages

\* What is forwarded, by its parts.
LEMMA BaseIs ==
  ASSUME Messages, on \subseteq Channel, NEW t, Forwarded(t)
  PROVE  Base(t) = Logic(CommandOf(t), Number(t), ChannelOf(t), BodyOf(t), MetasOf(t))
<1>1. CASE t \in Channel
  <2>1. Base(t) = SignOut(t)
    BY <1>1 DEF Base
  <2> QED  BY <1>1, <2>1, NewLogic DEF SignOut, CommandOf, Number, ChannelOf, BodyOf, MetasOf
<1>2. CASE t \notin Channel
  <2>1. sent[t].pkt \in ClientPackets(t) /\ sent[t].pkt.kind = "logic"
    BY <1>2 DEF Forwarded
  <2>2. PICK cmd, own : /\ sent[t].pkt = Logic(cmd, t, "", <<1, 2>>, own)
                        /\ sent[t].pkt.header.command = cmd
                        /\ sent[t].pkt.header.meta = own
    <3>1. "basic" # "logic"
      OBVIOUS
    <3> DEFINE p == sent[t].pkt
    <3>2. p \in ClientPackets(t) /\ p.kind = "logic"
      BY <2>1
    <3> HIDE DEF p
    <3>3. \/ p = BasicPkt(CodePing) /\ p.kind = "basic" /\ p.code = CodePing
          \/ \E cmd, own : /\ p = Logic(cmd, t, "", <<1, 2>>, own) /\ p.kind = "logic"
                           /\ p.header.command = cmd /\ p.body = <<1, 2>>
                           /\ p.header.meta = own
      BY <3>2, ClientPacket
    <3> QED  BY <3>1, <3>2, <3>3, Zenon DEF p
  <2>3. Base(t) = Stamp(t, sent[t].pkt)
    BY <1>2 DEF Base
  <2>4. Base(t) = Logic(cmd, t, sent[t].from, <<1, 2>>, own)
    <3>1. Base(t) = Stamp(t, Logic(cmd, t, "", <<1, 2>>, own))
      BY <2>2, <2>3, Zenon
    <3> DEFINE none == ""
               body == <<1, 2>>
    <3> HIDE DEF none, body
    <3>4. Stamp(t, Logic(cmd, t, none, body, own)) = Logic(cmd, t, Ag(t), body, own)
      BY NewChannel
    <3>2. Base(t) = Logic(cmd, t, Ag(t), <<1, 2>>, own)
      BY <3>1, <3>4, Zenon DEF none, body
    <3> QED  BY <3>2, Zenon DEF Ag
  <2> QED  BY <1>2, <2>2, <2>4 DEF CommandOf, Number, ChannelOf, BodyOf, MetasOf
<1> QED  BY <1>1, <1>2

\* What arrives at a chat server, by its parts.
LEMMA MarkedIs ==
  ASSUME Messages, on \subseteq Channel, NEW t, Forwarded(t)
  PROVE  Marked(t) = Logic(CommandOf(t), Number(t), ChannelOf(t), BodyOf(t),
                           Cat(MetasOf(t), <<ToGate>>))
<1>1. Marked(t) = AddMeta(Base(t), <<ToGate>>)
  BY DEF Marked, AddStringMeta, ToGate, ToServer
<1> QED  BY <1>1, BaseIs, AddedMetas

\* What arrives at a chat server is read there as it was sent.
LEMMA MarkedRead ==
  ASSUME Messages, on \subseteq Channel, NEW t, Forwarded(t)
  PROVE  /\ Read(Marshal(Marked(t))) = Got(Marked(t), <<>>)
         /\ MustReadLogicPkt(Marshal(Marked(t))) = Got(Marked(t), <<>>)
         /\ Marked(t).header.command = CommandOf(t) /\ Marked(t).body = BodyOf(t)
         /\ Marked(t).header.sequence = Number(t)
         /\ Marked(t).header.channelId = ChannelOf(t)
         /\ Marked(t).header.meta = Cat(MetasOf(t), <<ToGate>>)
<1> DEFINE ms == Cat(MetasOf(t), <<ToGate>>)
           p == Logic(CommandOf(t), Number(t), ChannelOf(t), BodyOf(t), ms)
<1> HIDE DEF ms
<1>1. Marked(t) = p /\ BodyOf(t) \in Body
  BY MarkedIs, WhoseItIs DEF ms
<1>2. /\ p.header.command = CommandOf(t) /\ p.body = BodyOf(t)
      /\ p.header.sequence = Number(t) /\ p.header.channelId = ChannelOf(t)
      /\ p.header.meta = ms
  BY DEF Logic
<1>3. Read(Marshal(p)) = Got(p, <<>>) /\ MustReadLogicPkt(Marshal(p)) = Got(p, <<>>)
  BY <1>1, ReadLogic
<1> HIDE DEF p
<1> QED  BY <1>1, <1>2, <1>3 DEF ms

\* Its number and its channel tell whose packet it is.
LEMMA Identified ==
  ASSUME Messages, on \subseteq Channel, NEW t, NEW u, Forwarded(t), Forwarded(u),
         Number(t) = Number(u), ChannelOf(t) = ChannelOf(u)
  PROVE  t = u
<1>1. /\ t \notin Channel => t \in Msg
      /\ u \notin Channel => u \in Msg
  BY WhoseItIs
<1>2. \A m \in Msg : m # MaxMsg + 1
  BY GatewayAssumption DEF Msg
<1> QED  BY <1>1, <1>2 DEF Number, ChannelOf

\* The bytes tell whose packet they are.
LEMMA SameString ==
  ASSUME Messages, on \subseteq Channel, NEW t, NEW u, Forwarded(t), Forwarded(u),
         Marshal(Marked(t)) = Marshal(Marked(u))
  PROVE  t = u
<1>1. Got(Marked(t), <<>>) = Got(Marked(u), <<>>)
  BY MarkedRead
<1>2. Marked(t) = Marked(u)
  BY <1>1, GotParts
<1>3. Number(t) = Number(u) /\ ChannelOf(t) = ChannelOf(u)
  BY <1>2, MarkedRead
<1> QED  BY <1>3, Identified

\* What may be pushed in answer is read by the gateway as it was written; when it
\* is for the gateway it is for the channel that asked, and is delivered there
\* without what led it.
LEMMA PushedIs ==
  ASSUME Messages, on \subseteq Channel, NEW t, Forwarded(t), NEW q \in Pushed(Marked(t))
  PROVE  /\ MustReadLogicPkt(Marshal(q)) = Got(q, <<>>)
         /\ ForMe(q) => /\ GetMeta(q, MetaDestChannels).val = <<ChannelOf(t)>>
                        /\ Stripped(q) \in Answers(t)
<1> DEFINE cmd == CommandOf(t)
           n == Number(t)
           c == ChannelOf(t)
<1>0. PICK v : Pushed(Marked(t)) = {Logic(cmd, n, c, <<>>, <<>>),
                 Logic(cmd, n, c, <<>>, <<ToChannel(c), ToServer(v)>>),
                 Logic(cmd, n, c, <<>>, <<Test, ToServer(v), ToChannel(c)>>)}
  <2> DEFINE metas == Cat(MetasOf(t), <<ToGate>>)
             body == BodyOf(t)
  <2>1. Marked(t) = Logic(cmd, n, c, body, metas)
    BY MarkedIs
  <2> HIDE DEF metas, body, cmd, n, c
  <2>2. \E v : Pushed(Logic(cmd, n, c, body, metas)) =
                 {Logic(cmd, n, c, <<>>, <<>>),
                  Logic(cmd, n, c, <<>>, <<ToChannel(c), ToServer(v)>>),
                  Logic(cmd, n, c, <<>>, <<Test, ToServer(v), ToChannel(c)>>)}
    BY PushedPackets
  <2> QED  BY <2>1, <2>2, Zenon
<1> DEFINE none == Logic(cmd, n, c, <<>>, <<>>)
           two == Logic(cmd, n, c, <<>>, <<ToChannel(c), ToServer(v)>>)
           three == Logic(cmd, n, c, <<>>, <<Test, ToServer(v), ToChannel(c)>>)
<1>1. q = none \/ q = two \/ q = three
  BY <1>0
<1>2. <<>> \in Body
  BY DEF Body
<1>3. MustReadLogicPkt(Marshal(q)) = Got(q, <<>>)
  BY <1>1, <1>2, ReadLogic
<1>4. ~ForMe(none)
  BY ForNobody
<1>5. GetMeta(two, MetaDestChannels).val = <<c>> /\ Stripped(two) \in Answers(t)
  <2>1. /\ GetMeta(two, MetaDestChannels) = Got(<<c>>, <<>>)
        /\ Stripped(two) = Logic(cmd, n, c, <<>>, <<>>)
    BY MarkedInOrder
  <2> QED  BY <2>1, GotParts DEF Answers
<1>6. GetMeta(three, MetaDestChannels).val = <<c>> /\ Stripped(three) \in Answers(t)
  <2>1. /\ GetMeta(three, MetaDestChannels) = Got(<<c>>, <<>>)
        /\ Stripped(three) = Logic(cmd, n, c, <<>>, <<Test>>)
    BY MarkedBehind
  <2> QED  BY <2>1, GotParts DEF Answers
<1> HIDE DEF none, two, three
<1> QED  BY <1>1, <1>3, <1>4, <1>5, <1>6

\* What is delivered is read by the client: no pong, and of its parts.
LEMMA AnswerIs ==
  ASSUME Messages, on \subseteq Channel, NEW t, Forwarded(t), NEW p \in Answers(t)
  PROVE  /\ Read(Marshal(p)) = Got(p, <<>>) /\ p.kind = "logic" /\ Marshal(p) # Pong
         /\ p.header.sequence = Number(t) /\ p.header.channelId = ChannelOf(t)
         /\ Has(p, MetaDestServer) = 0 /\ Has(p, MetaDestChannels) = 0
         /\ Has(p, "test") = Len(p.header.meta)
<1>1. PICK ms \in {<<>>, <<Test>>} :
           p = Logic(CommandOf(t), Number(t), ChannelOf(t), <<>>, ms)
  BY DEF Answers
<1>2. /\ p.kind = "logic" /\ p.header.meta = ms
      /\ p.header.sequence = Number(t) /\ p.header.channelId = ChannelOf(t)
  BY <1>1 DEF Logic
<1>3. Read(Marshal(p)) = Got(p, <<>>) /\ MustReadLogicPkt(Marshal(p)) = Got(p, <<>>)
  <2>1. <<>> \in Body
    BY DEF Body
  <2> QED  BY <1>1, <2>1, ReadLogic
<1>4. Marshal(p) # Pong
  <2>1. ~MustReadLogicPkt(Pong).ok
    BY ReadBasic DEF Pong
  <2>2. MustReadLogicPkt(Marshal(p)).ok
    BY <1>3, GotParts
  <2> QED  BY <2>1, <2>2
<1>5. /\ Has(p, MetaDestServer) = 0 /\ Has(p, MetaDestChannels) = 0
      /\ Has(p, "test") = Len(ms)
  BY <1>1, LostOnlyTheWay
<1> QED  BY <1>2, <1>3, <1>4, <1>5

\* A sequence over any set is one over its own elements.
LEMMA SeqIs ==
  \A X : \A s \in Seq(X) : IsSeq(s)
<1> TAKE X
<1> TAKE s \in Seq(X)
<1> DEFINE Y == {s[i] : i \in DOMAIN s}
<1>1. Len(s) \in Nat /\ DOMAIN s = 1 .. Len(s) /\ s = [i \in 1 .. Len(s) |-> s[i]]
  OBVIOUS
<1>2. s \in [1 .. Len(s) -> Y]
  BY <1>1
<1>3. s \in Seq(Y)
  BY <1>1, <1>2, SeqDef
<1> QED  BY <1>3 DEF IsSeq

\* What Append makes of a sequence.
LEMMA Appended ==
  ASSUME NEW s, IsSeq(s), NEW e
  PROVE  /\ IsSeq(Append(s, e)) /\ Len(s) \in Nat /\ DOMAIN s = 1 .. Len(s)
         /\ Len(Append(s, e)) = Len(s) + 1 /\ DOMAIN Append(s, e) = 1 .. Len(s) + 1
         /\ \A i \in DOMAIN s : Append(s, e)[i] = s[i]
         /\ Append(s, e)[Len(s) + 1] = e
<1> DEFINE X == {s[i] : i \in DOMAIN s} \cup {e}
           t == Append(s, e)
<1>1. s \in Seq(X) /\ e \in X
  <2> DEFINE Y == {s[i] : i \in DOMAIN s}
  <2>1. s \in Seq(Y) /\ Y \subseteq X
    BY DEF IsSeq
  <2> HIDE DEF X, Y
  <2>2. s \in Seq(X)
    BY <2>1
  <2> QED  BY <2>2 DEF X
<1> HIDE DEF X
<1>2. t \in Seq(X) /\ Len(t) = Len(s) + 1 /\ Len(s) \in Nat /\ DOMAIN s = 1 .. Len(s)
  BY <1>1
<1>3. (\A i \in 1 .. Len(s) : t[i] = s[i]) /\ t[Len(s) + 1] = e
  BY <1>1, AppendProperties
<1>4. DOMAIN t = 1 .. Len(s) + 1
  BY <1>2
<1>5. IsSeq(t)
  BY <1>2, SeqIs
<1> QED  BY <1>2, <1>3, <1>4, <1>5

\* What Tail leaves of a sequence.
LEMMA Tailed ==
  ASSUME NEW s, IsSeq(s), s # <<>>
  PROVE  /\ IsSeq(Tail(s)) /\ 1 \in DOMAIN s /\ Head(s) = s[1]
         /\ \A i \in DOMAIN Tail(s) : i + 1 \in DOMAIN s /\ Tail(s)[i] = s[i + 1]
<1> DEFINE X == {s[i] : i \in DOMAIN s}
           t == Tail(s)
<1>1. s \in Seq(X)
  BY DEF IsSeq
<1> HIDE DEF X
<1>2. t \in Seq(X) /\ Len(t) = Len(s) - 1 /\ Len(s) \in Nat /\ Len(s) # 0
  BY <1>1
<1>3. 1 \in DOMAIN s /\ Head(s) = s[1]
  BY <1>1, <1>2
<1>4. \A i \in DOMAIN t : i + 1 \in DOMAIN s /\ t[i] = s[i + 1]
  BY <1>1, <1>2
<1>5. IsSeq(t)
  BY <1>2, SeqIs
<1> QED  BY <1>3, <1>4, <1>5

\* At first nothing was sent.
LEMMA InitInv == Init => IInv
<1> SUFFICES ASSUME Init PROVE IInv
  OBVIOUS
<1>1. IsSeq(<<>>)
  <2>1. <<>> \in Seq({})
    OBVIOUS
  <2> QED  BY <2>1, SeqIs
<1>2. Tasks
  BY GatewayAssumption DEF Init, Tasks, Places
<1>3. Bounds
  BY GatewayAssumption, FS_EmptySet DEF Init, Bounds
<1>4. Sequences
  BY <1>1 DEF Init, Sequences
<1>5. Messages
  BY <1>1, GatewayAssumption DEF Init, Messages, Task, Msg
<1>6. OnTheWay /\ Arrived /\ Apart /\ Linked /\ Delivered
  BY DEF Init, OnTheWay, Arrived, Apart, Linked, Delivered
<1>7. Ponged
  <2> SUFFICES ASSUME NEW c \in Channel PROVE Cardinality(Pongs(c)) <= Cardinality(Handled(c))
    BY DEF Ponged
  <2>1. Pongs(c) = {} /\ Handled(c) = {}
    BY DEF Init, Pongs, Handled
  <2> QED  BY <2>1, FS_EmptySet
<1> QED  BY <1>2, <1>3, <1>4, <1>5, <1>6, <1>7 DEF IInv

\* What was sent and who is gone stay so: a packet on its way does not change.
Grows ==
    /\ on' \subseteq on
    /\ \A n \in DOMAIN sent : n \in DOMAIN sent' /\ sent'[n] = sent[n]

\* A packet on its way, and what may be answered to it, do not change.
LEMMA Stays ==
  ASSUME Messages, on \subseteq Channel, Grows, NEW t, Forwarded(t)
  PROVE  /\ Forwarded(t)' /\ Base(t)' = Base(t) /\ Marked(t)' = Marked(t)
         /\ Answers(t)' = Answers(t) /\ Pushed(Marked(t))' = Pushed(Marked(t))
         /\ ChannelOf(t)' = ChannelOf(t)
<1>1. Forwarded(t)'
  BY DEF Forwarded, Grows
<1>2. t \notin Channel => t \in DOMAIN sent /\ sent'[t] = sent[t]
  BY WhoseItIs DEF Grows
<1>3. Base(t)' = Base(t)
  BY <1>2 DEF Base, Stamp, Ag, SignOut
<1>4. Marked(t)' = Marked(t)
  BY <1>3 DEF Marked
<1>5. Answers(t)' = Answers(t) /\ ChannelOf(t)' = ChannelOf(t)
  <2>1. CommandOf(t)' = CommandOf(t) /\ ChannelOf(t)' = ChannelOf(t) /\ Number(t)' = Number(t)
    BY <1>2 DEF CommandOf, ChannelOf, Number
  <2> QED  BY <2>1, Zenon DEF Answers, Logic
<1>6. Pushed(Marked(t))' = Pushed(Marked(t))
  BY <1>4 DEF Pushed
<1> QED  BY <1>1, <1>3, <1>4, <1>5, <1>6

DoneStays == \A t \in Task : at[t] = "done" => at'[t] = "done"

\* Finitely many pings were handled.
LEMMA FiniteHandled ==
  ASSUME Messages, NEW c
  PROVE  IsFiniteSet(Handled(c)) /\ Cardinality(Handled(c)) \in Nat
<1>1. DOMAIN sent \subseteq 1 .. MaxMsg
  BY GatewayAssumption DEF Messages, IsSeq
<1>2. IsFiniteSet(1 .. MaxMsg)
  BY GatewayAssumption, FS_Interval
<1>3. Handled(c) \subseteq 1 .. MaxMsg
  BY <1>1 DEF Handled
<1> QED  BY <1>2, <1>3, FS_Subset, FS_CardinalityType

\* Finitely many pongs were delivered.
LEMMA FinitePongs ==
  ASSUME Sequences, NEW c \in Channel
  PROVE  IsFiniteSet(Pongs(c)) /\ Cardinality(Pongs(c)) \in Nat
<1>1. IsSeq(out[c])
  BY DEF Sequences
<1>2. DOMAIN out[c] = 1 .. Len(out[c]) /\ Len(out[c]) \in Nat
  BY <1>1, Appended
<1>3. IsFiniteSet(1 .. Len(out[c]))
  BY <1>2, FS_Interval
<1>4. Pongs(c) \subseteq 1 .. Len(out[c])
  BY <1>2 DEF Pongs
<1> QED  BY <1>3, <1>4, FS_Subset, FS_CardinalityType

\* What is handled stays so.
LEMMA HandledStays ==
  ASSUME Messages, Grows, DoneStays, NEW c
  PROVE  Handled(c) \subseteq Handled(c)'
<1>1. DOMAIN sent \subseteq Msg
  BY GatewayAssumption DEF Messages, IsSeq, Msg
<1> QED  BY <1>1 DEF Handled, Grows, DoneStays, Task

\* A step that leaves the chat servers alone.
LEMMA ArrivedStays ==
  ASSUME IInv, Grows, DoneStays, UNCHANGED inbox
  PROVE  Arrived' /\ Apart'
<1> USE DEF IInv
<1>1. Apart'
  BY DEF Apart
<1>2. ASSUME NEW s \in Service, NEW i \in DOMAIN inbox[s]
      PROVE  \E t \in Task : at'[t] = "done" /\ Forwarded(t)' /\ inbox[s][i] = Marshal(Marked(t)')
  <2>1. PICK t \in Task : at[t] = "done" /\ Forwarded(t) /\ inbox[s][i] = Marshal(Marked(t))
    BY <1>2 DEF Arrived
  <2>2. Forwarded(t)' /\ Marked(t)' = Marked(t)
    BY <2>1, Stays DEF Tasks
  <2>3. at'[t] = "done"
    BY <2>1 DEF DoneStays
  <2> QED  BY <2>1, <2>2, <2>3
<1>3. Arrived'
  BY <1>2, Zenon DEF Arrived
<1> QED  BY <1>1, <1>3

\* A step that leaves the links alone.
LEMMA LinkedStays ==
  ASSUME IInv, Grows, UNCHANGED link
  PROVE  Linked'
<1> USE DEF IInv
<1>1. ASSUME NEW s \in Service, NEW i \in DOMAIN link[s]
      PROVE  \E t \in Task : /\ Forwarded(t)'
                             /\ \E q \in Pushed(Marked(t))' : link[s][i].payload = Marshal(q)
  <2>1. PICK t \in Task : /\ Forwarded(t)
                          /\ \E q \in Pushed(Marked(t)) : link[s][i].payload = Marshal(q)
    BY <1>1 DEF Linked
  <2>2. Forwarded(t)' /\ Pushed(Marked(t))' = Pushed(Marked(t))
    BY <2>1, Stays DEF Tasks
  <2> QED  BY <2>1, <2>2
<1> QED  BY <1>1, Zenon DEF Linked

\* An answer that was delivered stays the answer to the same packet.
LEMMA DeliveredStays ==
  ASSUME IInv, Grows, NEW c \in Channel, NEW p, NEW n \in DOMAIN sent,
         Forwarded(n), sent[n].from = c, p \in Answers(n)
  PROVE  n \in DOMAIN sent' /\ Forwarded(n)' /\ sent'[n].from = c /\ p \in Answers(n)'
<1> USE DEF IInv
<1>1. Forwarded(n)' /\ Answers(n)' = Answers(n)
  BY Stays DEF Tasks
<1> QED  BY <1>1 DEF Grows

\* A step that leaves the clients alone.
LEMMA OutStays ==
  ASSUME IInv, Grows, DoneStays, UNCHANGED out, Messages'
  PROVE  Delivered' /\ Ponged'
<1> USE DEF IInv
<1>1. ASSUME NEW c \in Channel, NEW i \in DOMAIN out[c]
      PROVE  \/ out[c][i] = Pong
             \/ \E n \in DOMAIN sent' : /\ Forwarded(n)' /\ sent'[n].from = c
                                        /\ \E p \in Answers(n)' : out[c][i] = Marshal(p)
  <2>1. CASE out[c][i] = Pong
    BY <2>1
  <2>2. ASSUME NEW n \in DOMAIN sent, Forwarded(n), sent[n].from = c,
               NEW p \in Answers(n), out[c][i] = Marshal(p)
        PROVE  \E m \in DOMAIN sent' : /\ Forwarded(m)' /\ sent'[m].from = c
                                       /\ \E r \in Answers(m)' : out[c][i] = Marshal(r)
    BY <2>2, DeliveredStays
  <2> QED  BY <2>1, <2>2 DEF Delivered
<1>2. Delivered'
  BY <1>1, Zenon DEF Delivered, Pong
<1>3. ASSUME NEW c \in Channel
      PROVE  Cardinality(Pongs(c)') <= Cardinality(Handled(c)')
  <2>1. Pongs(c)' = Pongs(c)
    BY DEF Pongs, Pong
  <2>2. Handled(c) \subseteq Handled(c)'
    BY HandledStays
  <2>3. IsFiniteSet(Handled(c)')
    <3>1. IsFiniteSet(Handled(c))'
      BY FiniteHandled, PTL
    <3> QED  BY <3>1
  <2>4. /\ Cardinality(Handled(c)) <= Cardinality(Handled(c)')
        /\ Cardinality(Handled(c)) \in Nat /\ Cardinality(Handled(c)') \in Nat
    BY <2>2, <2>3, FS_Subset, FS_CardinalityType
  <2>5. Cardinality(Pongs(c)) \in Nat /\ Cardinality(Pongs(c)) <= Cardinality(Handled(c))
    BY FinitePongs DEF Ponged
  <2> QED  BY <2>1, <2>4, <2>5
<1>4. Ponged'
  BY <1>3, Zenon DEF Ponged
<1> QED  BY <1>2, <1>4
-----------------------------------------------------------------------------
(***************************************************************************)
(* Each step keeps the invariant: the goroutines that forward,             *)
(* the messages of clients, the chat servers.                              *)
(***************************************************************************)
\* Where a goroutine may go, with what.
Proper(t, place, p, s) ==
    /\ place \in {"select", "get", "send", "done"}
    /\ s \in Service \cup {None} /\ (s # None <=> place \in {"get", "send"})
    /\ place = "done" => p = None
    /\ place \in {"select", "get"} => Forwarded(t) /\ p = Base(t)
    /\ place = "send" => Forwarded(t) /\ p = Marked(t)

\* A goroutine goes on, or ends, and no other moves.
LEMMA Going ==
  ASSUME IInv, NEW t \in Task, at[t] \notin {"none", "done"}, NEW place, NEW p, NEW s,
         Goes(t, place, p, s), Proper(t, place, p, s)
  PROVE  Tasks' /\ Bounds' /\ Messages' /\ OnTheWay' /\ Grows /\ DoneStays
<1> USE DEF IInv
<1>1. /\ at' = [at EXCEPT ![t] = place] /\ packet' = [packet EXCEPT ![t] = p]
      /\ dest' = [dest EXCEPT ![t] = s]
      /\ on' = on /\ sent' = sent /\ pool' = pool /\ changes' = changes
      /\ taken' = taken /\ link' = link /\ answers' = answers
  BY DEF Goes, servers
<1>2. /\ at'[t] = place /\ packet'[t] = p /\ dest'[t] = s
      /\ \A u \in Task : u # t => at'[u] = at[u] /\ packet'[u] = packet[u] /\ dest'[u] = dest[u]
  BY <1>1 DEF Tasks
<1>3. place \in Places
  BY DEF Proper, Places
<1>4. Tasks'
  <2>1. at' \in [Task -> Places] /\ dest' \in [Task -> Service \cup {None}] /\ DOMAIN packet' = Task
    BY <1>1, <1>3 DEF Tasks, Proper
  <2>2. ASSUME NEW u \in Task
        PROVE  /\ dest'[u] # None <=> at'[u] \in {"get", "send"}
               /\ at'[u] \in {"none", "done"} => packet'[u] = None
    <3>1. CASE u = t
      BY <1>2, <3>1 DEF Proper
    <3>2. CASE u # t
      BY <1>2, <3>2 DEF Tasks
    <3> QED  BY <3>1, <3>2
  <2> QED  BY <1>1, <2>1, <2>2 DEF Tasks
<1>5. Bounds'
  BY <1>1 DEF Bounds
<1>6. Messages'
  <2>1. /\ \A m \in Msg : at'[m] = "none" <=> m \notin DOMAIN sent
        /\ \A c \in Channel : at'[c] # "receive" /\ (at'[c] = "none" <=> c \in on)
    BY <1>2 DEF Messages, Proper, Task
  <2>2. \A m \in Msg : at'[m] = "receive" =>
          IF sent[m].pkt = None THEN packet'[m] \in Parts(m)
          ELSE packet'[m] = Marshal(sent[m].pkt)
    BY <1>2 DEF Messages, Proper, Task
  <2> QED  BY <1>1, <2>1, <2>2 DEF Messages
<1>7. Grows
  BY <1>1 DEF Grows
<1>8. OnTheWay'
  <2>1. ASSUME NEW u \in Task, Forwarded(u)
        PROVE  Forwarded(u)' /\ Base(u)' = Base(u) /\ Marked(u)' = Marked(u)
    BY <1>7, <2>1, Stays DEF Tasks
  <2>2. ASSUME NEW u \in Task
        PROVE  /\ at'[u] \in {"select", "get"} => Forwarded(u)' /\ packet'[u] = Base(u)'
               /\ at'[u] = "send" => Forwarded(u)' /\ packet'[u] = Marked(u)'
    <3>1. CASE u = t
      BY <1>2, <2>1, <3>1 DEF Proper
    <3>2. CASE u # t
      BY <1>2, <2>1, <3>2 DEF OnTheWay
    <3> QED  BY <3>1, <3>2
  <2> QED  BY <2>2, Zenon DEF OnTheWay
<1>9. DoneStays
  BY <1>2 DEF DoneStays
<1> QED  BY <1>4, <1>5, <1>6, <1>7, <1>8, <1>9

\* A goroutine that goes on without a trace.
LEMMA GoingQuietly ==
  ASSUME IInv, NEW t \in Task, at[t] \notin {"none", "done"}, NEW place, NEW p, NEW s,
         Goes(t, place, p, s), Proper(t, place, p, s), UNCHANGED <<inbox, out>>
  PROVE  IInv'
<1>1. Tasks' /\ Bounds' /\ Messages' /\ OnTheWay' /\ Grows /\ DoneStays
  BY Going
<1>2. UNCHANGED <<inbox, out, link>>
  BY DEF Goes
<1>3. Arrived' /\ Apart' /\ Linked' /\ Delivered' /\ Ponged'
  BY <1>1, <1>2, ArrivedStays, LinkedStays, OutStays
<1>4. Sequences'
  BY <1>2 DEF IInv, Sequences
<1> QED  BY <1>1, <1>3, <1>4 DEF IInv

\* A goroutine may end anywhere.
LEMMA ProperEnd ==
  ASSUME NEW t
  PROVE  Proper(t, "done", None, None)
BY DEF Proper

\* What a goroutine that took a message over finds in it.
LEMMA Received ==
  ASSUME IInv, NEW m \in Msg, at[m] = "receive", Read(packet[m]).ok
  PROVE  /\ m \in Task /\ m \notin Channel /\ m \in DOMAIN sent
         /\ sent[m].pkt \in ClientPackets(m)
         /\ Read(packet[m]).val = sent[m].pkt
<1> USE DEF IInv
<1>1. m \in Task /\ m \notin Channel
  BY GatewayAssumption DEF Task, Msg
<1>2. m \in DOMAIN sent
  <2>1. at[m] # "none"
    OBVIOUS
  <2> QED  BY <2>1 DEF Messages
<1>3. sent[m].pkt # None /\ packet[m] = Marshal(sent[m].pkt)
  BY PartUnread DEF Messages
<1>4. sent[m].pkt \in ClientPackets(m)
  BY <1>2, <1>3 DEF Messages
<1>5. Read(packet[m]) = Got(sent[m].pkt, <<>>)
  <2>1. CASE sent[m].pkt = BasicPkt(CodePing)
    BY <1>3, <2>1, ReadBasic
  <2>2. ASSUME NEW cmd, NEW own, sent[m].pkt = Logic(cmd, m, "", <<1, 2>>, own)
        PROVE  Read(packet[m]) = Got(sent[m].pkt, <<>>)
    <3> DEFINE body == <<1, 2>>
               none == ""
    <3>1. body \in Body /\ sent[m].pkt = Logic(cmd, m, none, body, own)
      BY <2>2 DEF Body
    <3> HIDE DEF body, none
    <3> QED  BY <1>3, <3>1, ReadLogic
  <2> DEFINE p == sent[m].pkt
  <2>3. p \in ClientPackets(m)
    BY <1>4
  <2> HIDE DEF p
  <2>4. \/ p = BasicPkt(CodePing)
        \/ \E cmd, own : p = Logic(cmd, m, "", <<1, 2>>, own)
    <3>1. \/ p = BasicPkt(CodePing) /\ p.kind = "basic" /\ p.code = CodePing
          \/ \E cmd, own : /\ p = Logic(cmd, m, "", <<1, 2>>, own) /\ p.kind = "logic"
                           /\ p.header.command = cmd /\ p.body = <<1, 2>>
                           /\ p.header.meta = own
      BY <2>3, ClientPacket
    <3> QED  BY <3>1, Zenon
  <2> QED  BY <2>1, <2>2, <2>4, Zenon DEF p
<1> QED  BY <1>1, <1>2, <1>4, <1>5, GotParts

\* A part of a packet is not read, and its goroutine ends.
LEMMA ReceiveFailsStep ==
  ASSUME IInv, NEW m \in Msg, ReceiveFails(m)
  PROVE  IInv'
<1>1. m \in Task /\ at[m] \notin {"none", "done"}
  BY DEF ReceiveFails, Task
<1>2. Goes(m, "done", None, None) /\ UNCHANGED <<inbox, out>>
  BY DEF ReceiveFails, Ends
<1> QED  BY <1>1, <1>2, ProperEnd, GoingQuietly

\* A logic packet is stamped with its channel and goes on, or its goroutine ends.
LEMMA ReceiveStep ==
  ASSUME IInv, NEW m \in Msg, Receive(m)
  PROVE  IInv'
<1> DEFINE r == Read(packet[m])
<1>1. /\ m \in Task /\ m \notin Channel /\ m \in DOMAIN sent
      /\ sent[m].pkt \in ClientPackets(m) /\ r.val = sent[m].pkt
      /\ at[m] \notin {"none", "done"} /\ r.val.kind = "logic"
  BY Received DEF Receive
<1>2. UNCHANGED <<inbox, out>>
  BY DEF Receive
<1>3. Forwarded(m) /\ Stamp(m, r.val) = Base(m)
  BY <1>1, Zenon DEF Forwarded, Base
<1>4. \/ Goes(m, "done", None, None)
      \/ Goes(m, "select", Base(m), None)
  BY <1>3 DEF Receive, Forward, Ends
<1>5. CASE Goes(m, "done", None, None)
  BY <1>1, <1>2, <1>5, ProperEnd, GoingQuietly
<1>6. CASE Goes(m, "select", Base(m), None)
  <2>1. Proper(m, "select", Base(m), None)
    BY <1>3 DEF Proper
  <2> QED  BY <1>1, <1>2, <1>6, <2>1, GoingQuietly
<1> QED  BY <1>4, <1>5, <1>6

\* A chat server is chosen from the pool, or there is none.
LEMMA SelectStep ==
  ASSUME IInv, NEW t \in Task, Select(t)
  PROVE  IInv'
<1>1. at[t] = "select" /\ at[t] \notin {"none", "done"} /\ UNCHANGED <<inbox, out>>
  BY DEF Select
<1>2. Forwarded(t) /\ packet[t] = Base(t)
  BY <1>1 DEF IInv, OnTheWay
<1>3. CASE Goes(t, "done", None, None)
  BY <1>1, <1>3, ProperEnd, GoingQuietly
<1>4. ASSUME NEW s \in pool, Goes(t, "get", packet[t], s)
      PROVE  IInv'
  <2>1. s \in Service /\ s # None
    BY GatewayAssumption DEF IInv, Bounds
  <2>2. Proper(t, "get", packet[t], s)
    BY <1>2, <2>1 DEF Proper
  <2> QED  BY <1>1, <1>4, <2>2, GoingQuietly
<1> QED  BY <1>3, <1>4 DEF Select, Ends

\* The chosen one is still there and the packet is marked, or it is gone.
LEMMA GetStep ==
  ASSUME IInv, NEW t \in Task, Get(t)
  PROVE  IInv'
<1>1. at[t] = "get" /\ at[t] \notin {"none", "done"} /\ UNCHANGED <<inbox, out>>
  BY DEF Get
<1>2. Forwarded(t) /\ packet[t] = Base(t) /\ dest[t] # None /\ dest[t] \in Service \cup {None}
  BY <1>1 DEF IInv, OnTheWay, Tasks
<1>3. CASE Goes(t, "done", None, None)
  BY <1>1, <1>3, ProperEnd, GoingQuietly
<1>4. CASE Goes(t, "send", AddStringMeta(packet[t], MetaDestServer, Gate), dest[t])
  <2>1. Goes(t, "send", Marked(t), dest[t])
    BY <1>2, <1>4 DEF Marked
  <2>2. Proper(t, "send", Marked(t), dest[t])
    BY <1>2 DEF Proper
  <2> QED  BY <1>1, <2>1, <2>2, GoingQuietly
<1> QED  BY <1>3, <1>4 DEF Get, Ends

\* A Send that fails ends the goroutine.
LEMMA SendFailsStep ==
  ASSUME IInv, NEW t \in Task, SendFails(t)
  PROVE  IInv'
<1>1. at[t] \notin {"none", "done"} /\ UNCHANGED <<inbox, out>> /\ Goes(t, "done", None, None)
  BY DEF SendFails, Ends
<1> QED  BY <1>1, ProperEnd, GoingQuietly

\* A Send puts the marked packet of its goroutine, which ends, where no other is.
LEMMA SendStep ==
  ASSUME IInv, NEW t \in Task, Send(t)
  PROVE  IInv'
<1> DEFINE d == dest[t]
           e == Marshal(Marked(t))
<1>1. /\ at[t] = "send" /\ at[t] \notin {"none", "done"} /\ UNCHANGED <<out, link>>
      /\ inbox' = [inbox EXCEPT ![d] = Append(@, Marshal(packet[t]))]
      /\ Goes(t, "done", None, None)
  BY DEF Send, Ends, Goes
<1>2. Forwarded(t) /\ packet[t] = Marked(t) /\ d \in Service
  BY <1>1 DEF IInv, OnTheWay, Tasks
<1>3. Tasks' /\ Bounds' /\ Messages' /\ OnTheWay' /\ Grows /\ DoneStays
  BY <1>1, ProperEnd, Going
<1>4. Linked' /\ Delivered' /\ Ponged'
  BY <1>1, <1>3, LinkedStays, OutStays
<1> DEFINE l == Len(inbox[d]) + 1
<1>5. /\ inbox' = [inbox EXCEPT ![d] = Append(inbox[d], e)]
      /\ DOMAIN inbox = Service /\ \A s \in Service : IsSeq(inbox[s])
  BY <1>1, <1>2 DEF IInv, Sequences
<1> HIDE DEF e
<1>6. /\ IsSeq(Append(inbox[d], e)) /\ DOMAIN inbox[d] = 1 .. Len(inbox[d])
      /\ Len(inbox[d]) \in Nat
      /\ DOMAIN Append(inbox[d], e) = 1 .. l
      /\ \A i \in DOMAIN inbox[d] : Append(inbox[d], e)[i] = inbox[d][i]
      /\ Append(inbox[d], e)[l] = e
  BY <1>2, <1>5, Appended
<1>7. /\ DOMAIN inbox' = Service /\ inbox'[d] = Append(inbox[d], e)
      /\ \A s \in Service : s # d => inbox'[s] = inbox[s]
  BY <1>2, <1>5
<1>8. Sequences'
  BY <1>1, <1>5, <1>6, <1>7 DEF IInv, Sequences
\* What is in an inbox now was there before, at its place, or is the packet sent.
<1>9. ASSUME NEW s \in Service, NEW i \in DOMAIN inbox'[s]
      PROVE  \/ i \in DOMAIN inbox[s] /\ inbox'[s][i] = inbox[s][i]
             \/ s = d /\ i = l /\ inbox'[s][i] = e
  <2>1. CASE s = d
    <3>1. i \in 1 .. l
      BY <1>6, <1>7, <2>1
    <3>2. i \in DOMAIN inbox[d] \/ i = l
      BY <1>6, <3>1
    <3> QED  BY <1>6, <1>7, <2>1, <3>2
  <2>2. CASE s # d
    BY <1>7, <1>9, <2>2
  <2> QED  BY <2>1, <2>2
<1>10. ASSUME NEW s \in Service, NEW i \in DOMAIN inbox[s]
       PROVE  inbox[s][i] # e /\ \E u \in Task : /\ at'[u] = "done" /\ Forwarded(u)'
                                                 /\ inbox[s][i] = Marshal(Marked(u)')
  <2>1. PICK u \in Task : at[u] = "done" /\ Forwarded(u) /\ inbox[s][i] = Marshal(Marked(u))
    BY <1>10 DEF IInv, Arrived
  <2>2. u # t
    BY <1>1, <2>1
  <2>3. inbox[s][i] # e
    BY <1>2, <2>1, <2>2, SameString DEF IInv, Tasks, e
  <2>4. at'[u] = "done"
    BY <1>3, <2>1 DEF DoneStays
  <2>5. Forwarded(u)' /\ Marked(u)' = Marked(u)
    BY <1>3, <2>1, Stays DEF IInv, Tasks
  <2> QED  BY <2>1, <2>3, <2>4, <2>5
<1>11. at'[t] = "done" /\ Forwarded(t)' /\ e = Marshal(Marked(t)')
  <2>1. at'[t] = "done"
    BY <1>1 DEF Goes, IInv, Tasks
  <2>2. Forwarded(t)' /\ Marked(t)' = Marked(t)
    BY <1>2, <1>3, Stays DEF IInv, Tasks
  <2> QED  BY <2>1, <2>2 DEF e
<1> HIDE DEF d, l
<1>12. Arrived'
  <2> SUFFICES ASSUME NEW s \in Service, NEW i \in DOMAIN inbox'[s]
               PROVE  \E u \in Task : /\ at'[u] = "done" /\ Forwarded(u)'
                                      /\ inbox'[s][i] = Marshal(Marked(u)')
    BY Zenon DEF Arrived
  <2> QED  BY <1>9, <1>10, <1>11
<1>13. Apart'
  <2> SUFFICES ASSUME NEW s1 \in Service, NEW s2 \in Service,
                      NEW i \in DOMAIN inbox'[s1], NEW j \in DOMAIN inbox'[s2],
                      inbox'[s1][i] = inbox'[s2][j]
               PROVE  s1 = s2 /\ i = j
    BY Zenon DEF Apart
  <2>1. CASE i \in DOMAIN inbox[s1] /\ inbox'[s1][i] = inbox[s1][i]
    <3>1. inbox'[s2][j] # e
      BY <1>10, <2>1
    <3>2. j \in DOMAIN inbox[s2] /\ inbox'[s2][j] = inbox[s2][j]
      BY <1>9, <3>1
    <3>3. inbox[s1][i] = inbox[s2][j] /\ i \in DOMAIN inbox[s1]
      BY <2>1, <3>2
    <3> QED  BY <3>2, <3>3 DEF IInv, Apart
  <2>2. CASE s1 = d /\ i = l /\ inbox'[s1][i] = e
    <3>1. ~(j \in DOMAIN inbox[s2] /\ inbox'[s2][j] = inbox[s2][j])
      BY <1>10, <2>2
    <3> QED  BY <1>9, <2>2, <3>1
  <2> QED  BY <1>9, <2>1, <2>2
<1> QED  BY <1>3, <1>4, <1>8, <1>12, <1>13 DEF IInv

\* A ping is answered with one pong, and its goroutine ends.
LEMMA ReceivePingStep ==
  ASSUME IInv, NEW m \in Msg, ReceivePing(m)
  PROVE  IInv'
<1> DEFINE r == Read(packet[m])
           d == Ag(m)
<1>1. /\ at[m] = "receive" /\ r.ok /\ r.val.kind = "basic"
      /\ UNCHANGED <<inbox, link>> /\ Goes(m, "done", None, None)
      /\ out' = IF r.val.code = CodePing THEN [out EXCEPT ![d] = Append(@, Pong)] ELSE out
  BY DEF ReceivePing, Ends, Goes, Pong
<1>2. /\ m \in Task /\ m \in DOMAIN sent /\ sent[m].pkt \in ClientPackets(m)
      /\ r.val = sent[m].pkt
  BY <1>1, Received
<1> HIDE DEF r
<1>3. sent[m].pkt = BasicPkt(CodePing) /\ r.val.code = CodePing
  <2>1. "basic" # "logic"
    OBVIOUS
  <2> QED  BY <1>1, <1>2, <2>1, ClientPacket
<1>4. Tasks' /\ Bounds' /\ Messages' /\ OnTheWay' /\ Grows /\ DoneStays
  <2>1. at[m] \notin {"none", "done"}
    BY <1>1
  <2> QED  BY <1>1, <1>2, <2>1, ProperEnd, Going
<1>5. Arrived' /\ Apart' /\ Linked'
  BY <1>1, <1>4, ArrivedStays, LinkedStays
<1>6. d \in Channel
  BY <1>2 DEF IInv, Messages, Ag
<1> DEFINE l == Len(out[d]) + 1
<1>7. /\ out' = [out EXCEPT ![d] = Append(out[d], Pong)]
      /\ DOMAIN out = Channel /\ \A c \in Channel : IsSeq(out[c])
  BY <1>1, <1>3 DEF IInv, Sequences
<1>8. /\ IsSeq(Append(out[d], Pong)) /\ DOMAIN out[d] = 1 .. Len(out[d])
      /\ Len(out[d]) \in Nat
      /\ DOMAIN Append(out[d], Pong) = 1 .. l
      /\ \A i \in DOMAIN out[d] : Append(out[d], Pong)[i] = out[d][i]
      /\ Append(out[d], Pong)[l] = Pong
  BY <1>6, <1>7, Appended
<1>9. /\ DOMAIN out' = Channel /\ out'[d] = Append(out[d], Pong)
      /\ \A c \in Channel : c # d => out'[c] = out[c]
  BY <1>6, <1>7
<1>10. Sequences'
  BY <1>1, <1>7, <1>8, <1>9 DEF IInv, Sequences
<1>11. ASSUME NEW c \in Channel, NEW i \in DOMAIN out'[c]
       PROVE  \/ i \in DOMAIN out[c] /\ out'[c][i] = out[c][i]
              \/ out'[c][i] = Pong
  <2>1. CASE c = d
    <3>1. i \in 1 .. l
      BY <1>8, <1>9, <2>1
    <3>2. i \in DOMAIN out[d] \/ i = l
      BY <1>8, <3>1
    <3> QED  BY <1>8, <1>9, <2>1, <3>2
  <2>2. CASE c # d
    BY <1>9, <1>11, <2>2
  <2> QED  BY <2>1, <2>2
<1>12. Delivered'
  <2> SUFFICES ASSUME NEW c \in Channel, NEW i \in DOMAIN out'[c]
               PROVE  \/ out'[c][i] = Pong
                      \/ \E n \in DOMAIN sent' : /\ Forwarded(n)' /\ sent'[n].from = c
                                                 /\ \E p \in Answers(n)' : out'[c][i] = Marshal(p)
    BY Zenon DEF Delivered, Pong
  <2>1. CASE out'[c][i] = Pong
    BY <2>1
  <2>2. ASSUME i \in DOMAIN out[c], out'[c][i] = out[c][i],
               NEW n \in DOMAIN sent, Forwarded(n), sent[n].from = c,
               NEW p \in Answers(n), out[c][i] = Marshal(p)
        PROVE  \E k \in DOMAIN sent' : /\ Forwarded(k)' /\ sent'[k].from = c
                                       /\ \E q \in Answers(k)' : out'[c][i] = Marshal(q)
    BY <1>4, <2>2, DeliveredStays
  <2> QED  BY <1>11, <2>1, <2>2 DEF IInv, Delivered
\* The client that pinged has one pong more, and one more of its pings is done.
<1>13. Ponged'
  <2> SUFFICES ASSUME NEW c \in Channel
               PROVE  Cardinality(Pongs(c)') <= Cardinality(Handled(c)')
    BY Zenon DEF Ponged
  <2>1. /\ IsFiniteSet(Pongs(c)) /\ Cardinality(Pongs(c)) \in Nat
        /\ IsFiniteSet(Handled(c)) /\ Cardinality(Handled(c)) \in Nat
        /\ Cardinality(Pongs(c)) <= Cardinality(Handled(c))
    BY FinitePongs, FiniteHandled DEF IInv, Ponged
  <2>2. IsFiniteSet(Handled(c)') /\ Cardinality(Handled(c)') \in Nat
    <3>1. (IsFiniteSet(Handled(c)) /\ Cardinality(Handled(c)) \in Nat)'
      BY <1>4, FiniteHandled, PTL
    <3> QED  BY <3>1
  <2>3. Handled(c) \subseteq Handled(c)'
    BY <1>4, HandledStays DEF IInv
  <2>4. CASE c = d
    <3>1. Pongs(c)' = Pongs(c) \cup {l} /\ l \notin Pongs(c)
      <4>1. l \notin DOMAIN out[d] /\ DOMAIN out'[d] = DOMAIN out[d] \cup {l}
        BY <1>8, <1>9
      <4> QED  BY <1>8, <1>9, <2>4, <4>1 DEF Pongs, Pong
    <3>2. Cardinality(Pongs(c)') = Cardinality(Pongs(c)) + 1
      BY <2>1, <3>1, FS_AddElement
    <3>3. m \notin Handled(c)
      BY <1>1 DEF Handled
    <3>4. m \in Handled(c)'
      <4>1. sent' = sent /\ at'[m] = "done"
        BY <1>1, <1>2 DEF Goes, IInv, Tasks
      <4>2. sent[m] = [from |-> c, pkt |-> BasicPkt(CodePing)]
        BY <1>2, <1>3, <2>4 DEF IInv, Messages, Ag
      <4> QED  BY <1>2, <4>1, <4>2 DEF Handled, BasicPkt
    <3>5. Handled(c) \cup {m} \subseteq Handled(c)'
      BY <2>3, <3>4
    <3>6. Cardinality(Handled(c) \cup {m}) = Cardinality(Handled(c)) + 1
      BY <2>1, <3>3, FS_AddElement
    <3>7. Cardinality(Handled(c) \cup {m}) <= Cardinality(Handled(c)')
      BY <2>2, <3>5, FS_Subset
    <3> QED  BY <2>1, <2>2, <3>2, <3>6, <3>7
  <2>5. CASE c # d
    <3>1. Pongs(c)' = Pongs(c)
      BY <1>9, <2>5 DEF Pongs, Pong
    <3>2. Cardinality(Handled(c)) <= Cardinality(Handled(c)')
      BY <2>2, <2>3, FS_Subset
    <3> QED  BY <2>1, <2>2, <3>1, <3>2
  <2> QED  BY <2>4, <2>5
<1> QED  BY <1>4, <1>5, <1>10, <1>12, <1>13 DEF IInv

\* A message arrives, and its goroutine begins.
LEMMA ReadloopStep ==
  ASSUME IInv, NEW c \in Channel, Readloop(c)
  PROVE  IInv'
<1> DEFINE n == Len(sent) + 1
<1>1. PICK p, bytes :
          /\ sent' = Append(sent, [from |-> c, pkt |-> p])
          /\ packet' = [packet EXCEPT ![n] = bytes]
          /\ \/ p \in ClientPackets(n) /\ bytes = Marshal(p)
             \/ p = None /\ bytes \in Parts(n)
  <2>1. \/ \E p \in ClientPackets(n) :
              /\ sent' = Append(sent, [from |-> c, pkt |-> p])
              /\ packet' = [packet EXCEPT ![n] = Marshal(p)]
        \/ \E bytes \in Parts(n) :
              /\ sent' = Append(sent, [from |-> c, pkt |-> None])
              /\ packet' = [packet EXCEPT ![n] = bytes]
    BY DEF Readloop
  <2> QED  BY <2>1
<1>2. /\ n \in Msg /\ at' = [at EXCEPT ![n] = "receive"]
      /\ on' = on /\ dest' = dest /\ pool' = pool /\ changes' = changes
      /\ inbox' = inbox /\ taken' = taken /\ link' = link /\ answers' = answers /\ out' = out
  BY DEF Readloop, servers, answering
<1> DEFINE x == [from |-> c, pkt |-> p]
<1>3. /\ IsSeq(sent') /\ Len(sent) \in Nat /\ DOMAIN sent = 1 .. Len(sent)
      /\ Len(sent') = Len(sent) + 1 /\ DOMAIN sent' = 1 .. n
      /\ \A m \in DOMAIN sent : sent'[m] = sent[m]
      /\ sent'[n] = x
  <2> HIDE DEF x
  <2>1. sent' = Append(sent, x)
    BY <1>1 DEF x
  <2> QED  BY <2>1, Appended DEF IInv, Messages
<1>4. n \in Task /\ n \notin DOMAIN sent /\ DOMAIN sent' = DOMAIN sent \cup {n}
  BY <1>2, <1>3 DEF Task
<1>5. n \notin Channel /\ n <= MaxMsg
  BY <1>2, GatewayAssumption DEF Msg
<1> HIDE DEF n
<1>6. at[n] = "none"
  BY <1>2, <1>4 DEF IInv, Messages
<1>7. /\ at'[n] = "receive" /\ packet'[n] = bytes
      /\ \A t \in Task : t # n => at'[t] = at[t] /\ packet'[t] = packet[t]
  BY <1>1, <1>2, <1>4 DEF IInv, Tasks
<1>8. Grows /\ DoneStays
  BY <1>2, <1>3, <1>6, <1>7 DEF Grows, DoneStays
<1>9. Tasks'
  <2>1. at' \in [Task -> Places] /\ DOMAIN packet' = Task
    BY <1>1, <1>2 DEF IInv, Tasks, Places
  <2>2. ASSUME NEW t \in Task
        PROVE  /\ dest[t] # None <=> at'[t] \in {"get", "send"}
               /\ at'[t] \in {"none", "done"} => packet'[t] = None
    BY <1>6, <1>7 DEF IInv, Tasks
  <2> QED  BY <1>2, <2>1, <2>2 DEF IInv, Tasks
<1>10. Bounds' /\ Sequences'
  BY <1>2 DEF IInv, Bounds, Sequences
<1>11. x \in [from : Channel, pkt : ClientPackets(n) \cup {None}]
  BY <1>1
<1>12. Messages'
  <2>1. Len(sent') <= MaxMsg
    BY <1>3, <1>5 DEF n
  <2>2. ASSUME NEW m \in DOMAIN sent'
        PROVE  sent'[m] \in [from : Channel, pkt : ClientPackets(m) \cup {None}]
    <3>1. CASE m = n
      BY <1>3, <1>11, <3>1
    <3>2. CASE m # n
      BY <1>3, <1>4, <3>2 DEF IInv, Messages
    <3> QED  BY <3>1, <3>2
  <2>3. \A m \in Msg : at'[m] = "none" <=> m \notin DOMAIN sent'
    BY <1>4, <1>7 DEF IInv, Messages, Task
  <2>4. \A d \in Channel : at'[d] # "receive" /\ (at'[d] = "none" <=> d \in on)
    BY <1>5, <1>7 DEF IInv, Messages, Task
  <2>5. ASSUME NEW m \in Msg, at'[m] = "receive"
        PROVE  IF sent'[m].pkt = None THEN packet'[m] \in Parts(m)
               ELSE packet'[m] = Marshal(sent'[m].pkt)
    <3>1. CASE m = n
      <4>1. None \notin ClientPackets(n)
        BY <1>2, NoPacket
      <4>2. sent'[m].pkt = p
        BY <1>3, <3>1
      <4> QED  BY <1>1, <1>7, <3>1, <4>1, <4>2
    <3>2. CASE m # n
      <4>1. m \in Task /\ at[m] = "receive" /\ packet'[m] = packet[m]
        BY <1>7, <2>5, <3>2 DEF Task
      <4>2. m \in DOMAIN sent
        BY <4>1 DEF IInv, Messages
      <4> QED  BY <1>3, <4>1, <4>2 DEF IInv, Messages
    <3> QED  BY <3>1, <3>2
  <2> QED  BY <1>2, <1>3, <2>1, <2>2, <2>3, <2>4, <2>5 DEF Messages
<1>13. OnTheWay'
  <2>1. ASSUME NEW t \in Task
        PROVE  /\ at'[t] \in {"select", "get"} => Forwarded(t)' /\ packet'[t] = Base(t)'
               /\ at'[t] = "send" => Forwarded(t)' /\ packet'[t] = Marked(t)'
    <3>1. CASE t = n
      BY <1>7, <3>1
    <3>2. CASE t # n
      BY <1>7, <1>8, <3>2, Stays DEF IInv, Tasks, OnTheWay
    <3> QED  BY <3>1, <3>2
  <2> QED  BY <2>1, Zenon DEF OnTheWay
<1>14. Arrived' /\ Apart' /\ Linked' /\ Delivered' /\ Ponged'
  BY <1>2, <1>8, <1>12, ArrivedStays, LinkedStays, OutStays
<1> QED  BY <1>9, <1>10, <1>12, <1>13, <1>14 DEF IInv

\* A client is gone, and the goroutine of its sign-out begins.
LEMMA DisconnectStep ==
  ASSUME IInv, NEW c \in Channel, Disconnect(c)
  PROVE  IInv'
<1>1. /\ c \in on /\ at[c] = "none" /\ at' = [at EXCEPT ![c] = "select"]
      /\ packet' = [packet EXCEPT ![c] = SignOut(c)] /\ on' = on \ {c}
      /\ sent' = sent /\ dest' = dest /\ pool' = pool /\ changes' = changes
      /\ inbox' = inbox /\ taken' = taken /\ link' = link /\ answers' = answers /\ out' = out
  BY DEF Disconnect, SignOut, servers, answering
<1>2. c \in Task
  BY DEF Task
<1>3. /\ at'[c] = "select" /\ packet'[c] = SignOut(c)
      /\ \A t \in Task : t # c => at'[t] = at[t] /\ packet'[t] = packet[t]
  BY <1>1, <1>2 DEF IInv, Tasks
<1>4. Grows /\ DoneStays
  BY <1>1, <1>3 DEF Grows, DoneStays
<1>5. Tasks'
  <2>1. at' \in [Task -> Places] /\ DOMAIN packet' = Task /\ on' \subseteq Channel
    BY <1>1 DEF IInv, Tasks, Places
  <2>2. ASSUME NEW t \in Task
        PROVE  /\ dest[t] # None <=> at'[t] \in {"get", "send"}
               /\ at'[t] \in {"none", "done"} => packet'[t] = None
    BY <1>1, <1>3 DEF IInv, Tasks
  <2> QED  BY <1>1, <2>1, <2>2 DEF IInv, Tasks
<1>6. Bounds' /\ Sequences'
  BY <1>1 DEF IInv, Bounds, Sequences
<1>7. Messages'
  <2>1. \A m \in Msg : m # c /\ m \in Task
    BY GatewayAssumption DEF Msg, Task
  <2>2. \A d \in Channel : at'[d] # "receive" /\ (at'[d] = "none" <=> d \in on')
    BY <1>1, <1>3 DEF IInv, Messages, Task
  <2>3. \A m \in Msg : at'[m] = at[m] /\ packet'[m] = packet[m]
    BY <1>3, <2>1
  <2> QED  BY <1>1, <2>2, <2>3 DEF IInv, Messages
<1>8. OnTheWay'
  <2>1. ASSUME NEW t \in Task
        PROVE  /\ at'[t] \in {"select", "get"} => Forwarded(t)' /\ packet'[t] = Base(t)'
               /\ at'[t] = "send" => Forwarded(t)' /\ packet'[t] = Marked(t)'
    <3>1. CASE t = c
      <4>1. Forwarded(t)' /\ Base(t)' = SignOut(t)
        BY <1>1, <3>1 DEF Forwarded, Base, SignOut
      <4> QED  BY <1>3, <3>1, <4>1
    <3>2. CASE t # c
      BY <1>3, <1>4, <3>2, Stays DEF IInv, Tasks, OnTheWay
    <3> QED  BY <3>1, <3>2
  <2> QED  BY <2>1, Zenon DEF OnTheWay
<1>9. Arrived' /\ Apart' /\ Linked' /\ Delivered' /\ Ponged'
  BY <1>1, <1>4, <1>7, ArrivedStays, LinkedStays, OutStays
<1> QED  BY <1>5, <1>6, <1>7, <1>8, <1>9 DEF IInv

\* A step of a chat server's or of the container's reader: no goroutine moves.
LEMMA HandlingStays ==
  ASSUME IInv, UNCHANGED <<on, sent, handling>>
  PROVE  Tasks' /\ Messages' /\ OnTheWay' /\ Grows /\ DoneStays
<1> USE DEF IInv, handling
<1>1. Tasks' /\ Messages'
  BY DEF Tasks, Messages
<1>2. Grows /\ DoneStays
  BY DEF Grows, DoneStays
<1>3. OnTheWay'
  <2>1. ASSUME NEW t \in Task
        PROVE  /\ at[t] \in {"select", "get"} => Forwarded(t)' /\ packet[t] = Base(t)'
               /\ at[t] = "send" => Forwarded(t)' /\ packet[t] = Marked(t)'
    BY <1>2, Stays DEF Tasks, OnTheWay
  <2> QED  BY <2>1, Zenon DEF OnTheWay
<1> QED  BY <1>1, <1>2, <1>3

\* A chat server's client comes or goes.
LEMMA PoolStep ==
  ASSUME IInv, NEW s \in Service, PoolChanges(s)
  PROVE  IInv'
<1>1. /\ UNCHANGED <<on, sent, handling, inbox, taken, link, answers, out>>
      /\ changes < MaxChange /\ changes' = changes + 1 /\ pool' \subseteq Service
  BY DEF PoolChanges, answering, IInv, Bounds
<1>2. Tasks' /\ Messages' /\ OnTheWay' /\ Grows /\ DoneStays
  BY <1>1, HandlingStays
<1>3. Arrived' /\ Apart' /\ Linked' /\ Delivered' /\ Ponged'
  BY <1>1, <1>2, ArrivedStays, LinkedStays, OutStays
<1>4. Bounds' /\ Sequences'
  BY <1>1, GatewayAssumption DEF IInv, Bounds, Sequences
<1> QED  BY <1>2, <1>3, <1>4 DEF IInv

\* A chat server pushes what it makes from what arrived.
LEMMA AnswerStep ==
  ASSUME IInv, NEW s \in Service, Answer(s)
  PROVE  IInv'
<1>1. /\ UNCHANGED <<on, sent, handling, inbox, pool, changes, out>>
      /\ answers < MaxAnswer /\ answers' = answers + 1
  BY DEF Answer, servers
<1>2. PICK i, q, op :
          /\ i \in DOMAIN inbox[s] /\ q \in Pushed(Read(inbox[s][i]).val)
          /\ <<s, i>> \notin taken /\ taken' = taken \cup {<<s, i>>}
          /\ link' = [link EXCEPT ![s] = Append(@, [op |-> op, payload |-> Marshal(q)])]
  BY DEF Answer
<1> DEFINE x == [op |-> op, payload |-> Marshal(q)]
<1>3. Tasks' /\ Messages' /\ OnTheWay' /\ Grows /\ DoneStays
  BY <1>1, HandlingStays
<1>4. Arrived' /\ Apart' /\ Delivered' /\ Ponged'
  BY <1>1, <1>3, ArrivedStays, OutStays
<1>5. PICK t \in Task : Forwarded(t) /\ q \in Pushed(Marked(t))
  <2>1. PICK t \in Task : Forwarded(t) /\ inbox[s][i] = Marshal(Marked(t))
    BY <1>2 DEF IInv, Arrived
  <2>2. Read(inbox[s][i]) = Got(Marked(t), <<>>)
    BY <2>1, MarkedRead DEF IInv, Tasks
  <2>3. Read(inbox[s][i]).val = Marked(t)
    BY <2>2, GotParts
  <2> QED  BY <1>2, <2>1, <2>3
<1>6. x.payload = Marshal(q)
  OBVIOUS
<1> DEFINE l == Len(link[s]) + 1
<1>7. /\ link' = [link EXCEPT ![s] = Append(link[s], x)]
      /\ DOMAIN link = Service /\ \A u \in Service : IsSeq(link[u])
  BY <1>2 DEF IInv, Sequences
<1> HIDE DEF x
<1>8. /\ IsSeq(Append(link[s], x)) /\ DOMAIN link[s] = 1 .. Len(link[s])
      /\ Len(link[s]) \in Nat
      /\ DOMAIN Append(link[s], x) = 1 .. l
      /\ \A j \in DOMAIN link[s] : Append(link[s], x)[j] = link[s][j]
      /\ Append(link[s], x)[l] = x
  BY <1>7, Appended
<1>9. /\ DOMAIN link' = Service /\ link'[s] = Append(link[s], x)
      /\ \A u \in Service : u # s => link'[u] = link[u]
  BY <1>7
<1>10. Sequences'
  BY <1>1, <1>7, <1>8, <1>9 DEF IInv, Sequences
<1>11. Linked'
  <2> SUFFICES ASSUME NEW u \in Service, NEW j \in DOMAIN link'[u]
               PROVE  \E v \in Task : /\ Forwarded(v)'
                                      /\ \E r \in Pushed(Marked(v))' :
                                            link'[u][j].payload = Marshal(r)
    BY Zenon DEF Linked
  <2>1. ASSUME j \in DOMAIN link[u], link'[u][j] = link[u][j]
        PROVE  \E v \in Task : /\ Forwarded(v)'
                               /\ \E r \in Pushed(Marked(v))' : link'[u][j].payload = Marshal(r)
    <3>1. PICK v \in Task : /\ Forwarded(v)
                            /\ \E r \in Pushed(Marked(v)) : link[u][j].payload = Marshal(r)
      BY <2>1 DEF IInv, Linked
    <3>2. Forwarded(v)' /\ Pushed(Marked(v))' = Pushed(Marked(v))
      BY <1>3, <3>1, Stays DEF IInv, Tasks
    <3> QED  BY <2>1, <3>1, <3>2
  <2>2. ASSUME link'[u][j] = x
        PROVE  \E v \in Task : /\ Forwarded(v)'
                               /\ \E r \in Pushed(Marked(v))' : link'[u][j].payload = Marshal(r)
    <3>1. Forwarded(t)' /\ Pushed(Marked(t))' = Pushed(Marked(t))
      BY <1>3, <1>5, Stays DEF IInv, Tasks
    <3> QED  BY <1>5, <1>6, <2>2, <3>1
  <2>3. CASE u = s
    <3>1. j \in 1 .. l
      BY <1>8, <1>9, <2>3
    <3>2. j \in DOMAIN link[s] \/ j = l
      BY <1>8, <3>1
    <3> QED  BY <1>8, <1>9, <2>1, <2>2, <2>3, <3>2
  <2>4. CASE u # s
    BY <1>9, <2>1, <2>4
  <2> QED  BY <2>3, <2>4
<1>12. Bounds'
  <2>1. IsFiniteSet(taken') /\ Cardinality(taken') = Cardinality(taken) + 1
    BY <1>2, FS_AddElement DEF IInv, Bounds
  <2>2. Cardinality(taken) \in Nat
    BY FS_CardinalityType DEF IInv, Bounds
  <2>3. answers' <= MaxAnswer
    BY <1>1, <2>2, GatewayAssumption DEF IInv, Bounds
  <2> QED  BY <1>1, <2>1, <2>2, <2>3 DEF IInv, Bounds
<1> QED  BY <1>3, <1>4, <1>10, <1>11, <1>12 DEF IInv

\* One frame of a link was read.
LEMMA ReadFrameStep ==
  ASSUME IInv, NEW s \in Service, ReadFrame(s), link[s] # <<>>
  PROVE  /\ Tasks' /\ Messages' /\ OnTheWay' /\ Grows /\ DoneStays /\ Bounds'
         /\ Arrived' /\ Apart' /\ Linked'
         /\ DOMAIN link' = Service /\ \A u \in Service : IsSeq(link'[u])
<1>1. /\ UNCHANGED <<on, sent, handling, inbox, pool, changes, taken, answers>>
      /\ link' = [link EXCEPT ![s] = Tail(link[s])]
      /\ DOMAIN link = Service /\ \A u \in Service : IsSeq(link[u])
  BY DEF ReadFrame, servers, IInv, Sequences
<1>2. Tasks' /\ Messages' /\ OnTheWay' /\ Grows /\ DoneStays
  BY <1>1, HandlingStays
<1>3. Arrived' /\ Apart'
  BY <1>1, <1>2, ArrivedStays
<1>4. Bounds'
  BY <1>1 DEF IInv, Bounds
<1>5. /\ IsSeq(Tail(link[s]))
      /\ \A j \in DOMAIN Tail(link[s]) : j + 1 \in DOMAIN link[s] /\ Tail(link[s])[j] = link[s][j + 1]
  BY <1>1, Tailed
<1>6. /\ DOMAIN link' = Service /\ link'[s] = Tail(link[s])
      /\ \A u \in Service : u # s => link'[u] = link[u]
  BY <1>1
<1>7. \A u \in Service : IsSeq(link'[u])
  BY <1>1, <1>5, <1>6
<1>8. Linked'
  <2> SUFFICES ASSUME NEW u \in Service, NEW j \in DOMAIN link'[u]
               PROVE  \E v \in Task : /\ Forwarded(v)'
                                      /\ \E r \in Pushed(Marked(v))' :
                                            link'[u][j].payload = Marshal(r)
    BY Zenon DEF Linked
  <2>1. PICK k \in DOMAIN link[u] : link'[u][j] = link[u][k]
    BY <1>5, <1>6
  <2>2. PICK v \in Task : /\ Forwarded(v)
                          /\ \E r \in Pushed(Marked(v)) : link[u][k].payload = Marshal(r)
    BY <2>1 DEF IInv, Linked
  <2>3. Forwarded(v)' /\ Pushed(Marked(v))' = Pushed(Marked(v))
    BY <1>2, <2>2, Stays DEF IInv, Tasks
  <2> QED  BY <2>1, <2>2, <2>3
<1> QED  BY <1>2, <1>3, <1>4, <1>6, <1>7, <1>8

\* What is not for this gateway is dropped.
LEMMA SkipStep ==
  ASSUME IInv, NEW s \in Service, Skip(s)
  PROVE  IInv'
<1>1. ReadFrame(s) /\ link[s] # <<>> /\ out' = out /\ inbox' = inbox
  BY DEF Skip, ReadFrame
<1>2. /\ Tasks' /\ Messages' /\ OnTheWay' /\ Grows /\ DoneStays /\ Bounds'
      /\ Arrived' /\ Apart' /\ Linked'
      /\ DOMAIN link' = Service /\ \A u \in Service : IsSeq(link'[u])
  BY <1>1, ReadFrameStep
<1>3. Delivered' /\ Ponged'
  BY <1>1, <1>2, OutStays
<1>4. Sequences'
  BY <1>1, <1>2 DEF IInv, Sequences
<1> QED  BY <1>2, <1>3, <1>4 DEF IInv

\* An answer is delivered to the channel its packet came by, without the metas.
LEMMA PushMessageStep ==
  ASSUME IInv, NEW s \in Service, PushMessage(s)
  PROVE  IInv'
<1> DEFINE r == MustReadLogicPkt(Head(link[s]).payload)
           e == Marshal(Stripped(r.val))
           ids == GetMeta(r.val, MetaDestChannels).val
<1>1. /\ ReadFrame(s) /\ link[s] # <<>> /\ inbox' = inbox
      /\ ForMe(r.val) /\ out' = PushTo(ids, e)
  BY DEF PushMessage, ReadFrame
<1>2. /\ Tasks' /\ Messages' /\ OnTheWay' /\ Grows /\ DoneStays /\ Bounds'
      /\ Arrived' /\ Apart' /\ Linked'
      /\ DOMAIN link' = Service /\ \A u \in Service : IsSeq(link'[u])
  BY <1>1, ReadFrameStep
<1>3. PICK t \in Task : /\ Forwarded(t) /\ ids = <<ChannelOf(t)>>
                        /\ \E p \in Answers(t) : e = Marshal(p)
  <2>1. 1 \in DOMAIN link[s] /\ Head(link[s]) = link[s][1]
    BY <1>1, Tailed DEF IInv, Sequences
  <2>2. PICK t, q :
             /\ t \in Task /\ Forwarded(t) /\ q \in Pushed(Marked(t)) /\ Head(link[s]).payload = Marshal(q)
    <3>1. PICK t \in Task : /\ Forwarded(t)
                            /\ \E q \in Pushed(Marked(t)) : link[s][1].payload = Marshal(q)
      BY <2>1 DEF IInv, Linked
    <3> QED  BY <2>1, <3>1
  <2>3. r = Got(q, <<>>)
    BY <2>2, PushedIs DEF IInv, Tasks
  <2>4. r.val = q
    BY <2>3, GotParts
  <2>5. GetMeta(q, MetaDestChannels).val = <<ChannelOf(t)>> /\ Stripped(q) \in Answers(t)
    BY <1>1, <2>2, <2>4, PushedIs DEF IInv, Tasks
  <2> QED  BY <2>2, <2>4, <2>5
<1>4. PICK p \in Answers(t) : e = Marshal(p)
  BY <1>3
<1> HIDE DEF r, e, ids
<1>5. e # Pong
  BY <1>3, <1>4, AnswerIs DEF IInv, Tasks
<1> DEFINE d == ChannelOf(t)
<1>6. DOMAIN out = Channel /\ \A c \in Channel : IsSeq(out[c])
  BY DEF IInv, Sequences
<1>7. \A c \in Channel : Contains(ids, c) => c = d
  BY <1>3 DEF Contains
<1>8. /\ DOMAIN out' = Channel
      /\ \A c \in Channel : \/ out'[c] = out[c]
                            \/ c \in on /\ c = d /\ out'[c] = Append(out[c], e)
  BY <1>1, <1>7 DEF PushTo
<1>9. ASSUME NEW c \in Channel, c \in on, c = d
      PROVE  t \in DOMAIN sent /\ sent[t].from = c
  BY <1>3, <1>9, WhoseItIs DEF IInv, Tasks, ChannelOf
<1> HIDE DEF d
<1>10. ASSUME NEW c \in Channel, NEW i \in DOMAIN out'[c]
       PROVE  \/ i \in DOMAIN out[c] /\ out'[c][i] = out[c][i]
              \/ c \in on /\ c = d /\ out'[c][i] = e
  <2>1. CASE out'[c] = out[c]
    BY <1>10, <2>1
  <2>2. CASE c \in on /\ c = d /\ out'[c] = Append(out[c], e)
    <3>1. /\ DOMAIN out[c] = 1 .. Len(out[c]) /\ Len(out[c]) \in Nat
          /\ DOMAIN Append(out[c], e) = 1 .. Len(out[c]) + 1
          /\ \A j \in DOMAIN out[c] : Append(out[c], e)[j] = out[c][j]
          /\ Append(out[c], e)[Len(out[c]) + 1] = e
      BY <1>6, Appended
    <3>2. i \in 1 .. Len(out[c]) + 1
      BY <1>10, <2>2, <3>1
    <3>3. i \in DOMAIN out[c] \/ i = Len(out[c]) + 1
      BY <3>1, <3>2
    <3> QED  BY <2>2, <3>1, <3>3
  <2> QED  BY <1>8, <2>1, <2>2
<1>11. Delivered'
  <2> SUFFICES ASSUME NEW c \in Channel, NEW i \in DOMAIN out'[c]
               PROVE  \/ out'[c][i] = Pong
                      \/ \E n \in DOMAIN sent' : /\ Forwarded(n)' /\ sent'[n].from = c
                                                 /\ \E x \in Answers(n)' : out'[c][i] = Marshal(x)
    BY Zenon DEF Delivered, Pong
  <2>1. CASE i \in DOMAIN out[c] /\ out'[c][i] = out[c][i]
    <3>1. CASE out[c][i] = Pong
      BY <2>1, <3>1
    <3>2. ASSUME NEW n \in DOMAIN sent, Forwarded(n), sent[n].from = c,
                 NEW x \in Answers(n), out[c][i] = Marshal(x)
          PROVE  \E k \in DOMAIN sent' : /\ Forwarded(k)' /\ sent'[k].from = c
                                         /\ \E y \in Answers(k)' : out'[c][i] = Marshal(y)
      BY <1>2, <2>1, <3>2, DeliveredStays
    <3> QED  BY <2>1, <3>1, <3>2 DEF IInv, Delivered
  <2>2. CASE c \in on /\ c = d /\ out'[c][i] = e
    <3>1. t \in DOMAIN sent /\ sent[t].from = c
      BY <1>9, <2>2
    <3>2. t \in DOMAIN sent' /\ Forwarded(t)' /\ sent'[t].from = c /\ p \in Answers(t)'
      BY <1>2, <1>3, <1>4, <3>1, DeliveredStays
    <3> QED  BY <1>4, <2>2, <3>2
  <2> QED  BY <1>10, <2>1, <2>2
<1>12. Ponged'
  <2> SUFFICES ASSUME NEW c \in Channel
               PROVE  Cardinality(Pongs(c)') <= Cardinality(Handled(c)')
    BY Zenon DEF Ponged
  <2>1. Pongs(c)' \subseteq Pongs(c)
    BY <1>5, <1>10 DEF Pongs, Pong
  <2>2. /\ IsFiniteSet(Pongs(c)) /\ Cardinality(Pongs(c)) \in Nat
        /\ Cardinality(Handled(c)) \in Nat /\ Cardinality(Pongs(c)) <= Cardinality(Handled(c))
    BY FinitePongs, FiniteHandled DEF IInv, Ponged
  <2>3. /\ Cardinality(Pongs(c)') <= Cardinality(Pongs(c)) /\ Cardinality(Pongs(c)') \in Nat
    BY <2>1, <2>2, FS_Subset, FS_CardinalityType
  <2>4. Handled(c)' = Handled(c)
    BY <1>1 DEF ReadFrame, handling, Handled
  <2> QED  BY <2>2, <2>3, <2>4
<1>13. Sequences'
  <2>1. \A c \in Channel : IsSeq(out'[c])
    <3>1. \A c \in Channel : IsSeq(Append(out[c], e))
      BY <1>6, Appended
    <3> QED  BY <1>6, <1>8, <3>1
  <2> QED  BY <1>1, <1>2, <1>8, <2>1 DEF IInv, Sequences
<1> QED  BY <1>2, <1>11, <1>12, <1>13 DEF IInv

\* Every step of the gateway keeps the invariant.
LEMMA Step == IInv /\ [Next]_vars => IInv'
<1> SUFFICES ASSUME IInv, [Next]_vars PROVE IInv'
  OBVIOUS
<1>1. ASSUME NEW c \in Channel, Readloop(c) \/ Disconnect(c) PROVE IInv'
  BY <1>1, ReadloopStep, DisconnectStep
<1>2. ASSUME NEW m \in Msg, Handle(m) PROVE IInv'
  BY <1>2, ReceiveFailsStep, ReceivePingStep, ReceiveStep DEF Handle
<1>3. ASSUME NEW t \in Task, Forwarding(t) PROVE IInv'
  BY <1>3, SelectStep, GetStep, SendStep, SendFailsStep DEF Forwarding
<1>4. ASSUME NEW s \in Service, PoolChanges(s) \/ Answer(s) \/ Reading(s) PROVE IInv'
  BY <1>4, PoolStep, AnswerStep, PushMessageStep, SkipStep DEF Reading
<1>5. CASE UNCHANGED vars
  <2>1. UNCHANGED <<on, sent, handling, inbox, pool, changes, taken, link, answers, out>>
    BY <1>5 DEF vars, servers, answering
  <2>2. Tasks' /\ Messages' /\ OnTheWay' /\ Grows /\ DoneStays
    BY <2>1, HandlingStays
  <2>3. Arrived' /\ Apart' /\ Linked' /\ Delivered' /\ Ponged'
    BY <2>1, <2>2, ArrivedStays, LinkedStays, OutStays
  <2>4. Bounds' /\ Sequences'
    BY <2>1 DEF IInv, Bounds, Sequences
  <2> QED  BY <2>2, <2>3, <2>4 DEF IInv
<1> QED  BY <1>1, <1>2, <1>3, <1>4, <1>5 DEF Next

\* The inductive invariant holds in every reachable state of the gateway.
THEOREM GatewayInvariant == Spec => []IInv
  BY InitInv, Step, PTL DEF Spec
-----------------------------------------------------------------------------
(***************************************************************************)
(* What follows from the invariant.                                        *)
(***************************************************************************)
\* A chat server was sent at most one packet of every goroutine.
LEMMA InboxBound ==
  ASSUME IInv, NEW s \in Service
  PROVE  Len(inbox[s]) <= Cardinality(Task)
<1> DEFINE n == Len(inbox[s])
           f == [i \in 1 .. n |-> CHOOSE t \in Task :
                     Forwarded(t) /\ inbox[s][i] = Marshal(Marked(t))]
<1>1. DOMAIN inbox[s] = 1 .. n /\ n \in Nat
  <2>1. IsSeq(inbox[s])
    BY DEF IInv, Sequences
  <2> QED  BY <2>1, Appended
<1>2. ASSUME NEW i \in 1 .. n
      PROVE  f[i] \in Task /\ inbox[s][i] = Marshal(Marked(f[i]))
  <2>1. \E t \in Task : Forwarded(t) /\ inbox[s][i] = Marshal(Marked(t))
    BY <1>1 DEF IInv, Arrived
  <2> QED  BY <2>1
<1> HIDE DEF f
<1>3. f \in [1 .. n -> Task]
  BY <1>2 DEF f
<1>4. \A i, j \in 1 .. n : f[i] = f[j] => i = j
  <2> SUFFICES ASSUME NEW i \in 1 .. n, NEW j \in 1 .. n, f[i] = f[j]
               PROVE  i = j
    OBVIOUS
  <2>1. inbox[s][i] = inbox[s][j]
    BY <1>2, Zenon
  <2> QED  BY <1>1, <2>1 DEF IInv, Apart
<1>5. IsFiniteSet(Task)
  <2>1. IsFiniteSet(Msg)
    BY GatewayAssumption, FS_Interval DEF Msg
  <2> QED  BY <2>1, GatewayAssumption, FS_Union DEF Task
<1>6. IsFiniteSet(1 .. n) /\ Cardinality(1 .. n) = n
  <2> HIDE DEF n
  <2>1. 1 \in Int /\ n \in Int
    BY <1>1
  <2>2. IsFiniteSet(1 .. n)
    BY <2>1, FS_Interval
  <2>3. Cardinality(1 .. n) = IF 1 > n THEN 0 ELSE n - 1 + 1
    BY <2>1, FS_Interval, Zenon
  <2> QED  BY <1>1, <2>2, <2>3
<1>7. f \in Injection(1 .. n, Task)
  BY <1>3, <1>4 DEF Injection, IsInjective
<1>8. Cardinality(1 .. n) <= Cardinality(Task)
  BY <1>5, <1>7, FS_Injection
<1> QED  BY <1>6, <1>8

\* The invariant gives the types.
LEMMA TypeInvariant == IInv => TypeOK
<1> SUFFICES ASSUME IInv PROVE TypeOK
  OBVIOUS
<1>1. ASSUME NEW t \in Task, at[t] \in {"select", "get", "send"}
      PROVE  packet[t].kind = "logic" /\ packet[t].header.channelId \in Channel
  <2>1. Forwarded(t) /\ (packet[t] = Base(t) \/ packet[t] = Marked(t))
    BY <1>1 DEF IInv, OnTheWay
  <2>2. PICK ms : packet[t] = Logic(CommandOf(t), Number(t), ChannelOf(t), BodyOf(t), ms)
    BY <2>1, BaseIs, MarkedIs DEF IInv, Tasks
  <2>3. ChannelOf(t) \in Channel
    BY <2>1, WhoseItIs DEF IInv, Tasks
  <2> DEFINE p == Logic(CommandOf(t), Number(t), ChannelOf(t), BodyOf(t), ms)
  <2>4. p.kind = "logic" /\ p.header.channelId = ChannelOf(t)
    BY Zenon DEF Logic
  <2> HIDE DEF p
  <2> QED  BY <2>2, <2>3, <2>4 DEF p
<1>2. Len(sent) <= MaxMsg
  BY DEF IInv, Messages
<1> QED  BY <1>1, <1>2, InboxBound DEF IInv, Tasks, Bounds, TypeOK

\* The invariant gives what arrives its origin.
LEMMA OriginInvariant == IInv => CarriesOrigin
<1> SUFFICES ASSUME IInv, NEW s \in Service, NEW i \in DOMAIN inbox[s]
             PROVE  LET r == MustReadLogicPkt(inbox[s][i])
                        h == r.val.header
                        n == h.sequence
                    IN  /\ r.ok /\ r.rest = <<>>
                        /\ \/ /\ n \in DOMAIN sent /\ sent[n].pkt # None
                              /\ h.channelId = sent[n].from
                              /\ h.command = sent[n].pkt.header.command
                              /\ r.val.body = sent[n].pkt.body
                              /\ h.meta = sent[n].pkt.header.meta
                                              \o <<Meta(MetaDestServer, Gate)>>
                           \/ /\ h.command = CommandLoginSignOut
                              /\ h.channelId \in Channel \ on
                              /\ h.meta = <<Meta(MetaDestServer, Gate)>>
  BY DEF CarriesOrigin
<1>1. PICK t \in Task : Forwarded(t) /\ inbox[s][i] = Marshal(Marked(t))
  BY DEF IInv, Arrived
<1> DEFINE r == MustReadLogicPkt(inbox[s][i])
           p == Marked(t)
<1>2. r = Got(p, <<>>)
  BY <1>1, MarkedRead DEF IInv, Tasks
<1>3. r.ok /\ r.val = p /\ r.rest = <<>>
  BY <1>2, GotParts
<1>4. /\ p.header.command = CommandOf(t) /\ p.body = BodyOf(t)
      /\ p.header.sequence = Number(t) /\ p.header.channelId = ChannelOf(t)
      /\ p.header.meta = MetasOf(t) \o <<Meta(MetaDestServer, Gate)>>
  BY <1>1, MarkedRead DEF IInv, Tasks, Cat, ToGate, ToServer
<1> HIDE DEF r, p
<1>5. CASE t \in Channel
  <2>1. p.header.command = CommandLoginSignOut /\ p.header.channelId \in Channel \ on
    BY <1>1, <1>4, <1>5, WhoseItIs DEF IInv, Tasks, CommandOf, ChannelOf
  <2>2. p.header.meta = <<Meta(MetaDestServer, Gate)>>
    <3>1. MetasOf(t) = <<>>
      BY <1>5 DEF MetasOf
    <3> QED  BY <1>4, <3>1
  <2> QED  BY <1>3, <1>4, <2>1, <2>2 DEF r
<1>6. CASE t \notin Channel
  <2>1. /\ t \in DOMAIN sent /\ t \in Msg
        /\ sent[t].pkt \in ClientPackets(t) /\ sent[t].pkt.kind = "logic"
    BY <1>1, <1>6, WhoseItIs DEF Forwarded, IInv, Tasks
  <2>2. sent[t].pkt # None
    BY <2>1, NoPacket
  <2>3. sent[t].pkt.body = <<1, 2>>
    <3>1. "basic" # "logic"
      OBVIOUS
    <3> QED  BY <2>1, <3>1, ClientPacket
  <2>4. /\ p.header.sequence = t /\ p.header.channelId = sent[t].from
        /\ p.header.command = sent[t].pkt.header.command /\ p.body = sent[t].pkt.body
        /\ p.header.meta = sent[t].pkt.header.meta \o <<Meta(MetaDestServer, Gate)>>
    BY <1>4, <1>6, <2>3 DEF CommandOf, Number, ChannelOf, BodyOf, MetasOf
  <2> QED  BY <1>3, <1>4, <2>1, <2>2, <2>4 DEF r
<1> QED  BY <1>5, <1>6

\* By the invariant a packet is in one place.
LEMMA OnceInvariant == IInv => HandledOnce
<1> SUFFICES ASSUME IInv, NEW s1 \in Service, NEW s2 \in Service,
                    NEW i \in DOMAIN inbox[s1], NEW j \in DOMAIN inbox[s2],
                    Read(inbox[s1][i]).val.header.sequence
                        = Read(inbox[s2][j]).val.header.sequence,
                    Read(inbox[s1][i]).val.header.channelId
                        = Read(inbox[s2][j]).val.header.channelId
             PROVE  s1 = s2 /\ i = j
  BY DEF HandledOnce
<1>1. PICK t \in Task : Forwarded(t) /\ inbox[s1][i] = Marshal(Marked(t))
  BY DEF IInv, Arrived
<1>2. PICK u \in Task : Forwarded(u) /\ inbox[s2][j] = Marshal(Marked(u))
  BY DEF IInv, Arrived
<1>3. Read(inbox[s1][i]).val = Marked(t) /\ Read(inbox[s2][j]).val = Marked(u)
  <2>1. Read(inbox[s1][i]) = Got(Marked(t), <<>>) /\ Read(inbox[s2][j]) = Got(Marked(u), <<>>)
    BY <1>1, <1>2, MarkedRead DEF IInv, Tasks
  <2> QED  BY <2>1, GotParts
<1>4. Number(t) = Number(u) /\ ChannelOf(t) = ChannelOf(u)
  <2>1. /\ Marked(t).header.sequence = Number(t) /\ Marked(t).header.channelId = ChannelOf(t)
        /\ Marked(u).header.sequence = Number(u) /\ Marked(u).header.channelId = ChannelOf(u)
    BY <1>1, <1>2, MarkedRead DEF IInv, Tasks
  <2> QED  BY <1>3, <2>1
<1>5. t = u
  BY <1>1, <1>2, <1>4, Identified DEF IInv, Tasks
<1> QED  BY <1>1, <1>2, <1>5 DEF IInv, Apart

\* By the invariant a client has pongs and its own answers.
LEMMA AnswersInvariant == IInv => OwnAnswers
<1> SUFFICES ASSUME IInv, NEW c \in Channel
             PROVE  LET got == [i \in DOMAIN out[c] |-> Read(out[c][i]).val]
                        pings == {n \in DOMAIN sent :
                                    sent[n] = [from |-> c, pkt |-> BasicPkt(CodePing)]}
                    IN  /\ Cardinality({i \in DOMAIN got : got[i].kind = "basic"})
                              <= Cardinality(pings)
                        /\ \A i \in DOMAIN got :
                              got[i].kind = "logic" =>
                                  /\ got[i].header.channelId = c
                                  /\ got[i].header.sequence \in DOMAIN sent
                                  /\ sent[got[i].header.sequence].from = c
                                  /\ Has(got[i], MetaDestServer) = 0
                                  /\ Has(got[i], MetaDestChannels) = 0
                                  /\ Has(got[i], "test") = Len(got[i].header.meta)
  BY DEF OwnAnswers
<1> DEFINE got == [i \in DOMAIN out[c] |-> Read(out[c][i]).val]
           pings == {n \in DOMAIN sent : sent[n] = [from |-> c, pkt |-> BasicPkt(CodePing)]}
<1>1. ASSUME NEW i \in DOMAIN out[c], out[c][i] = Pong
      PROVE  got[i].kind = "basic"
  <2>1. got[i] = BasicPkt(CodePong)
    BY <1>1, ReadBasic, GotParts DEF Pong
  <2> HIDE DEF got
  <2> QED  BY <2>1 DEF BasicPkt
<1>2. ASSUME NEW i \in DOMAIN out[c], out[c][i] # Pong
      PROVE  /\ got[i].kind = "logic" /\ got[i].header.channelId = c
             /\ got[i].header.sequence \in DOMAIN sent
             /\ sent[got[i].header.sequence].from = c
             /\ Has(got[i], MetaDestServer) = 0 /\ Has(got[i], MetaDestChannels) = 0
             /\ Has(got[i], "test") = Len(got[i].header.meta)
  <2>1. PICK n \in DOMAIN sent : /\ Forwarded(n) /\ sent[n].from = c
                                 /\ \E p \in Answers(n) : out[c][i] = Marshal(p)
    BY <1>2 DEF IInv, Delivered
  <2>2. PICK p \in Answers(n) : out[c][i] = Marshal(p)
    BY <2>1
  <2>3. /\ Read(Marshal(p)) = Got(p, <<>>) /\ p.kind = "logic"
        /\ p.header.sequence = Number(n) /\ p.header.channelId = ChannelOf(n)
        /\ Has(p, MetaDestServer) = 0 /\ Has(p, MetaDestChannels) = 0
        /\ Has(p, "test") = Len(p.header.meta)
    BY <2>1, <2>2, AnswerIs DEF IInv, Tasks
  <2>4. got[i] = p
    BY <2>2, <2>3, GotParts
  <2>5. n \notin Channel
    <3>1. DOMAIN sent \subseteq Msg
      BY GatewayAssumption DEF IInv, Messages, IsSeq, Msg
    <3> QED  BY <3>1, GatewayAssumption DEF Msg
  <2>6. Number(n) = n /\ ChannelOf(n) = c
    BY <2>1, <2>5 DEF Number, ChannelOf
  <2> HIDE DEF got
  <2> QED  BY <2>1, <2>3, <2>4, <2>6
<1>3. {i \in DOMAIN got : got[i].kind = "basic"} = Pongs(c)
  <2>1. DOMAIN got = DOMAIN out[c]
    OBVIOUS
  <2>2. "basic" # "logic"
    OBVIOUS
  <2> HIDE DEF got
  <2> QED  BY <1>1, <1>2, <2>1, <2>2 DEF Pongs
<1>4. Cardinality(Pongs(c)) <= Cardinality(pings)
  <2>1. Handled(c) \subseteq pings
    BY DEF Handled
  <2>2. IsFiniteSet(pings)
    <3>1. DOMAIN sent \subseteq 1 .. MaxMsg
      BY GatewayAssumption DEF IInv, Messages, IsSeq
    <3>2. IsFiniteSet(1 .. MaxMsg)
      BY GatewayAssumption, FS_Interval
    <3>3. pings \subseteq 1 .. MaxMsg
      BY <3>1
    <3> QED  BY <3>2, <3>3, FS_Subset
  <2>3. Cardinality(Handled(c)) <= Cardinality(pings)
    BY <2>1, <2>2, FS_Subset
  <2>4. /\ Cardinality(Pongs(c)) \in Nat /\ Cardinality(Handled(c)) \in Nat
        /\ Cardinality(pings) \in Nat /\ Cardinality(Pongs(c)) <= Cardinality(Handled(c))
    BY <2>2, FinitePongs, FiniteHandled, FS_CardinalityType DEF IInv, Ponged
  <2> HIDE DEF pings
  <2> QED  BY <2>3, <2>4
<1>5. ASSUME NEW i \in DOMAIN got, got[i].kind = "logic"
      PROVE  /\ got[i].header.channelId = c
             /\ got[i].header.sequence \in DOMAIN sent
             /\ sent[got[i].header.sequence].from = c
             /\ Has(got[i], MetaDestServer) = 0 /\ Has(got[i], MetaDestChannels) = 0
             /\ Has(got[i], "test") = Len(got[i].header.meta)
  <2>1. i \in DOMAIN out[c] /\ "basic" # "logic"
    OBVIOUS
  <2>2. out[c][i] # Pong
    <3> HIDE DEF got
    <3> QED  BY <1>1, <1>5, <2>1
  <2> HIDE DEF got
  <2> QED  BY <1>2, <2>1, <2>2
<1> HIDE DEF got, pings
<1>6. /\ Cardinality({i \in DOMAIN got : got[i].kind = "basic"}) <= Cardinality(pings)
      /\ \A i \in DOMAIN got :
            got[i].kind = "logic" =>
                /\ got[i].header.channelId = c
                /\ got[i].header.sequence \in DOMAIN sent
                /\ sent[got[i].header.sequence].from = c
                /\ Has(got[i], MetaDestServer) = 0
                /\ Has(got[i], MetaDestChannels) = 0
                /\ Has(got[i], "test") = Len(got[i].header.meta)
  BY <1>3, <1>4, <1>5
<1> QED  BY <1>6 DEF got, pings

\* The goroutines, the chat servers and what was sent to them keep their types.
THEOREM GatewayTypes == Spec => []TypeOK
  BY GatewayInvariant, TypeInvariant, PTL

\* What reaches a chat server can be read, and is a client's whole packet with
\* the metas the client gave it, or the sign-out of a client that is gone, under
\* its channel and with the gateway's name behind (Receive, Disconnect, Forward).
THEOREM OriginKept == Spec => []CarriesOrigin
  BY GatewayInvariant, OriginInvariant, PTL

\* No message of a client's reaches two chat servers, or one twice: forward tries
\* one client and gives up when it fails.
THEOREM Once == Spec => []HandledOnce
  BY GatewayInvariant, OnceInvariant, PTL

\* A client gets one pong for a ping at most, and the answers to its own packets,
\* whatever the order of their metas, without those that led them to it.
THEOREM AnswersKept == Spec => []OwnAnswers
  BY GatewayInvariant, AnswersInvariant, PTL
-----------------------------------------------------------------------------
(***************************************************************************)
(* The numbers of packets.  What was returned is ordered by lap and value: *)
(* none of it lies ahead of the counter.                                   *)
(***************************************************************************)
\* What was returned lies at the counter or behind it.
Behind == \A x \in issued : x[1] < lap \/ (x[1] = lap /\ x[2] <= num)

SeqInv == SeqTypeOK /\ Behind /\ NeverHighest

\* Nothing was returned yet.
LEMMA SeqInitially == SeqInit => SeqInv
  BY SequenceAssumption DEF SeqInit, SeqInv, SeqTypeOK, Behind, NeverHighest, Highest

\* What Return adds lies at the counter, ahead of everything returned before.
LEMMA ReturnStep ==
    ASSUME SeqInv, NEW t \in Caller, NEW v \in 0 .. Highest, Return(t, v),
           v # Highest, num' \in 0 .. Highest, lap' \in Nat, v = num',
           lap' > lap \/ (lap' = lap /\ v > num)
    PROVE  SeqInv' /\ issued' # issued
<1> USE DEF SeqInv, SeqTypeOK, Behind, NeverHighest, Return
<1>1. SeqTypeOK' /\ NeverHighest'
  BY SequenceAssumption
<1>2. \A x \in issued : x \in Nat \X (0 .. Highest) /\ x # <<lap', v>>
  BY SequenceAssumption DEF Highest
<1>3. Behind'
  BY <1>1, <1>2, SequenceAssumption DEF Highest
<1> QED  BY <1>1, <1>2, <1>3

\* A step keeps the invariant, and a call that returns adds something new.
LEMMA SeqStep == SeqInv /\ [SeqNext]_seqVars => SeqInv' /\ (returns' # returns => issued' # issued)
<1> SUFFICES ASSUME SeqInv, [SeqNext]_seqVars
             PROVE  SeqInv' /\ (returns' # returns => issued' # issued)
  OBVIOUS
<1> USE SequenceAssumption DEF Highest
<1> SeqTypeOK /\ Behind /\ NeverHighest
  BY DEF SeqInv
<1>1. ASSUME NEW t \in Caller, Add(t)
      PROVE  SeqInv' /\ (returns' # returns => issued' # issued)
  <2>1. num' = IF num = Highest THEN 0 ELSE num + 1
    BY <1>1 DEF Add, SeqTypeOK
  <2>2. /\ num' \in 0 .. Highest /\ lap' \in Nat
        /\ lap' > lap \/ (lap' = lap /\ num' > num)
    BY <1>1, <2>1 DEF Add, SeqTypeOK
  <2>3. CASE num' = Highest
    <3>1. pc' = [pc EXCEPT ![t] = "cas"] /\ UNCHANGED <<issued, returns>>
      BY <1>1, <2>3 DEF Add, Draw
    <3>2. lap' = lap /\ num' > num
      BY <1>1, <2>1, <2>3 DEF Add, SeqTypeOK
    <3> QED  BY <2>2, <3>1, <3>2 DEF SeqInv, SeqTypeOK, Behind, NeverHighest
  <2>4. CASE num' # Highest
    <3>1. Return(t, num')
      BY <1>1, <2>4 DEF Add, Draw
    <3> QED  BY <2>2, <2>4, <3>1, ReturnStep
  <2> QED  BY <2>3, <2>4
<1>2. ASSUME NEW t \in Caller, Swap(t)
      PROVE  SeqInv' /\ (returns' # returns => issued' # issued)
  <2>1. Return(t, 1) /\ num' = 1 /\ lap' = lap + 1 /\ 1 \in 0 .. Highest /\ 1 # Highest
    BY <1>2 DEF Swap
  <2> QED  BY <2>1, ReturnStep DEF SeqTypeOK
<1>3. ASSUME NEW t \in Caller, SwapFails(t)
      PROVE  SeqInv' /\ (returns' # returns => issued' # issued)
  BY <1>3 DEF SwapFails, SeqInv, SeqTypeOK, Behind, NeverHighest
<1>4. CASE UNCHANGED seqVars
  BY <1>4 DEF seqVars, SeqInv, SeqTypeOK, Behind, NeverHighest
<1> QED  BY <1>1, <1>2, <1>3, <1>4 DEF SeqNext

\* The inductive invariant holds in every reachable state of the counter.
THEOREM SeqInvariant == SeqSpec => []SeqInv
  BY SeqInitially, SeqStep, PTL DEF SeqSpec

\* No call of Next returns the highest value, and the types are kept.
THEOREM HighestKeptBack == SeqSpec => [](SeqTypeOK /\ NeverHighest)
<1>1. SeqInv => SeqTypeOK /\ NeverHighest
  BY DEF SeqInv
<1> QED  BY SeqInvariant, <1>1, PTL

\* Two calls of Next return the same value only in different laps.
THEOREM Fresh == SeqSpec => NeverTwiceInALap
<1>1. SeqInv /\ [SeqNext]_seqVars => [returns' # returns => issued' # issued]_seqVars
  BY SeqStep
<1> QED  BY SeqInvariant, <1>1, PTL DEF SeqSpec, NeverTwiceInALap
=============================================================================
