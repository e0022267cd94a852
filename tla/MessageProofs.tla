--------------------------- MODULE MessageProofs ----------------------------
(***************************************************************************)
(* What the operators of Message return: the serializer and the parser, for *)
(* every message and for any bytes.                                        *)
(***************************************************************************)
EXTENDS Message, DataLemmas

-----------------------------------------------------------------------------
(* The bytes of messages. *)

\* The four bytes of a number are numbers.
LEMMA U32Type == ASSUME NEW n \in Nat PROVE U32(n) \in Seq(Nat)
BY SMTT(30) DEF U32

\* And four bytes make a number.
LEMMA Num32Type ==
    ASSUME NEW s, \A i \in 1 .. 4 : s[i] \in Int
    PROVE  Num32(s, 1) \in Int
<1> DEFINE a == s[1]
           b == s[1 + 1]
           c == s[1 + 2]
           d == s[1 + 3]
<1>1. a \in Int /\ b \in Int /\ c \in Int /\ d \in Int
  OBVIOUS
<1>2. Num32(s, 1) = 16777216 * a + 65536 * b + 256 * c + d
  BY SMT DEF Num32
<1> HIDE DEF a, b, c, d
<1>3. 16777216 * a + 65536 * b + 256 * c + d \in Int
  BY <1>1, SMT
<1> QED
  BY <1>2, <1>3, SMT

\* The types of the messages that parsing returns.
ParsedTypes == BareTypes \cup RangedTypes
                 \cup {"KeepAlive", "Have", "Bitfield", "Piece", "Port", "MessageError"}

\* Parsing any bytes returns a message of one of those types.
LEMMA ParserType == ASSUME NEW bs PROVE Deserialize(bs).type \in ParsedTypes
<1>1. ASSUME NEW len PROVE Parse(bs, len).type \in ParsedTypes
  <2> DEFINE id == bs[5]
             bare == CHOOSE t \in BareTypes : Id[t] = id
  <2>1. CASE \E t \in BareTypes : Id[t] = id
    <3>1. bare \in BareTypes
      BY <2>1
    <3>2. id \in {0, 1, 2, 3}
      BY <2>1 DEF BareTypes, Id
    <3>3. Parse(bs, len) = Bare(bare)
      BY <2>1, <3>2 DEF Parse
    <3> QED
      BY <3>1, <3>3 DEF Bare, ParsedTypes
  <2>2. CASE ~ \E t \in BareTypes : Id[t] = id
    BY <2>2 DEF Parse, ParsedTypes, Have, Bitfield, Ranged, PieceMsg, Port, Bad, RangedTypes
  <2> QED
    BY <2>1, <2>2
<1> QED
  BY <1>1 DEF Deserialize, Bad, Bare, ParsedTypes

\* A bitfield or piece message was parsed from at least its header, so that
\* taking the payload away leaves the header.
LEMMA ParserLength ==
    ASSUME NEW bs \in Seq(Int)
    PROVE  /\ Deserialize(bs).type = "Bitfield" => Len(bs) >= 5
           /\ Deserialize(bs).type = "Piece" => Len(bs) >= 13
<1> DEFINE len == Num32(bs, 1)
<1>1. Len(bs) \in Nat
  BY LenProperties
<1>2. CASE Len(bs) < 5
  BY <1>2 DEF Deserialize, Bad, Bare
<1>3. CASE Len(bs) >= 5 /\ Deserialize(bs).type = "Piece"
  <2>1. len \in Int
    <3>1. \A i \in 1 .. 4 : bs[i] \in Int
      BY <1>1, <1>3, ElementOfSeq
    <3> QED
      BY <3>1, Num32Type
  <2> HIDE DEF len
  <2>2. Deserialize(bs) = Bare("KeepAlive") \/ Deserialize(bs) = Parse(bs, len)
    BY <1>1, <1>3 DEF Deserialize, len
  <2>3. Parse(bs, len).type = "Piece"
    BY <1>3, <2>2 DEF Bare
  <2> DEFINE id == bs[5]
  <2>4. ~ \E t \in BareTypes : Id[t] = id
    <3> SUFFICES ASSUME \E t \in BareTypes : Id[t] = id PROVE FALSE
      OBVIOUS
    <3>1. id \in {0, 1, 2, 3}
      BY DEF BareTypes, Id
    <3>2. Parse(bs, len) = Bare(CHOOSE t \in BareTypes : Id[t] = id)
      BY <3>1, SMTT(20) DEF Parse
    <3>3. (CHOOSE t \in BareTypes : Id[t] = id) \in BareTypes
      OBVIOUS
    <3> QED
      BY <2>3, <3>2, <3>3 DEF Bare, BareTypes
  <2>5. len >= 9 /\ Len(bs) >= 4 + len
    BY <2>3, <2>4 DEF Parse, Have, Bitfield, Ranged, PieceMsg, Port, Bad, RangedTypes, PayloadThere
  <2> QED
    BY <1>1, <2>1, <2>5
<1>4. CASE Len(bs) >= 5 /\ Deserialize(bs).type # "Piece"
  BY <1>4
<1> QED
  BY <1>1, <1>2, <1>3, <1>4

-----------------------------------------------------------------------------
(* The parser on what the serializer writes, whole or cut off. *)

\* Four bytes of a number are read back as that number.
LEMMA Num32Inverts ==
    ASSUME NEW n \in Nat, NEW s, NEW k \in Nat,
           \A i \in 0 .. 3 : s[k + i] = U32(n)[i + 1]
    PROVE  Num32(s, k) = n
<1> DEFINE a == n \div 16777216
           b == (n \div 65536) % 256
           c == (n \div 256) % 256
           d == n % 256
<1>1. /\ U32(n)[0 + 1] = a /\ U32(n)[1 + 1] = b /\ U32(n)[2 + 1] = c /\ U32(n)[3 + 1] = d
  BY SMTT(30) DEF U32
<1>2. 16777216 * a + 65536 * b + 256 * c + d = n
  BY SMTT(30)
<1>3. s[k] = a /\ s[k + 1] = b /\ s[k + 2] = c /\ s[k + 3] = d
  <2> HIDE DEF a, b, c, d
  <2>1. k + 0 = k
    OBVIOUS
  <2>2. s[k + 0] = U32(n)[0 + 1] /\ s[k + 1] = U32(n)[1 + 1]
        /\ s[k + 2] = U32(n)[2 + 1] /\ s[k + 3] = U32(n)[3 + 1]
    BY SMT
  <2> QED
    BY <1>1, <2>1, <2>2, Zenon
<1> HIDE DEF a, b, c, d
<1> QED
  BY <1>2, <1>3, SMT DEF Num32

\* The bytes of a frame: the number of bytes behind the prefix, the id, the payload.
LEMMA FrameBytes ==
    ASSUME NEW type \in DOMAIN Id, NEW payload \in Seq(Nat)
    PROVE  /\ Frame(type, payload) \in Seq(Nat)
           /\ Len(payload) \in Nat
           /\ Len(Frame(type, payload)) = Len(payload) + 5
           /\ \A i \in 1 .. 4 : Frame(type, payload)[i] = U32(Len(payload) + 1)[i]
           /\ Frame(type, payload)[5] = Id[type]
           /\ \A i \in 1 .. Len(payload) : Frame(type, payload)[5 + i] = payload[i]
<1> DEFINE head == U32(Len(payload) + 1)
           id == <<Id[type]>>
           front == head \o id
<1>1. payload \in Seq(Nat)
  OBVIOUS
<1>2. Len(payload) \in Nat /\ Id[type] \in Nat
  BY LenProperties DEF Id
<1>3. head \in Seq(Nat) /\ id \in Seq(Nat) /\ Len(id) = 1 /\ id[1] = Id[type]
  BY <1>2, U32Type
<1>4. Len(head) = 4
  BY <1>2, SMTT(30) DEF U32
<1>5. Frame(type, payload) = front \o payload
  BY Zenon DEF Frame
<1> HIDE DEF head, id
<1>6. /\ front \in Seq(Nat) /\ Len(front) = 5
      /\ \A i \in 1 .. 4 : front[i] = head[i]
      /\ front[5] = id[1]
  <2>1. front \in Seq(Nat) /\ Len(front) = Len(head) + Len(id)
    BY <1>3, Joined, Zenon
  <2>2. \A i \in 1 .. Len(head) : front[i] = head[i]
    BY <1>3, Joined, Zenon
  <2>3. \A i \in 1 .. Len(id) : front[Len(head) + i] = id[i]
    BY <1>3, JoinedBehind
  <2> HIDE DEF front
  <2> QED
    BY <1>3, <1>4, <2>1, <2>2, <2>3
<1> HIDE DEF front
<1>7. front \in Seq(Nat)
  BY <1>6, Zenon
<1>8. /\ front \o payload \in Seq(Nat) /\ Len(front \o payload) = Len(front) + Len(payload)
      /\ \A i \in 1 .. Len(front) : (front \o payload)[i] = front[i]
      /\ \A i \in 1 .. Len(payload) : (front \o payload)[Len(front) + i] = payload[i]
  <2>1. /\ front \o payload \in Seq(Nat) /\ Len(front \o payload) = Len(front) + Len(payload)
        /\ \A i \in 1 .. Len(front) : (front \o payload)[i] = front[i]
    BY <1>1, <1>7, Joined, Zenon
  <2>2. \A i \in 1 .. Len(payload) : (front \o payload)[Len(front) + i] = payload[i]
    BY <1>1, <1>7, JoinedBehind
  <2> QED
    BY <2>1, <2>2, Zenon
<1> DEFINE s == front \o payload
<1> HIDE DEF s
<1>9. /\ s \in Seq(Nat) /\ Len(s) = 5 + Len(payload)
      /\ \A i \in 1 .. 5 : s[i] = front[i]
      /\ \A i \in 1 .. Len(payload) : s[5 + i] = payload[i]
  BY <1>6, <1>8, Zenon DEF s
<1>10. (\A i \in 1 .. 4 : s[i] = head[i]) /\ s[5] = Id[type]
  <2>1. \A i \in 1 .. 4 : i \in 1 .. 5
    OBVIOUS
  <2>2. 5 \in 1 .. 5
    OBVIOUS
  <2> QED
    BY <1>3, <1>6, <1>9, <2>1, <2>2, Zenon
<1>11. Len(s) = Len(payload) + 5
  BY <1>2, <1>9
<1> QED
  BY <1>2, <1>5, <1>9, <1>10, <1>11, Zenon DEF s, head

\* What deserialize reads before it looks at the id: bs is a frame, or its first
\* part up to a byte behind the id.
LEMMA DeserializeFrame ==
    ASSUME NEW type \in DOMAIN Id, NEW payload \in Seq(Nat), NEW bs, Len(bs) \in Nat,
           \A i \in 1 .. Len(bs) : i <= 5 => bs[i] = Frame(type, payload)[i]
    PROVE  /\ Len(bs) <= 4 => Deserialize(bs) = Bad
           /\ Len(bs) >= 5 => /\ Deserialize(bs) = Parse(bs, Len(payload) + 1)
                              /\ bs[5] = Id[type]
<1> DEFINE len == Len(payload) + 1
<1>1. /\ \A i \in 1 .. 4 : Frame(type, payload)[i] = U32(len)[i]
      /\ Frame(type, payload)[5] = Id[type]
      /\ Len(payload) \in Nat
  BY FrameBytes, Zenon
<1>2. len \in Nat /\ len # 0
  BY <1>1
<1> HIDE DEF len
<1>3. ASSUME Len(bs) >= 4 PROVE Num32(bs, 1) = len
  <2>1. \A i \in 0 .. 3 : 1 + i \in 1 .. 4 /\ 1 + i \in 1 .. Len(bs) /\ 1 + i <= 5 /\ 1 + i = i + 1
    BY <1>3
  <2>2. \A i \in 0 .. 3 : bs[1 + i] = U32(len)[i + 1]
    BY <1>1, <2>1, Zenon
  <2> QED
    BY <1>2, <2>2, Num32Inverts
<1>4. ASSUME Len(bs) <= 4 PROVE Deserialize(bs) = Bad
  <2>1. CASE Len(bs) < 4
    BY <2>1 DEF Deserialize
  <2>2. CASE Len(bs) = 4
    BY <1>3, <1>2, <2>2 DEF Deserialize
  <2>3. Len(bs) < 4 \/ Len(bs) = 4
    <3> DEFINE l == Len(bs)
    <3>1. l \in Nat /\ l <= 4
      BY <1>4, Zenon
    <3> HIDE DEF l
    <3>2. l < 4 \/ l = 4
      BY <3>1
    <3> QED
      BY <3>2 DEF l
  <2> QED
    BY <2>1, <2>2, <2>3, Zenon
<1>5. ASSUME Len(bs) >= 5 PROVE Deserialize(bs) = Parse(bs, len) /\ bs[5] = Id[type]
  <2>1. 5 \in 1 .. Len(bs) /\ 5 <= 5
    BY <1>5
  <2>2. bs[5] = Id[type]
    BY <1>1, <2>1, Zenon
  <2>3. Deserialize(bs) = Parse(bs, len)
    BY <1>3, <1>5, <1>2 DEF Deserialize
  <2> QED
    BY <2>2, <2>3
<1> QED
  BY <1>4, <1>5, Zenon DEF len

\* What a frame carries behind the id.
Payload(m) ==
    CASE m.type = "Have"         -> U32(m.index)
      [] m.type = "Bitfield"     -> m.bytes
      [] m.type \in RangedTypes  -> U32(m.index) \o U32(m.begin) \o U32(m.length)
      [] m.type = "Piece"        -> U32(m.index) \o U32(m.begin) \o m.block
      [] m.type = "Port"         -> U16(m.port)
      [] OTHER                   -> <<>>

\* The sizes of the payloads that have one size.
FixedSize(type, n) ==
    /\ type \in BareTypes => n = 0
    /\ type = "Have" => n = 4
    /\ type \in RangedTypes => n = 12
    /\ type = "Port" => n = 2

\* Four bytes behind others.
LEMMA NumberBehind ==
    ASSUME NEW a \in Seq(Nat), NEW n \in Nat
    PROVE  /\ a \o U32(n) \in Seq(Nat)
           /\ Len(a \o U32(n)) = Len(a) + 4
           /\ \A i \in 1 .. Len(a) : (a \o U32(n))[i] = a[i]
           /\ \A i \in 1 .. 4 : (a \o U32(n))[Len(a) + i] = U32(n)[i]
<1> DEFINE b == U32(n)
<1>1. b \in Seq(Nat)
  BY U32Type
<1>2. Len(b) = 4
  BY SMTT(30) DEF U32
<1> HIDE DEF b
<1>3. /\ a \o b \in Seq(Nat) /\ Len(a \o b) = Len(a) + Len(b)
      /\ \A i \in 1 .. Len(a) : (a \o b)[i] = a[i]
  BY <1>1, Joined, Zenon
<1>4. \A i \in 1 .. Len(b) : (a \o b)[Len(a) + i] = b[i]
  BY <1>1, JoinedBehind
<1> QED
  BY <1>2, <1>3, <1>4, Zenon DEF b

\* p is two numbers and what follows them.
IsTwoNumbers(p, x, y, rest) ==
    /\ p \in Seq(Nat)
    /\ Len(p) = 8 + Len(rest)
    /\ \A i \in 1 .. 4 : p[i] = U32(x)[i]
    /\ \A i \in 1 .. 4 : p[4 + i] = U32(y)[i]
    /\ \A i \in 1 .. Len(rest) : p[8 + i] = rest[i]

\* The bytes of a payload that begins with two numbers.
LEMMA TwoNumbers ==
    ASSUME NEW x \in Nat, NEW y \in Nat, NEW rest \in Seq(Nat)
    PROVE  IsTwoNumbers(U32(x) \o U32(y) \o rest, x, y, rest)
<1> DEFINE a == U32(x)
           b == U32(y)
           ab == a \o b
           p == ab \o rest
<1>1. a \in Seq(Nat)
  BY U32Type
<1>2. Len(a) = 4
  BY SMTT(30) DEF U32
<1> HIDE DEF a
<1>3. /\ ab \in Seq(Nat) /\ Len(ab) = Len(a) + 4
      /\ \A i \in 1 .. Len(a) : ab[i] = a[i]
      /\ \A i \in 1 .. 4 : ab[Len(a) + i] = b[i]
  BY <1>1, NumberBehind, Zenon
<1> HIDE DEF b, ab
<1>4. ab \in Seq(Nat) /\ Len(ab) = 8
  BY <1>2, <1>3
<1>5. (\A i \in 1 .. 4 : ab[i] = a[i]) /\ \A i \in 1 .. 4 : ab[4 + i] = b[i]
  BY <1>2, <1>3, Zenon
<1>6. ab \in Seq(Nat) /\ rest \in Seq(Nat)
  BY <1>4
<1>7. /\ p \in Seq(Nat) /\ Len(p) = Len(ab) + Len(rest)
      /\ \A i \in 1 .. Len(ab) : p[i] = ab[i]
  BY <1>6, Joined, Zenon
<1>8. \A i \in 1 .. Len(rest) : p[Len(ab) + i] = rest[i]
  BY <1>6, JoinedBehind
<1> HIDE DEF p
<1>9. /\ \A i \in 1 .. 8 : p[i] = ab[i]
      /\ p \in Seq(Nat) /\ Len(p) = 8 + Len(rest)
      /\ \A i \in 1 .. Len(rest) : p[8 + i] = rest[i]
  BY <1>4, <1>7, <1>8, Zenon
<1>10. \A i \in 1 .. 4 : i \in 1 .. 8 /\ 4 + i \in 1 .. 8
  OBVIOUS
<1>11. (\A i \in 1 .. 4 : p[i] = a[i]) /\ \A i \in 1 .. 4 : p[4 + i] = b[i]
  BY <1>5, <1>9, <1>10, Zenon
<1> QED
  BY <1>9, <1>11, Zenon DEF IsTwoNumbers, p, ab, a, b

\* Every message but KeepAlive is a frame: its id and its payload.
LEMMA SerializeIsFrame ==
    ASSUME NEW m \in WireMessage, m.type # "KeepAlive"
    PROVE  /\ m.type \in DOMAIN Id
           /\ Payload(m) \in Seq(Nat)
           /\ FixedSize(m.type, Len(Payload(m)))
           /\ Serialize(m) = Frame(m.type, Payload(m))
<1>1. CASE m.type \in BareTypes
  <2>1. Payload(m) = <<>> /\ <<>> \in Seq(Nat) /\ Len(<<>>) = 0
    BY <1>1 DEF Payload, BareTypes, RangedTypes
  <2> QED
    BY <1>1, <2>1 DEF Serialize, FixedSize, BareTypes, RangedTypes, Id
<1>2. CASE m.type = "Have"
  <2>1. m.index \in Nat /\ Payload(m) = U32(m.index)
    BY <1>2 DEF WireMessage, Payload, BareTypes, RangedTypes
  <2>2. Len(U32(m.index)) = 4
    BY <2>1, SMTT(30) DEF U32
  <2>3. Serialize(m) = Frame(m.type, Payload(m)) /\ m.type \in DOMAIN Id
    BY <1>2, <2>1 DEF Serialize, BareTypes, RangedTypes, Id
  <2> QED
    BY <1>2, <2>1, <2>2, <2>3, U32Type DEF FixedSize, BareTypes, RangedTypes
<1>3. CASE m.type = "Bitfield"
  BY <1>3 DEF WireMessage, Payload, Serialize, FixedSize, BareTypes, RangedTypes, Id
<1>4. CASE m.type \in RangedTypes
  <2>1. /\ m.index \in Nat /\ m.begin \in Nat /\ m.length \in Nat
        /\ Payload(m) = U32(m.index) \o U32(m.begin) \o U32(m.length)
    BY <1>4 DEF WireMessage, Payload, BareTypes, RangedTypes
  <2>2. U32(m.length) \in Seq(Nat)
    BY <2>1, U32Type
  <2>3. Len(U32(m.length)) = 4
    BY <2>1, SMTT(30) DEF U32
  <2>4. Payload(m) \in Seq(Nat) /\ Len(Payload(m)) = 12
    <3> DEFINE rest == U32(m.length)
    <3>1. m.index \in Nat /\ m.begin \in Nat /\ rest \in Seq(Nat)
      BY <2>1, <2>2
    <3>2. Payload(m) = U32(m.index) \o U32(m.begin) \o rest
      BY <2>1
    <3> HIDE DEF rest
    <3>3. IsTwoNumbers(Payload(m), m.index, m.begin, rest)
      BY <3>1, <3>2, TwoNumbers, Zenon
    <3>4. Payload(m) \in Seq(Nat) /\ Len(Payload(m)) = 8 + Len(rest)
      BY <3>3 DEF IsTwoNumbers
    <3>5. Len(rest) = 4
      BY <2>3 DEF rest
    <3> QED
      BY <3>4, <3>5
  <2>5. Serialize(m) = Frame(m.type, Payload(m)) /\ m.type \in DOMAIN Id
    BY <1>4, <2>1 DEF Serialize, BareTypes, RangedTypes, Id
  <2> QED
    BY <1>4, <2>4, <2>5 DEF FixedSize, BareTypes, RangedTypes
<1>5. CASE m.type = "Piece"
  <2>1. /\ m.index \in Nat /\ m.begin \in Nat /\ m.block \in Seq(Nat)
        /\ Payload(m) = U32(m.index) \o U32(m.begin) \o m.block
    BY <1>5 DEF WireMessage, Payload, BareTypes, RangedTypes
  <2>2. Payload(m) \in Seq(Nat)
    <3>1. IsTwoNumbers(Payload(m), m.index, m.begin, m.block)
      BY <2>1, TwoNumbers, Zenon
    <3> QED
      BY <3>1 DEF IsTwoNumbers
  <2>3. Serialize(m) = Frame(m.type, Payload(m)) /\ m.type \in DOMAIN Id
    BY <1>5, <2>1 DEF Serialize, BareTypes, RangedTypes, Id
  <2> QED
    BY <1>5, <2>2, <2>3 DEF FixedSize, BareTypes, RangedTypes
<1>6. CASE m.type = "Port"
  <2>1. m.port \in Nat /\ Payload(m) = U16(m.port)
    BY <1>6 DEF WireMessage, Payload, BareTypes, RangedTypes
  <2>2. U16(m.port) \in Seq(Nat) /\ Len(U16(m.port)) = 2
    BY <2>1 DEF U16
  <2>3. Serialize(m) = Frame(m.type, Payload(m)) /\ m.type \in DOMAIN Id
    BY <1>6, <2>1 DEF Serialize, BareTypes, RangedTypes, Id
  <2> QED
    BY <1>6, <2>1, <2>2, <2>3 DEF FixedSize, BareTypes, RangedTypes
<1> QED
  BY <1>1, <1>2, <1>3, <1>4, <1>5, <1>6 DEF WireMessage

\* The serializer turns every message of numbers into numbers.
LEMMA SerializeType == ASSUME NEW m \in WireMessage PROVE Serialize(m) \in Seq(Nat)
<1>1. CASE m.type = "KeepAlive"
  <2>1. Serialize(m) = U32(0)
    BY <1>1 DEF Serialize, BareTypes, RangedTypes
  <2> QED
    BY <2>1, U32Type
<1>2. CASE m.type # "KeepAlive"
  BY <1>2, SerializeIsFrame, FrameBytes, Zenon
<1> QED
  BY <1>1, <1>2

\* A frame whose last byte has not arrived is not parsed.
LEMMA ParseCutOff ==
    ASSUME NEW type \in DOMAIN Id, NEW n \in Nat, FixedSize(type, n),
           NEW bs, Len(bs) \in Nat, Len(bs) >= 5, Len(bs) < n + 5, bs[5] = Id[type]
    PROVE  Parse(bs, n + 1) = Bad
<1> DEFINE id == bs[5]
<1>1. type \notin BareTypes
  BY DEF FixedSize
<1>2. id \in {4, 5, 6, 7, 8, 9} /\ id = Id[type]
  BY <1>1 DEF Id, BareTypes
<1>3. ~ \E t \in BareTypes : Id[t] = id
  BY <1>2 DEF Id, BareTypes
<1>4. ~ PayloadThere(bs, n + 1)
  BY DEF PayloadThere
<1>5. ~ (id = 4 /\ Len(bs) = 9) /\ ~ (id \in {6, 8} /\ Len(bs) = 17) /\ ~ (id = 9 /\ Len(bs) = 7)
  <2>1. /\ id = 4 => type = "Have"
        /\ id \in {6, 8} => type \in RangedTypes
        /\ id = 9 => type = "Port"
    BY <1>2 DEF Id, RangedTypes
  <2>2. /\ id = 4 => n = 4
        /\ id \in {6, 8} => n = 12
        /\ id = 9 => n = 2
    BY <2>1 DEF FixedSize
  <2> DEFINE l == Len(bs)
  <2>3. l \in Nat /\ l < n + 5
    OBVIOUS
  <2> HIDE DEF id, l
  <2>4. ~ (id = 4 /\ l = 9) /\ ~ (id \in {6, 8} /\ l = 17) /\ ~ (id = 9 /\ l = 7)
    BY <2>2, <2>3
  <2> QED
    BY <2>4 DEF l
<1> QED
  BY <1>3, <1>4, <1>5 DEF Parse

\* Whatever part of a message has arrived, short of all of it, is no message.
LEMMA CutOff ==
    ASSUME NEW m \in WireMessage, NEW bs, Len(bs) \in Nat, Len(bs) < Len(Serialize(m)),
           \A i \in 1 .. Len(bs) : bs[i] = Serialize(m)[i]
    PROVE  Deserialize(bs) = Bad
<1>1. CASE m.type = "KeepAlive"
  <2>1. Serialize(m) = U32(0)
    BY <1>1 DEF Serialize, BareTypes, RangedTypes
  <2>2. Len(U32(0)) = 4
    BY SMTT(30) DEF U32
  <2> QED
    BY <2>1, <2>2 DEF Deserialize
<1>2. CASE m.type # "KeepAlive"
  <2> DEFINE type == m.type
             payload == Payload(m)
  <2>1. /\ type \in DOMAIN Id /\ payload \in Seq(Nat) /\ FixedSize(type, Len(payload))
        /\ Serialize(m) = Frame(type, payload)
    BY <1>2, SerializeIsFrame, Zenon
  <2> HIDE DEF type, payload
  <2>2. Len(payload) \in Nat /\ Len(Serialize(m)) = Len(payload) + 5
    BY <2>1, FrameBytes, Zenon
  <2>3. \A i \in 1 .. Len(bs) : i <= 5 => bs[i] = Frame(type, payload)[i]
    BY <2>1, Zenon
  <2>4. /\ Len(bs) <= 4 => Deserialize(bs) = Bad
        /\ Len(bs) >= 5 => /\ Deserialize(bs) = Parse(bs, Len(payload) + 1)
                           /\ bs[5] = Id[type]
    BY <2>1, <2>3, DeserializeFrame
  <2>5. ASSUME Len(bs) >= 5 PROVE Parse(bs, Len(payload) + 1) = Bad
    <3>1. Len(bs) < Len(payload) + 5
      BY <2>2
    <3> QED
      BY <2>1, <2>2, <2>4, <2>5, <3>1, ParseCutOff
  <2>6. Len(bs) <= 4 \/ Len(bs) >= 5
    <3> DEFINE l == Len(bs)
    <3>1. l \in Nat
      BY Zenon
    <3> HIDE DEF l
    <3>2. l <= 4 \/ l >= 5
      BY <3>1
    <3> QED
      BY <3>2 DEF l
  <2> QED
    BY <2>4, <2>5, <2>6, Zenon
<1> QED
  BY <1>1, <1>2

\* The payload of the frame s holds the number n behind its first k bytes.
HoldsNumber(s, k, n) == \A i \in 1 .. 4 : s[5 + (k + i)] = U32(n)[i]

\* The number the parser reads there.
NumberReadBack(s, k, n) == Num32(s, k + 6) = n

\* It is that number.
LEMMA NumberInPayload ==
    ASSUME NEW n \in Nat, NEW k \in Nat, NEW s, HoldsNumber(s, k, n)
    PROVE  NumberReadBack(s, k, n)
<1>1. \A i \in 0 .. 3 : i + 1 \in 1 .. 4 /\ 5 + (k + (i + 1)) = (k + 6) + i
  OBVIOUS
<1>2. \A i \in 0 .. 3 : s[5 + (k + (i + 1))] = U32(n)[i + 1]
  BY <1>1, Zenon DEF HoldsNumber
<1>3. \A i \in 0 .. 3 : s[(k + 6) + i] = U32(n)[i + 1]
  BY <1>1, <1>2, Zenon
<1>4. k + 6 \in Nat
  OBVIOUS
<1> DEFINE j == k + 6
<1>5. j \in Nat /\ \A i \in 0 .. 3 : s[j + i] = U32(n)[i + 1]
  BY <1>3, <1>4, Zenon
<1> HIDE DEF j
<1>6. Num32(s, j) = n
  BY <1>5, Num32Inverts
<1> QED
  BY <1>6 DEF j, NumberReadBack

\* What a frame's bytes are, as one fact.
IsFrame(s, type, payload) ==
    /\ s \in Seq(Nat)
    /\ Len(payload) \in Nat
    /\ Len(s) = Len(payload) + 5
    /\ s[5] = Id[type]
    /\ \A i \in 1 .. Len(payload) : s[5 + i] = payload[i]

\* The parser finds the kind and the parts of a frame.  The messages that have
\* only an id:
LEMMA ParseBare ==
    ASSUME NEW type \in BareTypes, NEW s, s[5] = Id[type], NEW len
    PROVE  Parse(s, len) = Bare(type)
<1>1. \A t \in BareTypes : Id[t] = s[5] => t = type
  BY DEF BareTypes, Id
<1>2. (\E t \in BareTypes : Id[t] = s[5]) /\ (CHOOSE t \in BareTypes : Id[t] = s[5]) = type
  BY <1>1
<1>3. s[5] \in {0, 1, 2, 3}
  BY DEF BareTypes, Id
<1>4. Parse(s, len) = Bare(CHOOSE t \in BareTypes : Id[t] = s[5])
  <2> DEFINE id == s[5]
  <2>1. (\E t \in BareTypes : Id[t] = id) /\ id \in {0, 1, 2, 3}
    BY <1>2, <1>3
  <2> QED
    BY <2>1, SMTT(20) DEF Parse
<1> QED
  BY <1>2, <1>4, Zenon

\* The other ids are none of those.
LEMMA ParseOther ==
    ASSUME NEW s, s[5] \in 4 .. 9
    PROVE  ~ \E t \in BareTypes : Id[t] = s[5]
BY DEF BareTypes, Id

\* The announcement of a piece.
LEMMA ParseHave ==
    ASSUME NEW s, NEW n \in Nat, IsFrame(s, "Have", U32(n))
    PROVE  Parse(s, 5) = Have(n)
<1> DEFINE p == U32(n)
<1>1. Len(p) = 4
  BY SMTT(30) DEF U32
<1> HIDE DEF p
<1>2. s[5] = 4 /\ Len(s) = 9 /\ \A i \in 1 .. 4 : s[5 + i] = p[i]
  BY <1>1 DEF IsFrame, Id, p
<1>3. Num32(s, 6) = n
  <2>1. \A i \in 1 .. 4 : 0 + i = i
    OBVIOUS
  <2>2. HoldsNumber(s, 0, n)
    BY <1>2, <2>1, Zenon DEF HoldsNumber, p
  <2>3. Num32(s, 0 + 6) = n
    BY <2>2, NumberInPayload DEF NumberReadBack
  <2> QED
    BY <2>3
<1>4. ~ \E t \in BareTypes : Id[t] = s[5]
  BY <1>2, ParseOther
<1> QED
  BY <1>2, <1>3, <1>4 DEF Parse

\* The bitfield, whatever it holds.
LEMMA ParseBitfield ==
    ASSUME NEW s, NEW p \in Seq(Nat), IsFrame(s, "Bitfield", p)
    PROVE  Parse(s, Len(p) + 1) = Bitfield(p)
<1>1. s \in Seq(Nat) /\ s[5] = 5 /\ Len(p) \in Nat /\ Len(s) = 5 + Len(p)
  BY DEF IsFrame, Id
<1>2. From(s, 6) = p
  <2>1. \A i \in 1 .. Len(p) : s[5 + i] = p[i]
    BY DEF IsFrame
  <2>2. SubSeq(s, 5 + 1, Len(s)) = p
    BY <1>1, <2>1, Behind
  <2> QED
    BY <2>2 DEF From
<1>3. PayloadThere(s, Len(p) + 1)
  BY <1>1 DEF PayloadThere
<1>4. ~ \E t \in BareTypes : Id[t] = s[5]
  BY <1>1, ParseOther
<1> QED
  BY <1>1, <1>2, <1>3, <1>4 DEF Parse

\* The requests and their cancellation.
LEMMA ParseRanged ==
    ASSUME NEW type \in RangedTypes, NEW s, NEW x \in Nat, NEW y \in Nat, NEW z \in Nat,
           IsFrame(s, type, U32(x) \o U32(y) \o U32(z))
    PROVE  Parse(s, 13) = Ranged(type, x, y, z)
<1> DEFINE rest == U32(z)
           p == U32(x) \o U32(y) \o rest
<1>1. rest \in Seq(Nat)
  BY U32Type
<1>2. Len(rest) = 4
  BY SMTT(30) DEF U32
<1>3. IsFrame(s, type, p) /\ \A i \in 1 .. 4 : rest[i] = U32(z)[i]
  OBVIOUS
<1> HIDE DEF rest
<1>4. IsTwoNumbers(p, x, y, rest)
  BY <1>1, TwoNumbers, Zenon
<1> HIDE DEF p
<1>5. /\ Len(p) = 12
      /\ \A i \in 1 .. 4 : p[i] = U32(x)[i]
      /\ \A i \in 1 .. 4 : p[4 + i] = U32(y)[i]
      /\ \A i \in 1 .. 4 : p[8 + i] = U32(z)[i]
  BY <1>2, <1>3, <1>4 DEF IsTwoNumbers
<1>6. /\ s[5] = Id[type] /\ Len(s) = 17
      /\ \A i \in 1 .. 12 : s[5 + i] = p[i]
  <2>1. s[5] = Id[type] /\ Len(s) = Len(p) + 5 /\ \A i \in 1 .. Len(p) : s[5 + i] = p[i]
    BY <1>3, Zenon DEF IsFrame
  <2>2. Len(s) = 17
    BY <1>5, <2>1
  <2> QED
    BY <1>5, <2>1, <2>2, Zenon
<1>7. HoldsNumber(s, 0, x) /\ HoldsNumber(s, 4, y) /\ HoldsNumber(s, 8, z)
  <2>1. \A i \in 1 .. 4 : /\ 0 + i = i /\ i \in 1 .. 12
                          /\ 4 + i \in 1 .. 12 /\ 8 + i \in 1 .. 12
    OBVIOUS
  <2> QED
    BY <1>5, <1>6, <2>1, Zenon DEF HoldsNumber
<1>8. Num32(s, 0 + 6) = x /\ Num32(s, 4 + 6) = y /\ Num32(s, 8 + 6) = z
  <2>1. 0 \in Nat /\ 4 \in Nat /\ 8 \in Nat
    OBVIOUS
  <2>2. NumberReadBack(s, 0, x) /\ NumberReadBack(s, 4, y) /\ NumberReadBack(s, 8, z)
    BY <1>7, <2>1, NumberInPayload, Zenon
  <2> QED
    BY <2>2, Zenon DEF NumberReadBack
<1>9. Num32(s, 6) = x /\ Num32(s, 10) = y /\ Num32(s, 14) = z
  BY <1>8
<1>10. s[5] \in {6, 8} /\ (s[5] = 6 <=> type = "Request") /\ type \in {"Request", "Cancel"}
  BY <1>6 DEF Id, RangedTypes
<1>11. ~ \E t \in BareTypes : Id[t] = s[5]
  BY <1>10, ParseOther
<1>12. Parse(s, 13) = Ranged(IF s[5] = 6 THEN "Request" ELSE "Cancel",
                             Num32(s, 6), Num32(s, 10), Num32(s, 14))
  BY <1>6, <1>10, <1>11 DEF Parse
<1> QED
  BY <1>9, <1>10, <1>12

\* The blocks of a piece, the empty one included.
LEMMA ParsePiece ==
    ASSUME NEW s, NEW x \in Nat, NEW y \in Nat, NEW block \in Seq(Nat),
           IsFrame(s, "Piece", U32(x) \o U32(y) \o block)
    PROVE  Parse(s, Len(U32(x) \o U32(y) \o block) + 1) = PieceMsg(x, y, block)
<1> DEFINE p == U32(x) \o U32(y) \o block
<1>1. IsFrame(s, "Piece", p) /\ IsTwoNumbers(p, x, y, block)
  BY TwoNumbers, Zenon
<1>2. Len(block) \in Nat
  BY LenProperties
<1> HIDE DEF p
<1>3. /\ Len(p) = 8 + Len(block)
      /\ \A i \in 1 .. 4 : p[i] = U32(x)[i]
      /\ \A i \in 1 .. 4 : p[4 + i] = U32(y)[i]
      /\ \A i \in 1 .. Len(block) : p[8 + i] = block[i]
  BY <1>1 DEF IsTwoNumbers
<1>4. /\ s[5] = 7 /\ s \in Seq(Nat) /\ Len(s) = Len(p) + 5
      /\ \A i \in 1 .. Len(p) : s[5 + i] = p[i]
  BY <1>1 DEF IsFrame, Id
<1>5. HoldsNumber(s, 0, x) /\ HoldsNumber(s, 4, y)
  <2>1. \A i \in 1 .. 4 : 0 + i = i /\ i \in 1 .. Len(p) /\ 4 + i \in 1 .. Len(p)
    BY <1>2, <1>3
  <2> QED
    BY <1>3, <1>4, <2>1, Zenon DEF HoldsNumber
<1>6. Num32(s, 0 + 6) = x /\ Num32(s, 4 + 6) = y
  <2>1. 0 \in Nat /\ 4 \in Nat
    OBVIOUS
  <2>2. NumberReadBack(s, 0, x) /\ NumberReadBack(s, 4, y)
    BY <1>5, <2>1, NumberInPayload, Zenon
  <2> QED
    BY <2>2, Zenon DEF NumberReadBack
<1>7. Num32(s, 6) = x /\ Num32(s, 10) = y
  BY <1>6
<1>8. BlockOf(s) = block
  <2>1. \A i \in 1 .. Len(block) : 8 + i \in 1 .. Len(p) /\ 5 + (8 + i) = 13 + i
    BY <1>2, <1>3
  <2>2. \A i \in 1 .. Len(block) : s[13 + i] = block[i]
    BY <1>3, <1>4, <2>1
  <2>3. Len(s) = 13 + Len(block)
    BY <1>2, <1>3, <1>4
  <2> DEFINE k == 13
  <2>4. k \in Nat /\ Len(s) = k + Len(block) /\ \A i \in 1 .. Len(block) : s[k + i] = block[i]
    BY <2>2, <2>3
  <2>5. k + 1 = 14
    OBVIOUS
  <2> HIDE DEF k
  <2>6. SubSeq(s, k + 1, Len(s)) = block
    BY <1>4, <2>4, Behind
  <2> QED
    BY <2>5, <2>6, Zenon DEF BlockOf, From
<1>9. Len(p) + 1 >= 9 /\ PayloadThere(s, Len(p) + 1)
  BY <1>2, <1>3, <1>4 DEF PayloadThere
<1>10. ~ \E t \in BareTypes : Id[t] = s[5]
  <2>1. s[5] = 7
    BY <1>4, Zenon
  <2> QED
    BY <2>1, ParseOther
<1> DEFINE len == Len(p) + 1
<1> HIDE DEF len
<1>11. Parse(s, len) = PieceMsg(Num32(s, 6), Num32(s, 10), BlockOf(s))
  BY <1>4, <1>9, <1>10 DEF Parse, len
<1> QED
  BY <1>7, <1>8, <1>11 DEF len, p

\* The port, of two bytes.
LEMMA ParsePort ==
    ASSUME NEW s, NEW n \in Nat, IsFrame(s, "Port", U16(n))
    PROVE  Parse(s, 3) = Port(n)
<1>1. Len(U16(n)) = 2 /\ U16(n)[1] = n \div 256 /\ U16(n)[2] = n % 256
  BY DEF U16
<1>2. s[5] = 9 /\ Len(s) = 7 /\ s[5 + 1] = n \div 256 /\ s[5 + 2] = n % 256
  BY <1>1 DEF IsFrame, Id
<1>3. Num16(s, 6) = n
  BY <1>2 DEF Num16
<1>4. ~ \E t \in BareTypes : Id[t] = s[5]
  BY <1>2, ParseOther
<1> QED
  BY <1>2, <1>3, <1>4 DEF Parse

\* The parser undoes the serializer, for every message.
LEMMA RoundTrip ==
    ASSUME NEW m \in WireMessage
    PROVE  Deserialize(Serialize(m)) = m
<1>1. CASE m.type = "KeepAlive"
  <2> DEFINE s == U32(0)
  <2>1. Serialize(m) = s
    BY <1>1 DEF Serialize, BareTypes, RangedTypes
  <2>2. Len(s) = 4 /\ \A i \in 0 .. 3 : s[1 + i] = U32(0)[i + 1]
    BY SMTT(30) DEF U32
  <2> HIDE DEF s
  <2>3. Num32(s, 1) = 0
    BY <2>2, Num32Inverts
  <2>4. Deserialize(s) = Bare("KeepAlive")
    BY <2>2, <2>3 DEF Deserialize
  <2>5. m = Bare("KeepAlive")
    BY <1>1 DEF WireMessage, Bare, RangedTypes
  <2> QED
    BY <2>1, <2>4, <2>5, Zenon
<1>2. CASE m.type # "KeepAlive"
  <2> DEFINE type == m.type
             p == Payload(m)
             s == Serialize(m)
  <2>1. /\ type \in DOMAIN Id /\ p \in Seq(Nat) /\ FixedSize(type, Len(p))
        /\ s = Frame(type, p)
    BY <1>2, SerializeIsFrame, Zenon
  <2>2. IsFrame(s, type, p)
    <3> HIDE DEF type, p, s
    <3>1. IsFrame(Frame(type, p), type, p)
      BY <2>1, FrameBytes DEF IsFrame
    <3> QED
      BY <2>1, <3>1, Zenon
  <2>3. Deserialize(s) = Parse(s, Len(p) + 1)
    <3> HIDE DEF type, p, s
    <3>1. Len(s) \in Nat /\ Len(s) >= 5
      BY <2>1, <2>2 DEF IsFrame
    <3> QED
      BY <2>1, <3>1, DeserializeFrame
  <2>4. Parse(s, Len(p) + 1) = m
    <3>1. CASE type \in BareTypes
      <4>1. m = Bare(type)
        BY <3>1 DEF WireMessage, Bare, BareTypes, RangedTypes
      <4>2. s[5] = Id[type]
        BY <2>2, Zenon DEF IsFrame
      <4>3. Parse(s, Len(p) + 1) = Bare(type)
        BY <3>1, <4>2, ParseBare, Zenon
      <4> QED
        BY <4>1, <4>3, Zenon
    <3>2. CASE type = "Have"
      <4>1. m.index \in Nat /\ m = Have(m.index) /\ p = U32(m.index)
        BY <3>2 DEF WireMessage, Have, Payload, BareTypes, RangedTypes
      <4>2. Len(p) + 1 = 5
        <5>1. Len(p) = 4
          BY <2>1, <3>2 DEF FixedSize
        <5> QED
          BY <5>1
      <4>3. Parse(s, 5) = Have(m.index)
        BY <2>2, <3>2, <4>1, ParseHave, Zenon
      <4> QED
        BY <4>1, <4>2, <4>3
    <3>3. CASE type = "Bitfield"
      <4>1. m.bytes \in Seq(Nat) /\ m = Bitfield(m.bytes) /\ p = m.bytes
        BY <3>3 DEF WireMessage, Bitfield, Payload, BareTypes, RangedTypes
      <4>2. Parse(s, Len(p) + 1) = Bitfield(p)
        BY <2>1, <2>2, <3>3, ParseBitfield, Zenon
      <4> QED
        BY <4>1, <4>2, Zenon
    <3>4. CASE type \in RangedTypes
      <4>1. /\ m.index \in Nat /\ m.begin \in Nat /\ m.length \in Nat
            /\ m = Ranged(type, m.index, m.begin, m.length)
            /\ p = U32(m.index) \o U32(m.begin) \o U32(m.length)
        BY <3>4 DEF WireMessage, Ranged, Payload, BareTypes, RangedTypes
      <4>2. Len(p) + 1 = 13
        <5>1. Len(p) = 12
          BY <2>1, <3>4 DEF FixedSize
        <5> QED
          BY <5>1
      <4>3. Parse(s, 13) = Ranged(type, m.index, m.begin, m.length)
        BY <2>2, <3>4, <4>1, ParseRanged, Zenon
      <4> QED
        BY <4>1, <4>2, <4>3
    <3>5. CASE type = "Piece"
      <4>1. /\ m.index \in Nat /\ m.begin \in Nat /\ m.block \in Seq(Nat)
            /\ m = PieceMsg(m.index, m.begin, m.block)
            /\ p = U32(m.index) \o U32(m.begin) \o m.block
        BY <3>5 DEF WireMessage, PieceMsg, Payload, BareTypes, RangedTypes
      <4>2. Parse(s, Len(p) + 1) = PieceMsg(m.index, m.begin, m.block)
        <5>1. IsFrame(s, "Piece", U32(m.index) \o U32(m.begin) \o m.block)
          BY <2>2, <3>5, <4>1, Zenon
        <5>2. Parse(s, Len(U32(m.index) \o U32(m.begin) \o m.block) + 1)
                = PieceMsg(m.index, m.begin, m.block)
          <6> HIDE DEF s
          <6> QED
            BY <4>1, <5>1, ParsePiece
        <5> QED
          BY <4>1, <5>2, Zenon
      <4> QED
        BY <4>1, <4>2, Zenon
    <3>6. CASE type = "Port"
      <4>1. m.port \in Nat /\ m = Port(m.port) /\ p = U16(m.port)
        BY <3>6 DEF WireMessage, Port, Payload, BareTypes, RangedTypes
      <4>2. Len(p) + 1 = 3
        <5>1. Len(p) = 2
          BY <2>1, <3>6 DEF FixedSize
        <5> QED
          BY <5>1
      <4>3. Parse(s, 3) = Port(m.port)
        BY <2>2, <3>6, <4>1, ParsePort, Zenon
      <4> QED
        BY <4>1, <4>2, <4>3
    <3> QED
      BY <1>2, <3>1, <3>2, <3>3, <3>4, <3>5, <3>6 DEF WireMessage
  <2> QED
    BY <2>3, <2>4, Zenon
<1> QED
  BY <1>1, <1>2
=============================================================================
