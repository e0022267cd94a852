------------------------------- MODULE Message -------------------------------
(***************************************************************************)
(* core/peer/message.rs: the peer wire messages, their serialization to    *)
(* bytes and the parser that undoes it.                                    *)
(***************************************************************************)
EXTENDS Integers, Sequences

Bare(t) == [type |-> t]
Have(i) == [type |-> "Have", index |-> i]
Bitfield(bs) == [type |-> "Bitfield", bytes |-> bs]
Ranged(t, i, b, n) == [type |-> t, index |-> i, begin |-> b, length |-> n]
PieceMsg(i, b, bs) == [type |-> "Piece", index |-> i, begin |-> b, block |-> bs]
Port(n) == [type |-> "Port", port |-> n]

\* The message ids, as in the code's two matches.
Id ==
    [Choke |-> 0, UnChoke |-> 1, Interested |-> 2, NotInterested |-> 3, Have |-> 4,
     Bitfield |-> 5, Request |-> 6, Piece |-> 7, Cancel |-> 8, Port |-> 9]

BareTypes == {"Choke", "UnChoke", "Interested", "NotInterested"}
RangedTypes == {"Request", "Cancel"}

\* The messages, as far as their bytes and numbers are numbers.
WireMessage ==
    [type : BareTypes \cup {"KeepAlive"}]
    \cup [type : {"Have"}, index : Nat]
    \cup [type : {"Bitfield"}, bytes : Seq(Nat)]
    \cup [type : RangedTypes, index : Nat, begin : Nat, length : Nat]
    \cup [type : {"Piece"}, index : Nat, begin : Nat, block : Seq(Nat)]
    \cup [type : {"Port"}, port : Nat]

\* Big-endian numbers; n and the bytes stay small enough for TLC's integers.
U16(n) == <<n \div 256, n % 256>>
U32(n) == <<n \div 16777216, (n \div 65536) % 256, (n \div 256) % 256, n % 256>>
Num16(bs, k) == 256 * bs[k] + bs[k + 1]
Num32(bs, k) == 16777216 * bs[k] + 65536 * bs[k + 1] + 256 * bs[k + 2] + bs[k + 3]

Frame(type, payload) == U32(Len(payload) + 1) \o <<Id[type]>> \o payload

Serialize(m) ==
    CASE m.type = "KeepAlive"     -> U32(0)
      [] m.type \in BareTypes     -> Frame(m.type, <<>>)
      [] m.type = "Have"          -> Frame("Have", U32(m.index))
      [] m.type = "Bitfield"      -> Frame("Bitfield", m.bytes)
      [] m.type \in RangedTypes   -> Frame(m.type, U32(m.index) \o U32(m.begin) \o U32(m.length))
      [] m.type = "Piece"         -> Frame("Piece", U32(m.index) \o U32(m.begin) \o m.block)
      [] m.type = "Port"          -> Frame("Port", U16(m.port))

Bad == [type |-> "MessageError"]

From(bs, k) == SubSeq(bs, k, Len(bs))

\* Mutant: the block is taken to start behind the piece index.
BlockBehindIndex(bs) == From(bs, 10)

BlockOf(bs) == From(bs, 14)

\* Mutant: the id is counted twice.
PayloadAlmostThere(bs, len) == Len(bs) >= 3 + len

\* A payload of variable length is there as far as the prefix announces it.
PayloadThere(bs, len) == Len(bs) >= 4 + len

\* The message behind a length prefix of len > 0.  Fixed-size messages are
\* checked against the size of the buffer, the others against the prefix; the
\* subtraction of a header larger than the prefix wraps to a length no buffer has
\* (a debug build panics there: the connection ends either way).
Parse(bs, len) ==
    LET id == bs[5]
    IN  CASE \E t \in BareTypes : Id[t] = id
               -> Bare(CHOOSE t \in BareTypes : Id[t] = id)
          [] id = 4 /\ Len(bs) = 9
               -> Have(Num32(bs, 6))
          [] id = 5 /\ PayloadThere(bs, len)
               -> Bitfield(From(bs, 6))
          [] id \in {6, 8} /\ Len(bs) = 17
               -> Ranged(IF id = 6 THEN "Request" ELSE "Cancel",
                         Num32(bs, 6), Num32(bs, 10), Num32(bs, 14))
          [] id = 7 /\ len >= 9 /\ PayloadThere(bs, len)
               -> PieceMsg(Num32(bs, 6), Num32(bs, 10), BlockOf(bs))
          [] id = 9 /\ Len(bs) = 7
               -> Port(Num16(bs, 6))
          [] OTHER -> Bad

\* The buffer is expected to begin with the length prefix.
Deserialize(bs) ==
    IF Len(bs) < 4 THEN Bad
    ELSE IF Num32(bs, 1) = 0 THEN Bare("KeepAlive")
    ELSE IF Len(bs) < 5 THEN Bad
    ELSE Parse(bs, Num32(bs, 1))
=============================================================================
