------------------------- MODULE MessageCodecProofs -------------------------
(***************************************************************************)
(* The properties of MessageCodec, for any messages.                       *)
(***************************************************************************)
EXTENDS MessageCodec, MessageProofs, TLAPS

LEMMA IntoEmptyBuffer ==
    ASSUME NEW m \in Messages, buf = <<>>
    PROVE  /\ m \in WireMessage
           /\ Serialize(m) \in Seq(Nat)
           /\ SerializedInto(m) = Serialize(m)
<1>1. m \in WireMessage /\ Serialize(m) \in Seq(Nat)
  BY CodecAssumption, SerializeType
<1> DEFINE s == Serialize(m)
<1> HIDE DEF s
<1>2. s \in Seq(Nat)
  BY <1>1 DEF s
<1>3. <<>> \o s = s
  BY <1>2
<1> QED
  BY <1>1, <1>3 DEF SerializedInto, s

\* deserialize undoes serialize_into for messages with any numbers and payloads.
THEOREM ParserInverts == Spec => []ParserInvertsSerializer
<1>1. ParserInvertsSerializer
  BY IntoEmptyBuffer, RoundTrip DEF ParserInvertsSerializer
<1> QED
  BY <1>1, PTL

\* A frame of any message, cut off anywhere, is an error of deserialize.
THEOREM CutOffRejected == Spec => []CutOffIsRejected
<1>1. CutOffIsRejected
  <2> SUFFICES ASSUME buf = <<>>, NEW m \in Messages,
                      NEW n \in 0 .. Len(Serialize(m)) - 1
               PROVE  Deserialize(SubSeq(SerializedInto(m), 1, n)) = Bad
    BY DEF CutOffIsRejected
  <2> DEFINE s == Serialize(m)
             bs == SubSeq(s, 1, n)
  <2>1. m \in WireMessage /\ s \in Seq(Nat) /\ SerializedInto(m) = s
    BY IntoEmptyBuffer
  <2>2. n \in Nat /\ n < Len(s)
    BY <2>1, LenProperties
  <2>3. Deserialize(bs) = Bad
    <3> HIDE DEF s
    <3>1. Len(bs) = n /\ \A i \in 1 .. n : bs[i] = s[i]
      BY <2>1, <2>2, SubSeqProperties
    <3> QED
      BY <2>1, <2>2, <3>1, CutOff DEF s
  <2> QED
    BY <2>1, <2>3
<1> QED
  BY <1>1, PTL
=============================================================================
