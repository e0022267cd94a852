----------------------------- MODULE MessageCodec -----------------------------
(***************************************************************************)
(* What Message::serialize_into and Message::deserialize are to each other, *)
(* for messages of every kind: not only those of a run of PeerConnection,   *)
(* most of which do not get past the parser as the program calls it.        *)
(***************************************************************************)
EXTENDS PeerConnection

CONSTANT Messages  \* the messages written and read

\* Message's variants: their numbers and bytes are unsigned.
ASSUME CodecAssumption == Messages \subseteq WireMessage

\* serialize_into appends to the buffer it is given.
SerializedInto(m) == buf \o Serialize(m)

\* deserialize undoes serialize_into on an empty buffer, as send_bitfield and the
\* first command find it: the layouts, ids and byte orders of the two matches in
\* message.rs agree for every kind of message.
ParserInvertsSerializer ==
    buf = <<>> => \A m \in Messages : Deserialize(SerializedInto(m)) = m

\* "The message is too short to be valid" is an error of deserialize: a frame
\* cut off anywhere is never taken for a message, neither for a shorter payload
\* of its own kind nor for another kind.
CutOffIsRejected ==
    buf = <<>> => \A m \in Messages : \A n \in 0 .. Len(Serialize(m)) - 1 :
        Deserialize(SubSeq(SerializedInto(m), 1, n)) = Bad
=============================================================================
