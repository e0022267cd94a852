------------------------ MODULE PeerConnectionProofs ------------------------
(***************************************************************************)
(* Theorems of PeerConnection: for any capacities of its channels and any  *)
(* messages and commands, run() tells the manager every change of          *)
(* peer_choking, and serializes every command once and in order.           *)
(*                                                                         *)
(* The invariant CInv gives every variable its type, says what is still to *)
(* be reported when peer_choking and the manager disagree (ToldInv), and   *)
(* holds CommandsKeepOrder, which is inductive with it.                    *)
(*                                                                         *)
(* Without(d, s) is a recursive function over the prefixes of s, so its    *)
(* lemmas are proved by induction on their length.                         *)
(***************************************************************************)
EXTENDS PeerConnection, MessageProofs

-----------------------------------------------------------------------------
(* The members of a sequence other than one. *)

\* f is the recursive function of Without(d, s), over prefixes up to length m.
Kept(d, s, f, m) ==
    f = [n \in 0 .. m |->
            IF n = 0 THEN <<>>
            ELSE IF s[n] = d THEN f[n - 1] ELSE Append(f[n - 1], s[n])]

\* That function exists: extend the one for m by a value for m + 1.
LEMMA KeptExists ==
    ASSUME NEW d, NEW s, NEW m \in Nat
    PROVE  \E f : Kept(d, s, f, m)
<1> DEFINE S == {k \in Nat : \E f : Kept(d, s, f, k)}
<1>1. 0 \in S
  <2>1. Kept(d, s, [n \in 0 .. 0 |-> <<>>], 0)
    BY DEF Kept
  <2> QED
    BY <2>1, Zenon
<1>2. ASSUME NEW k \in Nat, k \in S PROVE k + 1 \in S
  <2>1. PICK f : Kept(d, s, f, k)
    BY <1>2
  <2> DEFINE g == [n \in 0 .. k + 1 |->
                     IF n = k + 1
                     THEN IF s[k + 1] = d THEN f[k] ELSE Append(f[k], s[k + 1])
                     ELSE f[n]]
             h == [n \in 0 .. k + 1 |->
                     IF n = 0 THEN <<>>
                     ELSE IF s[n] = d THEN g[n - 1] ELSE Append(g[n - 1], s[n])]
  <2>2. ASSUME NEW n \in 0 .. k + 1 PROVE g[n] = h[n]
    <3>1. CASE n = k + 1
      <4>1. n # 0 /\ n - 1 = k /\ k \in 0 .. k + 1 /\ k # k + 1
        BY <3>1
      <4>2. g[k] = f[k]
        BY <4>1
      <4> QED
        BY <3>1, <4>1, <4>2
    <3>2. CASE n # k + 1
      <4>1. n \in 0 .. k /\ g[n] = f[n]
        BY <3>2
      <4>2. f[n] = IF n = 0 THEN <<>>
                   ELSE IF s[n] = d THEN f[n - 1] ELSE Append(f[n - 1], s[n])
        BY <2>1, <4>1 DEF Kept
      <4>3. n # 0 => n - 1 \in 0 .. k + 1 /\ n - 1 # k + 1
        OBVIOUS
      <4>4. n # 0 => g[n - 1] = f[n - 1]
        BY <4>3
      <4> QED
        BY <4>1, <4>2, <4>4
    <3> QED
      BY <3>1, <3>2
  <2>3. g = h
    BY <2>2
  <2>4. Kept(d, s, g, k + 1)
    BY <2>3, Zenon DEF Kept
  <2> QED
    BY <2>4
<1> HIDE DEF S
<1>3. m \in S
  BY <1>1, <1>2, Induction
<1> QED
  BY <1>3 DEF S

\* Without is a value of such a function.
LEMMA WithoutIsKept ==
    ASSUME NEW d, NEW s, Len(s) \in Nat
    PROVE  \E f : Kept(d, s, f, Len(s)) /\ Without(d, s) = f[Len(s)]
<1> DEFINE f == CHOOSE f : Kept(d, s, f, Len(s))
<1>1. Kept(d, s, f, Len(s))
  BY KeptExists, Zenon
<1>2. Without(d, s) = f[Len(s)]
  BY Zenon DEF Without, Kept
<1> QED
  BY <1>1, <1>2, Zenon

\* The same function, prefix after prefix.
Grows(d, s, f, m) ==
    /\ f[0] = <<>>
    /\ \A n \in 0 .. m - 1 :
          f[n + 1] = IF s[n + 1] = d THEN f[n] ELSE Append(f[n], s[n + 1])

\* The recursive definition gives the values one after the other.
LEMMA KeptStep ==
    ASSUME NEW d, NEW s, NEW m \in Nat, NEW f, Kept(d, s, f, m)
    PROVE  Grows(d, s, f, m)
<1>1. f[0] = <<>>
  BY DEF Kept
<1>2. ASSUME NEW n \in 0 .. m - 1
      PROVE  f[n + 1] = IF s[n + 1] = d THEN f[n] ELSE Append(f[n], s[n + 1])
  <2>1. n + 1 \in 0 .. m /\ n + 1 # 0 /\ n + 1 - 1 = n
    OBVIOUS
  <2> DEFINE j == n + 1
  <2>2. f[j] = IF j = 0 THEN <<>>
                 ELSE IF s[j] = d THEN f[j - 1] ELSE Append(f[j - 1], s[j])
    BY <2>1, Zenon DEF Kept
  <2> QED
    BY <2>1, <2>2
<1> QED
  BY <1>1, <1>2 DEF Grows

\* Without is the last value reached that way.
LEMMA WithoutGrows ==
    ASSUME NEW d, NEW s, Len(s) \in Nat
    PROVE  \E f : Grows(d, s, f, Len(s)) /\ Without(d, s) = f[Len(s)]
<1>1. PICK f : Kept(d, s, f, Len(s)) /\ Without(d, s) = f[Len(s)]
  BY WithoutIsKept
<1>2. Grows(d, s, f, Len(s))
  BY <1>1, KeptStep
<1> QED
  BY <1>1, <1>2

\* Every value on the way is a sequence over the elements of s.
LEMMA KeptType ==
    ASSUME NEW X, NEW d, NEW s \in Seq(X), NEW f,
           Grows(d, s, f, Len(s)), NEW n \in 0 .. Len(s)
    PROVE  f[n] \in Seq(X)
<1> DEFINE S == {k \in Nat : k <= Len(s) => f[k] \in Seq(X)}
<1>1. Len(s) \in Nat
  BY LenProperties
<1>2. 0 \in S
  <2>1. f[0] = <<>>
    BY DEF Grows
  <2>2. <<>> \in Seq(X)
    BY EmptySeq
  <2>3. f[0] \in Seq(X)
    BY <2>1, <2>2, Zenon
  <2> QED
    BY <2>3
<1>3. ASSUME NEW k \in Nat, k \in S PROVE k + 1 \in S
  <2> SUFFICES ASSUME k + 1 <= Len(s) PROVE f[k + 1] \in Seq(X)
    OBVIOUS
  <2>1. k \in 0 .. Len(s) - 1 /\ k <= Len(s) /\ k + 1 \in 1 .. Len(s)
    BY <1>1
  <2>2. f[k] \in Seq(X) /\ s[k + 1] \in X
    BY <1>3, <2>1, ElementOfSeq
  <2>3. f[k + 1] = IF s[k + 1] = d THEN f[k] ELSE Append(f[k], s[k + 1])
    BY <1>1, <2>1 DEF Grows
  <2> QED
    BY <2>2, <2>3, AppendProperties
<1> HIDE DEF S
<1>4. n \in S
  BY <1>1, <1>2, <1>3, Induction
<1> QED
  BY <1>1, <1>4 DEF S

\* Nothing is left of the empty sequence.
LEMMA WithoutEmpty == ASSUME NEW d PROVE Without(d, <<>>) = <<>>
<1>1. Len(<<>>) = 0
  OBVIOUS
<1> QED
  <2>1. \E f : Grows(d, <<>>, f, Len(<<>>)) /\ Without(d, <<>>) = f[Len(<<>>)]
    BY <1>1, WithoutGrows
  <2> QED
    BY <1>1, <2>1 DEF Grows

\* What is left is a sequence over the same elements.
LEMMA WithoutType ==
    ASSUME NEW X, NEW d, NEW s \in Seq(X)
    PROVE  Without(d, s) \in Seq(X)
<1>1. Len(s) \in Nat /\ Len(s) \in 0 .. Len(s)
  BY LenProperties
<1>2. PICK f : Grows(d, s, f, Len(s)) /\ Without(d, s) = f[Len(s)]
  BY <1>1, WithoutGrows
<1> QED
  BY <1>1, <1>2, KeptType

\* One more element at the end is one more at the end of what is left, or none:
\* what issuing a command does to the commands issued.
LEMMA WithoutAppend ==
    ASSUME NEW X, NEW d, NEW s \in Seq(X), NEW c \in X
    PROVE  Without(d, Append(s, c)) =
              IF c = d THEN Without(d, s) ELSE Append(Without(d, s), c)
<1> DEFINE r == Append(s, c)
           m == Len(s)
<1>1. /\ m \in Nat /\ Len(r) = m + 1 /\ r[m + 1] = c
      /\ \A n \in 1 .. m : r[n] = s[n]
  BY AppendProperties, LenProperties
<1>2. PICK f : Grows(d, s, f, m) /\ Without(d, s) = f[m]
  BY <1>1, WithoutGrows
<1>3. Len(r) \in Nat
  BY <1>1
<1>4. PICK g : Grows(d, r, g, Len(r)) /\ Without(d, r) = g[Len(r)]
  BY <1>3, WithoutGrows
<1> HIDE DEF r, m
<1> DEFINE S == {k \in Nat : k <= m => g[k] = f[k]}
<1>5. f[0] = <<>> /\ g[0] = <<>>
  BY <1>1, <1>2, <1>3, <1>4 DEF Grows
<1>6. 0 \in S
  BY <1>5
<1>7. ASSUME NEW k \in Nat, k \in S PROVE k + 1 \in S
  <2> SUFFICES ASSUME k + 1 <= m PROVE g[k + 1] = f[k + 1]
    OBVIOUS
  <2>1. k \in 0 .. m - 1 /\ k \in 0 .. Len(r) - 1 /\ k + 1 \in 1 .. m /\ k <= m
    BY <1>1
  <2>2. f[k + 1] = IF s[k + 1] = d THEN f[k] ELSE Append(f[k], s[k + 1])
    BY <1>1, <1>2, <2>1 DEF Grows
  <2>3. g[k + 1] = IF r[k + 1] = d THEN g[k] ELSE Append(g[k], r[k + 1])
    BY <1>3, <1>4, <2>1 DEF Grows
  <2>4. g[k] = f[k] /\ r[k + 1] = s[k + 1]
    BY <1>1, <1>7, <2>1
  <2> QED
    BY <2>2, <2>3, <2>4, Zenon
<1> HIDE DEF S
<1>8. m \in S
  BY <1>1, <1>6, <1>7, Induction
<1>9. g[m] = f[m]
  BY <1>1, <1>8 DEF S
<1>10. m \in 0 .. Len(r) - 1
  BY <1>1
<1>11. g[m + 1] = IF r[m + 1] = d THEN g[m] ELSE Append(g[m], r[m + 1])
  BY <1>3, <1>4, <1>10 DEF Grows
<1> QED
  BY <1>1, <1>2, <1>4, <1>9, <1>11, Zenon DEF r

\* What is left of the first element comes before what is left of the others:
\* what taking a command does to the commands waiting.
LEMMA WithoutHead ==
    ASSUME NEW X, NEW d, NEW s \in Seq(X), s # <<>>
    PROVE  Without(d, s) =
              (IF Head(s) = d THEN <<>> ELSE <<Head(s)>>) \o Without(d, Tail(s))
<1> DEFINE r == Tail(s)
           m == Len(r)
           first == IF Head(s) = d THEN <<>> ELSE <<Head(s)>>
<1>1. /\ m \in Nat /\ Len(s) = m + 1 /\ r \in Seq(X)
      /\ Head(s) = s[1] /\ s[1] \in X
      /\ \A n \in 1 .. m : r[n] = s[n + 1] /\ r[n] \in X
  <2>1. /\ Len(s) \in Nat \ {0} /\ r \in Seq(X) /\ Len(r) = Len(s) - 1
        /\ Head(s) = s[1] /\ Head(s) \in X
    BY HeadTailProperties, LenProperties, EmptySeq
  <2>2. \A n \in 1 .. m : r[n] = s[n + 1]
    BY HeadTailProperties
  <2>3. \A n \in 1 .. m : r[n] \in X
    BY <2>1, ElementOfSeq
  <2> QED
    BY <2>1, <2>2, <2>3
<1>2. Len(s) \in Nat
  BY <1>1
<1>3. PICK f : Grows(d, s, f, Len(s)) /\ Without(d, s) = f[Len(s)]
  BY <1>2, WithoutGrows
<1>4. PICK g : Grows(d, r, g, m) /\ Without(d, r) = g[m]
  BY <1>1, WithoutGrows
<1>5. first \in Seq(X)
  BY <1>1
<1>6. \A n \in 0 .. m : g[n] \in Seq(X)
  BY <1>1, <1>4, KeptType
<1>11. /\ f[0] = <<>>
       /\ \A n \in 0 .. Len(s) - 1 :
             f[n + 1] = IF s[n + 1] = d THEN f[n] ELSE Append(f[n], s[n + 1])
  BY <1>2, <1>3 DEF Grows
<1>12. /\ g[0] = <<>>
       /\ \A n \in 0 .. m - 1 :
             g[n + 1] = IF r[n + 1] = d THEN g[n] ELSE Append(g[n], r[n + 1])
  BY <1>1, <1>4 DEF Grows
<1> HIDE DEF r, m, first
<1> DEFINE S == {k \in Nat : k <= m => f[k + 1] = first \o g[k]}
<1>7. 0 \in S
  <2>1. g[0] = <<>> /\ f[0] = <<>>
    BY <1>11, <1>12
  <2>2. 0 \in 0 .. Len(s) - 1
    BY <1>1
  <2>3. f[0 + 1] = IF s[0 + 1] = d THEN f[0] ELSE Append(f[0], s[0 + 1])
    BY <1>11, <2>2, Zenon
  <2>4. Append(<<>>, s[1]) = <<s[1]>>
    BY <1>1
  <2>5. f[1] = first
    BY <1>1, <2>1, <2>3, <2>4 DEF first
  <2>6. first \o <<>> = first
    BY <1>5, ConcatEmptySeq
  <2>7. f[0 + 1] = first \o g[0]
    BY <2>1, <2>5, <2>6
  <2> QED
    BY <2>7
<1>8. ASSUME NEW k \in Nat, k \in S PROVE k + 1 \in S
  <2> SUFFICES ASSUME k + 1 <= m PROVE f[(k + 1) + 1] = first \o g[k + 1]
    OBVIOUS
  <2>1. /\ k \in 0 .. m - 1 /\ k + 1 \in 0 .. Len(s) - 1 /\ k + 1 \in 1 .. m
        /\ k \in 0 .. m /\ k <= m
    BY <1>1
  <2>2. f[(k + 1) + 1] = IF s[(k + 1) + 1] = d THEN f[k + 1] ELSE Append(f[k + 1], s[(k + 1) + 1])
    BY <1>11, <2>1, Zenon
  <2>3. g[k + 1] = IF r[k + 1] = d THEN g[k] ELSE Append(g[k], r[k + 1])
    BY <1>12, <2>1, Zenon
  <2>4. r[k + 1] = s[(k + 1) + 1] /\ r[k + 1] \in X
    BY <1>1, <2>1, Zenon
  <2>5. f[k + 1] = first \o g[k] /\ g[k] \in Seq(X)
    BY <1>6, <1>8, <2>1
  <2>6. Append(first \o g[k], r[k + 1]) = first \o Append(g[k], r[k + 1])
    <3> DEFINE x == r[k + 1]
               b == g[k]
    <3>1. x \in X /\ b \in Seq(X) /\ <<x>> \in Seq(X) /\ first \o b \in Seq(X)
      BY <1>5, <2>4, <2>5, ConcatProperties
    <3> HIDE DEF x, b
    <3>2. Append(first \o b, x) = (first \o b) \o <<x>> /\ Append(b, x) = b \o <<x>>
      BY <3>1, AppendIsConcat
    <3>3. (first \o b) \o <<x>> = first \o (b \o <<x>>)
      BY <1>5, <3>1, ConcatAssociative
    <3> QED
      BY <3>2, <3>3, Zenon DEF x, b
  <2> QED
    BY <2>2, <2>3, <2>4, <2>5, <2>6, Zenon
<1> HIDE DEF S
<1>9. m \in S
  BY <1>1, <1>7, <1>8, Induction
<1>10. f[m + 1] = first \o g[m]
  BY <1>1, <1>9 DEF S
<1> QED
  BY <1>1, <1>3, <1>4, <1>10, Zenon DEF r, first

\* The types of the events that a message leads to.
EventNames == ParsedTypes \cup {"ReceivedPiece", "DownloadRate"}

-----------------------------------------------------------------------------
(* The invariant. *)

\* run() is at one of its stages and has ended for a reason or not at all.
StagesOK ==
    /\ stage \in {"start", "select", "write", "report", "ended"}
    /\ why \in {"", "closed", "io", "message", "report"}
    /\ (stage = "ended") <=> (why # "")
    /\ peerState \in [choking : BOOLEAN, interested : BOOLEAN]

\* The bytes of the stream and of the buffer are numbers, and a read fills no
\* more of the buffer than there is.
StreamOK ==
    /\ net \in Seq(Nat)
    /\ prefix \in Seq(Nat)
    /\ Len(prefix) <= 4
    /\ buf \in Seq(Int)
    /\ filled \in Nat
    /\ filled <= Len(buf)

\* The channels hold commands and events, at most as many as they have room for.
ChannelsOK ==
    /\ cmds \in Seq(Command)
    /\ Len(cmds) <= CmdCap
    /\ cmdOpen \in BOOLEAN
    /\ todo \in Seq(EventNames)
    /\ events \in Seq(EventNames)
    /\ Len(events) <= EventCap
    /\ eventsOpen \in BOOLEAN

\* The commands issued and those serialized, as recorded.
LogOK ==
    /\ DOMAIN log = {"sent", "eaten", "bounds", "issued", "wrote", "asked", "told"}
    /\ log.issued \in Seq(Command)
    /\ log.asked \in Seq(Commands \cup {OwnBitfield})

\* The events that tell the manager of peer_choking.
Tells == {"Choke", "UnChoke"}

\* The manager was told of the peer_choking the connection holds.
InStep == peerState.choking <=> log.told = "Choke"

\* Between two iterations the manager is in step; during handle_message it is,
\* unless the event that brings it in step is the one still to be sent.
ToldInv ==
    /\ stage \in {"start", "select", "write"} => InStep
    /\ stage = "report" =>
          \/ todo = <<"Choke">> /\ peerState.choking
          \/ todo = <<"UnChoke">> /\ ~peerState.choking
          \/ InStep /\ \A i \in 1 .. Len(todo) : todo[i] \notin Tells

\* The inductive invariant.
CInv ==
    /\ StagesOK
    /\ StreamOK
    /\ ChannelsOK
    /\ LogOK
    /\ ToldInv
    /\ CommandsKeepOrder

\* CommandsKeepOrder does not depend on what else a step changes.
LEMMA OrderFrame ==
    ASSUME CommandsKeepOrder, stage' # "ended" => stage # "ended", cmds' = cmds,
           log'.issued = log.issued, log'.asked = log.asked
    PROVE  CommandsKeepOrder'
BY DEF CommandsKeepOrder

\* Nor does ToldInv, between two iterations or when run() ends.
LEMMA ToldFrame ==
    ASSUME ToldInv, peerState' = peerState, log'.told = log.told, todo' = todo,
           \/ stage' = "ended"
           \/ stage' = stage
           \/ stage \in {"start", "select", "write"} /\ stage' \in {"select", "write"}
    PROVE  ToldInv'
BY DEF ToldInv, InStep

-----------------------------------------------------------------------------
(* Every step keeps the invariant. *)

\* A connection begins with empty channels and an untold, choking-free state
\* that agree.
LEMMA InitCInv == Init => CInv
<1> SUFFICES ASSUME Init PROVE CInv
  OBVIOUS
<1>1. \A X : <<>> \in Seq(X)
  BY EmptySeq
<1>2. StagesOK
  BY DEF Init, StagesOK
<1>3. StreamOK
  <2>1. /\ net \in Seq(Nat) /\ prefix \in Seq(Nat) /\ buf \in Seq(Int)
        /\ Len(prefix) = 0 /\ Len(buf) = 0 /\ filled = 0
    BY <1>1, Zenon DEF Init
  <2> QED
    BY <2>1 DEF StreamOK
<1>4. ChannelsOK
  <2>1. /\ cmds \in Seq(Command) /\ todo \in Seq(EventNames) /\ events \in Seq(EventNames)
        /\ cmdOpen = TRUE /\ eventsOpen = TRUE /\ cmds = <<>> /\ events = <<>>
    BY <1>1, Zenon DEF Init
  <2>2. Len(cmds) = 0 /\ Len(events) = 0
    BY <2>1
  <2> QED
    BY <2>1, <2>2, ConnectionAssumption DEF ChannelsOK
<1>5. LogOK
  BY <1>1 DEF Init, LogOK
<1>6. ToldInv
  BY DEF Init, ToldInv, InStep
<1>7. CommandsKeepOrder
  <2>1. cmds = <<>> /\ log.issued = <<>> /\ log.asked = <<>>
    BY DEF Init
  <2>2. \A d : Without(d, <<>>) = <<>>
    BY WithoutEmpty
  <2>3. <<>> \o <<>> = <<>>
    BY <1>1, ConcatEmptySeq
  <2> QED
    BY <2>1, <2>2, <2>3 DEF CommandsKeepOrder
<1> QED
  BY <1>2, <1>3, <1>4, <1>5, <1>6, <1>7 DEF CInv

\* Serializing a message appends numbers to the buffer.
LEMMA BufferGrows ==
    ASSUME StreamOK, NEW m \in WireMessage
    PROVE  /\ buf \o Serialize(m) \in Seq(Int)
           /\ filled <= Len(buf \o Serialize(m))
<1>1. buf \in Seq(Int) /\ Serialize(m) \in Seq(Int)
  <2>1. Serialize(m) \in Seq(Nat)
    BY SerializeType
  <2>2. \A i \in 1 .. Len(Serialize(m)) : Serialize(m)[i] \in Int
    BY <2>1, ElementOfSeq
  <2> QED
    BY <2>1, <2>2, SeqDef, LenProperties DEF StreamOK
<1>2. /\ buf \o Serialize(m) \in Seq(Int)
      /\ Len(buf \o Serialize(m)) = Len(buf) + Len(Serialize(m))
  BY <1>1, ConcatProperties
<1>3. Len(buf) \in Nat /\ Len(Serialize(m)) \in Nat
  BY <1>1, LenProperties
<1> QED
  BY <1>2, <1>3 DEF StreamOK

\* The message just serialized is the last one asked for, own bitfield apart.
LEMMA AppendAsked ==
    ASSUME LogOK, NEW c \in Commands \cup {OwnBitfield}
    PROVE  /\ Append(log.asked, c) \in Seq(Commands \cup {OwnBitfield})
           /\ Without(OwnBitfield, Append(log.asked, c)) =
                 IF c = OwnBitfield THEN Without(OwnBitfield, log.asked)
                 ELSE Append(Without(OwnBitfield, log.asked), c)
BY AppendProperties, WithoutAppend DEF LogOK

\* Serializing the own bitfield adds no command to the ones asked for.
LEMMA StartStep == ASSUME CInv, Start PROVE CInv'
<1> USE DEF CInv
<1>1. CASE stage' = "select"
  <2>1. buf' = buf /\ log' = log
    BY <1>1 DEF Start
  <2>2. StagesOK' /\ StreamOK' /\ ChannelsOK' /\ LogOK'
    BY <1>1, <2>1 DEF Start, StagesOK, StreamOK, ChannelsOK, LogOK
  <2>3. ToldInv' /\ CommandsKeepOrder'
    BY <1>1, <2>1, ToldFrame, OrderFrame DEF Start
  <2> QED
    BY <2>2, <2>3
<1>2. CASE stage' = "write"
  <2>1. /\ buf' = buf \o Serialize(OwnBitfield)
        /\ log' = [log EXCEPT !.asked = Append(@, OwnBitfield)]
        /\ UNCHANGED <<why, net, prefix, filled, todo, peerState, cmds, cmdOpen, events, eventsOpen>>
        /\ stage = "start"
    BY <1>2 DEF Start
  <2>2. StagesOK' /\ ChannelsOK'
    BY <1>2, <2>1 DEF StagesOK, ChannelsOK
  <2>3. StreamOK'
    BY <2>1, BufferGrows, ConnectionAssumption DEF StreamOK
  <2>4. /\ DOMAIN log' = DOMAIN log /\ log'.told = log.told /\ log'.issued = log.issued
        /\ log'.asked = Append(log.asked, OwnBitfield)
    BY <2>1 DEF LogOK
  <2>5. LogOK'
    BY <2>4, AppendAsked DEF LogOK
  <2>6. ToldInv'
    BY <1>2, <2>1, <2>4, ToldFrame
  <2>7. Without(OwnBitfield, log'.asked) = Without(OwnBitfield, log.asked)
    BY <2>4, AppendAsked
  <2>8. CommandsKeepOrder'
    BY <2>1, <2>4, <2>7 DEF CommandsKeepOrder
  <2> QED
    BY <2>2, <2>3, <2>5, <2>6, <2>8
<1> QED
  BY <1>1, <1>2 DEF Start

\* A command taken moves from the head of the waiting ones to the end of those
\* asked for; a Disconnect ends run().
LEMMA TakeCommandStep == ASSUME CInv, TakeCommand PROVE CInv'
<1> USE DEF CInv
<1> DEFINE h == Head(cmds)
           rest == Tail(cmds)
           done == Without(OwnBitfield, log.asked)
           left == Without(Disconnect, rest)
<1>1. /\ stage = "select" /\ cmds' = rest /\ prefix' = <<>> /\ filled' = 0
      /\ UNCHANGED <<why, net, todo, peerState, cmdOpen, events, eventsOpen>>
      /\ cmds # <<>> /\ cmds \in Seq(Command)
  BY DEF TakeCommand, ChannelsOK
<1>2. h \in Command /\ rest \in Seq(Command) /\ Len(rest) = Len(cmds) - 1
  BY <1>1, HeadTailProperties
<1>3. ChannelsOK'
  <2>1. Len(cmds) \in Nat
    BY <1>1, LenProperties
  <2>2. Len(rest) <= CmdCap
    BY <1>2, <2>1, ConnectionAssumption DEF ChannelsOK
  <2> QED
    BY <1>1, <1>2, <2>2 DEF ChannelsOK
<1>4. Without(Disconnect, cmds) = (IF h = Disconnect THEN <<>> ELSE <<h>>) \o left
  BY <1>1, WithoutHead
<1>5. left \in Seq(Command)
  BY <1>2, WithoutType
<1>6. Without(Disconnect, log.issued) = done \o Without(Disconnect, cmds)
  BY <1>1 DEF CommandsKeepOrder
<1>7. prefix' \in Seq(Nat) /\ Len(prefix') = 0
  BY <1>1, EmptySeq
<1> HIDE DEF h, rest, left
<1>8. CASE h = Disconnect
  <2>1. stage' = stage /\ buf' = buf /\ log' = log
    BY <1>8 DEF TakeCommand, h
  <2>2. StagesOK' /\ LogOK' /\ ToldInv'
    BY <1>1, <2>1, ToldFrame DEF StagesOK, LogOK
  <2>3. Len(buf) \in Nat
    BY LenProperties DEF StreamOK
  <2>4. StreamOK'
    BY <1>1, <1>7, <2>1, <2>3 DEF StreamOK
  <2>5. <<>> \o left = left
    BY <1>5, ConcatEmptySeq
  <2>6. CommandsKeepOrder'
    BY <1>1, <1>4, <1>6, <1>8, <2>1, <2>5 DEF CommandsKeepOrder, left
  <2> QED
    BY <1>3, <2>2, <2>4, <2>6
<1>9. CASE h # Disconnect
  <2>1. /\ stage' = "write" /\ buf' = buf \o Serialize(h)
        /\ log' = [log EXCEPT !.asked = Append(@, h)]
    BY <1>9 DEF TakeCommand, h
  <2>2. h \in Commands /\ h \in WireMessage /\ h # OwnBitfield
    BY <1>2, <1>9, ConnectionAssumption DEF Command
  <2>3. StagesOK'
    BY <1>1, <2>1 DEF StagesOK
  <2>4. buf' \in Seq(Int) /\ Len(buf') \in Nat
    BY <2>1, <2>2, BufferGrows, LenProperties
  <2>5. StreamOK'
    BY <1>1, <1>7, <2>4 DEF StreamOK
  <2>6. /\ DOMAIN log' = DOMAIN log /\ log'.told = log.told /\ log'.issued = log.issued
        /\ log'.asked = Append(log.asked, h)
    BY <2>1 DEF LogOK
  <2>7. LogOK' /\ Without(OwnBitfield, log'.asked) = Append(done, h)
    BY <2>2, <2>6, AppendAsked DEF LogOK
  <2>8. ToldInv'
    BY <1>1, <2>1, <2>6, ToldFrame
  <2>9. done \in Seq(Command \cup {OwnBitfield})
    <3>1. log.asked \in Seq(Commands \cup {OwnBitfield})
      BY DEF LogOK
    <3>2. done \in Seq(Commands \cup {OwnBitfield})
      BY <3>1, WithoutType
    <3>3. \A i \in 1 .. Len(done) : done[i] \in Command \cup {OwnBitfield}
      BY <3>2, ElementOfSeq DEF Command
    <3> QED
      BY <3>2, <3>3, SeqDef, LenProperties
  <2>10. done \o (<<h>> \o left) = Append(done, h) \o left
    <3> DEFINE X == Command \cup {OwnBitfield}
    <3> HIDE DEF done
    <3>1. h \in X /\ <<h>> \in Seq(X) /\ done \in Seq(X) /\ left \in Seq(X)
      <4>1. \A i \in 1 .. Len(left) : left[i] \in X
        BY <1>5, ElementOfSeq
      <4> QED
        BY <1>2, <1>5, <2>9, <4>1, SeqDef, LenProperties
    <3> HIDE DEF X
    <3>2. (done \o <<h>>) \o left = done \o (<<h>> \o left)
      BY <3>1, ConcatAssociative
    <3>3. Append(done, h) = done \o <<h>>
      BY <3>1, AppendIsConcat
    <3> QED
      BY <3>2, <3>3
  <2>11. CommandsKeepOrder'
    BY <1>1, <1>4, <1>6, <1>9, <2>6, <2>7, <2>10 DEF CommandsKeepOrder, left
  <2> QED
    BY <1>3, <2>3, <2>5, <2>7, <2>8, <2>11
<1> QED
  BY <1>8, <1>9

\* Writing, the ends of run() and the ends of channels change none of what the
\* invariant relates.
LEMMA QuietStep ==
    ASSUME CInv, Write \/ CommandsClosed \/ IoError \/ DropSender \/ DropReceiver
    PROVE  CInv'
<1> USE DEF CInv
<1>1. /\ UNCHANGED <<net, prefix, filled, buf, todo, peerState, cmds, events>>
      /\ \/ stage' = "ended" /\ why' \in {"closed", "io"}
         \/ stage' = stage /\ why' = why
         \/ stage = "write" /\ stage' = "select" /\ why' = why
      /\ cmdOpen' \in BOOLEAN /\ eventsOpen' \in BOOLEAN
  BY DEF Write, CommandsClosed, IoError, DropSender, DropReceiver, End, ChannelsOK
<1>2. /\ DOMAIN log' = DOMAIN log /\ log'.told = log.told
      /\ log'.issued = log.issued /\ log'.asked = log.asked
  BY DEF Write, CommandsClosed, IoError, DropSender, DropReceiver, LogOK
<1>3. StagesOK'
  BY <1>1 DEF StagesOK
<1>4. StreamOK' /\ ChannelsOK' /\ LogOK'
  BY <1>1, <1>2 DEF StreamOK, ChannelsOK, LogOK
<1>5. ToldInv'
  BY <1>1, <1>2, ToldFrame
<1>6. CommandsKeepOrder'
  BY <1>1, <1>2, OrderFrame
<1> QED
  BY <1>3, <1>4, <1>5, <1>6

\* The manager takes an event: the channel gets shorter.
LEMMA TakeEventStep == ASSUME CInv, TakeEvent PROVE CInv'
<1> USE DEF CInv
<1>1. /\ UNCHANGED <<stage, why, net, prefix, filled, buf, todo, peerState, cmds, cmdOpen,
                     eventsOpen, log>>
      /\ events # <<>> /\ events' = Tail(events)
  BY DEF TakeEvent
<1>2. events' \in Seq(EventNames) /\ Len(events') = Len(events) - 1 /\ Len(events) \in Nat
  BY <1>1, HeadTailProperties, LenProperties DEF ChannelsOK
<1>3. ChannelsOK'
  BY <1>1, <1>2, ConnectionAssumption DEF ChannelsOK
<1>4. StagesOK' /\ StreamOK' /\ LogOK'
  BY <1>1 DEF StagesOK, StreamOK, LogOK
<1>5. ToldInv' /\ CommandsKeepOrder'
  BY <1>1, ToldFrame, OrderFrame
<1> QED
  BY <1>3, <1>4, <1>5

\* The peer sends a message: its bytes join the stream.
LEMMA PeerSendsStep ==
    ASSUME CInv, NEW m \in PeerMessages, PeerSends(m)
    PROVE  CInv'
<1> USE DEF CInv
<1>1. /\ UNCHANGED <<stage, why, prefix, filled, buf, todo, peerState, cmds, cmdOpen,
                     events, eventsOpen>>
      /\ net' = net \o Serialize(m)
  BY DEF PeerSends
<1>2. /\ DOMAIN log' = DOMAIN log /\ log'.told = log.told
      /\ log'.issued = log.issued /\ log'.asked = log.asked
  BY DEF PeerSends, LogOK
<1>3. net' \in Seq(Nat)
  <2>1. net \in Seq(Nat) /\ Serialize(m) \in Seq(Nat)
    BY SerializeType, ConnectionAssumption DEF StreamOK
  <2> QED
    BY <1>1, <2>1, ConcatProperties
<1>4. StreamOK'
  BY <1>1, <1>3 DEF StreamOK
<1>5. StagesOK' /\ ChannelsOK' /\ LogOK'
  BY <1>1, <1>2 DEF StagesOK, ChannelsOK, LogOK
<1>6. ToldInv' /\ CommandsKeepOrder'
  BY <1>1, <1>2, ToldFrame, OrderFrame
<1> QED
  BY <1>4, <1>5, <1>6

\* The manager issues a command: it becomes the last one issued and the last one
\* waiting.
LEMMA IssueCommandStep ==
    ASSUME CInv, NEW c \in Command, IssueCommand(c)
    PROVE  CInv'
<1> USE DEF CInv
<1> DEFINE done == Without(OwnBitfield, log.asked)
           left == Without(Disconnect, cmds)
<1>1. /\ UNCHANGED <<stage, why, net, prefix, filled, buf, todo, peerState, cmdOpen,
                     events, eventsOpen>>
      /\ cmds' = Append(cmds, c) /\ Len(cmds) < CmdCap
  BY DEF IssueCommand
<1>2. /\ DOMAIN log' = DOMAIN log /\ log'.told = log.told
      /\ log'.issued = Append(log.issued, c) /\ log'.asked = log.asked
  BY DEF IssueCommand, LogOK
<1>3. cmds \in Seq(Command) /\ log.issued \in Seq(Command) /\ Len(cmds) \in Nat
  BY LenProperties DEF ChannelsOK, LogOK
<1>4. cmds' \in Seq(Command) /\ Len(cmds') = Len(cmds) + 1 /\ log'.issued \in Seq(Command)
  BY <1>1, <1>2, <1>3, AppendProperties
<1>5. ChannelsOK'
  BY <1>1, <1>3, <1>4, ConnectionAssumption DEF ChannelsOK
<1>6. StagesOK' /\ StreamOK' /\ LogOK'
  BY <1>1, <1>2, <1>4 DEF StagesOK, StreamOK, LogOK
<1>7. ToldInv'
  BY <1>1, <1>2, ToldFrame
<1>8. CommandsKeepOrder'
  <2> SUFFICES ASSUME stage # "ended"
               PROVE  Without(Disconnect, Append(log.issued, c)) =
                         done \o Without(Disconnect, Append(cmds, c))
    BY <1>1, <1>2 DEF CommandsKeepOrder
  <2>1. Without(Disconnect, log.issued) = done \o left
    BY DEF CommandsKeepOrder
  <2>2. /\ Without(Disconnect, Append(log.issued, c)) =
              IF c = Disconnect THEN Without(Disconnect, log.issued)
              ELSE Append(Without(Disconnect, log.issued), c)
        /\ Without(Disconnect, Append(cmds, c)) =
              IF c = Disconnect THEN left ELSE Append(left, c)
    <3>1. log.issued \in Seq(Command) /\ cmds \in Seq(Command)
      BY <1>3
    <3>2. ASSUME NEW s \in Seq(Command)
          PROVE  Without(Disconnect, Append(s, c)) =
                    IF c = Disconnect THEN Without(Disconnect, s)
                    ELSE Append(Without(Disconnect, s), c)
      BY WithoutAppend
    <3> QED
      BY <3>1, <3>2, Zenon
  <2>3. done \o Append(left, c) = Append(done \o left, c)
    <3> DEFINE X == Command \cup {OwnBitfield}
    <3>1. left \in Seq(X) /\ c \in X
      <4>1. left \in Seq(Command)
        BY <1>3, WithoutType
      <4>2. \A i \in 1 .. Len(left) : left[i] \in X
        BY <4>1, ElementOfSeq
      <4> QED
        BY <4>1, <4>2, SeqDef, LenProperties
    <3>2. done \in Seq(X)
      <4>1. log.asked \in Seq(Commands \cup {OwnBitfield})
        BY DEF LogOK
      <4>2. done \in Seq(Commands \cup {OwnBitfield})
        BY <4>1, WithoutType
      <4>3. \A i \in 1 .. Len(done) : done[i] \in X
        BY <4>2, ElementOfSeq DEF Command
      <4> QED
        BY <4>2, <4>3, SeqDef, LenProperties
    <3> HIDE DEF done, left, X
    <3>3. <<c>> \in Seq(X) /\ done \o left \in Seq(X)
      BY <3>1, <3>2, ConcatProperties
    <3>4. Append(left, c) = left \o <<c>> /\ Append(done \o left, c) = (done \o left) \o <<c>>
      BY <3>1, <3>3, AppendIsConcat
    <3>5. (done \o left) \o <<c>> = done \o (left \o <<c>>)
      BY <3>1, <3>2, <3>3, ConcatAssociative
    <3> QED
      BY <3>4, <3>5
  <2> QED
    BY <2>1, <2>2, <2>3
<1> QED
  BY <1>5, <1>6, <1>7, <1>8

\* Reading k bytes splits the stream in two sequences of bytes.
LEMMA TakenBytes ==
    ASSUME StreamOK, NEW k \in Nat, k <= Len(net)
    PROVE  /\ SubSeq(net, 1, k) \in Seq(Nat)
           /\ Len(SubSeq(net, 1, k)) = k
           /\ SubSeq(net, k + 1, Len(net)) \in Seq(Nat)
<1>1. net \in Seq(Nat) /\ Len(net) \in Nat
  BY LenProperties DEF StreamOK
<1> DEFINE n == Len(net)
           b == k + 1
<1>2. n \in Int /\ b \in Int /\ 1 <= b /\ b <= n + 1 /\ n <= Len(net)
  BY <1>1
<1> HIDE DEF n, b
<1>3. SubSeq(net, b, n) \in Seq(Nat)
  BY <1>1, <1>2, Cut
<1>4. SubSeq(net, 1, k) \in Seq(Nat) /\ Len(SubSeq(net, 1, k)) = k - 1 + 1
  BY <1>1, Cut
<1> QED
  BY <1>3, <1>4 DEF n, b

\* Reading records nothing about commands and events.
LEMMA TakenLog ==
    ASSUME LogOK, NEW k, Take(k)
    PROVE  /\ DOMAIN log' = DOMAIN log /\ log'.told = log.told
           /\ log'.issued = log.issued /\ log'.asked = log.asked
BY DEF Take, LogOK

\* The bytes read replace as many of the buffer.
LEMMA FilledBytes ==
    ASSUME StreamOK, NEW k \in Nat, k <= Len(net), filled + k <= Len(buf)
    PROVE  Filled(k) \in Seq(Int) /\ Len(Filled(k)) = Len(buf)
<1> DEFINE head == SubSeq(buf, 1, filled)
           new == SubSeq(net, 1, k)
           m == filled + k + 1
           n == Len(buf)
           rest == SubSeq(buf, m, n)
<1>1. buf \in Seq(Int) /\ n \in Nat /\ filled \in Nat
  BY LenProperties DEF StreamOK
<1>2. head \in Seq(Int) /\ Len(head) = filled
  <2>1. filled \in Int /\ 1 <= filled + 1 /\ filled <= Len(buf)
    BY <1>1 DEF StreamOK
  <2>2. head \in Seq(Int) /\ Len(head) = filled - 1 + 1
    BY <1>1, <2>1, Cut
  <2> QED
    BY <1>1, <2>2
<1>3. m \in Int /\ 1 <= m /\ m <= n + 1 /\ n <= Len(buf) /\ n - m + 1 = n - filled - k
  BY <1>1
<1> HIDE DEF m, n
<1>4. rest \in Seq(Int) /\ Len(rest) = n - filled - k
  BY <1>1, <1>3, Cut
<1>5. new \in Seq(Int) /\ Len(new) = k
  <2>1. new \in Seq(Nat) /\ Len(new) = k
    BY TakenBytes
  <2>2. \A i \in 1 .. Len(new) : new[i] \in Int
    BY <2>1, ElementOfSeq
  <2> QED
    BY <2>1, <2>2, SeqDef, LenProperties
<1> HIDE DEF head, new, rest
<1>6. head \o new \in Seq(Int) /\ Len(head \o new) = filled + k
  BY <1>2, <1>5, ConcatProperties
<1>7. /\ (head \o new) \o rest \in Seq(Int)
      /\ Len((head \o new) \o rest) = (filled + k) + (n - filled - k)
  <2> DEFINE front == head \o new
  <2>1. front \in Seq(Int) /\ Len(front) = filled + k
    BY <1>6
  <2> HIDE DEF front
  <2>2. front \o rest \in Seq(Int) /\ Len(front \o rest) = Len(front) + Len(rest)
    BY <1>4, <2>1, ConcatProperties
  <2> QED
    BY <1>4, <2>1, <2>2 DEF front
<1>8. (filled + k) + (n - filled - k) = n
  BY <1>1
<1>9. Filled(k) = (head \o new) \o rest
  BY DEF Filled, head, new, rest, m, n
<1> QED
  BY <1>7, <1>8, <1>9 DEF n

\* A read that leaves message, channels and state alone, whether it goes on or
\* ends in an error, keeps all of the invariant but the buffer.
LEMMA ReadFrame ==
    ASSUME CInv, NEW k \in Nat, Take(k),
           UNCHANGED <<todo, peerState, cmds, cmdOpen, events, eventsOpen>>,
           stage = "select",
           \/ stage' = stage /\ why' = why
           \/ stage' = "ended" /\ why' = "message"
    PROVE  /\ StagesOK' /\ ChannelsOK' /\ LogOK' /\ ToldInv' /\ CommandsKeepOrder'
           /\ net' \in Seq(Nat)
<1> USE DEF CInv
<1>1. net' \in Seq(Nat)
  BY TakenBytes DEF Take
<1>2. /\ DOMAIN log' = DOMAIN log /\ log'.told = log.told
      /\ log'.issued = log.issued /\ log'.asked = log.asked
  BY TakenLog
<1>3. StagesOK' /\ ChannelsOK' /\ LogOK'
  BY <1>2 DEF StagesOK, ChannelsOK, LogOK
<1>4. ToldInv' /\ CommandsKeepOrder'
  BY <1>2, ToldFrame, OrderFrame
<1> QED
  BY <1>1, <1>3, <1>4

\* Fewer than the four bytes of a length arrive.
LEMMA ReadPrefixStep ==
    ASSUME CInv, NEW k \in 1 .. 3, ReadPrefix(k)
    PROVE  CInv'
<1>1. /\ k \in Nat /\ Take(k) /\ stage = "select" /\ k <= Len(net)
      /\ UNCHANGED <<stage, why, filled, buf, todo, peerState, cmds, cmdOpen, events, eventsOpen>>
      /\ prefix' = prefix \o SubSeq(net, 1, k) /\ Len(prefix) + k < 4
  BY DEF ReadPrefix, Take
<1>2. StagesOK' /\ ChannelsOK' /\ LogOK' /\ ToldInv' /\ CommandsKeepOrder' /\ net' \in Seq(Nat)
  BY <1>1, ReadFrame
<1>3. prefix \in Seq(Nat) /\ SubSeq(net, 1, k) \in Seq(Nat) /\ Len(SubSeq(net, 1, k)) = k
  BY <1>1, TakenBytes DEF CInv, StreamOK
<1>4. prefix' \in Seq(Nat) /\ Len(prefix') = Len(prefix) + k /\ Len(prefix) \in Nat
  BY <1>1, <1>3, ConcatProperties, LenProperties
<1>5. StreamOK'
  BY <1>1, <1>2, <1>4 DEF CInv, StreamOK
<1> QED
  BY <1>2, <1>5 DEF CInv

\* The length arrives: the buffer gets its four bytes and room for a body.
LEMMA ReadLengthStep == ASSUME CInv, ReadLength PROVE CInv'
<1> DEFINE k == 4 - Len(prefix)
           bytes == prefix \o SubSeq(net, 1, k)
           length == Num32(bytes, 1)
<1>1. Len(prefix) \in Nat /\ Len(prefix) < 4 /\ prefix \in Seq(Nat)
  BY LenProperties DEF ReadLength, CInv, StreamOK
<1>2. k \in Nat /\ Len(prefix) + k = 4
  BY <1>1
<1>3. /\ Take(k) /\ stage = "select" /\ filled' = 0
      /\ UNCHANGED <<todo, peerState, cmds, cmdOpen, events, eventsOpen>>
      /\ buf' = [i \in 1 .. Lesser(length, MaxLength) |-> Stale]
      /\ \/ stage' = "ended" /\ why' = "message" /\ prefix' = prefix
         \/ stage' = stage /\ why' = why /\ prefix' = bytes
  BY DEF ReadLength, End
<1> HIDE DEF k, length, bytes
<1>4. StagesOK' /\ ChannelsOK' /\ LogOK' /\ ToldInv' /\ CommandsKeepOrder' /\ net' \in Seq(Nat)
  BY <1>2, <1>3, ReadFrame
<1>5. SubSeq(net, 1, k) \in Seq(Nat) /\ Len(SubSeq(net, 1, k)) = k
  BY <1>2, <1>3, TakenBytes DEF CInv, Take
<1>6. bytes \in Seq(Nat) /\ Len(bytes) = 4
  <2>1. bytes \in Seq(Nat) /\ Len(bytes) = Len(prefix) + Len(SubSeq(net, 1, k))
    BY <1>1, <1>5, ConcatProperties DEF bytes
  <2> QED
    BY <1>2, <1>5, <2>1
<1>7. length \in Nat
  <2>1. bytes[1] \in Nat /\ bytes[1 + 1] \in Nat /\ bytes[1 + 2] \in Nat /\ bytes[1 + 3] \in Nat
    <3>1. \A i \in 1 .. 4 : bytes[i] \in Nat
      BY <1>6, ElementOfSeq
    <3> QED
      BY <3>1
  <2> QED
    BY <2>1, SMTT(30) DEF length, Num32
<1>8. buf' \in Seq(Int) /\ Len(buf') \in Nat
  <2> DEFINE n == Lesser(length, MaxLength)
  <2>1. n \in Nat
    BY <1>7, ConnectionAssumption DEF Lesser
  <2>2. buf' \in [1 .. n -> Int]
    BY <1>3 DEF Stale
  <2> HIDE DEF n
  <2> QED
    BY <2>1, <2>2, SeqDef, LenProperties
<1>9. prefix' \in Seq(Nat) /\ Len(prefix') <= 4
  <2>1. CASE prefix' = prefix
    BY <1>1, <2>1
  <2>2. CASE prefix' = bytes
    <3>1. prefix' \in Seq(Nat) /\ Len(prefix') = 4
      BY <1>6, <2>2, Zenon
    <3> QED
      BY <3>1
  <2> QED
    BY <1>3, <2>1, <2>2
<1>10. StreamOK'
  <2>1. filled' \in Nat /\ filled' <= Len(buf')
    <3>1. filled' = 0 /\ Len(buf') \in Nat
      BY <1>3, <1>8, Zenon
    <3> QED
      BY <3>1
  <2> QED
    BY <1>4, <1>8, <1>9, <2>1 DEF StreamOK
<1> QED
  BY <1>4, <1>10 DEF CInv

\* Bytes of the body arrive, but not the last.
LEMMA ReadBodyStep ==
    ASSUME CInv, NEW k \in 1 .. Len(net), ReadBody(k)
    PROVE  CInv'
<1>1. /\ Take(k) /\ stage = "select" /\ k <= Len(net)
      /\ UNCHANGED <<stage, why, prefix, todo, peerState, cmds, cmdOpen, events, eventsOpen>>
      /\ buf' = Filled(k) /\ filled' = filled + k /\ filled + k < Len(buf)
  BY DEF ReadBody, Take
<1>2. k \in Nat /\ Len(buf) \in Nat /\ filled \in Nat
  BY LenProperties DEF CInv, StreamOK
<1>3. StagesOK' /\ ChannelsOK' /\ LogOK' /\ ToldInv' /\ CommandsKeepOrder' /\ net' \in Seq(Nat)
  BY <1>1, <1>2, ReadFrame
<1>4. buf' \in Seq(Int) /\ Len(buf') = Len(buf)
  BY <1>1, <1>2, FilledBytes DEF CInv
<1>5. StreamOK'
  BY <1>1, <1>2, <1>3, <1>4 DEF CInv, StreamOK
<1> QED
  BY <1>3, <1>5 DEF CInv

\* A choke or unchoke message leads to the event of its name, every other one to
\* none of the two.
LEMMA EventsTell ==
    ASSUME NEW m, m.type \in ParsedTypes
    PROVE  /\ Events(m) \in Seq(EventNames)
           /\ m.type = "Choke" => Events(m) = <<"Choke">>
           /\ m.type = "UnChoke" => Events(m) = <<"UnChoke">>
           /\ m.type \notin Tells => \A i \in 1 .. Len(Events(m)) : Events(m)[i] \notin Tells
<1>1. m.type \in EventNames
  BY DEF EventNames
<1>2. CASE m.type = "KeepAlive"
  BY <1>2 DEF Events, Tells
<1>3. CASE m.type = "Piece"
  <2>1. Events(m) = <<"ReceivedPiece", "DownloadRate">>
    BY <1>3 DEF Events
  <2>2. Len(Events(m)) = 2
    BY <2>1
  <2>3. Events(m) \in Seq(EventNames)
    <3>1. "ReceivedPiece" \in EventNames /\ "DownloadRate" \in EventNames
      BY DEF EventNames
    <3> QED
      BY <2>1, <3>1, Pair
  <2>4. Events(m)[1] = "ReceivedPiece" /\ Events(m)[2] = "DownloadRate"
    BY <2>1
  <2>5. ASSUME NEW i \in 1 .. Len(Events(m)) PROVE Events(m)[i] \notin Tells
    <3>1. i = 1 \/ i = 2
      BY <2>2
    <3> QED
      BY <2>4, <3>1 DEF Tells
  <2> QED
    BY <1>3, <2>3, <2>5
<1>4. CASE m.type \in {"Cancel", "Port"}
  BY <1>4 DEF Events, Tells
<1>5. CASE m.type \notin {"KeepAlive", "Piece", "Cancel", "Port"}
  <2>1. Events(m) = <<m.type>>
    BY <1>5 DEF Events
  <2> QED
    BY <1>1, <2>1 DEF Tells
<1> QED
  BY <1>2, <1>3, <1>4, <1>5

\* A choke or unchoke message sets peer_choking, every other one leaves it.
LEMMA UpdatedTells ==
    ASSUME NEW m, StagesOK
    PROVE  /\ Updated(m) \in [choking : BOOLEAN, interested : BOOLEAN]
           /\ m.type = "Choke" => Updated(m).choking
           /\ m.type = "UnChoke" => ~Updated(m).choking
           /\ m.type \notin Tells => Updated(m).choking = peerState.choking
BY DEF Updated, StagesOK, Tells

\* What handle_message leaves in the buffer is bytes of it.
LEMMA LeftoverType ==
    ASSUME NEW bs \in Seq(Int), NEW m, m = Deserialize(bs)
    PROVE  Leftover(m, bs) \in Seq(Int)
<1>1. Len(bs) \in Nat
  BY LenProperties
<1>2. CASE m.type = "Bitfield"
  <2>1. 5 <= Len(bs)
    BY <1>2, ParserLength
  <2>2. SubSeq(bs, 1, 5) \in Seq(Int)
    BY <2>1, Cut
  <2> QED
    BY <1>2, <2>2 DEF Leftover
<1>3. CASE m.type = "Piece"
  <2>1. 13 <= Len(bs)
    BY <1>3, ParserLength
  <2> DEFINE head == 13
  <2>2. head \in Int /\ 1 <= head + 1 /\ head <= Len(bs)
    BY <2>1
  <2> HIDE DEF head
  <2>3. SubSeq(bs, 1, head) \in Seq(Int)
    BY <2>2, Cut
  <2> QED
    BY <1>3, <2>3 DEF Leftover, head
<1>4. CASE m.type \notin {"Bitfield", "Piece"}
  BY <1>4 DEF Leftover
<1> QED
  BY <1>2, <1>3, <1>4

\* The last byte arrives: the message is parsed, the state updated and its
\* events due; or it cannot be parsed and run() ends.
LEMMA ReadMessageStep == ASSUME CInv, ReadMessage PROVE CInv'
<1> DEFINE k == Len(buf) - filled
           bytes == Filled(k)
           m == Deserialize(bytes)
<1>1. Len(buf) \in Nat /\ filled \in Nat /\ filled <= Len(buf)
  BY LenProperties DEF CInv, StreamOK
<1>2. k \in Nat /\ filled + k <= Len(buf)
  BY <1>1
<1>3. /\ Take(k) /\ stage = "select" /\ prefix' = <<>> /\ filled' = 0 /\ k <= Len(net)
      /\ UNCHANGED <<cmds, cmdOpen, events, eventsOpen>>
      /\ \/ /\ stage' = "ended" /\ why' = "message" /\ buf' = bytes
            /\ UNCHANGED <<todo, peerState>>
         \/ /\ stage' = "report" /\ why' = why /\ buf' = Leftover(m, bytes)
            /\ todo' = Events(m) /\ peerState' = Updated(m)
  BY DEF ReadMessage, End, Take
<1> HIDE DEF k
<1>4. bytes \in Seq(Int)
  BY <1>2, <1>3, FilledBytes DEF CInv
<1>5. m.type \in ParsedTypes
  BY ParserType
<1> HIDE DEF bytes
<1>6. Leftover(m, bytes) \in Seq(Int)
  BY <1>4, LeftoverType
<1> HIDE DEF m
<1>7. net' \in Seq(Nat)
  BY <1>2, <1>3, TakenBytes DEF CInv, Take
<1>8. buf' \in Seq(Int) /\ Len(buf') \in Nat
  <2>1. buf' \in Seq(Int)
    BY <1>3, <1>4, <1>6, Zenon
  <2> QED
    BY <2>1, LenProperties
<1>9. StreamOK'
  <2>1. prefix' \in Seq(Nat) /\ Len(prefix') = 0
    BY <1>3, EmptySeq
  <2>2. filled' \in Nat /\ filled' <= Len(buf')
    <3>1. filled' = 0
      BY <1>3
    <3> QED
      BY <1>8, <3>1
  <2> QED
    BY <1>7, <1>8, <2>1, <2>2 DEF StreamOK
<1>10. CASE stage' = "ended"
  <2>1. why' = "message" /\ UNCHANGED <<todo, peerState>>
    BY <1>3, <1>10
  <2>2. StagesOK' /\ ChannelsOK' /\ LogOK' /\ ToldInv' /\ CommandsKeepOrder'
    BY <1>2, <1>3, <1>10, <2>1, ReadFrame
  <2> QED
    BY <1>9, <2>2 DEF CInv
<1>11. CASE stage' = "report"
  <2>1. why' = why /\ todo' = Events(m) /\ peerState' = Updated(m)
    BY <1>3, <1>11
  <2>2. /\ DOMAIN log' = DOMAIN log /\ log'.told = log.told
        /\ log'.issued = log.issued /\ log'.asked = log.asked
    BY <1>3, TakenLog DEF CInv
  <2>3. StagesOK'
    BY <1>3, <1>11, <2>1, UpdatedTells DEF CInv, StagesOK
  <2>4. ChannelsOK' /\ LogOK'
    BY <1>3, <1>5, <2>1, <2>2, EventsTell DEF CInv, ChannelsOK, LogOK
  <2>5. CommandsKeepOrder'
    BY <1>3, <2>2, OrderFrame DEF CInv
  <2>6. InStep
    BY <1>3 DEF CInv, ToldInv
  <2>7. ToldInv'
    <3>1. CASE m.type = "Choke"
      BY <1>5, <1>11, <2>1, <3>1, EventsTell, UpdatedTells DEF CInv, ToldInv
    <3>2. CASE m.type = "UnChoke"
      BY <1>5, <1>11, <2>1, <3>2, EventsTell, UpdatedTells DEF CInv, ToldInv
    <3>3. CASE m.type \notin Tells
      <4>1. InStep'
        BY <2>1, <2>2, <2>6, <3>3, UpdatedTells DEF CInv, InStep
      <4>2. \A i \in 1 .. Len(todo') : todo'[i] \notin Tells
        BY <1>5, <2>1, <3>3, EventsTell
      <4> QED
        BY <1>11, <4>1, <4>2 DEF ToldInv
    <3> QED
      BY <3>1, <3>2, <3>3 DEF Tells
  <2> QED
    BY <1>9, <2>3, <2>4, <2>5, <2>7 DEF CInv
<1> QED
  BY <1>3, <1>10, <1>11

\* An event is sent, which brings the manager in step if it tells of
\* peer_choking, or the channel is closed and run() ends, or no event is left.
LEMMA ReportStep == ASSUME CInv, Report PROVE CInv'
<1>1. /\ stage = "report"
      /\ UNCHANGED <<net, prefix, filled, buf, peerState, cmds, cmdOpen, eventsOpen>>
  BY DEF Report
<1>2. StreamOK'
  BY <1>1 DEF CInv, StreamOK
<1>3. CASE todo = <<>>
  <2>1. stage' = "select" /\ UNCHANGED <<why, todo, events, log>>
    BY <1>3 DEF Report
  <2>2. StagesOK' /\ ChannelsOK' /\ LogOK'
    BY <1>1, <2>1 DEF CInv, StagesOK, ChannelsOK, LogOK
  <2>3. CommandsKeepOrder'
    BY <1>1, <2>1, OrderFrame DEF CInv
  <2>4. InStep
    BY <1>1, <1>3 DEF CInv, ToldInv
  <2>5. ToldInv'
    BY <1>1, <2>1, <2>4 DEF ToldInv, InStep
  <2> QED
    BY <1>2, <2>2, <2>3, <2>5 DEF CInv
<1>4. CASE todo # <<>> /\ ~eventsOpen
  <2>1. stage' = "ended" /\ why' = "report" /\ UNCHANGED <<todo, events, log>>
    BY <1>4 DEF Report, End
  <2>2. StagesOK' /\ ChannelsOK' /\ LogOK'
    BY <1>1, <2>1 DEF CInv, StagesOK, ChannelsOK, LogOK
  <2>3. CommandsKeepOrder' /\ ToldInv'
    BY <1>1, <2>1, OrderFrame, ToldFrame DEF CInv
  <2> QED
    BY <1>2, <2>2, <2>3 DEF CInv
<1>5. CASE todo # <<>> /\ eventsOpen
  <2> DEFINE e == Head(todo)
  <2>1. /\ Len(events) < EventCap /\ events' = Append(events, e) /\ todo' = Tail(todo)
        /\ log' = [log EXCEPT !.told = IF e \in {"Choke", "UnChoke"} THEN e ELSE @]
        /\ UNCHANGED <<stage, why>>
    BY <1>5 DEF Report
  <2>2. /\ todo \in Seq(EventNames) /\ e \in EventNames /\ Tail(todo) \in Seq(EventNames)
        /\ e = todo[1] /\ Len(todo) \in Nat \ {0} /\ Len(Tail(todo)) = Len(todo) - 1
        /\ \A i \in 1 .. Len(Tail(todo)) : Tail(todo)[i] = todo[i + 1]
    BY <1>5, HeadTailProperties, LenProperties, EmptySeq DEF CInv, ChannelsOK
  <2> HIDE DEF e
  <2>3. /\ DOMAIN log' = DOMAIN log /\ log'.issued = log.issued /\ log'.asked = log.asked
        /\ log'.told = IF e \in Tells THEN e ELSE log.told
    BY <2>1 DEF CInv, LogOK, Tells
  <2>4. events' \in Seq(EventNames) /\ Len(events') <= EventCap
    <3>1. events \in Seq(EventNames) /\ Len(events) \in Nat
      BY LenProperties DEF CInv, ChannelsOK
    <3>2. events' \in Seq(EventNames) /\ Len(events') = Len(events) + 1
      BY <2>1, <2>2, <3>1, AppendProperties
    <3> QED
      BY <2>1, <3>1, <3>2, ConnectionAssumption
  <2>5. StagesOK' /\ LogOK'
    BY <1>1, <2>1, <2>3 DEF CInv, StagesOK, LogOK
  <2>6. ChannelsOK'
    BY <1>1, <2>1, <2>2, <2>4 DEF CInv, ChannelsOK
  <2>7. CommandsKeepOrder'
    BY <1>1, <2>1, <2>3, OrderFrame DEF CInv
  <2>8. ToldInv'
    <3>1. CASE todo = <<"Choke">> /\ peerState.choking
      <4>1. e = "Choke" /\ Len(Tail(todo)) = 0
        BY <2>2, <3>1
      <4>2. InStep'
        BY <1>1, <2>3, <3>1, <4>1 DEF InStep, Tells
      <4>3. Len(todo') = 0 /\ stage' = "report"
        BY <1>1, <2>1, <4>1
      <4>4. \A i \in 1 .. Len(todo') : todo'[i] \notin Tells
        BY <4>3
      <4> HIDE DEF Tells
      <4> QED
        BY <4>2, <4>3, <4>4 DEF ToldInv
    <3>2. CASE todo = <<"UnChoke">> /\ ~peerState.choking
      <4>1. e = "UnChoke" /\ Len(Tail(todo)) = 0
        BY <2>2, <3>2
      <4>2. InStep'
        BY <1>1, <2>3, <3>2, <4>1 DEF InStep, Tells
      <4>3. Len(todo') = 0 /\ stage' = "report"
        BY <1>1, <2>1, <4>1
      <4>4. \A i \in 1 .. Len(todo') : todo'[i] \notin Tells
        BY <4>3
      <4> HIDE DEF Tells
      <4> QED
        BY <4>2, <4>3, <4>4 DEF ToldInv
    <3>3. CASE InStep /\ \A i \in 1 .. Len(todo) : todo[i] \notin Tells
      <4>1. e \notin Tells
        BY <2>2, <3>3
      <4>2. InStep'
        BY <1>1, <2>3, <3>3, <4>1 DEF InStep
      <4>3. \A i \in 1 .. Len(Tail(todo)) : Tail(todo)[i] \notin Tells
        <5> TAKE i \in 1 .. Len(Tail(todo))
        <5>1. i + 1 \in 1 .. Len(todo)
          BY <2>2
        <5> QED
          BY <2>2, <3>3, <5>1
      <4>4. \A i \in 1 .. Len(todo') : todo'[i] \notin Tells
        BY <2>1, <4>3, Zenon
      <4>5. stage' = "report"
        BY <1>1, <2>1
      <4> HIDE DEF Tells
      <4> QED
        BY <4>2, <4>4, <4>5 DEF ToldInv
    <3> QED
      BY <1>1, <3>1, <3>2, <3>3 DEF CInv, ToldInv
  <2> QED
    BY <1>2, <2>5, <2>6, <2>7, <2>8 DEF CInv
<1> QED
  BY <1>3, <1>4, <1>5

\* Every step keeps the invariant.
LEMMA NextCInv == ASSUME CInv, [Next]_vars PROVE CInv'
<1>1. CASE Start
  BY <1>1, StartStep
<1>2. CASE TakeCommand
  BY <1>2, TakeCommandStep
<1>3. CASE Write \/ CommandsClosed \/ IoError \/ DropSender \/ DropReceiver
  BY <1>3, QuietStep
<1>4. CASE Reading
  BY <1>4, ReadPrefixStep, ReadLengthStep, ReadBodyStep, ReadMessageStep DEF Reading
<1>5. CASE Report
  BY <1>5, ReportStep
<1>6. CASE \E m \in PeerMessages : PeerSends(m)
  BY <1>6, PeerSendsStep
<1>7. CASE \E c \in Command : IssueCommand(c)
  BY <1>7, IssueCommandStep
<1>8. CASE TakeEvent
  BY <1>8, TakeEventStep
<1>9. CASE UNCHANGED vars
  <2>1. StagesOK' /\ StreamOK' /\ ChannelsOK' /\ LogOK' /\ ToldInv'
    BY <1>9 DEF CInv, vars, StagesOK, StreamOK, ChannelsOK, LogOK, ToldInv, InStep
  <2>2. CommandsKeepOrder'
    BY <1>9, OrderFrame DEF CInv, vars
  <2> QED
    BY <2>1, <2>2 DEF CInv
<1> QED
  BY <1>1, <1>2, <1>3, <1>4, <1>5, <1>6, <1>7, <1>8, <1>9 DEF Next, Connection, Others

-----------------------------------------------------------------------------
(* The theorems. *)

\* The invariant holds in every state run() reaches.
THEOREM ConnectionInvariance == Spec => []CInv
BY InitCInv, NextCInv, PTL DEF Spec

\* The variables keep their types, the channels their capacities, and a read stays
\* within the buffer that ReadLength made room in.
THEOREM ConnectionTypes == Spec => []TypeOK
<1>1. CInv => TypeOK
  BY DEF CInv, StagesOK, StreamOK, ChannelsOK, TypeOK
<1> QED
  BY <1>1, ConnectionInvariance, PTL

\* Whenever run() is not within handle_message, the last choke or unchoke event
\* sent to the manager is the peer_choking of the connection.
THEOREM ChokesAreReported == Spec => []ChokeIsReported
<1>1. CInv => ChokeIsReported
  BY DEF CInv, ToldInv, InStep, ChokeIsReported
<1> QED
  BY <1>1, ConnectionInvariance, PTL

\* Reads and commands may race in select! at will: the commands that are not
\* waiting any more were serialized, each once and in the order of sending.
THEOREM CommandsInOrder == Spec => []CommandsKeepOrder
<1>1. CInv => CommandsKeepOrder
  BY DEF CInv
<1> QED
  BY <1>1, ConnectionInvariance, PTL
=============================================================================
