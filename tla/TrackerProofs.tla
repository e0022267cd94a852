--------------------------- MODULE TrackerProofs ----------------------------
(***************************************************************************)
(* Theorems about TrackerUDP for every number of attempts, every expiry and *)
(* every interval, whatever the network does, and about TrackerManager for *)
(* every announce list with at most one tracker of each protocol, and for  *)
(* every timing of theirs.                                                 *)
(***************************************************************************)
EXTENDS TrackerManager, TLAPS

-----------------------------------------------------------------------------
(* TrackerUDP: the inductive invariant. *)

\* Before new() has returned there is no response; a tracker that has none is not
\* idle.
Construction ==
    /\ constructing => response = NoResponse
    /\ stage = "idle" => ~constructing
    /\ stage = "none" => constructing /\ tid = 0

\* The request under way is the latest one, and the attempts left fit the bound.
Requests ==
    /\ response.tid <= tid
    /\ stage \in Kinds => connId < tid /\ response.tid < tid
    /\ stage = "connect" => tid + tries - 1 + MaxRetries <= MaxTid
    /\ stage = "announce" => tid + tries - 1 <= MaxTid

\* A request is under way only when the interval was over.
IntervalWasOver ==
    stage \in Kinds /\ ~constructing => sinceAnswer > response.interval

\* The longest a request can take, and at most how much of it has passed.
CallTime == MaxRetries * Timeout
Elapsed == (MaxRetries - tries) * Timeout + waited

\* The true age of the id against connection_time: what new() makes it start with
\* too late, and the time of the announce under way.
IdAges ==
    /\ stage = "announce" /\ constructing => idAge <= Elapsed
    /\ ~constructing /\ connAge < Expiry => idAge <= connAge + CallTime
    /\ stage = "announce" => idAge < Expiry + CallTime + Elapsed

UInv == TypeOK /\ Construction /\ Requests /\ IntervalWasOver /\ IdAges

-----------------------------------------------------------------------------
(* Time. *)

LEMMA CallTimes ==
    /\ CallTime \in Nat
    /\ MaxIdAge \in Nat
    /\ MaxIdAge = Expiry + CallTime + CallTime
    /\ Expiry + CallTime < MaxIdAge
<1>1. MaxRetries \in Nat \ {0} /\ Timeout \in Nat \ {0} /\ Expiry \in Nat \ {0}
  BY TrackerAssumption
<1>2. \A m, t \in Nat \ {0} : m * t \in Nat /\ 0 < m * t /\ 2 * m * t = m * t + m * t
  OBVIOUS
<1>3. CallTime \in Nat /\ 0 < CallTime /\ 2 * MaxRetries * Timeout = CallTime + CallTime
  BY <1>1, <1>2 DEF CallTime
<1> QED
  BY <1>1, <1>3 DEF MaxIdAge

\* What the attempts that are over have taken, for n left.
LEMMA Attempts ==
    ASSUME NEW n \in 1 .. MaxRetries
    PROVE  /\ (MaxRetries - n) * Timeout \in Nat
           /\ (MaxRetries - n) * Timeout + Timeout <= CallTime
           /\ (MaxRetries - (n - 1)) * Timeout = (MaxRetries - n) * Timeout + Timeout
           /\ (MaxRetries - MaxRetries) * Timeout = 0
<1>1. MaxRetries \in Nat \ {0} /\ Timeout \in Nat \ {0}
  BY TrackerAssumption
<1>2. PICK k \in Nat : MaxRetries = n + k
  <2>1. MaxRetries - n \in Nat /\ MaxRetries = n + (MaxRetries - n)
    BY <1>1
  <2> QED
    BY <2>1
<1>3. PICK j \in Nat : n = j + 1
  <2>1. n - 1 \in Nat /\ n = (n - 1) + 1
    BY <1>1
  <2> QED
    BY <2>1
<1>4. \A x, y, t \in Nat : x * t \in Nat /\ (x + y) * t = x * t + y * t /\ 1 * t = t /\ 0 * t = 0
  OBVIOUS
<1>5. /\ MaxRetries - n = k
      /\ MaxRetries - (n - 1) = k + 1
      /\ MaxRetries - MaxRetries = 0
      /\ MaxRetries = j + (k + 1)
  BY <1>1, <1>2, <1>3
<1>6. /\ k * Timeout \in Nat /\ j * Timeout \in Nat
      /\ (k + 1) * Timeout = k * Timeout + Timeout
      /\ MaxRetries * Timeout = j * Timeout + (k + 1) * Timeout
      /\ 0 * Timeout = 0
  BY <1>1, <1>4, <1>5
<1>7. k * Timeout + Timeout <= CallTime
  BY <1>1, <1>6 DEF CallTime
<1> QED
  BY <1>5, <1>6, <1>7

LEMMA ElapsedType ==
    ASSUME tries \in 1 .. MaxRetries, waited \in 0 .. Timeout
    PROVE  Elapsed \in Nat /\ waited <= Elapsed /\ Elapsed <= CallTime
<1> DEFINE before == (MaxRetries - tries) * Timeout
<1>1. before \in Nat /\ before + Timeout <= CallTime /\ Elapsed = before + waited
  BY Attempts DEF Elapsed
<1> HIDE DEF before
<1> QED
  BY <1>1, CallTimes, TrackerAssumption

\* The first attempt begins.
LEMMA ElapsedAtFirst ==
    ASSUME tries' = MaxRetries, waited' = 0
    PROVE  Elapsed' = 0
<1>1. (MaxRetries - MaxRetries) * Timeout = 0
  <2>1. MaxRetries \in 1 .. MaxRetries
    BY TrackerAssumption
  <2> QED
    BY <2>1, Attempts
<1> QED
  BY <1>1 DEF Elapsed

\* A further attempt counts as if the one before it had taken its whole time.
LEMMA ElapsedAtNext ==
    ASSUME tries \in 1 .. MaxRetries, waited \in 0 .. Timeout, tries' = tries - 1, waited' = 0
    PROVE  Elapsed' \in Nat /\ Elapsed <= Elapsed'
<1> DEFINE before == (MaxRetries - tries) * Timeout
           after == (MaxRetries - (tries - 1)) * Timeout
<1>1. before \in Nat /\ after = before + Timeout
  BY Attempts
<1>2. Elapsed = before + waited /\ Elapsed' = after + 0
  BY DEF Elapsed
<1> HIDE DEF before, after
<1> QED
  BY <1>1, <1>2, TrackerAssumption

LEMMA ElapsedInWait ==
    ASSUME tries \in 1 .. MaxRetries, waited \in 0 .. Timeout,
           waited' = waited + 1, UNCHANGED tries
    PROVE  Elapsed' = Elapsed + 1
<1> DEFINE before == (MaxRetries - tries) * Timeout
<1>1. before \in Nat
  BY Attempts
<1>2. Elapsed = before + waited /\ Elapsed' = before + (waited + 1)
  BY DEF Elapsed
<1> HIDE DEF before
<1> QED
  BY <1>1, <1>2, TrackerAssumption

LEMMA InitUInv == Init => UInv
<1> SUFFICES ASSUME Init PROVE UInv
  OBVIOUS
<1>1. TypeOK
  BY TrackerAssumption, CallTimes DEF Init, TypeOK, Kinds, NoResponse
<1>2. IdAges
  BY TrackerAssumption, CallTimes DEF Init, IdAges
<1> QED
  BY <1>1, <1>2, TrackerAssumption
  DEF Init, UInv, Construction, Requests, IntervalWasOver, Kinds, NoResponse

-----------------------------------------------------------------------------
(* The pieces of a step. *)

\* A response carries numbers.
LEMMA ResponseType ==
    ASSUME NEW a \in Answer \cup {NoResponse}
    PROVE  a.tid \in Nat /\ a.interval \in Nat
<1>1. CASE a \in Answer
  <2>1. a.tid \in 1 .. MaxTid /\ a.interval \in Intervals \cup {0}
    BY <1>1 DEF Answer
  <2>2. 1 .. MaxTid \subseteq Nat /\ Intervals \cup {0} \subseteq Nat
    BY TrackerAssumption
  <2> QED
    BY <2>1, <2>2, Zenon
<1>2. CASE a \notin Answer
  BY <1>2 DEF NoResponse
<1> QED
  BY <1>1, <1>2

\* The datagrams put on their way are datagrams.
LEMMA AnswersType ==
    ASSUME NEW kind \in Kinds, NEW t \in 1 .. MaxTid
    PROVE  Answers(kind, t) \subseteq Datagram
BY DEF Answers, Datagram, Answer

\* What is accepted is an answer, and no error message.
LEMMA MatchingType ==
    ASSUME NEW a \in Datagram, tid # 0, Matches(a)
    PROVE  a \in Answer
BY DEF Matches, Datagram, ErrorMessage

LEMMA BoundsGrow ==
    ASSUME NEW age \in Nat, NEW b \in Nat, NEW e \in Nat, NEW later \in Nat, e <= later
    PROVE  /\ age <= e => age <= later
           /\ age < b + e => age < b + later
OBVIOUS

\* What time does to the bound of IdAges: both ages grow, or connAge is capped.
LEMMA IdAgesPass ==
    ASSUME UInv, ~constructing, UNCHANGED constructing,
           AgesGrow \/ UNCHANGED ages, connAge' < Expiry
    PROVE  idAge' <= connAge' + CallTime
<1>1. /\ connAge \in 0 .. Expiry
      /\ idAge \in 0 .. MaxIdAge
      /\ connAge < Expiry => idAge <= connAge + CallTime
  BY DEF UInv, TypeOK, IdAges
<1>2. CASE AgesGrow
  <2>1. connAge' = Older(connAge, Expiry) /\ idAge' = Older(idAge, MaxIdAge)
    BY <1>2 DEF AgesGrow
  <2>2. connAge < Expiry /\ connAge' = connAge + 1
    BY <1>1, <2>1, TrackerAssumption DEF Older
  <2>3. idAge' <= idAge + 1 /\ idAge' \in Nat
    BY <1>1, <2>1, CallTimes DEF Older
  <2> QED
    BY <1>1, <2>2, <2>3, CallTimes
<1>3. CASE UNCHANGED ages
  BY <1>1, <1>3 DEF ages
<1> QED
  BY <1>2, <1>3

\* An attempt puts well-formed datagrams on their way.
LEMMA AttemptType ==
    ASSUME NEW kind \in Kinds, NEW n, Attempt(kind, n), net \subseteq Datagram,
           tid + 1 \in 1 .. MaxTid
    PROVE  net' \subseteq Datagram
BY AnswersType DEF Attempt

\* The next attempt, or the end of the call.
LEMMA RetryStep ==
    ASSUME UInv, stage \in Kinds, Retry
    PROVE  \/ /\ tries > 1
              /\ stage' = stage
              /\ tries' = tries - 1
              /\ waited' = 0
              /\ tid' = tid + 1
              /\ net' \subseteq Datagram
           \/ /\ stage' = IF constructing THEN "gone" ELSE "idle"
              /\ waited' = 0
              /\ UNCHANGED <<tries, tid, net>>
<1>1. net \subseteq Datagram
  BY DEF UInv, TypeOK
<1>2. CASE tries > 1
  <2>1. Attempt(stage, tries - 1)
    BY <1>2 DEF Retry
  <2>2. tid + 1 \in 1 .. MaxTid
    BY <1>2, TrackerAssumption DEF UInv, TypeOK, Requests, Kinds
  <2>3. net' \subseteq Datagram
    BY <1>1, <2>1, <2>2, AttemptType
  <2> QED
    BY <1>2, <2>1, <2>3 DEF Attempt
<1>3. CASE ~(tries > 1)
  BY <1>3 DEF Retry, GiveUp
<1> QED
  BY <1>2, <1>3

-----------------------------------------------------------------------------
(* One lemma for each action. *)

LEMMA NewStep == ASSUME UInv, New PROVE UInv'
<1>1. CASE GiveUp
  BY <1>1, TrackerAssumption
  DEF UInv, TypeOK, Construction, Requests, IntervalWasOver, IdAges, New, GiveUp, Kinds, ages
<1>2. CASE Attempt("connect", MaxRetries)
  <2>1. /\ stage' = "connect" /\ tries' = MaxRetries /\ waited' = 0
        /\ tid' = tid + 1 /\ tid = 0
    BY <1>2 DEF Attempt, UInv, Construction, New
  <2>2. net' \subseteq Datagram
    BY <1>2, <2>1, AttemptType, TrackerAssumption DEF UInv, TypeOK, Kinds
  <2>3. UNCHANGED <<constructing, connId, response, connAge, annAge, sinceAnswer, idAge>>
    BY DEF New, ages
  <2>4. constructing /\ response = NoResponse /\ connId = 0
    BY <2>1 DEF New, UInv, Construction, TypeOK
  <2>5. TypeOK'
    BY <2>1, <2>2, <2>3, <2>4, TrackerAssumption DEF UInv, TypeOK, Kinds
  <2> QED
    BY <2>1, <2>3, <2>4, <2>5, TrackerAssumption
    DEF UInv, Construction, Requests, IntervalWasOver, IdAges, Kinds, NoResponse
<1> QED
  BY <1>1, <1>2 DEF New

LEMMA GetPeersStep == ASSUME UInv, GetPeers PROVE UInv'
<1> DEFINE kind == IF connAge >= Expiry THEN "connect" ELSE "announce"
<1>1. /\ stage' = kind
      /\ tries' = MaxRetries
      /\ waited' = 0
      /\ tid' = tid + 1
      /\ tid + 2 * MaxRetries <= MaxTid
      /\ UNCHANGED <<constructing, connId, response, connAge, annAge, sinceAnswer, idAge>>
  BY DEF GetPeers, Attempt, ages
<1>2. net' \subseteq Datagram
  <2>1. tid + 1 \in 1 .. MaxTid /\ net \subseteq Datagram /\ kind \in Kinds
    BY <1>1, TrackerAssumption DEF UInv, TypeOK, Kinds
  <2>2. Attempt(kind, MaxRetries)
    BY DEF GetPeers
  <2> HIDE DEF kind
  <2> QED
    BY <2>1, <2>2, AttemptType
<1>3. ~constructing
  BY DEF GetPeers, UInv, Construction
<1>4. /\ response.tid \in Nat /\ response.tid <= tid
      /\ response.interval \in Nat
      /\ sinceAnswer > response.interval
  BY ResponseType, TrackerAssumption DEF GetPeers, UInv, TypeOK, Requests
<1>5. TypeOK'
  BY <1>1, <1>2, TrackerAssumption DEF UInv, TypeOK, Kinds
<1>6. Construction' /\ Requests' /\ IntervalWasOver'
  BY <1>1, <1>3, <1>4, TrackerAssumption
  DEF UInv, TypeOK, Construction, Requests, IntervalWasOver, Kinds
<1>7. IdAges'
  <2>1. Elapsed' = 0
    BY <1>1, ElapsedAtFirst
  <2>2. /\ connAge \in Nat /\ idAge \in Nat /\ Expiry \in Nat
        /\ connAge < Expiry => idAge <= connAge + CallTime
    BY <1>3, CallTimes, TrackerAssumption DEF UInv, TypeOK, IdAges
  <2>3. CallTime' = CallTime
    BY DEF CallTime
  <2>4. stage' = "announce" => connAge < Expiry
    BY <1>1, <2>2
  <2> QED
    BY <1>1, <1>3, <2>1, <2>2, <2>3, <2>4, CallTimes DEF IdAges
<1> QED
  BY <1>5, <1>6, <1>7 DEF UInv

LEMMA ConnectedStep ==
    ASSUME UInv, NEW a \in net, stage = "connect", Matches(a), Connected(a)
    PROVE  UInv'
<1>1. /\ stage' = "announce"
      /\ tries' = MaxRetries
      /\ waited' = 0
      /\ tid' = tid + 1
      /\ connId' = tid
      /\ idAge' = 0
      /\ UNCHANGED <<constructing, response, connAge, annAge, sinceAnswer>>
  BY DEF Connected, Attempt, Matches
<1>2. /\ tid \in Nat
      /\ tries \in 1 .. MaxRetries
      /\ tid + tries - 1 + MaxRetries <= MaxTid
      /\ response.tid < tid
  BY DEF UInv, TypeOK, Requests, Kinds
<1>3. net' \subseteq Datagram
  <2>1. tid + 1 \in 1 .. MaxTid
    BY <1>2, TrackerAssumption
  <2> QED
    BY <2>1, AttemptType DEF Connected, UInv, TypeOK, Kinds
<1>4. response.tid \in Nat /\ response.interval \in Nat
  BY ResponseType DEF UInv, TypeOK
<1>5. TypeOK'
  <2>1. /\ tries' \in 1 .. MaxRetries /\ tid' \in 0 .. MaxTid /\ connId' \in 0 .. tid'
    BY <1>1, <1>2, TrackerAssumption
  <2>2. waited' \in 0 .. Timeout /\ idAge' \in 0 .. MaxIdAge
    BY <1>1, CallTimes, TrackerAssumption
  <2> QED
    BY <1>1, <1>3, <2>1, <2>2 DEF UInv, TypeOK, Kinds
<1>6. Construction' /\ Requests' /\ IntervalWasOver'
  BY <1>1, <1>2, <1>4, TrackerAssumption
  DEF UInv, Construction, Requests, IntervalWasOver, Kinds
<1>7. IdAges'
  <2>1. Elapsed' = 0
    BY <1>1, ElapsedAtFirst
  <2>2. /\ connAge \in Nat /\ Expiry \in Nat \ {0}
        /\ ~constructing /\ connAge < Expiry => idAge <= connAge + CallTime
    BY CallTimes, TrackerAssumption DEF UInv, TypeOK, IdAges
  <2>3. CallTime' = CallTime
    BY DEF CallTime
  <2>4. idAge' <= Elapsed'
    BY <1>1, <2>1
  <2>5. idAge' <= connAge' + CallTime' /\ idAge' < Expiry + CallTime' + Elapsed'
    BY <1>1, <2>1, <2>2, <2>3, CallTimes
  <2> QED
    BY <2>4, <2>5 DEF IdAges
<1> QED
  BY <1>5, <1>6, <1>7 DEF UInv

LEMMA AnnouncedStep ==
    ASSUME UInv, NEW a \in net, stage = "announce", Matches(a), Announced(a)
    PROVE  UInv'
<1>1. /\ stage' = "idle"
      /\ waited' = 0
      /\ constructing' = FALSE
      /\ response' = a
      /\ annAge' = 0
      /\ sinceAnswer' = 0
      /\ connAge' = IF constructing THEN 0 ELSE connAge
      /\ UNCHANGED <<tries, tid, net, connId, idAge>>
  BY DEF Announced
<1>2. a \in Answer /\ a.tid = tid
  <2>1. tid # 0
    BY TrackerAssumption DEF UInv, TypeOK, Requests, Kinds
  <2> QED
    BY <2>1, MatchingType DEF UInv, TypeOK, Matches
<1>3. TypeOK'
  <2>1. connAge' \in 0 .. Expiry
    BY <1>1, TrackerAssumption DEF UInv, TypeOK
  <2>2. annAge' \in 0 .. MaxAge /\ sinceAnswer' \in annAge' .. MaxAge
    BY <1>1, TrackerAssumption
  <2>3. waited' \in 0 .. Timeout
    BY <1>1, TrackerAssumption
  <2> QED
    BY <1>1, <1>2, <2>1, <2>2, <2>3 DEF UInv, TypeOK, Kinds
<1>4. Construction' /\ Requests' /\ IntervalWasOver'
  BY <1>1, <1>2, TrackerAssumption
  DEF UInv, TypeOK, Construction, Requests, IntervalWasOver, Kinds
<1>5. IdAges'
  <2>1. Elapsed \in Nat /\ Elapsed <= CallTime
    BY ElapsedType DEF UInv, TypeOK, Kinds
  <2>2. /\ idAge \in Nat
        /\ constructing => idAge <= Elapsed
        /\ ~constructing /\ connAge < Expiry => idAge <= connAge + CallTime
    BY CallTimes DEF UInv, TypeOK, IdAges
  <2>3. CallTime' = CallTime
    BY DEF CallTime
  <2> QED
    BY <1>1, <2>1, <2>2, <2>3, CallTimes DEF IdAges
<1> QED
  BY <1>3, <1>4, <1>5 DEF UInv

\* An attempt spent, by a wrong answer or a timeout.
LEMMA SpentStep ==
    ASSUME UInv, stage \in Kinds, Retry,
           UNCHANGED <<constructing, connId, response, ages>>
    PROVE  UInv'
<1>1. UNCHANGED <<connAge, annAge, sinceAnswer, idAge>>
  BY DEF ages
<1>2. response.tid \in Nat /\ response.interval \in Nat
  BY ResponseType DEF UInv, TypeOK
<1>3. CASE stage' = (IF constructing THEN "gone" ELSE "idle") /\ waited' = 0
              /\ UNCHANGED <<tries, tid, net>>
  <2>1. TypeOK'
    BY <1>1, <1>3, TrackerAssumption DEF UInv, TypeOK, Kinds
  <2>2. Construction' /\ Requests' /\ IntervalWasOver'
    BY <1>3 DEF UInv, Construction, Requests, IntervalWasOver, Kinds
  <2>3. IdAges'
    BY <1>1, <1>3 DEF UInv, IdAges, CallTime
  <2> QED
    BY <2>1, <2>2, <2>3 DEF UInv
<1>4. CASE tries > 1 /\ stage' = stage /\ tries' = tries - 1 /\ waited' = 0 /\ tid' = tid + 1
                /\ net' \subseteq Datagram
  <2>1. /\ tries \in 1 .. MaxRetries /\ waited \in 0 .. Timeout
        /\ tid \in Nat /\ MaxTid \in Nat /\ connId \in Nat
        /\ stage = "connect" => tid + tries - 1 + MaxRetries <= MaxTid
        /\ stage = "announce" => tid + tries - 1 <= MaxTid
        /\ connId < tid /\ response.tid < tid
        /\ stage \in {"connect", "announce"}
    BY TrackerAssumption DEF UInv, TypeOK, Requests, Kinds
  <2>2. tid' \in 0 .. MaxTid /\ tries' \in 1 .. MaxRetries /\ waited' \in 0 .. Timeout
    BY <1>4, <2>1, TrackerAssumption
  <2>3. TypeOK'
    BY <1>1, <1>4, <2>1, <2>2 DEF UInv, TypeOK, Kinds
  <2>4. Construction' /\ Requests'
    BY <1>2, <1>4, <2>1, TrackerAssumption DEF UInv, Construction, Requests, Kinds
  <2>5. IntervalWasOver'
    BY <1>1, <1>4 DEF UInv, IntervalWasOver
  <2>6. Elapsed \in Nat /\ Elapsed' \in Nat /\ Elapsed <= Elapsed'
    BY <1>4, <2>1, ElapsedType, ElapsedAtNext
  <2>7. idAge \in Nat /\ Expiry \in Nat /\ CallTime \in Nat /\ CallTime' = CallTime
    BY CallTimes, TrackerAssumption DEF UInv, TypeOK, CallTime
  <2>8. /\ idAge <= Elapsed => idAge <= Elapsed'
        /\ idAge < Expiry + CallTime + Elapsed => idAge < Expiry + CallTime + Elapsed'
    <3>1. Expiry + CallTime \in Nat
      BY <2>7
    <3> QED
      BY <2>6, <2>7, <3>1, BoundsGrow
  <2>9. IdAges'
    BY <1>1, <1>4, <2>7, <2>8 DEF UInv, IdAges
  <2> QED
    BY <2>3, <2>4, <2>5, <2>9 DEF UInv
<1> QED
  BY <1>3, <1>4, RetryStep

\* Time passes while an answer is awaited.
LEMMA WaitStep == ASSUME UInv, Wait PROVE UInv'
<1>1. /\ stage \in Kinds /\ waited < Timeout /\ waited' = waited + 1
      /\ UNCHANGED <<stage, constructing, tries, tid, net, connId, response>>
  BY DEF Wait
<1>2. /\ connAge' \in 0 .. Expiry
      /\ annAge' \in 0 .. MaxAge
      /\ sinceAnswer \in Nat /\ sinceAnswer' \in annAge' .. MaxAge /\ sinceAnswer <= sinceAnswer'
      /\ idAge \in Nat /\ idAge' \in 0 .. MaxIdAge /\ idAge' <= idAge + 1
  BY CallTimes, TrackerAssumption DEF UInv, TypeOK, Wait, AgesGrow, Older
<1>3. tries \in 1 .. MaxRetries /\ waited \in 0 .. Timeout /\ waited' \in 0 .. Timeout
  BY <1>1, TrackerAssumption DEF UInv, TypeOK
<1>4. TypeOK'
  BY <1>1, <1>2, <1>3 DEF UInv, TypeOK
<1>5. Construction' /\ Requests'
  BY <1>1 DEF UInv, Construction, Requests
<1>6. IntervalWasOver'
  <2>1. response.interval \in Nat
    BY ResponseType DEF UInv, TypeOK
  <2>2. sinceAnswer' \in Nat
    BY <1>2, TrackerAssumption
  <2> QED
    BY <1>1, <1>2, <2>1, <2>2 DEF UInv, IntervalWasOver
<1>7. IdAges'
  <2>1. Elapsed \in Nat /\ Elapsed' = Elapsed + 1
    BY <1>1, <1>3, ElapsedType, ElapsedInWait
  <2>2. idAge' \in Nat /\ Expiry \in Nat /\ CallTime \in Nat /\ CallTime' = CallTime
    BY <1>2, CallTimes, TrackerAssumption DEF CallTime
  <2>3. ~constructing' /\ connAge' < Expiry => idAge' <= connAge' + CallTime'
    BY <1>1, <2>2, IdAgesPass DEF Wait
  <2>4. /\ idAge <= Elapsed => idAge' <= Elapsed'
        /\ idAge < Expiry + CallTime + Elapsed => idAge' < Expiry + CallTime' + Elapsed'
    BY <1>2, <2>1, <2>2
  <2> QED
    BY <1>1, <2>3, <2>4 DEF UInv, IdAges
<1> QED
  BY <1>4, <1>5, <1>6, <1>7 DEF UInv

LEMMA UnreadableStep ==
    ASSUME UInv, stage \in Kinds, UnreadableAnswer
    PROVE  UInv'
BY TrackerAssumption
DEF UnreadableAnswer, GiveUp, ages, UInv, TypeOK, Construction, Requests,
    IntervalWasOver, IdAges, CallTime, Kinds

LEMMA ReceiveStep == ASSUME UInv, NEW a \in net, Receive(a) PROVE UInv'
<1>1. stage \in Kinds
  BY DEF Receive
<1>2. CASE Matches(a)
  <2>1. CASE stage = "connect"
    BY <1>2, <2>1, ConnectedStep DEF Receive, Accept
  <2>2. CASE stage = "announce"
    BY <1>2, <2>2, AnnouncedStep DEF Receive, Accept
  <2> QED
    BY <1>1, <2>1, <2>2 DEF Kinds
<1>3. CASE ~Matches(a) /\ a.kind = stage
  <2>1. WrongAnswer(a)
    BY <1>3 DEF Receive
  <2> QED
    BY <1>1, <2>1, SpentStep DEF WrongAnswer
<1>4. CASE ~Matches(a) /\ a.kind # stage
  BY <1>1, <1>4, UnreadableStep DEF Receive
<1> QED
  BY <1>2, <1>3, <1>4

LEMMA TickStep == ASSUME UInv, Tick PROVE UInv'
<1>1. /\ stage = "idle" /\ ~constructing
      /\ UNCHANGED <<stage, constructing, tries, waited, tid, net, connId, response>>
  BY DEF Tick, UInv, Construction
<1>2. /\ connAge' \in 0 .. Expiry
      /\ annAge' \in 0 .. MaxAge
      /\ sinceAnswer' \in annAge' .. MaxAge
      /\ idAge' \in 0 .. MaxIdAge
  BY CallTimes, TrackerAssumption DEF UInv, TypeOK, Tick, AgesGrow, Older
<1>3. TypeOK'
  BY <1>1, <1>2 DEF UInv, TypeOK, Kinds
<1>4. Construction' /\ Requests' /\ IntervalWasOver'
  BY <1>1 DEF UInv, Construction, Requests, IntervalWasOver, Kinds
<1>5. IdAges'
  BY <1>1, IdAgesPass DEF Tick, IdAges, CallTime
<1> QED
  BY <1>3, <1>4, <1>5 DEF UInv

-----------------------------------------------------------------------------
(* Theorems about TrackerUDP. *)

LEMMA NextUInv == ASSUME UInv, [Next]_vars PROVE UInv'
<1>1. CASE New
  BY <1>1, NewStep
<1>2. CASE GetPeers
  BY <1>2, GetPeersStep
<1>3. CASE \E a \in net : Receive(a)
  BY <1>3, ReceiveStep
<1>4. CASE TimeOut
  BY <1>4, SpentStep DEF TimeOut
<1>5. CASE IoError
  BY <1>5, UnreadableStep DEF IoError
<1>6. CASE Tick
  BY <1>6, TickStep
<1>7. CASE UNCHANGED vars
  BY <1>7 DEF vars, ages, UInv, TypeOK, Construction, Requests, IntervalWasOver, IdAges,
              CallTime, Elapsed
<1>8. CASE Wait
  BY <1>8, WaitStep
<1> QED
  BY <1>1, <1>2, <1>3, <1>4, <1>5, <1>6, <1>7, <1>8 DEF Next, Working

\* No step of the tracker replaces an id or a peer list by an older one, or a peer
\* list before its interval is over.
LEMMA ReplacedByNewer ==
    ASSUME UInv, [Next]_vars
    PROVE  /\ connId' >= connId
           /\ response' # response => /\ response'.tid > response.tid
                                      /\ response'.tid > connId
                                      /\ response = NoResponse \/ sinceAnswer > response.interval
<1>1. CASE \E a \in net : Receive(a) /\ Matches(a)
  <2>1. PICK a \in net : Receive(a) /\ Matches(a)
    BY <1>1
  <2>2. /\ stage \in Kinds /\ a.tid = tid
        /\ connId < tid /\ response.tid < tid
        /\ connId \in Nat /\ tid \in Nat
        /\ response = NoResponse \/ sinceAnswer > response.interval
    BY <2>1 DEF Receive, Matches, UInv, TypeOK, Requests, Construction, IntervalWasOver
  <2>3. CASE stage = "connect"
    BY <2>1, <2>2, <2>3 DEF Receive, Accept, Connected
  <2>4. CASE stage # "connect"
    BY <2>1, <2>2, <2>4 DEF Receive, Accept, Announced
  <2> QED
    BY <2>3, <2>4
<1>2. CASE UNCHANGED <<connId, response>>
  BY <1>2 DEF UInv, TypeOK
<1>3. UNCHANGED <<connId, response>> \/ \E a \in net : Receive(a) /\ Matches(a)
  BY DEF Next, Working, New, GetPeers, Receive, WrongAnswer, UnreadableAnswer, Wait, TimeOut,
         IoError, Tick, vars
<1> QED
  BY <1>1, <1>2, <1>3

\* No announce waits for its answer with an id of this age or more.
IdAgeIsBounded == stage = "announce" => idAge < MaxIdAge

LEMMA UInvImplies == UInv => TypeOK /\ IdAgeIsBounded
<1> SUFFICES ASSUME UInv, stage = "announce" PROVE idAge < MaxIdAge
  BY DEF UInv, IdAgeIsBounded
<1>1. /\ idAge \in Nat /\ tries \in 1 .. MaxRetries /\ waited \in 0 .. Timeout
      /\ idAge < Expiry + CallTime + Elapsed
  BY CallTimes DEF UInv, TypeOK, IdAges, Kinds
<1>2. Elapsed \in Nat /\ Elapsed <= CallTime
  BY <1>1, ElapsedType
<1> QED
  BY <1>1, <1>2, CallTimes, TrackerAssumption

\* The state between and within calls, for whatever datagrams arrive: what the
\* code relies on when it overwrites an id or a peer list.
THEOREM UDPInvariance == Init /\ [][Next]_vars => []UInv
<1> QED
  BY InitUInv, NextUInv, PTL

\* TypeOK of the UDP tracker: no request has more attempts than MAX_RETRIES.
THEOREM UDPTypes == Spec => []TypeOK
BY UDPInvariance, UInvImplies, PTL DEF Spec

\* CONNECTION_EXPIRY: an announce may carry an expired id (IdIsFresh does not hold),
\* since connection_time is set when new() returns and not when the id is obtained;
\* but the time the id is used beyond the expiry is less than that of two requests
\* with all their attempts, however late the answers come.
THEOREM IdAgesAreBounded == Spec => []IdAgeIsBounded
BY UDPInvariance, UInvImplies, PTL DEF Spec

\* A late or repeated answer never replaces the answer to a later request.
THEOREM AnswersReplaceInOrder == Spec => AnswersInOrder
<1>1. UInv /\ [Next]_vars =>
         [/\ connId' >= connId
          /\ response' # response => response'.tid > response.tid /\ response'.tid > connId
         ]_<<connId, response>>
  BY ReplacedByNewer
<1> QED
  BY <1>1, UDPInvariance, PTL DEF Spec, AnswersInOrder

\* The tracker's interval is kept, also when announces fail in between.
THEOREM IntervalsAreKept == Spec => IntervalIsKept
<1>1. UInv /\ [Next]_vars =>
         [response' # response /\ response # NoResponse =>
             sinceAnswer > response.interval]_response
  BY ReplacedByNewer
<1> QED
  BY <1>1, UDPInvariance, PTL DEF Spec, IntervalIsKept

-----------------------------------------------------------------------------
(* The UDP tracker within the manager. *)

\* What the manager does is, for the UDP tracker, a step of its own or none.
LEMMA NextEmbeds == ASSUME TrackersNext PROVE [Next]_vars
BY DEF TrackersNext, Polling, CallUDP, UDPReceives, UDPWaits, UDPTimesOut, UDPFails, CallHTTP,
       HTTPEnds, HTTPWaits, Cached, StartPoll, Rest, UDPAges, Next, Working

\* The theorems about TrackerUDP hold of the tracker the manager polls.
THEOREM UDPInManager == TrackersSpec => Init /\ [][Next]_vars
<1>1. TrackersInit => Init
  BY DEF TrackersInit
<1>2. [TrackersNext]_allVars => [Next]_vars
  BY NextEmbeds DEF allVars, vars
<1> QED
  BY <1>1, <1>2, PTL DEF TrackersSpec

\* A step of a call brings a new peer list, which ends new(), or changes nothing
\* the manager looks at but where the task waits.
UDPCall == New \/ GetPeers \/ (\E a \in net : Receive(a)) \/ TimeOut \/ IoError

LEMMA UDPCallOutcome ==
    ASSUME UInv, UDPCall
    PROVE  \/ response' = response /\ constructing' = constructing
           \/ response' # response /\ ~constructing' /\ stage' = "idle"
<1>1. CASE \E a \in net : Receive(a) /\ Matches(a) /\ stage # "connect"
  <2>1. PICK a \in net : Receive(a) /\ Matches(a) /\ stage # "connect"
    BY <1>1
  <2>2. response' = a /\ constructing' = FALSE /\ stage' = "idle"
    BY <2>1 DEF Receive, Accept, Announced
  <2>3. stage \in Kinds /\ a.tid = tid
    BY <2>1 DEF Receive, Matches
  <2>4. response.tid < tid
    BY <2>3 DEF UInv, Requests
  <2>5. response.tid # tid
    BY <2>4, ResponseType DEF UInv, TypeOK
  <2> QED
    BY <2>2, <2>3, <2>5
<1>2. UNCHANGED <<response, constructing>>
        \/ \E a \in net : Receive(a) /\ Matches(a) /\ stage # "connect"
  BY DEF UDPCall, New, GetPeers, Receive, Accept, Connected, WrongAnswer,
         UnreadableAnswer, TimeOut, IoError
<1> QED
  BY <1>1, <1>2

-----------------------------------------------------------------------------
(* The HTTP tracker. *)

HInv ==
    /\ HTTP!TypeOK
    /\ hStage = "none" => hRequests = 0 /\ hConstructing
    /\ hStage = "request" => hResponse.n < hRequests
    /\ hStage = "request" /\ ~hConstructing => hSinceAnswer > hResponse.interval

HTTPStep == HTTP!Next \/ UNCHANGED httpVars

LEMMA InitHInv == TrackersInit => HInv
BY ListsAssumption, TrackerAssumption
DEF TrackersInit, HInv, HTTP!Init, HTTP!TypeOK, HTTP!Response

LEMMA HTTPResponseType ==
    ASSUME HInv
    PROVE  hResponse.n \in Nat /\ hResponse.interval \in Nat /\ hRequests \in Nat
<1>1. /\ hRequests \in 0 .. MaxRequests
      /\ hResponse.n \in 0 .. MaxRequests
      /\ hResponse.interval \in HTTPIntervals \cup {0}
  BY DEF HInv, HTTP!TypeOK, HTTP!Response
<1>2. HTTPIntervals \cup {0} \subseteq Nat
  BY ListsAssumption, TrackerAssumption
<1>3. hResponse.interval \in Nat
  BY <1>1, <1>2, Zenon
<1>4. 0 .. MaxRequests \subseteq Nat
  BY ListsAssumption
<1> QED
  BY <1>1, <1>3, <1>4, Zenon

LEMMA HTTPRequestStep == ASSUME HInv, HTTP!New \/ HTTP!GetPeers PROVE HInv'
<1>1. /\ hStage' = "request"
      /\ hRequests' = hRequests + 1
      /\ UNCHANGED <<hConstructing, hResponse, hAnnAge, hSinceAnswer>>
  BY DEF HTTP!New, HTTP!GetPeers, HTTP!Request
<1>2. hRequests < MaxRequests
  BY ListsAssumption DEF HTTP!New, HTTP!GetPeers, HInv
<1>3. hResponse.n <= hRequests
  BY DEF HInv, HTTP!TypeOK
<1>4. HTTP!TypeOK'
  BY <1>1, <1>2, <1>3, HTTPResponseType, ListsAssumption DEF HInv, HTTP!TypeOK
<1>5. ~hConstructing' => hSinceAnswer' > hResponse'.interval
  <2>1. CASE HTTP!New
    BY <1>1, <2>1 DEF HTTP!New, HInv
  <2>2. CASE HTTP!GetPeers
    <3>1. hAnnAge > hResponse.interval /\ hSinceAnswer \in hAnnAge .. MaxAge
          /\ hAnnAge \in 0 .. MaxAge
      BY <2>2 DEF HTTP!GetPeers, HInv, HTTP!TypeOK
    <3> QED
      BY <1>1, <3>1, HTTPResponseType, TrackerAssumption
  <2> QED
    BY <2>1, <2>2
<1> QED
  BY <1>1, <1>3, <1>4, <1>5, HTTPResponseType DEF HInv

LEMMA HTTPAnsweredStep ==
    ASSUME HInv, NEW i \in HTTPIntervals, HTTP!Answered(i) PROVE HInv'
<1>1. /\ hStage' = "idle"
      /\ hResponse' = [n |-> hRequests, interval |-> i]
      /\ hAnnAge' = 0 /\ hSinceAnswer' = 0
      /\ hConstructing' = FALSE
      /\ hRequests' = hRequests
  BY DEF HTTP!Answered
<1>2. hRequests \in 0 .. MaxRequests /\ hRequests \in Nat
  BY HTTPResponseType DEF HInv, HTTP!TypeOK
<1>3. hResponse' \in HTTP!Response /\ hResponse'.n = hRequests
  BY <1>1, <1>2 DEF HTTP!Response
<1>4. hAnnAge' \in 0 .. MaxAge /\ hSinceAnswer' \in hAnnAge' .. MaxAge
  BY <1>1, TrackerAssumption
<1>5. hRequests' \in 0 .. MaxRequests /\ hResponse'.n <= hRequests'
  BY <1>1, <1>2, <1>3
<1>6. HTTP!TypeOK'
  BY <1>1, <1>3, <1>4, <1>5 DEF HTTP!TypeOK
<1> QED
  BY <1>1, <1>6 DEF HInv

LEMMA HTTPFailureStep ==
    ASSUME HInv, HTTP!Undecodable \/ HTTP!Fails PROVE HInv'
<1>1. /\ hStage' \in {"gone", "idle"}
      /\ hAnnAge' \in {0, hAnnAge}
      /\ UNCHANGED <<hConstructing, hRequests, hResponse, hSinceAnswer>>
  BY DEF HTTP!Undecodable, HTTP!Fails, HTTP!Returns
<1>2. /\ hAnnAge' \in 0 .. MaxAge
      /\ hSinceAnswer \in hAnnAge' .. MaxAge
  BY <1>1, TrackerAssumption DEF HInv, HTTP!TypeOK
<1> QED
  BY <1>1, <1>2 DEF HInv, HTTP!TypeOK

LEMMA HTTPTickStep == ASSUME HInv, HTTP!Tick PROVE HInv'
<1>1. UNCHANGED <<hStage, hConstructing, hRequests, hResponse>>
  BY DEF HTTP!Tick
<1>2. /\ hAnnAge' \in 0 .. MaxAge
      /\ hSinceAnswer' \in hAnnAge' .. MaxAge
      /\ hSinceAnswer <= hSinceAnswer'
  BY TrackerAssumption DEF HTTP!Tick, HTTP!Older, HInv, HTTP!TypeOK
<1>3. hSinceAnswer > hResponse.interval => hSinceAnswer' > hResponse.interval
  BY <1>2, HTTPResponseType, TrackerAssumption DEF HInv, HTTP!TypeOK
<1> QED
  BY <1>1, <1>2, <1>3 DEF HInv, HTTP!TypeOK

LEMMA NextHInv == ASSUME HInv, HTTPStep PROVE HInv'
<1>1. CASE UNCHANGED httpVars
  BY <1>1 DEF httpVars, HInv, HTTP!TypeOK
<1> QED
  BY <1>1, HTTPRequestStep, HTTPAnsweredStep, HTTPFailureStep, HTTPTickStep
  DEF HTTPStep, HTTP!Next, HTTP!Ends

\* A call of the HTTP tracker, as UDPCallOutcome.
HTTPCall == HTTP!New \/ HTTP!GetPeers \/ HTTP!Ends

LEMMA HTTPCallOutcome ==
    ASSUME HInv, HTTPCall
    PROVE  \/ hResponse' = hResponse /\ hConstructing' = hConstructing
           \/ hResponse' # hResponse /\ ~hConstructing' /\ hStage' = "idle"
<1>1. CASE \E i \in HTTPIntervals : HTTP!Answered(i)
  <2>1. hResponse'.n = hRequests /\ hConstructing' = FALSE /\ hStage' = "idle"
        /\ hStage = "request"
    BY <1>1 DEF HTTP!Answered
  <2>2. hResponse.n # hRequests
    BY <2>1, HTTPResponseType DEF HInv
  <2> QED
    BY <2>1, <2>2
<1>2. CASE UNCHANGED <<hResponse, hConstructing>>
  BY <1>2
<1> QED
  BY <1>1, <1>2 DEF HTTPCall, HTTP!New, HTTP!GetPeers, HTTP!Request, HTTP!Ends,
                    HTTP!Undecodable, HTTP!Fails

LEMMA NextIsHTTPStep == ASSUME TrackersNext PROVE HTTPStep
BY DEF TrackersNext, Polling, CallUDP, UDPReceives, UDPWaits, UDPTimesOut, UDPFails, CallHTTP,
       HTTPEnds, HTTPWaits, Cached, StartPoll, Rest, HTTPAges, HTTPStep, HTTP!Next, httpVars

-----------------------------------------------------------------------------
(* The loops over the trackers. *)

Loops ==
    /\ list \in Lists
    /\ doing \in {"making", "made", "polling", "polled"}
    /\ at \in 0 .. Len(list)
    /\ trackers \in Seq(Protocol)
    /\ IsInjective(trackers)
    /\ Len(trackers) <= Len(list)
    /\ doing = "making" =>
          /\ at \in 1 .. Len(list)
          /\ Len(trackers) < at
          /\ \A i \in DOMAIN trackers : \E j \in 1 .. at - 1 : list[j] = trackers[i]
    /\ doing = "polling" => at \in 1 .. Len(trackers)
    /\ failed \subseteq Joined

\* A tracker has joined when its new() has returned it.
JoinedWhenMade ==
    /\ "udp" \in Joined <=> ~constructing
    /\ "http" \in Joined <=> ~hConstructing

\* The trackers the poll has passed are dealt with.
Collected ==
    doing \in {"polling", "polled"} =>
        \A k \in Protocol, i \in DOMAIN trackers :
            trackers[i] = k => \/ doing = "polling" /\ at <= i
                               \/ PeersOf(k) \in pool
                               \/ k \in failed

LoopInv == Loops /\ JoinedWhenMade /\ Collected

LEMMA ListType ==
    ASSUME Loops
    PROVE  list \in Seq(Protocol) /\ IsInjective(list) /\ Len(list) \in Nat \ {0}
           /\ Len(trackers) \in Nat
<1>1. list \in Seq(Protocol) /\ IsInjective(list) /\ list # <<>>
  BY ListsAssumption DEF Loops
<1> QED
  BY <1>1 DEF Loops

\* While new() makes a tracker, it has not joined before.
LEMMA TurnToMake ==
    ASSUME Loops, NEW k \in Protocol, Turn(k), doing = "making"
    PROVE  k \notin Joined
<1> SUFFICES ASSUME k \in Joined PROVE FALSE
  OBVIOUS
<1>1. PICK i \in DOMAIN trackers : trackers[i] = k
  BY DEF Joined, ToSet
<1>2. PICK j \in 1 .. at - 1 : list[j] = k
  BY <1>1 DEF Loops
<1>3. list[at] = k /\ at \in 1 .. Len(list) /\ at \in DOMAIN list
  BY ListType DEF Turn, Loops
<1>4. j \in DOMAIN list /\ j # at
  BY <1>2, <1>3, ListType
<1> QED
  BY <1>2, <1>3, <1>4, ListType DEF IsInjective

\* While a tracker is polled, it has joined, at the place of the loop only.
LEMMA TurnToPoll ==
    ASSUME Loops, NEW k \in Protocol, Turn(k), doing = "polling"
    PROVE  /\ k \in Joined
           /\ \A i \in DOMAIN trackers : trackers[i] = k => i = at
<1>1. trackers[at] = k /\ at \in 1 .. Len(trackers) /\ at \in DOMAIN trackers
  BY ListType DEF Turn, Loops
<1> QED
  BY <1>1 DEF Loops, IsInjective, Joined, ToSet

LEMMA TurnDoing == ASSUME NEW k, Turn(k) PROVE doing \in {"making", "polling"}
BY DEF Turn

\* What the end of a call does to the loops, when it has changed nothing but the
\* tracker whose turn it is.
LEMMA MakeReturns ==
    ASSUME Loops, NEW k \in Protocol, NEW ok \in BOOLEAN, Turn(k), Returns(k, ok),
           doing = "making"
    PROVE  Loops' /\ Collected' /\ Joined' = IF ok THEN Joined \cup {k} ELSE Joined
<1>1. /\ trackers' = IF ok THEN Append(trackers, k) ELSE trackers
      /\ UNCHANGED <<pool, failed, list>>
      /\ Advance
  BY DEF Returns
<1>2. /\ list \in Seq(Protocol) /\ Len(list) \in Nat /\ Len(trackers) \in Nat
      /\ trackers \in Seq(Protocol) /\ IsInjective(trackers)
      /\ at \in 1 .. Len(list) /\ Len(trackers) < at
      /\ list[at] = k
      /\ \A i \in DOMAIN trackers : \E j \in 1 .. at - 1 : list[j] = trackers[i]
  BY ListType DEF Loops, Turn
<1>3. k \notin Joined
  BY TurnToMake
<1>4. /\ trackers' \in Seq(Protocol)
      /\ IsInjective(trackers')
      /\ Len(trackers') <= at
      /\ Joined' = IF ok THEN Joined \cup {k} ELSE Joined
      /\ \A i \in DOMAIN trackers' : \E j \in 1 .. at : list[j] = trackers'[i]
  <2>1. CASE ok
    <3>1. trackers' = Append(trackers, k)
      BY <1>1, <2>1
    <3>2. /\ trackers' \in Seq(Protocol)
          /\ Len(trackers') = Len(trackers) + 1
          /\ DOMAIN trackers' = DOMAIN trackers \cup {Len(trackers) + 1}
          /\ \A i \in DOMAIN trackers : trackers'[i] = trackers[i]
          /\ trackers'[Len(trackers) + 1] = k
      BY <1>2, <3>1
    <3>3. Joined' = Joined \cup {k}
      BY <3>2 DEF Joined, ToSet
    <3>4. \A i \in DOMAIN trackers : trackers[i] # k
      BY <1>3 DEF Joined, ToSet
    <3>5. IsInjective(trackers')
      BY <1>2, <3>2, <3>4 DEF IsInjective
    <3>6. \A i \in DOMAIN trackers' : \E j \in 1 .. at : list[j] = trackers'[i]
      BY <1>2, <3>2
    <3> QED
      BY <1>2, <2>1, <3>2, <3>3, <3>5, <3>6
  <2>2. CASE ~ok
    <3>1. trackers' = trackers
      BY <1>1, <2>2
    <3>2. Joined' = Joined
      BY <3>1 DEF Joined
    <3>3. 1 .. at - 1 \subseteq 1 .. at
      BY <1>2
    <3> QED
      BY <1>2, <2>2, <3>1, <3>2, <3>3
  <2> QED
    BY <2>1, <2>2
<1>5. failed' \subseteq Joined'
  BY <1>1, <1>4 DEF Loops
<1>6. CASE at < Len(list)
  <2>1. at' = at + 1 /\ doing' = "making"
    BY <1>1, <1>6 DEF Advance
  <2>2. at' \in 1 .. Len(list') /\ Len(trackers') < at' /\ at' - 1 = at /\ list' = list
    BY <1>1, <1>2, <1>4, <1>6, <2>1
  <2> QED
    BY <1>1, <1>2, <1>4, <1>5, <2>1, <2>2 DEF Loops, Collected
<1>7. CASE ~(at < Len(list))
  <2>1. at' = 0 /\ doing' = "made"
    BY <1>1, <1>7 DEF Advance
  <2>2. Len(trackers') <= Len(list') /\ 0 \in 0 .. Len(list')
    BY <1>1, <1>2, <1>4
  <2> QED
    BY <1>1, <1>4, <1>5, <2>1, <2>2 DEF Loops, Collected
<1> QED
  BY <1>4, <1>6, <1>7

LEMMA PollReturns ==
    ASSUME Loops, Collected, NEW k \in Protocol, NEW ok \in BOOLEAN, Turn(k),
           Returns(k, ok), doing = "polling",
           \A q \in Protocol \ {k} : PeersOf(q)' = PeersOf(q)
    PROVE  Loops' /\ Collected' /\ Joined' = Joined
<1>1. /\ UNCHANGED <<trackers, list>>
      /\ pool' = IF ok THEN pool \cup {PeersOf(k)'} ELSE pool
      /\ failed' = IF ok THEN failed ELSE failed \cup {k}
      /\ Advance
  BY DEF Returns
<1>2. Joined' = Joined
  BY <1>1 DEF Joined
<1>3. /\ k \in Joined
      /\ \A i \in DOMAIN trackers : trackers[i] = k => i = at
      /\ trackers \in Seq(Protocol)
      /\ Len(trackers) \in Nat /\ DOMAIN trackers = 1 .. Len(trackers)
      /\ Len(list) \in Nat /\ Len(trackers) <= Len(list)
      /\ at \in 1 .. Len(trackers)
  BY TurnToPoll, ListType DEF Loops
<1>4. failed' \subseteq Joined'
  BY <1>1, <1>2, <1>3 DEF Loops
<1>5. PeersOf(k)' \in pool' \/ k \in failed'
  BY <1>1
<1>6. \A q \in Protocol, i \in DOMAIN trackers : trackers[i] = q /\ i <= at =>
         PeersOf(q)' \in pool' \/ q \in failed'
  <2> SUFFICES ASSUME NEW q \in Protocol, NEW i \in DOMAIN trackers,
                      trackers[i] = q, i <= at
               PROVE  PeersOf(q)' \in pool' \/ q \in failed'
    OBVIOUS
  <2>1. CASE q = k
    BY <1>5, <2>1
  <2>2. CASE q # k
    <3>1. i # at
      BY <2>2 DEF Turn
    <3>2. ~(at <= i)
      BY <1>3, <3>1
    <3>3. PeersOf(q) \in pool \/ q \in failed
      BY <3>2 DEF Collected
    <3>4. PeersOf(q)' = PeersOf(q)
      BY <2>2
    <3> QED
      BY <1>1, <3>3, <3>4
  <2> QED
    BY <2>1, <2>2
<1>7. CASE at < Len(trackers)
  <2>1. at' = at + 1 /\ doing' = "polling"
    BY <1>1, <1>7 DEF Advance
  <2>2. Loops'
    BY <1>1, <1>3, <1>4, <1>7, <2>1 DEF Loops
  <2>3. Collected'
    <3> SUFFICES ASSUME NEW q \in Protocol, NEW i \in DOMAIN trackers',
                        trackers'[i] = q, ~(at' <= i)
                 PROVE  PeersOf(q)' \in pool' \/ q \in failed'
      BY <2>1 DEF Collected
    <3>1. i \in DOMAIN trackers /\ trackers[i] = q /\ i <= at
      BY <1>1, <1>3, <2>1
    <3> QED
      BY <1>6, <3>1
  <2> QED
    BY <1>2, <2>2, <2>3
<1>8. CASE ~(at < Len(trackers))
  <2>1. at' = 0 /\ doing' = "polled"
    BY <1>1, <1>8 DEF Advance
  <2>2. Loops'
    BY <1>1, <1>3, <1>4, <2>1 DEF Loops
  <2>3. Collected'
    <3> SUFFICES ASSUME NEW q \in Protocol, NEW i \in DOMAIN trackers',
                        trackers'[i] = q
                 PROVE  PeersOf(q)' \in pool' \/ q \in failed'
      BY DEF Collected
    <3>1. i \in DOMAIN trackers /\ trackers[i] = q /\ i <= at
      BY <1>1, <1>3, <1>8
    <3> QED
      BY <1>6, <3>1
  <2> QED
    BY <1>2, <2>2, <2>3
<1> QED
  BY <1>7, <1>8

\* Time, and a call that goes on, change nothing the loops depend on.
LEMMA QuietLoops ==
    ASSUME LoopInv,
           UNCHANGED <<managerVars, response, constructing, hResponse, hConstructing>>
    PROVE  LoopInv'
BY DEF LoopInv, Loops, JoinedWhenMade, Collected, managerVars, Joined, PeersOf

LEMMA UDPTurn ==
    ASSUME LoopInv, UInv, Turn("udp"), UDPCall, UDPGoesOn,
           UNCHANGED <<hResponse, hConstructing>>
    PROVE  LoopInv'
<1>1. CASE stage' \in Kinds
  <2>1. response' = response /\ constructing' = constructing
    BY <1>1, UDPCallOutcome DEF Kinds
  <2> QED
    BY <1>1, <2>1, QuietLoops DEF UDPGoesOn
<1>2. CASE stage' \notin Kinds
  <2>1. PICK ok \in BOOLEAN : ok = (response' # response)
    OBVIOUS
  <2>2. Returns("udp", ok)
    BY <1>2, <2>1 DEF UDPGoesOn
  <2>3. /\ ok => ~constructing'
        /\ ~ok => constructing' = constructing
    BY <2>1, UDPCallOutcome
  <2>4. \A q \in Protocol \ {"udp"} : PeersOf(q)' = PeersOf(q)
    BY DEF Protocol, PeersOf
  <2>5. "udp" \in Protocol /\ "http" # "udp"
    BY DEF Protocol
  <2>6. CASE doing = "making"
    <3>1. Loops' /\ Collected' /\ Joined' = IF ok THEN Joined \cup {"udp"} ELSE Joined
      BY <2>2, <2>5, <2>6, MakeReturns DEF LoopInv
    <3>2. JoinedWhenMade'
      BY <2>3, <2>5, <3>1 DEF LoopInv, JoinedWhenMade
    <3> QED
      BY <3>1, <3>2 DEF LoopInv
  <2>7. CASE doing = "polling"
    <3>1. Loops' /\ Collected' /\ Joined' = Joined
      BY <2>2, <2>4, <2>5, <2>7, PollReturns DEF LoopInv
    <3>2. ~constructing
      BY <2>5, <2>7, TurnToPoll DEF LoopInv, JoinedWhenMade
    <3>3. JoinedWhenMade'
      BY <2>3, <3>1, <3>2 DEF LoopInv, JoinedWhenMade
    <3> QED
      BY <3>1, <3>3 DEF LoopInv
  <2> QED
    BY <2>6, <2>7, TurnDoing
<1> QED
  BY <1>1, <1>2

LEMMA HTTPTurn ==
    ASSUME LoopInv, HInv, Turn("http"), HTTPCall, HTTPGoesOn,
           UNCHANGED <<response, constructing>>
    PROVE  LoopInv'
<1>1. CASE hStage' = "request"
  <2>1. hResponse' = hResponse /\ hConstructing' = hConstructing
    BY <1>1, HTTPCallOutcome
  <2> QED
    BY <1>1, <2>1, QuietLoops DEF HTTPGoesOn
<1>2. CASE hStage' # "request"
  <2>1. PICK ok \in BOOLEAN : ok = (hResponse' # hResponse)
    OBVIOUS
  <2>2. Returns("http", ok)
    BY <1>2, <2>1 DEF HTTPGoesOn
  <2>3. /\ ok => ~hConstructing'
        /\ ~ok => hConstructing' = hConstructing
    BY <2>1, HTTPCallOutcome
  <2>4. \A q \in Protocol \ {"http"} : PeersOf(q)' = PeersOf(q)
    BY DEF Protocol, PeersOf
  <2>5. "http" \in Protocol /\ "http" # "udp"
    BY DEF Protocol
  <2>6. CASE doing = "making"
    <3>1. Loops' /\ Collected' /\ Joined' = IF ok THEN Joined \cup {"http"} ELSE Joined
      BY <2>2, <2>5, <2>6, MakeReturns DEF LoopInv
    <3>2. JoinedWhenMade'
      BY <2>3, <2>5, <3>1 DEF LoopInv, JoinedWhenMade
    <3> QED
      BY <3>1, <3>2 DEF LoopInv
  <2>7. CASE doing = "polling"
    <3>1. Loops' /\ Collected' /\ Joined' = Joined
      BY <2>2, <2>4, <2>5, <2>7, PollReturns DEF LoopInv
    <3>2. ~hConstructing
      BY <2>5, <2>7, TurnToPoll DEF LoopInv, JoinedWhenMade
    <3>3. JoinedWhenMade'
      BY <2>3, <3>1, <3>2 DEF LoopInv, JoinedWhenMade
    <3> QED
      BY <3>1, <3>3 DEF LoopInv
  <2> QED
    BY <2>6, <2>7, TurnDoing
<1> QED
  BY <1>1, <1>2

LEMMA CachedStep == ASSUME LoopInv, Cached PROVE LoopInv'
<1>1. PICK k \in Protocol : Turn(k) /\ Returns(k, TRUE)
  BY DEF Cached
<1>2. /\ doing = "polling"
      /\ UNCHANGED <<response, constructing, hResponse, hConstructing>>
  BY DEF Cached, vars, httpVars
<1>3. \A q \in Protocol \ {k} : PeersOf(q)' = PeersOf(q)
  BY <1>2 DEF PeersOf
<1>4. Loops' /\ Collected' /\ Joined' = Joined
  BY <1>1, <1>2, <1>3, PollReturns DEF LoopInv
<1> QED
  BY <1>2, <1>4 DEF LoopInv, JoinedWhenMade

LEMMA StartPollStep == ASSUME LoopInv, StartPoll PROVE LoopInv'
<1>1. /\ doing' = "polling" /\ at' = 1 /\ failed' = {}
      /\ UNCHANGED <<list, trackers, pool>>
      /\ UNCHANGED <<response, constructing, hResponse, hConstructing>>
      /\ trackers # <<>>
  BY DEF StartPoll, vars, httpVars
<1>2. /\ trackers \in Seq(Protocol) /\ IsInjective(trackers) /\ list \in Lists
      /\ Len(trackers) \in Nat /\ Len(list) \in Nat
      /\ Len(trackers) <= Len(list)
  BY ListType DEF LoopInv, Loops
<1>3. 1 \in 1 .. Len(trackers) /\ 1 \in 0 .. Len(list)
  BY <1>1, <1>2
<1>4. Loops'
  BY <1>1, <1>2, <1>3 DEF Loops
<1>5. \A i \in DOMAIN trackers : 1 <= i
  BY <1>2
<1>6. Collected'
  BY <1>1, <1>5 DEF Collected
<1>7. JoinedWhenMade'
  BY <1>1 DEF LoopInv, JoinedWhenMade, Joined
<1> QED
  BY <1>4, <1>6, <1>7 DEF LoopInv

LEMMA InitLoopInv == TrackersInit => LoopInv
<1> SUFFICES ASSUME TrackersInit PROVE LoopInv
  OBVIOUS
<1>1. /\ list \in Lists /\ doing = "making" /\ at = 1 /\ trackers = <<>> /\ failed = {}
      /\ constructing = TRUE /\ hConstructing = TRUE
  BY DEF TrackersInit, Init, HTTP!Init
<1>2. list \in Seq(Protocol) /\ list # <<>>
  BY <1>1, ListsAssumption
<1>3. 1 \in 1 .. Len(list) /\ 1 \in 0 .. Len(list) /\ 0 <= Len(list)
  BY <1>2
<1>4. /\ trackers \in Seq(Protocol) /\ DOMAIN trackers = {} /\ Len(trackers) = 0
      /\ Joined = {}
  BY <1>1 DEF Joined, ToSet
<1>5. Loops
  BY <1>1, <1>3, <1>4 DEF Loops, IsInjective
<1> QED
  BY <1>1, <1>4, <1>5 DEF LoopInv, JoinedWhenMade, Collected

-----------------------------------------------------------------------------
(* Theorems about TrackerManager. *)

MInv == UInv /\ HInv /\ LoopInv

LEMMA NextLoopInv == ASSUME MInv, [TrackersNext]_allVars PROVE LoopInv'
<1>1. LoopInv /\ UInv /\ HInv
  BY DEF MInv
<1>2. HTTPAges \/ UNCHANGED httpVars => UNCHANGED <<hResponse, hConstructing>>
  BY DEF HTTPAges, HTTP!Tick, httpVars
<1>3. UDPAges \/ UNCHANGED vars => UNCHANGED <<response, constructing>>
  BY DEF UDPAges, Tick, vars
<1>4. CASE CallUDP \/ UDPReceives \/ UDPTimesOut \/ UDPFails
  BY <1>1, <1>2, <1>4, UDPTurn
  DEF CallUDP, UDPReceives, UDPTimesOut, UDPFails, UDPCall
<1>5. CASE CallHTTP \/ HTTPEnds
  BY <1>1, <1>3, <1>5, HTTPTurn DEF CallHTTP, HTTPEnds, HTTPCall
<1>6. CASE HTTPWaits
  BY <1>1, <1>3, <1>6, QuietLoops DEF HTTPWaits, HTTP!Tick
<1>7. CASE UDPWaits \/ Rest
  <2>1. CASE UDPWaits
    BY <1>1, <1>2, <2>1, QuietLoops DEF UDPWaits, Wait
  <2>2. CASE Rest
    BY <1>1, <1>2, <1>3, <2>2, QuietLoops DEF Rest
  <2> QED
    BY <1>7, <2>1, <2>2
<1>8. CASE UNCHANGED allVars
  BY <1>1, <1>8, QuietLoops DEF allVars, vars, httpVars
<1> QED
  BY <1>1, <1>4, <1>5, <1>6, <1>7, <1>8, CachedStep, StartPollStep
  DEF TrackersNext, Polling

\* The invariant of making and polling: the trackers' own invariants, which
\* trackers have joined, and how far the loops are.
THEOREM TrackersInvariance == TrackersSpec => []MInv
<1>1. TrackersInit => MInv
  BY InitUInv, InitHInv, InitLoopInv DEF TrackersInit, MInv
<1>2. MInv /\ [TrackersNext]_allVars => MInv'
  <2> SUFFICES ASSUME MInv, [TrackersNext]_allVars PROVE MInv'
    OBVIOUS
  <2>1. UInv'
    BY NextUInv, NextEmbeds DEF MInv, allVars, vars
  <2>2. HInv'
    BY NextHInv, NextIsHTTPStep DEF MInv, allVars, httpVars, HTTPStep
  <2> QED
    BY <2>1, <2>2, NextLoopInv DEF MInv
<1> QED
  BY <1>1, <1>2, PTL DEF TrackersSpec

\* TrackersTypeOK: trackers join exactly when their new() succeeds.
THEOREM TrackersTypes == TrackersSpec => []TrackersTypeOK
<1>1. MInv => TrackersTypeOK
  BY DEF MInv, HInv, LoopInv, Loops, JoinedWhenMade, TrackersTypeOK
<1> QED
  BY <1>1, TrackersInvariance, PTL

\* poll_all_trackers passes over a tracker that fails, and over no other.
THEOREM PollsCollect == TrackersSpec => []PollCollects
<1>1. MInv => PollCollects
  <2> SUFFICES ASSUME MInv, doing = "polled", NEW k \in Joined
               PROVE  PeersOf(k) \in pool \/ k \in failed
    BY DEF PollCollects
  <2>1. PICK i \in DOMAIN trackers : trackers[i] = k
    BY DEF Joined, ToSet
  <2>2. k \in Protocol
    BY <2>1 DEF MInv, LoopInv, Loops
  <2> QED
    BY <2>1, <2>2 DEF MInv, LoopInv, Collected
<1> QED
  BY <1>1, TrackersInvariance, PTL

\* The HTTP tracker keeps the interval, whatever the other tracker does meanwhile.
THEOREM HTTPIntervalsAreKept == TrackersSpec => HTTPIntervalIsKept
<1>1. MInv /\ [TrackersNext]_allVars =>
         [hResponse' # hResponse /\ ~hConstructing =>
             hSinceAnswer > hResponse.interval]_hResponse
  <2> SUFFICES ASSUME MInv, TrackersNext, hResponse' # hResponse, ~hConstructing
               PROVE  hSinceAnswer > hResponse.interval
    BY DEF allVars, httpVars
  <2>1. \E i \in HTTPIntervals : HTTP!Answered(i)
    BY NextIsHTTPStep DEF HTTPStep, HTTP!Next, HTTP!New, HTTP!GetPeers, HTTP!Request,
       HTTP!Ends, HTTP!Undecodable, HTTP!Fails, HTTP!Tick, httpVars
  <2> QED
    BY <2>1 DEF HTTP!Answered, MInv, HInv
<1> QED
  BY <1>1, TrackersInvariance, PTL DEF TrackersSpec, HTTPIntervalIsKept, HTTP!IntervalIsKept

\* What is proved of a UDP tracker alone, of the one in the list.
THEOREM UDPInListIsSound ==
    TrackersSpec => []TypeOK /\ []IdAgeIsBounded /\ AnswersInOrder /\ IntervalIsKept
<1>1. UInv /\ [Next]_vars =>
         /\ [/\ connId' >= connId
             /\ response' # response => response'.tid > response.tid /\ response'.tid > connId
            ]_<<connId, response>>
         /\ [response' # response /\ response # NoResponse =>
                sinceAnswer > response.interval]_response
  BY ReplacedByNewer
<1> QED
  BY <1>1, UDPInManager, UDPInvariance, UInvImplies, PTL DEF AnswersInOrder, IntervalIsKept
=============================================================================
