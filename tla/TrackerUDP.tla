------------------------------ MODULE TrackerUDP ------------------------------
(***************************************************************************)
(* core/tracker/tracker_udp.rs: connect and announce over a network that   *)
(* loses, delays, duplicates and reorders datagrams.                       *)
(*                                                                         *)
(* Transaction ids are random in the code; here they are numbers never used *)
(* before, in the order of the requests.  A connection id is represented by *)
(* the transaction that obtained it.  Time passes in units, between calls   *)
(* and while a request waits for its answer, at most CONNECTION_TIMEOUT.    *)
(***************************************************************************)
EXTENDS Naturals

CONSTANTS
    MaxRetries,  \* MAX_RETRIES (3), attempts for each kind of request
    Timeout,     \* CONNECTION_TIMEOUT (15 s), in units of time
    Expiry,      \* CONNECTION_EXPIRY (120 s), in units of time
    Intervals,   \* the intervals a tracker may ask for
    MaxTid,      \* bound of the model: requests sent
    MaxAge       \* bound of the model: the time since an announce is counted up
                 \* to here; ages of ids as far as they are compared

ASSUME TrackerAssumption ==
    /\ MaxRetries \in Nat \ {0}
    /\ Timeout \in Nat \ {0}
    /\ Expiry \in Nat \ {0}
    /\ Intervals \subseteq Nat
    /\ MaxTid \in Nat
    /\ 2 * MaxRetries <= MaxTid
    /\ MaxAge \in Nat
    /\ \A i \in Intervals : i < MaxAge

VARIABLES
    stage,         \* what the task waits for: "none" (new() is not called yet),
                   \* "connect" or "announce" (an answer), "idle" (the next
                   \* call), "gone" (new() failed)
    constructing,  \* new() has not returned yet
    tries,         \* attempts left for this request, the current one included
    waited,        \* time since the last request was sent, while its answer is
                   \* awaited
    tid,           \* transaction id of the last request
    net,           \* answers on their way: they stay when they are received,
                   \* which makes for duplicates, and one that never is is lost
    connId,        \* connection_id
    connAge,       \* connection_time.elapsed()
    response,      \* announce_response
    annAge,        \* last_announce.elapsed()
    sinceAnswer,   \* history: time since the last announce was answered
    idAge          \* history: time since connection_id was obtained

ages == <<connAge, annAge, sinceAnswer, idAge>>

vars == <<stage, constructing, tries, waited, tid, net, connId, response, ages>>

-----------------------------------------------------------------------------
Kinds == {"connect", "announce"}

\* Datagrams by what the receivers look at: their size, 16 bytes for a connect
\* response, 20 and six per peer for an announce response; action and transaction
\* id.  An announce response names an interval.
Answer == [kind : Kinds, tid : 1 .. MaxTid, interval : Intervals \cup {0}]

\* An error message has another action and the size of its text, which may fit
\* one of the kinds or none; whatever it answers, it is never the answer.
ErrorMessage(size) == [kind |-> size, tid |-> 0, interval |-> 0]

Datagram == Answer \cup {ErrorMessage(size) : size \in Kinds \cup {"other"}}

Answers(kind, t) ==
    {[kind |-> kind, tid |-> t, interval |-> i] :
        i \in IF kind = "announce" THEN Intervals ELSE {0}}
    \cup {ErrorMessage(size) : size \in Kinds \cup {"other"}}

NoResponse == [kind |-> "announce", tid |-> 0, interval |-> 0]

\* No id is used when it is as old as this (theorem IdAgesAreBounded).
MaxIdAge == Expiry + 2 * MaxRetries * Timeout

Older(age, cap) == IF age < cap THEN age + 1 ELSE cap

\* A unit of time.
AgesGrow ==
    /\ connAge' = Older(connAge, Expiry)
    /\ annAge' = Older(annAge, MaxAge)
    /\ sinceAnswer' = Older(sinceAnswer, MaxAge)
    /\ idAge' = Older(idAge, MaxIdAge)

\* send_to: the request, or its answer, may be lost; an answer fits the request
\* or is an error message.
Attempt(kind, n) ==
    /\ stage' = kind
    /\ tries' = n
    /\ waited' = 0
    /\ tid' = tid + 1
    /\ \/ UNCHANGED net
       \/ \E a \in Answers(kind, tid + 1) : net' = net \cup {a}

\* The call returns an error, and new() leaves no tracker behind.
GiveUp ==
    /\ stage' = IF constructing THEN "gone" ELSE "idle"
    /\ waited' = 0
    /\ UNCHANGED <<tries, tid, net>>

\* Mutant: one attempt too many.
RetryOnceMore ==
    IF tries > 0 THEN Attempt(stage, tries - 1) ELSE GiveUp

\* Mutant: the same request is repeated as often as it takes.
RetryAlways ==
    UNCHANGED <<stage, tries, waited, tid, net>>

\* The next turn of `for _ in 0..MAX_RETRIES`.
Retry ==
    IF tries > 1 THEN Attempt(stage, tries - 1) ELSE GiveUp

Init ==
    /\ stage = "none"
    /\ constructing = TRUE
    /\ tries = 0
    /\ waited = 0
    /\ tid = 0
    /\ net = {}
    /\ connId = 0
    /\ response = NoResponse
    /\ connAge = 0
    /\ annAge = 0
    /\ sinceAnswer = 0
    /\ idAge = 0

\* new() connects first, once the URL is parsed and the socket bound.
New ==
    /\ stage = "none"
    /\ \/ Attempt("connect", MaxRetries)
       \/ GiveUp
    /\ UNCHANGED <<constructing, connId, response, ages>>

\* get_peers, where it does not return the peers it has.
GetPeers ==
    /\ stage = "idle"
    /\ tid + 2 * MaxRetries <= MaxTid
    /\ annAge > response.interval
    /\ Attempt(IF connAge >= Expiry THEN "connect" ELSE "announce", MaxRetries)
    /\ UNCHANGED <<constructing, connId, response, ages>>

\* The new id is used for the announce that follows; its time is not noted.
Connected(a) ==
    /\ connId' = a.tid
    /\ idAge' = 0
    /\ Attempt("announce", MaxRetries)
    /\ UNCHANGED <<constructing, response, connAge, annAge, sinceAnswer>>

\* Mutant: last_announce stays what it was when the tracker was made.
AnnouncedOnce(a) ==
    /\ response' = a
    /\ annAge' = IF constructing THEN 0 ELSE annAge
    /\ sinceAnswer' = 0
    /\ connAge' = IF constructing THEN 0 ELSE connAge
    /\ constructing' = FALSE
    /\ stage' = "idle"
    /\ waited' = 0
    /\ UNCHANGED <<tries, tid, net, connId, idAge>>

\* Both times are set when new() ends, last_announce after every announce.
Announced(a) ==
    /\ response' = a
    /\ annAge' = 0
    /\ sinceAnswer' = 0
    /\ connAge' = IF constructing THEN 0 ELSE connAge
    /\ constructing' = FALSE
    /\ stage' = "idle"
    /\ waited' = 0
    /\ UNCHANGED <<tries, tid, net, connId, idAge>>

Accept(a) == IF stage = "connect" THEN Connected(a) ELSE Announced(a)

\* Mutant: the transaction id is not compared.
MatchesKindOnly(a) == a.kind = stage

Matches(a) == a.kind = stage /\ a.tid = tid

\* A datagram of the right size with another transaction id costs an attempt.
WrongAnswer(a) ==
    /\ Retry
    /\ UNCHANGED <<constructing, connId, response, ages>>

\* A datagram of another size ends the call, whatever it answers.
UnreadableAnswer ==
    /\ GiveUp
    /\ UNCHANGED <<constructing, connId, response, ages>>

\* recv_from, on whatever arrives next.
Receive(a) ==
    /\ stage \in Kinds
    /\ IF Matches(a) THEN Accept(a)
       ELSE IF a.kind = stage THEN WrongAnswer(a)
       ELSE UnreadableAnswer

\* Time while the task waits for the answer.
Wait ==
    /\ stage \in Kinds
    /\ waited < Timeout
    /\ waited' = waited + 1
    /\ AgesGrow
    /\ UNCHANGED <<stage, constructing, tries, tid, net, connId, response>>

\* timeout() fires; an answer that comes at the same moment may still be received.
TimeOut ==
    /\ stage \in Kinds
    /\ waited = Timeout
    /\ Retry
    /\ UNCHANGED <<constructing, connId, response, ages>>

IoError ==
    /\ stage \in Kinds
    /\ UnreadableAnswer

\* Time between calls.
Tick ==
    /\ stage = "idle"
    /\ AgesGrow
    /\ UNCHANGED <<stage, constructing, tries, waited, tid, net, connId, response>>

Working == (\E a \in net : Receive(a)) \/ Wait \/ TimeOut

Next ==
    \/ New
    \/ GetPeers
    \/ Working
    \/ IoError
    \/ Tick

\* Time passes, a timer fires, and a datagram that is there is received.
Spec == Init /\ [][Next]_vars /\ WF_vars(Working)

-----------------------------------------------------------------------------
(* Properties. *)

\* Types; a request never has more attempts than MAX_RETRIES, nor less than one.
TypeOK ==
    /\ stage \in Kinds \cup {"none", "idle", "gone"}
    /\ constructing \in BOOLEAN
    /\ stage \in Kinds => tries \in 1 .. MaxRetries
    /\ waited \in 0 .. Timeout
    /\ tid \in 0 .. MaxTid
    /\ net \subseteq Datagram
    /\ connId \in 0 .. tid
    /\ response \in Answer \cup {NoResponse}
    /\ connAge \in 0 .. Expiry
    /\ annAge \in 0 .. MaxAge
    /\ sinceAnswer \in annAge .. MaxAge
    /\ idAge \in 0 .. MaxIdAge

\* However answers are delayed, repeated or reordered, a connection id or a peer
\* list is only ever replaced by one that was asked for later, and a peer list
\* is younger than the connection id it was asked with.
AnswersInOrder ==
    [][ /\ connId' >= connId
        /\ response' # response => response'.tid > response.tid /\ response'.tid > connId
      ]_<<connId, response>>

\* get_peers, "request again if interval has passed": between two answered
\* announces more time passes than the tracker asked for in the first, also if
\* announces failed, or the id was refreshed, in between.
IntervalIsKept ==
    [][response' # response /\ response # NoResponse =>
          sinceAnswer > response.interval]_response

\* The docs of get_connection_id, "refreshing if expired" and "returns the current
\* valid connection ID": no announce begins with an id older than the expiry.
IdIsFresh ==
    stage = "announce" /\ tries = MaxRetries /\ waited = 0 => idAge < Expiry

\* Every call returns, whatever arrives: wrong and repeated answers use up
\* attempts like timeouts do.
CallsReturn == stage \in Kinds ~> stage \in {"idle", "gone"}
=============================================================================
