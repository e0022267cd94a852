---------------------------- MODULE TrackerManager ----------------------------
(***************************************************************************)
(* core/tracker/tracker_manager.rs and tracker_factory.rs: the trackers of  *)
(* a torrent are made and polled one after the other, each behind the same  *)
(* trait, and their peers are collected in one pool.                        *)
(*                                                                         *)
(* The announce list holds at most one tracker of each protocol; the UDP    *)
(* tracker is TrackerUDP, the HTTP tracker is TrackerHTTP.  A peer list is  *)
(* represented by the answer that brought it.                               *)
(***************************************************************************)
EXTENDS TrackerUDP, SequencesExt

CONSTANTS
    HTTPIntervals,
                 \* the intervals an HTTP tracker may ask for
    Lists,       \* the announce lists: sequences of protocols
    MaxRequests  \* bound of the model: HTTP requests

Protocol == {"udp", "http"}

ASSUME ListsAssumption ==
    /\ \A l \in Lists : l # <<>> /\ l \in Seq(Protocol) /\ IsInjective(l)
    /\ HTTPIntervals \subseteq 0 .. MaxAge - 1
    /\ MaxRequests \in Nat \ {0}

VARIABLES
    hStage, hConstructing, hRequests, hResponse, hAnnAge, hSinceAnswer,
                \* the HTTP tracker
    list,       \* announce_url and announce_url_list, flattened
    doing,      \* "making" (in new()), "made", "polling" (in
                \* poll_all_trackers), "polled"
    at,         \* position of the loop in list or trackers
    trackers,   \* trackers
    pool,       \* peer_pool
    failed      \* history: trackers that failed in this poll

HTTP == INSTANCE TrackerHTTP WITH
            Intervals <- HTTPIntervals,
            stage <- hStage, constructing <- hConstructing, requests <- hRequests,
            response <- hResponse, annAge <- hAnnAge, sinceAnswer <- hSinceAnswer

httpVars == <<hStage, hConstructing, hRequests, hResponse, hAnnAge, hSinceAnswer>>
managerVars == <<list, doing, at, trackers, pool, failed>>
allVars == <<vars, httpVars, managerVars>>

-----------------------------------------------------------------------------
Joined == ToSet(trackers)

\* The peers a tracker has, by the answer that brought them.
PeersOf(k) ==
    [from |-> k, n |-> IF k = "udp" THEN response.tid ELSE hResponse.n]

TrackersInit ==
    /\ Init
    /\ HTTP!Init
    /\ list \in Lists
    /\ doing = "making"
    /\ at = 1
    /\ trackers = <<>>
    /\ pool = {}
    /\ failed = {}

Turn(k) ==
    \/ doing = "making" /\ list[at] = k
    \/ doing = "polling" /\ trackers[at] = k

\* On to the next tracker, or out of the loop.
Advance ==
    IF at < Len(IF doing = "making" THEN list ELSE trackers)
    THEN at' = at + 1 /\ UNCHANGED doing
    ELSE at' = 0 /\ doing' = IF doing = "making" THEN "made" ELSE "polled"

\* Mutant: a failing tracker ends the poll (`?` for `if let Ok`).
ReturnsOrStops(k, ok) ==
    /\ IF doing = "making"
       THEN /\ trackers' = IF ok THEN Append(trackers, k) ELSE trackers
            /\ UNCHANGED <<pool, failed>>
       ELSE /\ pool' = IF ok THEN pool \cup {PeersOf(k)'} ELSE pool
            /\ failed' = IF ok THEN failed ELSE failed \cup {k}
            /\ UNCHANGED trackers
    /\ IF ok \/ doing = "making" THEN Advance ELSE at' = 0 /\ doing' = "polled"
    /\ UNCHANGED list

\* Mutant: a failing tracker is asked again until it answers.
ReturnsOrRepeats(k, ok) ==
    /\ IF doing = "making"
       THEN /\ trackers' = IF ok THEN Append(trackers, k) ELSE trackers
            /\ UNCHANGED <<pool, failed>>
       ELSE /\ pool' = IF ok THEN pool \cup {PeersOf(k)'} ELSE pool
            /\ failed' = IF ok THEN failed ELSE failed \cup {k}
            /\ UNCHANGED trackers
    /\ IF ok \/ doing = "making" THEN Advance ELSE UNCHANGED <<at, doing>>
    /\ UNCHANGED list

\* Mutant: a tracker that could not be made is listed all the same.
ReturnsAndJoins(k, ok) ==
    /\ IF doing = "making"
       THEN /\ trackers' = Append(trackers, k)
            /\ UNCHANGED <<pool, failed>>
       ELSE /\ pool' = IF ok THEN pool \cup {PeersOf(k)'} ELSE pool
            /\ failed' = IF ok THEN failed ELSE failed \cup {k}
            /\ UNCHANGED trackers
    /\ Advance
    /\ UNCHANGED list

\* new() or get_peers() of a tracker returns: a tracker that was made joins, its
\* peers go into the pool; an error is passed over.
Returns(k, ok) ==
    /\ IF doing = "making"
       THEN /\ trackers' = IF ok THEN Append(trackers, k) ELSE trackers
            /\ UNCHANGED <<pool, failed>>
       ELSE /\ pool' = IF ok THEN pool \cup {PeersOf(k)'} ELSE pool
            /\ failed' = IF ok THEN failed ELSE failed \cup {k}
            /\ UNCHANGED trackers
    /\ Advance
    /\ UNCHANGED list

\* Time passes for a tracker that is there.
UDPAges == IF "udp" \in Joined THEN Tick ELSE UNCHANGED vars
HTTPAges == IF "http" \in Joined THEN HTTP!Tick ELSE UNCHANGED httpVars

-----------------------------------------------------------------------------
\* The step of a call either leaves the task waiting or returns.
UDPGoesOn ==
    IF stage' \in Kinds THEN UNCHANGED managerVars
    ELSE Returns("udp", response' # response)

HTTPGoesOn ==
    IF hStage' = "request" THEN UNCHANGED managerVars
    ELSE Returns("http", hResponse' # hResponse)

CallUDP ==
    /\ Turn("udp")
    /\ New \/ GetPeers
    /\ UDPGoesOn
    /\ UNCHANGED httpVars

UDPReceives ==
    /\ Turn("udp")
    /\ \E a \in net : Receive(a)
    /\ UDPGoesOn
    /\ UNCHANGED httpVars

UDPFails ==
    /\ Turn("udp")
    /\ IoError
    /\ UDPGoesOn
    /\ UNCHANGED httpVars

UDPWaits ==
    /\ Turn("udp")
    /\ Wait
    /\ UNCHANGED managerVars
    /\ HTTPAges

UDPTimesOut ==
    /\ Turn("udp")
    /\ TimeOut
    /\ UDPGoesOn
    /\ UNCHANGED httpVars

CallHTTP ==
    /\ Turn("http")
    /\ HTTP!New \/ HTTP!GetPeers
    /\ HTTPGoesOn
    /\ UNCHANGED vars

HTTPEnds ==
    /\ Turn("http")
    /\ HTTP!Ends
    /\ HTTPGoesOn
    /\ UNCHANGED vars

HTTPWaits ==
    /\ Turn("http")
    /\ hStage = "request"
    /\ HTTP!Tick
    /\ UDPAges
    /\ UNCHANGED managerVars

\* get_peers returns the peers it has: the interval has not passed.
Cached ==
    /\ doing = "polling"
    /\ UNCHANGED <<vars, httpVars>>
    /\ \E k \in Protocol :
          /\ Turn(k)
          /\ \/ k = "udp" /\ stage = "idle" /\ annAge <= response.interval
             \/ k = "http" /\ hStage = "idle" /\ hAnnAge <= hResponse.interval
          /\ Returns(k, TRUE)

\* poll_all_trackers, while the bounds leave room for a whole poll, and for fewer
\* the longer the list is; without trackers it returns at once and changes nothing.
StartPoll ==
    /\ doing \in {"made", "polled"}
    /\ trackers # <<>>
    /\ "udp" \in Joined => tid + 2 * MaxRetries + Len(list) - 1 <= MaxTid
    /\ "http" \in Joined => hRequests + Len(list) <= MaxRequests
    /\ doing' = "polling"
    /\ at' = 1
    /\ failed' = {}
    /\ UNCHANGED <<vars, httpVars, list, trackers, pool>>

\* Time between polls.
Rest ==
    /\ doing \in {"made", "polled"}
    /\ UDPAges
    /\ HTTPAges
    /\ UNCHANGED managerVars

Polling == CallUDP \/ UDPReceives \/ UDPWaits \/ UDPTimesOut \/ CallHTTP \/ Cached

TrackersNext ==
    \/ Polling
    \/ UDPFails
    \/ HTTPEnds
    \/ HTTPWaits
    \/ StartPoll
    \/ Rest

\* Time passes, a timer fires, a datagram that is there is received, a call that returned is
\* followed by the next.  Nothing is assumed of an HTTP tracker.
TrackersSpec ==
    /\ TrackersInit
    /\ [][TrackersNext]_allVars
    /\ WF_allVars(Polling)

-----------------------------------------------------------------------------
(* Properties. *)

\* Types of the HTTP tracker and of the manager; the trackers that joined are
\* those whose new() succeeded.
TrackersTypeOK ==
    /\ HTTP!TypeOK
    /\ list \in Lists
    /\ doing \in {"making", "made", "polling", "polled"}
    /\ at \in 0 .. Len(list)
    /\ trackers \in Seq(Protocol)
    /\ "udp" \in Joined <=> ~constructing
    /\ "http" \in Joined <=> ~hConstructing
    /\ failed \subseteq Joined

\* "Silently ignores trackers that fail to respond": when a poll is over, the
\* peers of every tracker are in the pool, except those whose own announce failed.
PollCollects ==
    doing = "polled" => \A k \in Joined : PeersOf(k) \in pool \/ k \in failed

\* TrackerHTTP's property, with the other tracker's calls in between.
HTTPIntervalIsKept == HTTP!IntervalIsKept

\* Making the trackers and polling them comes to an end, whatever a UDP tracker
\* does, unless an HTTP tracker never answers: the request has no time limit, and
\* the trackers behind it in the list are never asked.
PollsReturn ==
    []<>(doing \in {"made", "polled"}) \/ <>[](hStage = "request")
=============================================================================
