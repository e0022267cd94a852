----------------------------- MODULE TrackerHTTP -----------------------------
(***************************************************************************)
(* core/tracker/tracker_http.rs: announces over HTTP.  One request is made  *)
(* on a connection of its own and waits for its answer without a time limit.*)
(*                                                                         *)
(* An answer is named by the request it answers.  What may go wrong with a  *)
(* request comes in two kinds, by what it leaves behind: no bencoded answer *)
(* is obtained, or one that is no peer list.                                *)
(***************************************************************************)
EXTENDS Naturals

CONSTANTS
    Intervals,   \* the intervals a tracker may ask for
    MaxRequests, \* bound of the model: requests sent
    MaxAge       \* bound of the model: ages are counted up to here

VARIABLES
    stage,         \* "none" (new() is not called yet), "request" (a request is
                   \* under way), "idle" (the next call), "gone" (new() failed)
    constructing,  \* new() has not returned yet
    requests,      \* requests made
    response,      \* response
    annAge,        \* last_announce.elapsed()
    sinceAnswer    \* history: time since the last peer list was obtained

vars == <<stage, constructing, requests, response, annAge, sinceAnswer>>

-----------------------------------------------------------------------------
Response == [n : 0 .. MaxRequests, interval : Intervals \cup {0}]

Older(age) == IF age < MaxAge THEN age + 1 ELSE MaxAge

Init ==
    /\ stage = "none"
    /\ constructing = TRUE
    /\ requests = 0
    /\ response = [n |-> 0, interval |-> 0]
    /\ annAge = 0
    /\ sinceAnswer = 0

Request ==
    /\ stage' = "request"
    /\ requests' = requests + 1
    /\ UNCHANGED <<constructing, response, annAge, sinceAnswer>>

New == stage = "none" /\ Request

\* get_peers, where it does not return the peers it has.
GetPeers ==
    /\ stage = "idle"
    /\ requests < MaxRequests
    /\ annAge > response.interval
    /\ Request

\* The call returns an error, and new() leaves no tracker behind.
Returns == IF constructing THEN "gone" ELSE "idle"

\* Mutant: last_announce stays what it was when the tracker was made.
AnsweredOnce(i) ==
    /\ stage = "request"
    /\ response' = [n |-> requests, interval |-> i]
    /\ annAge' = IF constructing THEN 0 ELSE annAge
    /\ sinceAnswer' = 0
    /\ constructing' = FALSE
    /\ stage' = "idle"
    /\ UNCHANGED requests

\* A peer list.
Answered(i) ==
    /\ stage = "request"
    /\ response' = [n |-> requests, interval |-> i]
    /\ annAge' = 0
    /\ sinceAnswer' = 0
    /\ constructing' = FALSE
    /\ stage' = "idle"
    /\ UNCHANGED requests

\* A bencoded answer that does not decode: last_announce is set all the same,
\* and the old list is kept for another interval.
Undecodable ==
    /\ stage = "request"
    /\ stage' = Returns
    /\ annAge' = 0
    /\ UNCHANGED <<constructing, requests, response, sinceAnswer>>

\* The URL is no URI, connecting or the request fails, or the body is no bencode.
Fails ==
    /\ stage = "request"
    /\ stage' = Returns
    /\ UNCHANGED <<constructing, requests, response, annAge, sinceAnswer>>

\* A unit of time, in a request or between calls.
Tick ==
    /\ stage \in {"request", "idle"}
    /\ annAge' = Older(annAge)
    /\ sinceAnswer' = Older(sinceAnswer)
    /\ UNCHANGED <<stage, constructing, requests, response>>

Ends == (\E i \in Intervals : Answered(i)) \/ Undecodable \/ Fails

Next == New \/ GetPeers \/ Ends \/ Tick

\* Nothing is assumed of the tracker: a request may wait for ever.
Spec == Init /\ [][Next]_vars

-----------------------------------------------------------------------------
(* Properties. *)

\* Types; the peers are those of a request that was made.
TypeOK ==
    /\ stage \in {"none", "request", "idle", "gone"}
    /\ constructing \in BOOLEAN
    /\ requests \in 0 .. MaxRequests
    /\ response \in Response
    /\ response.n <= requests
    /\ annAge \in 0 .. MaxAge
    /\ sinceAnswer \in annAge .. MaxAge

\* get_peers, "request again if interval has passed": between two peer lists more
\* time passes than the tracker asked for with the first, whatever requests fail
\* or cannot be decoded in between.
IntervalIsKept ==
    [][response' # response /\ ~constructing => sinceAnswer > response.interval]_response
=============================================================================
