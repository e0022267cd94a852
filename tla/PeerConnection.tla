---------------------------- MODULE PeerConnection ----------------------------
(***************************************************************************)
(* core/peer/peer_connection.rs: the task of one connection.  Its loop     *)
(* select!s between the next command of the manager and the next message   *)
(* of the peer.  When the command wins, the read is dropped with whatever  *)
(* bytes it had taken from the socket; both branches share one buffer.     *)
(***************************************************************************)
EXTENDS Message

CONSTANTS
    PeerMessages,  \* what the peer may send, each time a well-formed frame
    Commands,      \* what the manager may ask for: messages, or Disconnect
    OwnBitfield,   \* the bitfield run() may be given
    CmdCap,        \* capacity of the command channel (100)
    EventCap,      \* capacity of the event channel (100)
    MaxSent,       \* bound of the model: messages the peer sends
    MaxIssued,     \* bound of the model: commands the manager issues
    MaxLength      \* bound of the model: more bytes than the peer ever sends

\* ManagerCommand has neither a bitfield nor a block nor a port.
ASSUME ConnectionAssumption ==
    /\ PeerMessages \subseteq WireMessage
    /\ Commands \subseteq WireMessage
    /\ \A c \in Commands : c.type \notin {"Bitfield", "Piece", "Port"}
    /\ OwnBitfield \in WireMessage
    /\ OwnBitfield.type = "Bitfield"
    /\ CmdCap \in Nat \ {0}
    /\ EventCap \in Nat \ {0}
    /\ MaxSent \in Nat
    /\ MaxIssued \in Nat
    /\ MaxLength \in Nat

VARIABLES
    stage,     \* "start", "select", "write", "report" or "ended"
    why,       \* how run() ended: "closed", "io", "message", "report", or ""
    net,       \* bytes the peer has sent and nobody has read
    prefix,    \* bytes of the length prefix read so far by the pending read
    filled,    \* bytes of the body read so far
    buf,       \* the connection's BytesMut
    todo,      \* events the message handler still has to send
    peerState, \* choking and interested of PeerState
    cmds, cmdOpen,      \* the command channel, and whether a sender is left
    events, eventsOpen, \* the event channel, and whether its receiver is left
    log        \* what happened, for the properties

vars == <<stage, why, net, prefix, filled, buf, todo, peerState, cmds, cmdOpen,
          events, eventsOpen, log>>

-----------------------------------------------------------------------------
\* Memory that set_len exposes before anything was read into it.
Stale == -1

Disconnect == [type |-> "Disconnect"]

Command == Commands \cup {Disconnect}

\* The events a message leads to, in the order they are sent.
Events(m) ==
    CASE m.type = "KeepAlive" -> <<>>
      [] m.type = "Piece"     -> <<"ReceivedPiece", "DownloadRate">>
      [] m.type \in {"Cancel", "Port"} -> <<>>
      [] OTHER                -> <<m.type>>

\* The part of PeerState that messages set.
Updated(m) ==
    CASE m.type = "Choke"         -> [peerState EXCEPT !.choking = TRUE]
      [] m.type = "UnChoke"       -> [peerState EXCEPT !.choking = FALSE]
      [] m.type = "Interested"    -> [peerState EXCEPT !.interested = TRUE]
      [] m.type = "NotInterested" -> [peerState EXCEPT !.interested = FALSE]
      [] OTHER                    -> peerState

\* What parsing leaves in the buffer: payloads are split off.
Leftover(m, bs) ==
    IF m.type = "Bitfield" THEN SubSeq(bs, 1, 5)
    ELSE IF m.type = "Piece" THEN SubSeq(bs, 1, 13) ELSE bs

Init ==
    /\ stage = "start"
    /\ why = ""
    /\ net = <<>>
    /\ prefix = <<>>
    /\ filled = 0
    /\ buf = <<>>
    /\ todo = <<>>
    /\ peerState = [choking |-> TRUE, interested |-> FALSE]
    /\ cmds = <<>>
    /\ cmdOpen = TRUE
    /\ events = <<>>
    /\ eventsOpen = TRUE
    /\ log = [sent |-> 0, eaten |-> 0, bounds |-> {0}, issued |-> <<>>,
              wrote |-> <<>>, asked |-> <<>>, told |-> "Choke"]

End(reason) ==
    /\ stage' = "ended"
    /\ why' = reason

-----------------------------------------------------------------------------
(* Writing. *)

\* send_bitfield, when run() was given one.
Start ==
    /\ stage = "start"
    /\ \/ /\ buf' = buf \o Serialize(OwnBitfield)
          /\ stage' = "write"
          /\ log' = [log EXCEPT !.asked = Append(@, OwnBitfield)]
       \/ /\ stage' = "select"
          /\ UNCHANGED <<buf, log>>
    /\ UNCHANGED <<why, net, prefix, filled, todo, peerState, cmds, cmdOpen, events, eventsOpen>>

\* Mutant: a command that finds a read under way is received and forgotten.
TakeCommandWhenIdle ==
    /\ stage = "select"
    /\ cmds # <<>>
    /\ cmds' = Tail(cmds)
    /\ IF Head(cmds) = Disconnect \/ prefix # <<>>
       THEN UNCHANGED <<stage, buf, log>>
       ELSE /\ buf' = buf \o Serialize(Head(cmds))
            /\ stage' = "write"
            /\ log' = [log EXCEPT !.asked = Append(@, Head(cmds))]
    /\ UNCHANGED <<why, net, prefix, filled, todo, peerState, cmdOpen, events, eventsOpen>>

\* The command branch wins: the pending read is dropped, and the command is
\* serialized behind whatever the buffer holds.
TakeCommand ==
    /\ stage = "select"
    /\ cmds # <<>>
    /\ cmds' = Tail(cmds)
    /\ prefix' = <<>>
    /\ filled' = 0
    /\ IF Head(cmds) = Disconnect
       THEN UNCHANGED <<stage, buf, log>>
       ELSE /\ buf' = buf \o Serialize(Head(cmds))
            /\ stage' = "write"
            /\ log' = [log EXCEPT !.asked = Append(@, Head(cmds))]
    /\ UNCHANGED <<why, net, todo, peerState, cmdOpen, events, eventsOpen>>

\* write_all and flush; the buffer is not cleared.
Write ==
    /\ stage = "write"
    /\ stage' = "select"
    /\ log' = [log EXCEPT !.wrote = Append(@, buf)]
    /\ UNCHANGED <<why, net, prefix, filled, buf, todo, peerState, cmds, cmdOpen,
                   events, eventsOpen>>

CommandsClosed ==
    /\ stage = "select"
    /\ cmds = <<>>
    /\ ~cmdOpen
    /\ End("closed")
    /\ UNCHANGED <<net, prefix, filled, buf, todo, peerState, cmds, cmdOpen, events,
                   eventsOpen, log>>

-----------------------------------------------------------------------------
(* Reading. *)

\* read_exact takes k of the bytes that are there, for the prefix first; with
\* the prefix complete the buffer gets the announced length.
Take(k) ==
    /\ k <= Len(net)
    /\ net' = SubSeq(net, k + 1, Len(net))
    /\ log' = [log EXCEPT !.eaten = @ + k]

Lesser(a, b) == IF a < b THEN a ELSE b

ReadPrefix(k) ==
    /\ stage = "select"
    /\ Len(prefix) + k < 4
    /\ Take(k)
    /\ prefix' = prefix \o SubSeq(net, 1, k)
    /\ UNCHANGED <<stage, why, filled, buf, todo, peerState, cmds, cmdOpen, events, eventsOpen>>

\* A body of length zero is complete at once, and too short for the parser.
\* One longer than MaxLength never completes, however long it is.
ReadLength ==
    /\ stage = "select"
    /\ Len(prefix) < 4
    /\ LET k == 4 - Len(prefix)
           length == Num32(prefix \o SubSeq(net, 1, k), 1)
       IN  /\ Take(k)
           /\ buf' = [i \in 1 .. Lesser(length, MaxLength) |-> Stale]
           /\ IF length = 0
              THEN End("message") /\ UNCHANGED prefix
              ELSE /\ prefix' = prefix \o SubSeq(net, 1, k)
                   /\ UNCHANGED <<stage, why>>
    /\ filled' = 0
    /\ UNCHANGED <<todo, peerState, cmds, cmdOpen, events, eventsOpen>>

Filled(k) == SubSeq(buf, 1, filled) \o SubSeq(net, 1, k) \o SubSeq(buf, filled + k + 1, Len(buf))

ReadBody(k) ==
    /\ stage = "select"
    /\ Len(prefix) = 4
    /\ filled + k < Len(buf)
    /\ Take(k)
    /\ buf' = Filled(k)
    /\ filled' = filled + k
    /\ UNCHANGED <<stage, why, prefix, todo, peerState, cmds, cmdOpen, events, eventsOpen>>

\* The last byte of the body: the body, without its prefix, goes to the parser,
\* and the message to handle_message, which updates the state and sends events.
ReadMessage ==
    /\ stage = "select"
    /\ Len(prefix) = 4
    /\ LET k == Len(buf) - filled
           bytes == Filled(k)
           m == Deserialize(bytes)
       IN  /\ Take(k)
           /\ IF m = Bad
              THEN End("message") /\ buf' = bytes /\ UNCHANGED <<todo, peerState>>
              ELSE /\ stage' = "report"
                   /\ todo' = Events(m)
                   /\ peerState' = Updated(m)
                   /\ buf' = Leftover(m, bytes)
                   /\ UNCHANGED why
    /\ prefix' = <<>>
    /\ filled' = 0
    /\ UNCHANGED <<cmds, cmdOpen, events, eventsOpen>>

\* Mutant: an event is dropped when the channel is full.
ReportOrDrop ==
    /\ stage = "report"
    /\ IF todo = <<>> THEN stage' = "select" /\ UNCHANGED <<why, todo, events, log>>
       ELSE IF ~eventsOpen THEN End("report") /\ UNCHANGED <<todo, events, log>>
       ELSE /\ todo' = Tail(todo)
            /\ UNCHANGED <<stage, why>>
            /\ IF Len(events) < EventCap
               THEN /\ events' = Append(events, Head(todo))
                    /\ log' = [log EXCEPT !.told =
                                 IF Head(todo) \in {"Choke", "UnChoke"} THEN Head(todo) ELSE @]
               ELSE UNCHANGED <<events, log>>
    /\ UNCHANGED <<net, prefix, filled, buf, peerState, cmds, cmdOpen, eventsOpen>>

\* Mutant: events are sent without waiting for room.
ReportNoWait ==
    /\ stage = "report"
    /\ IF todo = <<>> THEN stage' = "select" /\ UNCHANGED <<why, todo, events, log>>
       ELSE IF ~eventsOpen THEN End("report") /\ UNCHANGED <<todo, events, log>>
       ELSE /\ events' = Append(events, Head(todo))
            /\ todo' = Tail(todo)
            /\ UNCHANGED <<stage, why, log>>
    /\ UNCHANGED <<net, prefix, filled, buf, peerState, cmds, cmdOpen, eventsOpen>>

\* Awaited sends to the manager; with the receiver gone the connection ends.
Report ==
    /\ stage = "report"
    /\ IF todo = <<>> THEN stage' = "select" /\ UNCHANGED <<why, todo, events, log>>
       ELSE IF ~eventsOpen THEN End("report") /\ UNCHANGED <<todo, events, log>>
       ELSE /\ Len(events) < EventCap
            /\ events' = Append(events, Head(todo))
            /\ todo' = Tail(todo)
            /\ log' = [log EXCEPT !.told =
                         IF Head(todo) \in {"Choke", "UnChoke"} THEN Head(todo) ELSE @]
            /\ UNCHANGED <<stage, why>>
    /\ UNCHANGED <<net, prefix, filled, buf, peerState, cmds, cmdOpen, eventsOpen>>

-----------------------------------------------------------------------------
(* The peer, the manager and the network. *)

PeerSends(m) ==
    /\ log.sent < MaxSent
    /\ net' = net \o Serialize(m)
    /\ log' = [log EXCEPT !.sent = @ + 1,
                          !.bounds = @ \cup {log.eaten + Len(net')}]
    /\ UNCHANGED <<stage, why, prefix, filled, buf, todo, peerState, cmds, cmdOpen,
                   events, eventsOpen>>

IssueCommand(c) ==
    /\ cmdOpen
    /\ Len(log.issued) < MaxIssued
    /\ Len(cmds) < CmdCap
    /\ cmds' = Append(cmds, c)
    /\ log' = [log EXCEPT !.issued = Append(@, c)]
    /\ UNCHANGED <<stage, why, net, prefix, filled, buf, todo, peerState, cmdOpen,
                   events, eventsOpen>>

DropSender ==
    /\ cmdOpen
    /\ cmdOpen' = FALSE
    /\ UNCHANGED <<stage, why, net, prefix, filled, buf, todo, peerState, cmds, events,
                   eventsOpen, log>>

TakeEvent ==
    /\ events # <<>>
    /\ events' = Tail(events)
    /\ UNCHANGED <<stage, why, net, prefix, filled, buf, todo, peerState, cmds, cmdOpen,
                   eventsOpen, log>>

DropReceiver ==
    /\ eventsOpen
    /\ eventsOpen' = FALSE
    /\ UNCHANGED <<stage, why, net, prefix, filled, buf, todo, peerState, cmds, cmdOpen,
                   events, log>>

\* A read or a write fails, or the peer has closed the stream.
IoError ==
    /\ stage \in {"select", "write"}
    /\ End("io")
    /\ UNCHANGED <<net, prefix, filled, buf, todo, peerState, cmds, cmdOpen, events,
                   eventsOpen, log>>

Reading ==
    \/ \E k \in 1 .. 3 : ReadPrefix(k)
    \/ ReadLength
    \/ \E k \in 1 .. Len(net) : ReadBody(k)
    \/ ReadMessage

Connection ==
    Start \/ TakeCommand \/ Write \/ CommandsClosed \/ Reading \/ Report \/ IoError

\* Nobody talks to a connection that has ended.
Others ==
    /\ stage # "ended"
    /\ \/ \E m \in PeerMessages : PeerSends(m)
       \/ \E c \in Command : IssueCommand(c)
       \/ DropSender
       \/ TakeEvent
       \/ DropReceiver

Next == Connection \/ Others

Spec == Init /\ [][Next]_vars

-----------------------------------------------------------------------------
(* Properties. *)

\* The members of s other than d, in their order.
Without(d, s) ==
    LET kept[n \in 0 .. Len(s)] ==
            IF n = 0 THEN <<>>
            ELSE IF s[n] = d THEN kept[n - 1] ELSE Append(kept[n - 1], s[n])
    IN  kept[Len(s)]

\* The variables keep their types, the channels their capacities, and a read
\* never fills more of the buffer than there is.
TypeOK ==
    /\ stage \in {"start", "select", "write", "report", "ended"}
    /\ why \in {"", "closed", "io", "message", "report"}
    /\ (stage = "ended") <=> (why # "")
    /\ Len(prefix) <= 4
    /\ filled <= Len(buf)
    /\ Len(cmds) <= CmdCap
    /\ Len(events) <= EventCap
    /\ peerState \in [choking : BOOLEAN, interested : BOOLEAN]
    /\ cmdOpen \in BOOLEAN
    /\ eventsOpen \in BOOLEAN

\* handle_message sets peer_choking before it awaits the send of the event: but
\* for that moment, the last choke or unchoke the manager was told of is the
\* state the connection holds.
ChokeIsReported ==
    stage \in {"start", "select", "write"} =>
        (peerState.choking <=> log.told = "Choke")

\* However reads and commands race in select!, what run() serializes is its own
\* bitfield, if any, and then every command once, in the order issued.
CommandsKeepOrder ==
    stage # "ended" =>
        LET done == Without(OwnBitfield, log.asked)
        IN  Without(Disconnect, log.issued) = done \o Without(Disconnect, cmds)

\* read_message "reads the 4-byte length prefix, then reads the message payload
\* and deserializes it": a peer that sends well-formed messages never makes the
\* connection end with a message error.
WellFormedIsUnderstood == why # "message"

\* handle_manager_command, "convert message to bytes" and "write to stream":
\* each write is the frame of the one message it was asked to send.
WritesAreFrames ==
    \A i \in 1 .. Len(log.wrote) : log.wrote[i] = Serialize(log.asked[i])

\* "Reads the 4-byte length prefix": each read that starts does so where a
\* message of the peer starts.
ReadsStartAtFrames ==
    stage = "select" /\ prefix = <<>> => log.eaten \in log.bounds
=============================================================================
