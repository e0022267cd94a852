--------------------------------- MODULE Swarm ---------------------------------
(***************************************************************************)
(* The running program: the download manager of DownloadManager together   *)
(* with the tasks core/peer/peer_manager.rs starts for each peer, as        *)
(* main.rs wires them up.  A peer's connection reports events into a        *)
(* bounded channel of its own; a forwarder takes them out and sends them,   *)
(* tagged with the peer, into the bounded channel all peers share; the      *)
(* manager takes them from there and answers with commands.                 *)
(*                                                                         *)
(* A connection is seen here at the level of whole messages: how it frames  *)
(* and parses them is the subject of PeerConnection.                        *)
(***************************************************************************)
EXTENDS DownloadManager

CONSTANTS
    Registering,   \* peers the owner also passes to DownloadManager::add_peer:
                   \* none of them in main.rs, all in a complete program
    PeerMessages,  \* what each peer may send
    EventCap,      \* capacity of a connection's event channel (100)
    QueueCap,      \* capacity of the shared event channel (1000)
    MaxMessages    \* bound of the model: how many messages each peer sends

PeerMessage ==
    [type : {"KeepAlive", "UnChoke", "Other"}]
    \cup [type : {"Bitfield"}, bitfield : Bitfields]
    \cup [type : {"Have"}, piece : AnyPiece]
    \cup [type : {"Piece"}, piece : AnyPiece, begin : AnyBegin, data : Payload]

ASSUME SwarmAssumption ==
    /\ Registering \subseteq Peer
    /\ PeerMessages \in [Peer -> SUBSET PeerMessage]
    /\ EventCap \in Nat \ {0}
    /\ QueueCap \in Nat \ {0}
    /\ MaxMessages \in [Peer -> Nat]

VARIABLES
    conn,        \* each connection: "none", "connecting", "select", "write",
                 \* "report" or "ended"
    todo,        \* events its message handler still has to send
    evs,         \* its event channel
    forwarders,  \* peers whose forwarder still runs
    hand,        \* the event a forwarder has taken out and not yet sent
    queue,       \* the shared event channel
    dropped,     \* run() has returned and the owner has dropped both managers
    sent,        \* messages each peer has sent
    reported,    \* history: events each connection has reported
    taken        \* history: events of each peer the manager has received

tasks == <<conn, todo, evs, forwarders, hand, queue, dropped, sent, reported, taken>>

swarmVars == <<vars, tasks>>

-----------------------------------------------------------------------------
DownloadRate == [type |-> "DownloadRate"]

\* The events a message leads to, in the order they are sent.
Events(m) ==
    CASE m.type = "KeepAlive" -> <<>>
      [] m.type = "Piece"     -> <<m, DownloadRate>>
      [] OTHER                -> <<m>>

Event == PeerMessage \cup {DownloadRate}

TaggedEvent == [from : Peer, n : Nat, what : Event]

\* An event on its way: whose it is, the how-manyth of that peer, and what.
Tagged(ip, e) == [from |-> ip, n |-> reported[ip] + 1, what |-> e]

SwarmInit ==
    /\ Init
    /\ conn = [ip \in Peer |-> "none"]
    /\ todo = [ip \in Peer |-> <<>>]
    /\ evs = [ip \in Peer |-> <<>>]
    /\ forwarders = {}
    /\ hand = [ip \in Peer |-> <<>>]
    /\ queue = <<>>
    /\ dropped = FALSE
    /\ sent = [ip \in Peer |-> 0]
    /\ reported = [ip \in Peer |-> 0]
    /\ taken = [ip \in Peer |-> 0]

-----------------------------------------------------------------------------
(* The owner: the end of main(). *)

OpenDisk == SetDiskIO /\ UNCHANGED tasks

\* PeerManager::add_peer creates the channels and spawns the task; it awaits
\* nothing.  DownloadManager::add_peer is given the sender PeerManager keeps.
SpawnPeer(ip) ==
    /\ diskSet
    /\ conn[ip] = "none"
    /\ IF ip \in Registering THEN AddPeer(ip) ELSE phase = "setup" /\ UNCHANGED vars
    /\ conn' = [conn EXCEPT ![ip] = "connecting"]
    /\ forwarders' = forwarders \cup {ip}
    /\ UNCHANGED <<todo, evs, hand, queue, dropped, sent, reported, taken>>

\* run(), once all peers are added.
Begin ==
    /\ \A ip \in Peer : conn[ip] # "none"
    /\ StartRun
    /\ UNCHANGED tasks

\* The receiver of the shared channel and every command sender are gone.
Drop ==
    /\ phase = "done"
    /\ ~dropped
    /\ dropped' = TRUE
    /\ queue' = <<>>
    /\ UNCHANGED <<vars, conn, todo, evs, forwarders, hand, sent, reported, taken>>

Owner ==
    \/ OpenDisk
    \/ \E ip \in Peer : SpawnPeer(ip)
    \/ Begin
    \/ Drop

-----------------------------------------------------------------------------
(* A connection. *)

\* run() starts, with or without a bitfield to send.
Connect(ip) ==
    /\ conn[ip] = "connecting"
    /\ \E c \in {"select", "write"} : conn' = [conn EXCEPT ![ip] = c]
    /\ UNCHANGED <<vars, todo, evs, forwarders, hand, queue, dropped, sent, reported, taken>>

\* Connecting or the handshake fails: the task returns, and with it both
\* receivers go.  The managers keep the peer's sender.
ConnectFails(ip) ==
    /\ conn[ip] = "connecting"
    /\ ConnectionEnds(ip)
    /\ conn' = [conn EXCEPT ![ip] = "ended"]
    /\ forwarders' = forwarders \ {ip}
    /\ UNCHANGED <<todo, evs, hand, queue, dropped, sent, reported, taken>>

ObeyCommand(ip) ==
    /\ conn[ip] = "select"
    /\ TakeCommand(ip)
    /\ conn' = [conn EXCEPT ![ip] = "write"]
    /\ UNCHANGED <<todo, evs, forwarders, hand, queue, dropped, sent, reported, taken>>

Written(ip) ==
    /\ conn[ip] = "write"
    /\ conn' = [conn EXCEPT ![ip] = "select"]
    /\ UNCHANGED <<vars, todo, evs, forwarders, hand, queue, dropped, sent, reported, taken>>

ReadMessage(ip, m) ==
    /\ conn[ip] = "select"
    /\ sent[ip] < MaxMessages[ip]
    /\ sent' = [sent EXCEPT ![ip] = @ + 1]
    /\ todo' = [todo EXCEPT ![ip] = Events(m)]
    /\ conn' = [conn EXCEPT ![ip] = IF Events(m) = <<>> THEN "select" ELSE "report"]
    /\ UNCHANGED <<vars, evs, forwarders, hand, queue, dropped, reported, taken>>

\* Mutant: the event is queued without waiting for room.
ReportNoWait(ip) ==
    /\ conn[ip] = "report"
    /\ evs' = [evs EXCEPT ![ip] = Append(@, Tagged(ip, Head(todo[ip])))]
    /\ reported' = [reported EXCEPT ![ip] = @ + 1]
    /\ todo' = [todo EXCEPT ![ip] = Tail(@)]
    /\ conn' = [conn EXCEPT ![ip] = IF Tail(todo[ip]) = <<>> THEN "select" ELSE "report"]
    /\ UNCHANGED <<vars, forwarders, hand, queue, dropped, sent, taken>>

\* Waits for room; fails, and ends the connection, when the forwarder is gone.
Report(ip) ==
    /\ conn[ip] = "report"
    /\ IF ip \in forwarders
       THEN /\ Len(evs[ip]) < EventCap
            /\ evs' = [evs EXCEPT ![ip] = Append(@, Tagged(ip, Head(todo[ip])))]
            /\ reported' = [reported EXCEPT ![ip] = @ + 1]
            /\ todo' = [todo EXCEPT ![ip] = Tail(@)]
            /\ conn' = [conn EXCEPT ![ip] = IF Tail(todo[ip]) = <<>> THEN "select" ELSE "report"]
            /\ UNCHANGED vars
       ELSE /\ ConnectionEnds(ip)
            /\ conn' = [conn EXCEPT ![ip] = "ended"]
            /\ UNCHANGED <<todo, evs, reported>>
    /\ UNCHANGED <<forwarders, hand, queue, dropped, sent, taken>>

\* Mutant: a closed command channel is taken for one without commands.
CommandsIgnored(ip) ==
    /\ conn[ip] = "select"
    /\ dropped
    /\ cmds[ip] = <<>>
    /\ UNCHANGED swarmVars

\* recv() gives None once the last command has been taken.
CommandsClosed(ip) ==
    /\ conn[ip] = "select"
    /\ dropped
    /\ cmds[ip] = <<>>
    /\ ConnectionEnds(ip)
    /\ conn' = [conn EXCEPT ![ip] = "ended"]
    /\ UNCHANGED <<todo, evs, forwarders, hand, queue, dropped, sent, reported, taken>>

\* The peer closes the stream, a read or a write fails, a message is malformed.
ConnectionFails(ip) ==
    /\ conn[ip] \in {"select", "write"}
    /\ ConnectionEnds(ip)
    /\ conn' = [conn EXCEPT ![ip] = "ended"]
    /\ UNCHANGED <<todo, evs, forwarders, hand, queue, dropped, sent, reported, taken>>

-----------------------------------------------------------------------------
(* A forwarder: `while let Some(event) = to_manager_rx.recv().await`. *)

TakeEvent(ip) ==
    /\ ip \in forwarders
    /\ hand[ip] = <<>>
    /\ evs[ip] # <<>>
    /\ hand' = [hand EXCEPT ![ip] = <<Head(evs[ip])>>]
    /\ evs' = [evs EXCEPT ![ip] = Tail(@)]
    /\ UNCHANGED <<vars, conn, todo, forwarders, queue, dropped, sent, reported, taken>>

\* Mutant: an event that finds the shared channel full is lost (try_send).
ForwardOrDrop(ip) ==
    /\ hand[ip] # <<>>
    /\ IF dropped
       THEN /\ forwarders' = forwarders \ {ip}
            /\ evs' = [evs EXCEPT ![ip] = <<>>]
            /\ UNCHANGED queue
       ELSE /\ queue' = IF Len(queue) < QueueCap THEN queue \o hand[ip] ELSE queue
            /\ UNCHANGED <<evs, forwarders>>
    /\ hand' = [hand EXCEPT ![ip] = <<>>]
    /\ UNCHANGED <<vars, conn, todo, dropped, sent, reported, taken>>

\* Waits for room; leaves the loop when the manager has dropped its receiver.
Forward(ip) ==
    /\ hand[ip] # <<>>
    /\ IF dropped
       THEN /\ forwarders' = forwarders \ {ip}
            /\ evs' = [evs EXCEPT ![ip] = <<>>]
            /\ UNCHANGED queue
       ELSE /\ Len(queue) < QueueCap
            /\ queue' = queue \o hand[ip]
            /\ UNCHANGED <<evs, forwarders>>
    /\ hand' = [hand EXCEPT ![ip] = <<>>]
    /\ UNCHANGED <<vars, conn, todo, dropped, sent, reported, taken>>

\* Mutant: the forwarder ends with the connection, not with its last event.
ForwarderEndsEarly(ip) ==
    /\ ip \in forwarders
    /\ hand[ip] = <<>>
    /\ conn[ip] = "ended"
    /\ forwarders' = forwarders \ {ip}
    /\ evs' = [evs EXCEPT ![ip] = <<>>]
    /\ UNCHANGED <<vars, conn, todo, hand, queue, dropped, sent, reported, taken>>

\* The connection is gone and all it has reported is forwarded.
ForwarderEnds(ip) ==
    /\ ip \in forwarders
    /\ hand[ip] = <<>>
    /\ evs[ip] = <<>>
    /\ conn[ip] = "ended"
    /\ forwarders' = forwarders \ {ip}
    /\ UNCHANGED <<vars, conn, todo, evs, hand, queue, dropped, sent, reported, taken>>

-----------------------------------------------------------------------------
(* The manager: the steps of DownloadManager, with its events from the queue. *)

Handle(ip, e) ==
    \/ e.type = "Bitfield" /\ HandleBitfield(ip, e.bitfield)
    \/ e.type = "Have" /\ HandleHave(ip, e.piece)
    \/ e.type = "UnChoke" /\ HandleUnchoke(ip)
    \/ e.type = "Piece" /\ HandleReceivePiece(e.piece, e.begin, e.data)
    \/ e.type \in {"Other", "DownloadRate"} /\ OtherEvent

ReceiveEvent ==
    /\ queue # <<>>
    /\ Handle(Head(queue).from, Head(queue).what)
    /\ queue' = Tail(queue)
    /\ taken' = [taken EXCEPT ![Head(queue).from] = @ + 1]
    /\ UNCHANGED <<conn, todo, evs, forwarders, hand, dropped, sent, reported>>

ManagerProceeds ==
    /\ WriteOk \/ WriteErr \/ SendCommand \/ FinishEvent
    /\ UNCHANGED tasks

DiskProceeds == WriteLands /\ UNCHANGED tasks

-----------------------------------------------------------------------------
\* What a connection and its forwarder do once they are scheduled.
Relays(ip) ==
    \/ ObeyCommand(ip) \/ Report(ip) \/ CommandsClosed(ip)

Forwards(ip) ==
    \/ TakeEvent(ip) \/ Forward(ip) \/ ForwarderEnds(ip)

\* What depends on the peer and the network, and may take for ever.
Network(ip) ==
    \/ Connect(ip) \/ ConnectFails(ip) \/ ConnectionFails(ip) \/ Written(ip)
    \/ \E m \in PeerMessages[ip] : ReadMessage(ip, m)

Manager == ReceiveEvent \/ ManagerProceeds

SwarmNext ==
    \/ Owner
    \/ \E ip \in Peer : Relays(ip) \/ Forwards(ip) \/ Network(ip)
    \/ Manager
    \/ DiskProceeds

SwarmSpec == SwarmInit /\ [][SwarmNext]_swarmVars

\* A task that can run is polled, and select! takes its branches in random
\* order.  Nothing is assumed of the peers and the network.
FairSwarmSpec ==
    /\ SwarmSpec
    /\ WF_swarmVars(Owner)
    /\ WF_swarmVars(Manager)
    /\ \A ip \in Peer : WF_swarmVars(Relays(ip)) /\ WF_swarmVars(Forwards(ip))

-----------------------------------------------------------------------------
(* Properties. *)

\* The types of the tasks' variables; no channel holds more than its capacity,
\* and a connection's command receiver lives as long as the connection.
TasksTypeOK ==
    /\ conn \in [Peer -> {"none", "connecting", "select", "write", "report", "ended"}]
    /\ live = {ip \in Peer : conn[ip] # "ended"}
    /\ todo \in [Peer -> Seq(Event)]
    /\ \A ip \in Peer : conn[ip] = "report" => todo[ip] # <<>>
    /\ evs \in [Peer -> Seq(TaggedEvent)]
    /\ hand \in [Peer -> Seq(TaggedEvent)]
    /\ queue \in Seq(TaggedEvent)
    /\ \A ip \in Peer : Len(evs[ip]) <= EventCap /\ Len(hand[ip]) <= 1
    /\ Len(queue) <= QueueCap
    /\ forwarders \in SUBSET Peer
    /\ dropped \in BOOLEAN
    /\ sent \in [Peer -> Nat]
    /\ reported \in [Peer -> Nat]
    /\ taken \in [Peer -> Nat]

\* How many events of a peer have entered the shared channel.
Forwarded(ip) == reported[ip] - Len(evs[ip]) - Len(hand[ip])

\* The manager gets every event a connection has reported, once and in order:
\* those it has not got yet are in the channels, without a gap, also after the
\* connection has ended, and however the events of the peers are interleaved.
EventsKeepOrder ==
    dropped \/
    /\ \A ip \in Peer :
          /\ taken[ip] <= Forwarded(ip)
          /\ \A i \in DOMAIN evs[ip] :
                evs[ip][i].from = ip /\ evs[ip][i].n = Forwarded(ip) + Len(hand[ip]) + i
          /\ \A i \in DOMAIN hand[ip] :
                hand[ip][i].from = ip /\ hand[ip][i].n = Forwarded(ip) + i
          /\ \A n \in taken[ip] + 1 .. Forwarded(ip) :
                \E i \in DOMAIN queue : queue[i].from = ip /\ queue[i].n = n
    /\ \A i \in DOMAIN queue :
          queue[i].n \in taken[queue[i].from] + 1 .. Forwarded(queue[i].from)
    /\ \A i, j \in DOMAIN queue :
          i < j /\ queue[i].from = queue[j].from => queue[i].n < queue[j].n

\* Nothing is asked of a peer that was not passed to the manager, and no block
\* waits for its answer: with main.rs, which passes none, no peer is ever asked
\* for anything.
StrangersAreNotAsked ==
    \A ip \in Peer \ Registering :
        /\ cmds[ip] = <<>>
        /\ \A i \in DOMAIN outbox : outbox[i].to # ip
        /\ \A p \in Piece, o \in Offsets : pieces[p].blocks[o] # Requested(ip)

\* The manager waits for room in the command channel of a connection that
\* cannot make any: it is still connecting, its peer does not read, or it waits
\* itself, through its forwarder, for the manager to take an event.
HeldUp ==
    /\ phase = "sending"
    /\ outbox # <<>>
    /\ LET to == Head(outbox).to
       IN  /\ to \in live
           /\ Len(cmds[to]) = CmdCap
           /\ \/ conn[to] \in {"connecting", "write"}
              \/ /\ conn[to] = "report"
                 /\ Len(evs[to]) = EventCap
                 /\ hand[to] # <<>>
                 /\ Len(queue) = QueueCap

\* Every event reported is received in the end, whatever connections end in
\* between, unless the download is complete or the manager is held up for ever:
\* by a peer that stays silent in the handshake or never reads, or in the circle
\* of full channels.  There is no other way to lose the manager.
EventsAreReceived ==
    []<>(phase = "done" \/ \A ip \in Peer : taken[ip] = reported[ip]) \/ <>[]HeldUp

\* The comment on the forwarding loop, "until the peer disconnects or the manager
\* drops the channel": once the managers are dropped, each connection and its
\* forwarder end, unless its peer keeps the connection in a handshake or a write.
TasksEnd ==
    dropped ~> \A ip \in Peer :
                   \/ conn[ip] = "ended" /\ ip \notin forwarders
                   \/ conn[ip] \in {"connecting", "write"}
=============================================================================
