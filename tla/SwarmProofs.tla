------------------------------ MODULE SwarmProofs ------------------------------
(***************************************************************************)
(* Theorems about Swarm for every number of peers, pieces and messages and *)
(* every channel capacity.                                                 *)
(***************************************************************************)
EXTENDS Swarm, DownloadManagerProofs

-----------------------------------------------------------------------------
(* Messages and events. *)

\* The kinds of message differ in their type, which fixes the other fields.
LEMMA MessageKinds ==
    ASSUME NEW e \in Event
    PROVE  /\ e.type = "Bitfield" => e.bitfield \in Bitfields
           /\ e.type = "Have" => e.piece \in AnyPiece
           /\ e.type = "Piece" => /\ e.piece \in AnyPiece
                                  /\ e.begin \in AnyBegin
                                  /\ e.data \in Payload
<1>1. e \in PeerMessage \/ e = DownloadRate
  BY DEF Event
<1>2. CASE e = DownloadRate
  BY <1>2 DEF DownloadRate
<1>3. CASE e \in [type : {"KeepAlive", "UnChoke", "Other"}]
  BY <1>3
<1>4. CASE e \in [type : {"Bitfield"}, bitfield : Bitfields]
  BY <1>4
<1>5. CASE e \in [type : {"Have"}, piece : AnyPiece]
  BY <1>5
<1>6. CASE e \in [type : {"Piece"}, piece : AnyPiece, begin : AnyBegin, data : Payload]
  BY <1>6
<1> QED
  BY <1>1, <1>2, <1>3, <1>4, <1>5, <1>6 DEF PeerMessage

\* handle_message sends at most two events for a message.
LEMMA EventsType ==
    ASSUME NEW m \in PeerMessage
    PROVE  Events(m) \in Seq(Event)
<1>1. m \in Event /\ DownloadRate \in Event
  BY DEF Event
<1>2. Events(m) = <<>> \/ Events(m) = <<m>> \/ Events(m) = <<m, DownloadRate>>
  BY DEF Events
<1>3. <<>> \in Seq(Event)
  OBVIOUS
<1>4. <<m>> \in Seq(Event)
  BY <1>1
<1>5. <<m, DownloadRate>> \in Seq(Event)
  BY <1>1
<1> QED
  BY <1>2, <1>3, <1>4, <1>5

-----------------------------------------------------------------------------
(* Every step of the program is one of the manager or leaves it alone. *)

\* The peer and the content of an event in the queue are ones the manager's
\* handlers are made for.
LEMMA HandleIsEvent ==
    ASSUME NEW ip \in Peer, NEW e \in Event, Handle(ip, e)
    PROVE  HandleEvent
BY MessageKinds DEF Handle, HandleEvent

LEMMA SwarmStep ==
    ASSUME TasksTypeOK, SwarmNext
    PROVE  Next \/ UNCHANGED vars
<1>1. CASE Owner
  BY <1>1 DEF Owner, OpenDisk, SpawnPeer, Begin, Drop, Next, Setup
<1>2. ASSUME NEW ip \in Peer, Relays(ip) PROVE Next \/ UNCHANGED vars
  BY <1>2 DEF Relays, ObeyCommand, Report, CommandsClosed, Next, Surroundings
<1>3. ASSUME NEW ip \in Peer, Forwards(ip) PROVE Next \/ UNCHANGED vars
  BY <1>3 DEF Forwards, TakeEvent, Forward, ForwarderEnds
<1>4. ASSUME NEW ip \in Peer, Network(ip) PROVE Next \/ UNCHANGED vars
  BY <1>4 DEF Network, Connect, ConnectFails, ConnectionFails, Written, ReadMessage, Next,
              Surroundings
<1>5. CASE ReceiveEvent
  <2>1. Head(queue) \in TaggedEvent
    BY <1>5 DEF TasksTypeOK, ReceiveEvent
  <2>2. Head(queue).from \in Peer /\ Head(queue).what \in Event
    BY <2>1 DEF TaggedEvent
  <2> QED
    BY <1>5, <2>2, HandleIsEvent DEF ReceiveEvent, Next
<1>6. CASE ManagerProceeds
  BY <1>6 DEF ManagerProceeds, Next, Proceed
<1>7. CASE DiskProceeds
  BY <1>7 DEF DiskProceeds, Next, Surroundings
<1> QED
  BY <1>1, <1>2, <1>3, <1>4, <1>5, <1>6, <1>7 DEF SwarmNext, Manager

-----------------------------------------------------------------------------
(* The types of the tasks' variables. *)

LEMMA InitTasksType == SwarmInit => TasksTypeOK
<1> SUFFICES ASSUME SwarmInit PROVE TasksTypeOK
  OBVIOUS
<1>1. /\ todo \in [Peer -> Seq(Event)]
      /\ evs \in [Peer -> Seq(TaggedEvent)]
      /\ hand \in [Peer -> Seq(TaggedEvent)]
      /\ queue \in Seq(TaggedEvent)
  BY DEF SwarmInit
<1>2. /\ \A ip \in Peer : Len(evs[ip]) = 0 /\ Len(hand[ip]) = 0
      /\ Len(queue) = 0
  BY DEF SwarmInit
<1>3. /\ conn \in [Peer -> {"none", "connecting", "select", "write", "report", "ended"}]
      /\ live = {ip \in Peer : conn[ip] # "ended"}
      /\ \A ip \in Peer : conn[ip] # "report"
      /\ forwarders \in SUBSET Peer
      /\ dropped \in BOOLEAN
  BY DEF SwarmInit, Init
<1>4. /\ sent \in [Peer -> Nat]
      /\ reported \in [Peer -> Nat]
      /\ taken \in [Peer -> Nat]
  BY DEF SwarmInit
<1> QED
  BY <1>1, <1>2, <1>3, <1>4, SwarmAssumption DEF TasksTypeOK

\* Steps that neither send nor receive: a connection changes its stage, maybe
\* ends, and maybe its forwarder with it.
LEMMA StageTypeStep ==
    ASSUME TasksTypeOK, NEW ip \in Peer,
           NEW c \in {"connecting", "select", "write", "ended"},
           conn' = [conn EXCEPT ![ip] = c],
           live' = IF c = "ended" THEN live \ {ip} ELSE live,
           c # "ended" => conn[ip] # "ended",
           forwarders' \in SUBSET Peer,
           UNCHANGED <<todo, evs, hand, queue, dropped, sent, reported, taken>>
    PROVE  TasksTypeOK'
BY DEF TasksTypeOK

LEMMA OwnerType ==
    ASSUME TasksTypeOK, Owner
    PROVE  TasksTypeOK'
<1>1. CASE OpenDisk
  BY <1>1 DEF OpenDisk, SetDiskIO, tasks, TasksTypeOK
<1>2. ASSUME NEW ip \in Peer, SpawnPeer(ip) PROVE TasksTypeOK'
  <2>1. live' = live
    BY <1>2 DEF SpawnPeer, AddPeer, vars
  <2>2. conn[ip] # "ended" /\ forwarders' \in SUBSET Peer
    BY <1>2 DEF SpawnPeer, TasksTypeOK
  <2> QED
    BY <1>2, <2>1, <2>2, StageTypeStep DEF SpawnPeer
<1>3. CASE Begin
  BY <1>3 DEF Begin, StartRun, tasks, TasksTypeOK
<1>4. CASE Drop
  BY <1>4, SwarmAssumption DEF Drop, vars, TasksTypeOK
<1> QED
  BY <1>1, <1>2, <1>3, <1>4 DEF Owner

LEMMA RelaysType ==
    ASSUME TasksTypeOK, NEW ip \in Peer, Relays(ip)
    PROVE  TasksTypeOK'
<1>1. CASE ObeyCommand(ip)
  BY <1>1, StageTypeStep DEF ObeyCommand, TakeCommand, TasksTypeOK
<1>2. CASE CommandsClosed(ip)
  BY <1>2, StageTypeStep DEF CommandsClosed, ConnectionEnds, TasksTypeOK
<1>3. CASE Report(ip) /\ ip \notin forwarders
  BY <1>3, StageTypeStep DEF Report, ConnectionEnds, TasksTypeOK
<1>4. CASE Report(ip) /\ ip \in forwarders
  <2>1. todo[ip] \in Seq(Event) /\ todo[ip] # <<>>
    BY <1>4 DEF Report, TasksTypeOK
  <2>2. Head(todo[ip]) \in Event /\ Tail(todo[ip]) \in Seq(Event)
    BY <2>1
  <2>3. Tagged(ip, Head(todo[ip])) \in TaggedEvent
    BY <2>2 DEF Tagged, TaggedEvent, TasksTypeOK
  <2>4. /\ Append(evs[ip], Tagged(ip, Head(todo[ip]))) \in Seq(TaggedEvent)
        /\ Len(Append(evs[ip], Tagged(ip, Head(todo[ip])))) <= EventCap
    BY <1>4, <2>3, SwarmAssumption DEF Report, TasksTypeOK
  <2>5. /\ todo' \in [Peer -> Seq(Event)]
        /\ evs' \in [Peer -> Seq(TaggedEvent)]
        /\ \A q \in Peer : Len(evs'[q]) <= EventCap
        /\ reported' \in [Peer -> Nat]
    <3>1. todo' = [todo EXCEPT ![ip] = Tail(todo[ip])]
      BY <1>4 DEF Report
    <3>2. evs' = [evs EXCEPT ![ip] = Append(evs[ip], Tagged(ip, Head(todo[ip])))]
      BY <1>4 DEF Report
    <3>3. reported' = [reported EXCEPT ![ip] = reported[ip] + 1]
      BY <1>4 DEF Report
    <3> HIDE DEF Tagged, TaggedEvent
    <3>4. todo' \in [Peer -> Seq(Event)]
      BY <2>2, <3>1 DEF TasksTypeOK
    <3>5. evs' \in [Peer -> Seq(TaggedEvent)] /\ \A q \in Peer : Len(evs'[q]) <= EventCap
      BY <2>4, <3>2 DEF TasksTypeOK
    <3>6. reported' \in [Peer -> Nat]
      BY <3>3 DEF TasksTypeOK
    <3> QED
      BY <3>4, <3>5, <3>6
  <2>6. /\ conn' \in [Peer -> {"none", "connecting", "select", "write", "report", "ended"}]
        /\ live' = {q \in Peer : conn'[q] # "ended"}
        /\ \A q \in Peer : conn'[q] = "report" => todo'[q] # <<>>
    BY <1>4 DEF Report, TasksTypeOK, vars
  <2> QED
    BY <1>4, <2>5, <2>6 DEF Report, TasksTypeOK
<1> QED
  BY <1>1, <1>2, <1>3, <1>4 DEF Relays

LEMMA ForwardsType ==
    ASSUME TasksTypeOK, NEW ip \in Peer, Forwards(ip)
    PROVE  TasksTypeOK'
<1>1. CASE TakeEvent(ip)
  <2>1. /\ Head(evs[ip]) \in TaggedEvent
        /\ Tail(evs[ip]) \in Seq(TaggedEvent)
        /\ Len(Tail(evs[ip])) <= EventCap
    BY <1>1, SwarmAssumption DEF TakeEvent, TasksTypeOK
  <2>2. <<Head(evs[ip])>> \in Seq(TaggedEvent) /\ Len(<<Head(evs[ip])>>) <= 1
    BY <2>1
  <2> QED
    BY <1>1, <2>1, <2>2 DEF TakeEvent, vars, TasksTypeOK
<1>2. CASE Forward(ip)
  <2> DEFINE none == <<>>
  <2>0. none \in Seq(TaggedEvent) /\ Len(none) = 0
    OBVIOUS
  <2>1. queue' \in Seq(TaggedEvent) /\ Len(queue') <= QueueCap
    <3>1. CASE dropped
      BY <1>2, <3>1 DEF Forward, TasksTypeOK
    <3>2. CASE ~dropped
      <4>1. queue' = queue \o hand[ip] /\ Len(queue) < QueueCap
        BY <1>2, <3>2 DEF Forward
      <4>2. hand[ip] \in Seq(TaggedEvent) /\ Len(hand[ip]) <= 1 /\ queue \in Seq(TaggedEvent)
        BY DEF TasksTypeOK
      <4>3. queue' \in Seq(TaggedEvent) /\ Len(queue') = Len(queue) + Len(hand[ip])
        BY <4>1, <4>2
      <4> QED
        BY <4>1, <4>2, <4>3, SwarmAssumption
    <3> QED
      BY <3>1, <3>2
  <2>2. /\ evs' \in [Peer -> Seq(TaggedEvent)]
        /\ hand' \in [Peer -> Seq(TaggedEvent)]
        /\ \A q \in Peer : Len(evs'[q]) <= EventCap /\ Len(hand'[q]) <= 1
        /\ forwarders' \in SUBSET Peer
    <3>1. hand' = [hand EXCEPT ![ip] = none]
      BY <1>2 DEF Forward
    <3>2. evs' = evs \/ evs' = [evs EXCEPT ![ip] = none]
      BY <1>2 DEF Forward
    <3>3. forwarders' \in SUBSET Peer
      BY <1>2 DEF Forward, TasksTypeOK
    <3> HIDE DEF none
    <3>4. hand' \in [Peer -> Seq(TaggedEvent)] /\ \A q \in Peer : Len(hand'[q]) <= 1
      BY <2>0, <3>1 DEF TasksTypeOK
    <3>5. evs' \in [Peer -> Seq(TaggedEvent)] /\ \A q \in Peer : Len(evs'[q]) <= EventCap
      <4>1. CASE evs' = evs
        BY <4>1 DEF TasksTypeOK
      <4>2. CASE evs' = [evs EXCEPT ![ip] = none]
        <5>1. 0 <= EventCap
          BY SwarmAssumption
        <5>2. evs' \in [Peer -> Seq(TaggedEvent)]
          BY <2>0, <4>2 DEF TasksTypeOK
        <5>3. \A q \in Peer : evs'[q] = IF q = ip THEN none ELSE evs[q]
          BY <4>2 DEF TasksTypeOK
        <5> QED
          BY <2>0, <5>1, <5>2, <5>3 DEF TasksTypeOK
      <4> QED
        BY <3>2, <4>1, <4>2
    <3> QED
      BY <3>3, <3>4, <3>5
  <2> QED
    BY <1>2, <2>1, <2>2 DEF Forward, vars, TasksTypeOK
<1>3. CASE ForwarderEnds(ip)
  BY <1>3 DEF ForwarderEnds, vars, TasksTypeOK
<1> QED
  BY <1>1, <1>2, <1>3 DEF Forwards

LEMMA NetworkType ==
    ASSUME TasksTypeOK, NEW ip \in Peer, Network(ip)
    PROVE  TasksTypeOK'
<1>1. CASE Connect(ip)
  BY <1>1, StageTypeStep DEF Connect, vars, TasksTypeOK
<1>2. CASE ConnectFails(ip)
  BY <1>2, StageTypeStep DEF ConnectFails, ConnectionEnds, TasksTypeOK
<1>3. CASE ConnectionFails(ip)
  BY <1>3, StageTypeStep DEF ConnectionFails, ConnectionEnds, TasksTypeOK
<1>4. CASE Written(ip)
  BY <1>4, StageTypeStep DEF Written, vars, TasksTypeOK
<1>5. ASSUME NEW m \in PeerMessages[ip], ReadMessage(ip, m) PROVE TasksTypeOK'
  <2>1. m \in PeerMessage
    BY SwarmAssumption
  <2>2. Events(m) \in Seq(Event)
    BY <2>1, EventsType
  <2> QED
    BY <1>5, <2>2, SMTT(30) DEF ReadMessage, vars, TasksTypeOK
<1> QED
  BY <1>1, <1>2, <1>3, <1>4, <1>5 DEF Network

\* The handlers leave the connections as they are.
LEMMA ManagerType ==
    ASSUME TasksTypeOK, Manager \/ DiskProceeds
    PROVE  TasksTypeOK'
<1>1. CASE ReceiveEvent
  <2>1. live' = live
    BY <1>1 DEF ReceiveEvent, Handle, HandleBitfield, HandleHave, HandleUnchoke,
                HandleReceivePiece, OtherEvent
  <2>2. /\ Head(queue) \in TaggedEvent
        /\ Tail(queue) \in Seq(TaggedEvent)
        /\ Len(Tail(queue)) <= QueueCap
    BY <1>1, SwarmAssumption DEF ReceiveEvent, TasksTypeOK
  <2>3. taken' \in [Peer -> Nat]
    <3>1. Head(queue).from \in Peer
      BY <2>2 DEF TaggedEvent
    <3>2. taken' = [taken EXCEPT ![Head(queue).from] = taken[Head(queue).from] + 1]
      BY <1>1 DEF ReceiveEvent
    <3> QED
      BY <3>1, <3>2 DEF TasksTypeOK
  <2> QED
    BY <1>1, <2>1, <2>2, <2>3 DEF ReceiveEvent, TasksTypeOK
<1>2. CASE ManagerProceeds \/ DiskProceeds
  <2>1. live' = live
    BY <1>2 DEF ManagerProceeds, DiskProceeds, WriteOk, WriteErr, WriteLands, SendCommand,
                FinishEvent
  <2> QED
    BY <1>2, <2>1 DEF ManagerProceeds, DiskProceeds, tasks, TasksTypeOK
<1> QED
  BY <1>1, <1>2 DEF Manager

LEMMA StepTasksType == TasksTypeOK /\ [SwarmNext]_swarmVars => TasksTypeOK'
<1> SUFFICES ASSUME TasksTypeOK, [SwarmNext]_swarmVars PROVE TasksTypeOK'
  OBVIOUS
<1>1. CASE UNCHANGED swarmVars
  BY <1>1 DEF swarmVars, vars, tasks, TasksTypeOK
<1> QED
  BY <1>1, OwnerType, RelaysType, ForwardsType, NetworkType, ManagerType DEF SwarmNext

\* The tasks' variables keep their types and no channel exceeds its capacity.
THEOREM TasksType == SwarmSpec => []TasksTypeOK
BY InitTasksType, StepTasksType, PTL DEF SwarmSpec

\* Whatever peers and tasks do, the manager only takes steps of its own
\* specification: DownloadManager is a true picture of it in the program.
THEOREM ManagerInSwarm == SwarmSpec => Spec
<1>1. SwarmInit => Init
  BY DEF SwarmInit
<1>2. TasksTypeOK /\ [SwarmNext]_swarmVars => [Next]_vars
  BY SwarmStep DEF swarmVars
<1> QED
  BY <1>1, <1>2, TasksType, PTL DEF SwarmSpec, Spec

\* So its invariants hold in the program as well.
THEOREM ManagerInvariantInSwarm == SwarmSpec => []IInv
BY ManagerInSwarm, Invariance, PTL

\* And so do the promises it makes as a whole: behind tasks, channels and forwarders
\* too, only verified pieces are written, only written pieces are announced, and a
\* crash costs nothing that is on disk.
THEOREM StoreInSwarm == SwarmSpec => ImplementsStore
BY ManagerInSwarm, Refinement, PTL

\* The disk is used there as PieceDisk allows.
THEOREM DiskUseInSwarm == SwarmSpec => UsesPieceDisk
BY ManagerInSwarm, DiskUse, PTL

-----------------------------------------------------------------------------
(* Strangers. *)

Strangers == Peer \ Registering

\* A stranger never enters the map `peers`, which is where sends come from.
StrangersAreUnknown == \A ip \in Strangers : peers[ip] = Unregistered

SInv == StrangersAreUnknown /\ StrangersAreNotAsked

\* Receiving a block never makes another block requested.
LEMMA ReceiveRequestsNothing ==
    ASSUME NEW p \in Piece, NEW pc \in PieceRecord, NEW o, NEW d, NEW q \in Offsets, NEW ip,
           ReceiveBlock(p, pc, o, d).blocks[q] = Requested(ip)
    PROVE  pc.blocks[q] = Requested(ip)
<1>1. \A e : Received(e) # Requested(ip)
  BY DEF Received, Requested
<1>2. Missing # Requested(ip)
  BY DEF Missing, Requested
<1>3. CASE o \notin Offsets
  BY <1>3 DEF ReceiveBlock
<1>4. CASE o \in Offsets
  <2> DEFINE stored == [pc EXCEPT !.blocks[o] = ReceiveData(@, d)]
  <2>1. \/ ReceiveBlock(p, pc, o, d) = NewPiece
        \/ ReceiveBlock(p, pc, o, d).blocks = stored.blocks
    BY <1>4 DEF ReceiveBlock, Verify, PieceRecord
  <2>2. NewPiece.blocks[q] = Missing
    BY DEF NewPiece
  <2>3. stored.blocks[q] = IF q = o THEN ReceiveData(pc.blocks[o], d) ELSE pc.blocks[q]
    BY <1>4 DEF PieceRecord
  <2> QED
    BY <1>1, <1>2, <2>1, <2>2, <2>3 DEF ReceiveData
<1> QED
  BY <1>3, <1>4

LEMMA InitStrangers == SwarmInit => SInv
<1> SUFFICES ASSUME SwarmInit PROVE SInv
  OBVIOUS
<1>1. \A ip : Missing # Requested(ip)
  BY DEF Missing, Requested
<1>2. \A p \in Piece, o \in Offsets : pieces[p].blocks[o] = Missing
  BY DEF SwarmInit, Init, NewPieces, NewPiece
<1> QED
  BY <1>1, <1>2 DEF SwarmInit, Init, SInv, StrangersAreUnknown, StrangersAreNotAsked, Strangers

\* Steps that leave the map, the table and the commands alone.
LEMMA StrangersFrame ==
    ASSUME SInv, UNCHANGED <<peers, pieces, cmds>>, outbox' = outbox \/ outbox' = <<>>
    PROVE  SInv'
BY DEF SInv, StrangersAreUnknown, StrangersAreNotAsked

LEMMA HandlersSpareStrangers ==
    ASSUME SInv, TypeOK, NEW ip \in Peer, NEW e \in Event, Handle(ip, e)
    PROVE  SInv'
<1>1. CASE \E bf \in Bitfields : HandleBitfield(ip, bf)
  <2>1. PICK bf \in Bitfields : HandleBitfield(ip, bf)
    BY <1>1
  <2>2. CASE ip \in Registered
    <3>1. ip \notin Strangers
      BY <2>2 DEF Registered, SInv, StrangersAreUnknown
    <3>2. \A i \in DOMAIN outbox' : outbox'[i].to = ip
      BY <2>1, <2>2 DEF HandleBitfield, Handled, Send
    <3> QED
      BY <2>1, <2>2, <3>1, <3>2 DEF HandleBitfield, SInv, StrangersAreUnknown,
                                    StrangersAreNotAsked, Strangers, TypeOK
  <2>3. CASE ip \notin Registered
    BY <2>1, <2>3, StrangersFrame DEF HandleBitfield, Handled
  <2> QED
    BY <2>2, <2>3
<1>2. CASE \E p \in AnyPiece : HandleHave(ip, p)
  <2>1. PICK p \in AnyPiece : HandleHave(ip, p)
    BY <1>2
  <2>2. CASE peers' = peers
    BY <2>1, <2>2, StrangersFrame DEF HandleHave, Handled
  <2>3. CASE peers' # peers
    <3>1. peers[ip] \in Bitfield
      BY <2>1, <2>3 DEF HandleHave
    <3>2. ip \notin Strangers
      BY <3>1, ManagerAssumption DEF Bitfield, SInv, StrangersAreUnknown
    <3>3. \A q \in Strangers : peers'[q] = peers[q]
      BY <2>1, <3>2 DEF HandleHave, TypeOK, Strangers
    <3> QED
      BY <2>1, <3>3 DEF HandleHave, Handled, SInv, StrangersAreUnknown, StrangersAreNotAsked,
                        Strangers
  <2> QED
    BY <2>2, <2>3
<1>3. CASE HandleUnchoke(ip)
  <2> DEFINE useful == {p \in NextPiece(pieces, Available(peers[ip])) :
                           MissingBlocks(pieces[p]) # {}}
  <2>1. CASE useful = {}
    BY <1>3, <2>1, StrangersFrame DEF HandleUnchoke, Handled
  <2>2. CASE useful # {}
    <3>1. PICK p \in useful : \E o \in MissingBlocks(pieces[p]) :
             /\ pieces' = [pieces EXCEPT ![p] = RequestFromPeer(@, o, ip)]
             /\ Handled(<<Send(ip, RequestBlock(p, o))>>)
      BY <1>3, <2>2 DEF HandleUnchoke
    <3>2. PICK o \in MissingBlocks(pieces[p]) :
             /\ pieces' = [pieces EXCEPT ![p] = RequestFromPeer(@, o, ip)]
             /\ Handled(<<Send(ip, RequestBlock(p, o))>>)
      BY <3>1
    <3>3. ip \notin Strangers
      <4>1. Available(peers[ip]) # {}
        BY <2>2 DEF NextPiece
      <4>2. peers[ip] \in Bitfield
        BY <4>1 DEF Available
      <4> QED
        BY <4>2, ManagerAssumption DEF Bitfield, SInv, StrangersAreUnknown
    <3>4. \A i \in DOMAIN outbox' : outbox'[i].to = ip
      BY <3>2 DEF Handled, Send
    <3>5. p \in Piece /\ o \in Offsets /\ pieces[p] \in PieceRecord
      BY <3>1, <3>2 DEF NextPiece, Wanted, MissingBlocks, TypeOK
    <3>6. ASSUME NEW q \in Strangers, NEW r \in Piece, NEW u \in Offsets
          PROVE  pieces'[r].blocks[u] # Requested(q)
      <4>1. pieces[r].blocks[u] # Requested(q) /\ Requested(ip) # Requested(q)
        BY <3>3, <3>6 DEF SInv, StrangersAreNotAsked, Strangers, Requested
      <4>2. pieces'[r] = IF r = p THEN RequestFromPeer(pieces[p], o, ip) ELSE pieces[r]
        BY <3>2, <3>5, <3>6 DEF TypeOK
      <4>3. RequestFromPeer(pieces[p], o, ip).blocks[u]
               = IF u = o THEN Requested(ip) ELSE pieces[p].blocks[u]
        BY <3>5, <3>6 DEF RequestFromPeer, PieceRecord
      <4> QED
        BY <4>1, <4>2, <4>3
    <3> QED
      BY <1>3, <3>3, <3>4, <3>6 DEF HandleUnchoke, SInv, StrangersAreUnknown,
                                    StrangersAreNotAsked, Strangers
  <2> QED
    BY <2>1, <2>2
<1>4. CASE \E p \in AnyPiece, o \in AnyBegin, d \in Payload : HandleReceivePiece(p, o, d)
  <2>1. PICK p \in AnyPiece, o \in AnyBegin, d \in Payload : HandleReceivePiece(p, o, d)
    BY <1>4
  <2>2. outbox' = outbox \/ outbox' = <<>>
    BY <2>1 DEF HandleReceivePiece, Handled
  <2>3. ASSUME NEW q \in Strangers, NEW r \in Piece, NEW u \in Offsets
        PROVE  pieces'[r].blocks[u] # Requested(q)
    <3>1. pieces[r] \in PieceRecord /\ pieces[r].blocks[u] # Requested(q)
      BY <2>3 DEF TypeOK, SInv, StrangersAreNotAsked, Strangers
    <3>2. pieces'[r] = pieces[r] \/ pieces'[r] = ReceiveBlock(r, pieces[r], o, d)
      BY <2>1, <2>3 DEF HandleReceivePiece, TypeOK
    <3> QED
      BY <2>3, <3>1, <3>2, ReceiveRequestsNothing
  <2> QED
    BY <2>1, <2>2, <2>3 DEF HandleReceivePiece, SInv, StrangersAreUnknown,
                            StrangersAreNotAsked, Strangers
<1>5. CASE OtherEvent
  BY <1>5, StrangersFrame DEF OtherEvent, Handled
<1> QED
  BY <1>1, <1>2, <1>3, <1>4, <1>5, MessageKinds DEF Handle

LEMMA ManagerSparesStrangers ==
    ASSUME SInv, TypeOK, ManagerProceeds \/ DiskProceeds
    PROVE  SInv'
<1>1. CASE WriteOk
  <2>1. PICK sends \in BroadcastHave(writing) : Handled(sends)
    BY <1>1 DEF WriteOk
  <2>2. \A i \in DOMAIN outbox' : outbox'[i].to \in Registered
    <3>1. PICK order \in SetToSeqs(Registered) :
             sends = [i \in DOMAIN order |-> Send(order[i], HavePiece(writing))]
      BY <2>1 DEF BroadcastHave
    <3>2. order \in [1 .. Cardinality(Registered) -> Registered]
      BY <3>1 DEF SetToSeqs
    <3> QED
      BY <2>1, <3>1, <3>2 DEF Handled, Send
  <2>3. ASSUME NEW q \in Strangers, NEW r \in Piece, NEW u \in Offsets
        PROVE  pieces'[r].blocks[u] # Requested(q)
    BY <1>1, <2>3 DEF WriteOk, MarkWritten, TypeOK, PieceRecord, SInv, StrangersAreNotAsked,
                      Strangers
  <2> QED
    BY <1>1, <2>2, <2>3 DEF WriteOk, Registered, SInv, StrangersAreUnknown,
                            StrangersAreNotAsked, Strangers
<1>2. CASE WriteErr
  BY <1>2, StrangersFrame DEF WriteErr, Handled
<1>3. CASE SendCommand
  <2>1. outbox \in Seq([to : Peer, cmd : Cmd]) /\ outbox # <<>>
    BY <1>3 DEF SendCommand, TypeOK
  <2>2. Head(outbox).to \notin Strangers
    BY <2>1 DEF SInv, StrangersAreNotAsked, Strangers
  <2>3. \A i \in DOMAIN outbox' : i + 1 \in DOMAIN outbox /\ outbox'[i] = outbox[i + 1]
    BY <1>3, <2>1 DEF SendCommand
  <2>4. \A q \in Strangers : cmds'[q] = cmds[q]
    BY <1>3, <2>2 DEF SendCommand, TypeOK, Strangers
  <2> QED
    BY <1>3, <2>3, <2>4 DEF SendCommand, SInv, StrangersAreUnknown, StrangersAreNotAsked,
                            Strangers
<1>4. CASE FinishEvent
  BY <1>4, StrangersFrame DEF FinishEvent
<1>5. CASE WriteLands
  BY <1>5, StrangersFrame DEF WriteLands
<1> QED
  BY <1>1, <1>2, <1>3, <1>4, <1>5 DEF ManagerProceeds, DiskProceeds

LEMMA StepStrangers ==
    ASSUME SInv, TypeOK, TasksTypeOK, [SwarmNext]_swarmVars
    PROVE  SInv'
<1>1. CASE UNCHANGED vars
  BY <1>1, StrangersFrame DEF vars
<1>2. CASE Owner
  <2>1. CASE OpenDisk
    BY <2>1, StrangersFrame DEF OpenDisk, SetDiskIO
  <2>2. ASSUME NEW ip \in Peer, SpawnPeer(ip) PROVE SInv'
    <3>1. CASE ip \in Registering
      BY <2>2, <3>1 DEF SpawnPeer, AddPeer, TypeOK, SInv, StrangersAreUnknown,
                        StrangersAreNotAsked, Strangers
    <3> QED
      BY <1>1, <2>2, <3>1 DEF SpawnPeer
  <2>3. CASE Begin
    BY <2>3, StrangersFrame DEF Begin, StartRun
  <2> QED
    BY <1>1, <1>2, <2>1, <2>2, <2>3 DEF Owner, Drop
<1>3. ASSUME NEW ip \in Peer, TakeCommand(ip) PROVE SInv'
  BY <1>3 DEF TakeCommand, TypeOK, SInv, StrangersAreUnknown, StrangersAreNotAsked, Strangers
<1>4. ASSUME NEW ip \in Peer, ConnectionEnds(ip) PROVE SInv'
  BY <1>4 DEF ConnectionEnds, TypeOK, SInv, StrangersAreUnknown, StrangersAreNotAsked, Strangers
<1>5. ASSUME NEW ip \in Peer, Relays(ip) \/ Forwards(ip) \/ Network(ip) PROVE SInv'
  <2>1. UNCHANGED vars \/ TakeCommand(ip) \/ ConnectionEnds(ip)
    BY <1>5 DEF Relays, ObeyCommand, Report, CommandsClosed, Forwards, TakeEvent, Forward,
                ForwarderEnds, Network, Connect, ConnectFails, ConnectionFails, Written,
                ReadMessage
  <2> QED
    BY <1>1, <1>3, <1>4, <2>1
<1>6. CASE ReceiveEvent
  <2>1. Head(queue) \in TaggedEvent
    BY <1>6 DEF TasksTypeOK, ReceiveEvent
  <2>2. Head(queue).from \in Peer /\ Head(queue).what \in Event
    BY <2>1 DEF TaggedEvent
  <2> QED
    BY <1>6, <2>2, HandlersSpareStrangers DEF ReceiveEvent
<1>7. CASE ManagerProceeds \/ DiskProceeds
  BY <1>7, ManagerSparesStrangers
<1> QED
  BY <1>1, <1>2, <1>5, <1>6, <1>7 DEF SwarmNext, Manager, swarmVars

\* The manager never asks a peer for anything that was not passed to
\* DownloadManager::add_peer.
THEOREM StrangersStayUnasked == SwarmSpec => []StrangersAreNotAsked
<1>1. SInv /\ TypeOK /\ TasksTypeOK /\ [SwarmNext]_swarmVars => SInv'
  BY StepStrangers
<1>2. SwarmSpec => []TypeOK
  BY ManagerInSwarm, TypeCorrect, PTL
<1>3. SInv => StrangersAreNotAsked
  BY DEF SInv
<1> QED
  BY <1>1, <1>2, <1>3, InitStrangers, TasksType, PTL DEF SwarmSpec

\* With the wiring of main.rs, which passes no peer, no command ever leaves the
\* manager: nothing is requested, whatever peers announce or unchoke.
THEOREM UnwiredManagerIsMute ==
    ASSUME Registering = {}
    PROVE  SwarmSpec => [](\A ip \in Peer : cmds[ip] = <<>>)
<1>1. StrangersAreNotAsked => \A ip \in Peer : cmds[ip] = <<>>
  BY DEF StrangersAreNotAsked
<1> QED
  BY <1>1, StrangersStayUnasked, PTL

-----------------------------------------------------------------------------
(* The order of events. *)

\* What EventsKeepOrder is about.
Channels == <<evs, hand, queue, dropped, reported, taken>>

LEMMA OrderFrame ==
    ASSUME EventsKeepOrder, UNCHANGED Channels
    PROVE  EventsKeepOrder'
BY DEF EventsKeepOrder, Forwarded, Channels

LEMMA QueuedAreOfPeers ==
    ASSUME TasksTypeOK
    PROVE  \A i \in DOMAIN queue : queue[i].from \in Peer
<1>1. \A e \in TaggedEvent : e.from \in Peer
  BY DEF TaggedEvent
<1>2. \A i \in DOMAIN queue : queue[i] \in TaggedEvent
  BY DEF TasksTypeOK
<1> QED
  BY <1>1, <1>2

LEMMA ReportKeepsOrder ==
    ASSUME TasksTypeOK, EventsKeepOrder, NEW ip \in Peer, Report(ip), ~dropped
    PROVE  EventsKeepOrder'
<1>1. CASE ip \notin forwarders
  BY <1>1, OrderFrame DEF Report, Channels
<1>2. CASE ip \in forwarders
  <2> DEFINE new == Tagged(ip, Head(todo[ip]))
  <2>1. /\ evs' = [evs EXCEPT ![ip] = Append(evs[ip], new)]
        /\ reported' = [reported EXCEPT ![ip] = reported[ip] + 1]
        /\ UNCHANGED <<hand, queue, dropped, taken>>
    BY <1>2 DEF Report
  <2>2. new.from = ip /\ new.n = reported[ip] + 1
    BY DEF Tagged
  <2> HIDE DEF new
  <2>3. /\ evs \in [Peer -> Seq(TaggedEvent)] /\ hand \in [Peer -> Seq(TaggedEvent)]
        /\ reported \in [Peer -> Nat] /\ taken \in [Peer -> Nat]
        /\ queue \in Seq(TaggedEvent)
    BY DEF TasksTypeOK
  <2>4. \A q \in Peer : /\ Len(evs[q]) \in Nat /\ Len(hand[q]) \in Nat
                        /\ DOMAIN evs[q] = 1 .. Len(evs[q])
    BY <2>3
  <2>5. /\ evs'[ip] = Append(evs[ip], new)
        /\ Len(evs'[ip]) = Len(evs[ip]) + 1
        /\ DOMAIN evs'[ip] = 1 .. Len(evs[ip]) + 1
        /\ \A i \in DOMAIN evs[ip] : evs'[ip][i] = evs[ip][i]
        /\ evs'[ip][Len(evs[ip]) + 1] = new
    BY <2>1, <2>3
  <2>6. \A q \in Peer \ {ip} : evs'[q] = evs[q] /\ reported'[q] = reported[q]
    BY <2>1, <2>3
  <2>7. reported'[ip] = reported[ip] + 1
    BY <2>1, <2>3
  <2>8. \A q \in Peer : Forwarded(q)' = Forwarded(q)
    BY <2>1, <2>3, <2>4, <2>5, <2>6, <2>7 DEF Forwarded
  <2>9. \A i \in DOMAIN evs'[ip] :
           evs'[ip][i].from = ip /\ evs'[ip][i].n = Forwarded(ip) + Len(hand[ip]) + i
    <3> SUFFICES ASSUME NEW i \in DOMAIN evs'[ip]
                 PROVE  evs'[ip][i].from = ip /\ evs'[ip][i].n = Forwarded(ip) + Len(hand[ip]) + i
      OBVIOUS
    <3>1. CASE i \in DOMAIN evs[ip]
      BY <2>5, <3>1 DEF EventsKeepOrder
    <3>2. CASE i = Len(evs[ip]) + 1
      BY <2>2, <2>3, <2>4, <2>5, <3>2 DEF Forwarded
    <3> QED
      BY <2>4, <2>5, <3>1, <3>2
  <2>10. \A q \in Peer : \A i \in DOMAIN evs'[q] :
            evs'[q][i].from = q /\ evs'[q][i].n = Forwarded(q) + Len(hand[q]) + i
    BY <2>6, <2>9 DEF EventsKeepOrder
  <2>11. \A i \in DOMAIN queue : queue[i].from \in Peer
    BY QueuedAreOfPeers
  <2> QED
    BY <2>1, <2>8, <2>10, <2>11 DEF EventsKeepOrder
<1> QED
  BY <1>1, <1>2

LEMMA TakeKeepsOrder ==
    ASSUME TasksTypeOK, EventsKeepOrder, NEW ip \in Peer, TakeEvent(ip), ~dropped
    PROVE  EventsKeepOrder'
<1>1. /\ hand' = [hand EXCEPT ![ip] = <<Head(evs[ip])>>]
      /\ evs' = [evs EXCEPT ![ip] = Tail(evs[ip])]
      /\ hand[ip] = <<>> /\ evs[ip] # <<>>
      /\ UNCHANGED <<queue, dropped, reported, taken>>
  BY DEF TakeEvent
<1>2. /\ evs \in [Peer -> Seq(TaggedEvent)] /\ hand \in [Peer -> Seq(TaggedEvent)]
      /\ reported \in [Peer -> Nat] /\ taken \in [Peer -> Nat]
      /\ queue \in Seq(TaggedEvent)
  BY DEF TasksTypeOK
<1>3. /\ Len(evs[ip]) \in Nat \ {0} /\ Len(hand[ip]) = 0
      /\ evs'[ip] = Tail(evs[ip]) /\ Len(evs'[ip]) = Len(evs[ip]) - 1
      /\ \A i \in DOMAIN evs'[ip] : i + 1 \in DOMAIN evs[ip] /\ evs'[ip][i] = evs[ip][i + 1]
      /\ hand'[ip] = <<evs[ip][1]>> /\ 1 \in DOMAIN evs[ip]
  BY <1>1, <1>2
<1>4. Len(hand'[ip]) = 1 /\ DOMAIN hand'[ip] = {1} /\ hand'[ip][1] = evs[ip][1]
  BY <1>3
<1>5. \A q \in Peer \ {ip} : evs'[q] = evs[q] /\ hand'[q] = hand[q]
  BY <1>1, <1>2
<1>6. \A q \in Peer : Forwarded(q)' = Forwarded(q)
  BY <1>1, <1>2, <1>3, <1>4, <1>5 DEF Forwarded
<1>7. Forwarded(ip) \in Int
  BY <1>2, <1>3 DEF Forwarded
<1>8. \A i \in DOMAIN evs[ip] : evs[ip][i].from = ip /\ evs[ip][i].n = Forwarded(ip) + i
  BY <1>3, <1>7 DEF EventsKeepOrder
<1>9. \A i \in DOMAIN evs'[ip] :
         evs'[ip][i].from = ip /\ evs'[ip][i].n = Forwarded(ip) + Len(hand'[ip]) + i
  <2> SUFFICES ASSUME NEW i \in DOMAIN evs'[ip]
               PROVE  evs'[ip][i].from = ip /\ evs'[ip][i].n = Forwarded(ip) + Len(hand'[ip]) + i
    OBVIOUS
  <2>1. i + 1 \in DOMAIN evs[ip] /\ evs'[ip][i] = evs[ip][i + 1] /\ i \in Int
    BY <1>2, <1>3
  <2> QED
    BY <1>4, <1>7, <1>8, <2>1
<1>10. \A i \in DOMAIN hand'[ip] :
          hand'[ip][i].from = ip /\ hand'[ip][i].n = Forwarded(ip) + i
  BY <1>3, <1>4, <1>8
<1>11. \A i \in DOMAIN queue : queue[i].from \in Peer
  BY QueuedAreOfPeers
<1> QED
  BY <1>1, <1>5, <1>6, <1>9, <1>10, <1>11 DEF EventsKeepOrder

\* A sequence with one more element.
LEMMA OneMore ==
    ASSUME NEW S, NEW s \in Seq(S), NEW t \in Seq(S), Len(t) = 1
    PROVE  /\ Len(s \o t) = Len(s) + 1
           /\ DOMAIN (s \o t) = 1 .. Len(s) + 1
           /\ DOMAIN s = 1 .. Len(s)
           /\ Len(s) \in Nat
           /\ \A i \in DOMAIN s : (s \o t)[i] = s[i]
           /\ (s \o t)[Len(s) + 1] = t[1]
<1>1. Len(s) \in Nat /\ DOMAIN s = 1 .. Len(s)
  BY LenProperties
<1>2. s \o t \in Seq(S)
  BY ConcatProperties, Zenon
<1>3. Len(s \o t) = Len(s) + Len(t)
  BY ConcatProperties, Zenon
<1>4. DOMAIN (s \o t) = 1 .. Len(s) + 1
  BY <1>2, <1>3, LenProperties, Zenon
<1>5. \A i \in 1 .. Len(s) : (s \o t)[i] = s[i]
  OBVIOUS
<1>6. \A i \in 1 .. Len(s) + Len(t) :
         (s \o t)[i] = IF i <= Len(s) THEN s[i] ELSE t[i - Len(s)]
  BY ConcatProperties, Zenon
<1>7. /\ Len(s) + 1 \in 1 .. Len(s) + Len(t)
      /\ ~(Len(s) + 1 <= Len(s))
      /\ (Len(s) + 1) - Len(s) = 1
  BY <1>1
<1>8. (s \o t)[Len(s) + 1] = t[1]
  BY <1>6, <1>7, Zenon
<1> QED
  BY <1>1, <1>3, <1>4, <1>5, <1>8

LEMMA ForwardKeepsOrder ==
    ASSUME TasksTypeOK, EventsKeepOrder, NEW ip \in Peer, Forward(ip), ~dropped
    PROVE  EventsKeepOrder'
<1> DEFINE e == hand[ip][1]
<1>1. /\ queue' = queue \o hand[ip]
      /\ hand' = [hand EXCEPT ![ip] = <<>>]
      /\ UNCHANGED <<evs, dropped, reported, taken>>
  BY DEF Forward
<1>2. /\ evs \in [Peer -> Seq(TaggedEvent)] /\ hand \in [Peer -> Seq(TaggedEvent)]
      /\ reported \in [Peer -> Nat] /\ taken \in [Peer -> Nat]
      /\ queue \in Seq(TaggedEvent)
  BY DEF TasksTypeOK
<1>3. hand[ip] \in Seq(TaggedEvent) /\ Len(hand[ip]) = 1 /\ DOMAIN hand[ip] = {1}
  <2>1. hand[ip] \in Seq(TaggedEvent)
    BY DEF TasksTypeOK
  <2>2. Len(hand[ip]) # 0
    BY <2>1, EmptySeq DEF Forward
  <2>3. Len(hand[ip]) \in Nat /\ DOMAIN hand[ip] = 1 .. Len(hand[ip])
    BY <2>1
  <2>4. Len(hand[ip]) <= 1
    BY DEF TasksTypeOK
  <2>5. Len(hand[ip]) = 1
    <3>1. \A n \in Nat : n # 0 /\ n <= 1 => n = 1
      OBVIOUS
    <3> QED
      BY <2>2, <2>3, <2>4, <3>1, Zenon
  <2> QED
    BY <2>1, <2>3, <2>5
<1>4. /\ Len(queue') = Len(queue) + 1
      /\ DOMAIN queue' = 1 .. Len(queue) + 1
      /\ DOMAIN queue = 1 .. Len(queue)
      /\ Len(queue) \in Nat
      /\ \A i \in DOMAIN queue : queue'[i] = queue[i]
      /\ queue'[Len(queue) + 1] = e
  <2>1. queue \in Seq(TaggedEvent) /\ queue' = queue \o hand[ip]
    BY <1>1, <1>2
  <2>2. hand[ip] \in Seq(TaggedEvent) /\ Len(hand[ip]) = 1 /\ hand[ip][1] = e
    BY <1>3
  <2> HIDE DEF e
  <2> QED
    BY <2>1, <2>2, OneMore
<1>5. \A q \in Peer : Forwarded(q) \in Int
  BY <1>2 DEF Forwarded
<1>6. e.from = ip /\ e.n = Forwarded(ip) + 1
  BY <1>3 DEF EventsKeepOrder
<1> HIDE DEF e
<1>7. hand'[ip] = <<>> /\ \A q \in Peer \ {ip} : hand'[q] = hand[q]
  BY <1>1, <1>2
<1> DEFINE G(q) == Forwarded(q) + IF q = ip THEN 1 ELSE 0
<1>8. \A q \in Peer : Forwarded(q)' = G(q)
  <2>1. Len(hand'[ip]) = 0
    BY <1>1, <1>2
  <2>2. evs' = evs /\ reported' = reported /\ \A q \in Peer \ {ip} : hand'[q] = hand[q]
    BY <1>1, <1>7
  <2>3. \A q \in Peer \ {ip} : Forwarded(q)' = Forwarded(q)
    BY <2>2, Zenon DEF Forwarded
  <2>4. Forwarded(ip)' = Forwarded(ip) + 1
    <3> DEFINE r == reported[ip]
               l == Len(evs[ip])
    <3>1. r \in Int /\ l \in Int
      BY <1>2
    <3>2. Forwarded(ip) = r - l - 1
      BY <1>3, Zenon DEF Forwarded
    <3>3. Forwarded(ip)' = r - l - 0
      BY <2>1, <2>2, Zenon DEF Forwarded
    <3> HIDE DEF r, l
    <3> QED
      BY <3>1, <3>2, <3>3
  <2> QED
    BY <1>5, <2>3, <2>4
<1>9. ASSUME NEW q \in Peer
      PROVE  /\ taken[q] <= G(q)
             /\ \A i \in DOMAIN evs[q] :
                   evs[q][i].from = q /\ evs[q][i].n = G(q) + Len(hand'[q]) + i
             /\ \A i \in DOMAIN hand'[q] :
                   hand'[q][i].from = q /\ hand'[q][i].n = G(q) + i
             /\ \A n \in taken[q] + 1 .. G(q) :
                   \E i \in DOMAIN queue' : queue'[i].from = q /\ queue'[i].n = n
  <2>1. CASE q # ip
    <3>1. \A n \in taken[q] + 1 .. Forwarded(q) :
             \E i \in DOMAIN queue' : queue'[i].from = q /\ queue'[i].n = n
      BY <1>4 DEF EventsKeepOrder
    <3>2. G(q) = Forwarded(q)
      BY <1>5, <2>1
    <3> QED
      BY <1>7, <2>1, <3>1, <3>2 DEF EventsKeepOrder
  <2>2. CASE q = ip
    <3>1. taken[ip] <= Forwarded(ip) /\ taken[ip] \in Nat
      BY <1>2 DEF EventsKeepOrder
    <3>2. Len(hand'[ip]) = 0 /\ DOMAIN hand'[ip] = {}
      BY <1>7
    <3>3. \A i \in DOMAIN evs[ip] :
             /\ evs[ip][i].from = ip
             /\ evs[ip][i].n = Forwarded(ip) + 1 + i
      BY <1>3 DEF EventsKeepOrder
    <3>4. \A i \in DOMAIN evs[ip] : i \in Int
      BY <1>2
    <3>5. \A n \in taken[ip] + 1 .. Forwarded(ip) + 1 :
             \E i \in DOMAIN queue' : queue'[i].from = ip /\ queue'[i].n = n
      <4> SUFFICES ASSUME NEW n \in taken[ip] + 1 .. Forwarded(ip) + 1
                   PROVE  \E i \in DOMAIN queue' : queue'[i].from = ip /\ queue'[i].n = n
        OBVIOUS
      <4>1. CASE n = Forwarded(ip) + 1
        BY <1>4, <1>6, <4>1
      <4>2. CASE n # Forwarded(ip) + 1
        <5>1. n \in taken[ip] + 1 .. Forwarded(ip)
          BY <1>5, <3>1, <4>2
        <5>2. \E i \in DOMAIN queue : queue[i].from = ip /\ queue[i].n = n
          BY <5>1 DEF EventsKeepOrder
        <5> QED
          BY <1>4, <5>2
      <4> QED
        BY <4>1, <4>2
    <3> QED
      BY <1>5, <1>8, <2>2, <3>1, <3>2, <3>3, <3>4, <3>5
  <2> QED
    BY <2>1, <2>2
<1>10. \A i \in DOMAIN queue : queue[i].from \in Peer
  BY QueuedAreOfPeers
<1>11. \A i \in DOMAIN queue :
          queue[i].n \in taken[queue[i].from] + 1 .. Forwarded(queue[i].from)
  BY DEF EventsKeepOrder
<1>12. ASSUME NEW q \in Peer, NEW i \in DOMAIN queue', queue'[i].from = q
       PROVE  queue'[i].n \in taken[q] + 1 .. G(q)
  <2>0. /\ taken[q] \in Nat /\ Forwarded(q) \in Int /\ G(q) \in Int
        /\ Forwarded(q) <= G(q) /\ taken[q] <= Forwarded(q)
    <3>1. taken[q] \in Nat /\ Forwarded(q) \in Int
      BY <1>2, <1>5
    <3>2. taken[q] <= Forwarded(q)
      BY DEF EventsKeepOrder
    <3> QED
      BY <3>1, <3>2
  <2>1. CASE i \in DOMAIN queue
    <3>1. queue'[i] = queue[i] /\ queue[i].n \in taken[q] + 1 .. Forwarded(q)
      BY <1>4, <1>11, <1>12, <2>1
    <3> QED
      BY <2>0, <3>1
  <2>2. CASE i = Len(queue) + 1
    <3>1. queue'[i] = e /\ q = ip
      BY <1>4, <1>6, <1>12, <2>2
    <3>2. queue'[i].n = G(q) /\ G(q) = Forwarded(q) + 1
      BY <1>6, <1>8, <3>1
    <3> QED
      BY <2>0, <3>2
  <2> QED
    BY <1>4, <2>1, <2>2
<1>13. ASSUME NEW i \in DOMAIN queue', NEW j \in DOMAIN queue',
              i < j, queue'[i].from = queue'[j].from
       PROVE  queue'[i].n < queue'[j].n
  <2>1. CASE j \in DOMAIN queue
    <3>1. i \in DOMAIN queue
      BY <1>4, <1>13, <2>1
    <3> QED
      BY <1>4, <1>13, <2>1, <3>1 DEF EventsKeepOrder
  <2>2. CASE j = Len(queue) + 1
    <3>1. i \in DOMAIN queue /\ queue'[i] = queue[i] /\ queue'[j] = e
      BY <1>4, <1>13, <2>2
    <3>2. queue[i].n \in taken[ip] + 1 .. Forwarded(ip)
      BY <1>6, <1>11, <1>13, <3>1
    <3> QED
      BY <1>2, <1>5, <1>6, <3>1, <3>2
  <2> QED
    BY <1>4, <2>1, <2>2
<1>14. \A i \in DOMAIN queue' : queue'[i].from \in Peer
  BY <1>4, <1>6, <1>10
<1>15. \A i \in DOMAIN queue' :
          queue'[i].n \in taken[queue'[i].from] + 1 .. G(queue'[i].from)
  BY <1>12, <1>14
<1> HIDE DEF G
<1>16. (\A q \in Peer :
          /\ taken[q] <= Forwarded(q)
          /\ \A i \in DOMAIN evs[q] :
                evs[q][i].from = q /\ evs[q][i].n = Forwarded(q) + Len(hand[q]) + i
          /\ \A i \in DOMAIN hand[q] :
                hand[q][i].from = q /\ hand[q][i].n = Forwarded(q) + i
          /\ \A n \in taken[q] + 1 .. Forwarded(q) :
                \E i \in DOMAIN queue : queue[i].from = q /\ queue[i].n = n)'
  <2> SUFFICES ASSUME NEW q \in Peer
               PROVE  (/\ taken[q] <= Forwarded(q)
                       /\ \A i \in DOMAIN evs[q] :
                             /\ evs[q][i].from = q
                             /\ evs[q][i].n = Forwarded(q) + Len(hand[q]) + i
                       /\ \A i \in DOMAIN hand[q] :
                             hand[q][i].from = q /\ hand[q][i].n = Forwarded(q) + i
                       /\ \A n \in taken[q] + 1 .. Forwarded(q) :
                             \E i \in DOMAIN queue : queue[i].from = q /\ queue[i].n = n)'
    OBVIOUS
  <2>1. Forwarded(q)' = G(q) /\ evs' = evs /\ taken' = taken
    BY <1>1, <1>8
  <2>2. taken'[q] <= Forwarded(q)'
    BY <1>9, <2>1, Zenon
  <2>3. \A i \in DOMAIN evs'[q] :
           /\ evs'[q][i].from = q
           /\ evs'[q][i].n = Forwarded(q)' + Len(hand'[q]) + i
    BY <1>9, <2>1, ZenonT(60)
  <2>4. \A i \in DOMAIN hand'[q] :
           hand'[q][i].from = q /\ hand'[q][i].n = Forwarded(q)' + i
    <3>1. \A i \in DOMAIN hand'[q] : hand'[q][i].from = q /\ hand'[q][i].n = G(q) + i
      BY <1>9
    <3> QED
      BY <2>1, <3>1
  <2>5. \A n \in taken'[q] + 1 .. Forwarded(q)' :
           \E i \in DOMAIN queue' : queue'[i].from = q /\ queue'[i].n = n
    BY <1>9, <2>1, ZenonT(60)
  <2> QED
    BY <2>2, <2>3, <2>4, <2>5, Zenon
<1>17. (\A i \in DOMAIN queue :
          queue[i].n \in taken[queue[i].from] + 1 .. Forwarded(queue[i].from))'
  BY <1>1, <1>8, <1>14, <1>15
<1> QED
  BY <1>13, <1>16, <1>17 DEF EventsKeepOrder

LEMMA ReceiveKeepsOrder ==
    ASSUME TasksTypeOK, EventsKeepOrder, ReceiveEvent, ~dropped
    PROVE  EventsKeepOrder'
<1> DEFINE ip == queue[1].from
           n0 == queue[1].n
<1>1. /\ queue' = Tail(queue) /\ queue # <<>>
      /\ taken' = [taken EXCEPT ![ip] = taken[ip] + 1]
      /\ UNCHANGED <<evs, hand, dropped, reported>>
  <2>1. queue \in Seq(TaggedEvent) /\ queue # <<>>
    BY DEF ReceiveEvent, TasksTypeOK
  <2>2. Head(queue) = queue[1]
    BY <2>1
  <2> QED
    BY <2>2 DEF ReceiveEvent
<1>2. /\ evs \in [Peer -> Seq(TaggedEvent)] /\ hand \in [Peer -> Seq(TaggedEvent)]
      /\ reported \in [Peer -> Nat] /\ taken \in [Peer -> Nat]
      /\ queue \in Seq(TaggedEvent)
  BY DEF TasksTypeOK
<1>3. /\ Len(queue) \in Nat \ {0} /\ DOMAIN queue = 1 .. Len(queue)
      /\ Len(queue') = Len(queue) - 1 /\ DOMAIN queue' = 1 .. Len(queue) - 1
      /\ \A i \in DOMAIN queue' : queue'[i] = queue[i + 1]
  BY <1>1, <1>2
<1>4. \A q \in Peer : Forwarded(q)' = Forwarded(q) /\ Forwarded(q) \in Int
  BY <1>1, <1>2 DEF Forwarded
<1>5. 1 \in DOMAIN queue /\ \A i \in DOMAIN queue : queue[i].from \in Peer
  BY <1>3, QueuedAreOfPeers
<1>6. ip \in Peer /\ n0 \in taken[ip] + 1 .. Forwarded(ip)
  BY <1>5 DEF EventsKeepOrder
\* The oldest event of a peer in the queue is the next one the manager expects.
<1>7. n0 = taken[ip] + 1
  <2>1. taken[ip] + 1 \in taken[ip] + 1 .. Forwarded(ip)
    BY <1>2, <1>4, <1>6
  <2>2. PICK i \in DOMAIN queue : queue[i].from = ip /\ queue[i].n = taken[ip] + 1
    BY <1>6, <2>1 DEF EventsKeepOrder
  <2>3. CASE i = 1
    BY <2>2, <2>3
  <2>4. CASE 1 < i
    <3>1. n0 < taken[ip] + 1
      BY <1>5, <2>2, <2>4 DEF EventsKeepOrder
    <3> QED
      BY <1>2, <1>4, <1>6, <3>1
  <2> QED
    BY <1>3, <2>3, <2>4
<1>8. /\ taken'[ip] = n0
      /\ \A q \in Peer \ {ip} : taken'[q] = taken[q]
  BY <1>1, <1>2, <1>6, <1>7
<1>9. n0 \in Int /\ n0 <= Forwarded(ip)
  BY <1>2, <1>4, <1>6
<1>10. \A i, j \in DOMAIN queue :
          i < j /\ queue[i].from = queue[j].from => queue[i].n < queue[j].n
  BY DEF EventsKeepOrder
<1>11. \A i \in DOMAIN queue' : i + 1 \in DOMAIN queue /\ 1 < i + 1
  BY <1>3
<1> HIDE DEF ip, n0
<1>12. ASSUME NEW q \in Peer
       PROVE  /\ taken'[q] <= Forwarded(q)
              /\ \A n \in taken'[q] + 1 .. Forwarded(q) :
                    \E i \in DOMAIN queue' : queue'[i].from = q /\ queue'[i].n = n
  <2>1. taken'[q] <= Forwarded(q)
    BY <1>8, <1>9 DEF EventsKeepOrder
  <2>2. ASSUME NEW n \in taken'[q] + 1 .. Forwarded(q)
        PROVE  \E i \in DOMAIN queue' : queue'[i].from = q /\ queue'[i].n = n
    <3>1. n \in taken[q] + 1 .. Forwarded(q) /\ (q = ip => n > n0)
      BY <1>2, <1>4, <1>6, <1>7, <1>8, <1>9, <2>2
    <3>2. PICK i \in DOMAIN queue : queue[i].from = q /\ queue[i].n = n
      BY <3>1 DEF EventsKeepOrder
    <3>3. i # 1
      BY <1>9, <3>1, <3>2 DEF ip, n0
    <3>4. i - 1 \in DOMAIN queue' /\ queue'[i - 1] = queue[i]
      BY <1>3, <3>3
    <3> QED
      BY <3>2, <3>4
  <2> QED
    BY <2>1, <2>2
<1>13. ASSUME NEW i \in DOMAIN queue'
       PROVE  queue'[i].n \in taken'[queue'[i].from] + 1 .. Forwarded(queue'[i].from)
  <2> DEFINE q == queue[i + 1].from
  <2>1. queue'[i] = queue[i + 1] /\ i + 1 \in DOMAIN queue /\ q \in Peer
    BY <1>3, <1>5, <1>11
  <2>2. queue[i + 1].n \in taken[q] + 1 .. Forwarded(q)
    BY <2>1 DEF EventsKeepOrder
  <2>3. q = ip => n0 < queue[i + 1].n
    BY <1>5, <1>10, <1>11, <2>1 DEF ip, n0
  <2>4. queue[i + 1].n \in taken'[q] + 1 .. Forwarded(q)
    BY <1>2, <1>4, <1>8, <1>9, <2>1, <2>2, <2>3
  <2> QED
    BY <2>1, <2>4
<1>14. ASSUME NEW i \in DOMAIN queue', NEW j \in DOMAIN queue',
              i < j, queue'[i].from = queue'[j].from
       PROVE  queue'[i].n < queue'[j].n
  <2>1. /\ i + 1 \in DOMAIN queue /\ j + 1 \in DOMAIN queue /\ i + 1 < j + 1
        /\ queue'[i] = queue[i + 1] /\ queue'[j] = queue[j + 1]
    BY <1>3, <1>11, <1>14
  <2> QED
    BY <1>10, <1>14, <2>1
<1>15. \A i \in DOMAIN queue' : queue'[i].from \in Peer
  BY <1>3, <1>5, <1>11
<1>16. \A q \in Peer :
          /\ \A i \in DOMAIN evs[q] :
                evs[q][i].from = q /\ evs[q][i].n = Forwarded(q) + Len(hand[q]) + i
          /\ \A i \in DOMAIN hand[q] :
                hand[q][i].from = q /\ hand[q][i].n = Forwarded(q) + i
  BY DEF EventsKeepOrder
<1> QED
  BY <1>1, <1>4, <1>12, <1>13, <1>14, <1>15, <1>16 DEF EventsKeepOrder

LEMMA StepKeepsOrder ==
    ASSUME TasksTypeOK, EventsKeepOrder, [SwarmNext]_swarmVars
    PROVE  EventsKeepOrder'
<1>1. CASE dropped'
  BY <1>1 DEF EventsKeepOrder
<1>2. CASE ~dropped'
  <2>1. ~dropped
    <3>1. dropped' = dropped \/ dropped'
      BY DEF SwarmNext, swarmVars, tasks, Owner, OpenDisk, SpawnPeer, Begin, Drop, Relays,
             ObeyCommand, Report, CommandsClosed, Forwards, TakeEvent, Forward, ForwarderEnds,
             Network, Connect, ConnectFails, ConnectionFails, Written, ReadMessage, Manager,
             ReceiveEvent, ManagerProceeds, DiskProceeds
    <3> QED
      BY <1>2, <3>1
  <2>2. CASE UNCHANGED swarmVars \/ Owner \/ ManagerProceeds \/ DiskProceeds
    BY <1>2, <2>2, OrderFrame DEF Channels, swarmVars, tasks, Owner, OpenDisk, SpawnPeer, Begin,
                                  Drop, ManagerProceeds, DiskProceeds
  <2>3. ASSUME NEW ip \in Peer, Relays(ip) PROVE EventsKeepOrder'
    <3>1. CASE Report(ip)
      BY <2>1, <3>1, ReportKeepsOrder
    <3>2. CASE ObeyCommand(ip) \/ CommandsClosed(ip)
      BY <3>2, OrderFrame DEF Channels, ObeyCommand, CommandsClosed
    <3> QED
      BY <2>3, <3>1, <3>2 DEF Relays
  <2>4. ASSUME NEW ip \in Peer, Forwards(ip) PROVE EventsKeepOrder'
    <3>1. CASE TakeEvent(ip)
      BY <2>1, <3>1, TakeKeepsOrder
    <3>2. CASE Forward(ip)
      BY <2>1, <3>2, ForwardKeepsOrder
    <3>3. CASE ForwarderEnds(ip)
      BY <3>3, OrderFrame DEF Channels, ForwarderEnds
    <3> QED
      BY <2>4, <3>1, <3>2, <3>3 DEF Forwards
  <2>5. ASSUME NEW ip \in Peer, Network(ip) PROVE EventsKeepOrder'
    BY <2>5, OrderFrame DEF Channels, Network, Connect, ConnectFails, ConnectionFails, Written,
                            ReadMessage
  <2>6. CASE ReceiveEvent
    BY <2>1, <2>6, ReceiveKeepsOrder
  <2> QED
    BY <2>2, <2>3, <2>4, <2>5, <2>6 DEF SwarmNext, Manager
<1> QED
  BY <1>1, <1>2

LEMMA InitOrder == SwarmInit => EventsKeepOrder
<1> SUFFICES ASSUME SwarmInit PROVE EventsKeepOrder
  OBVIOUS
<1>1. \A ip \in Peer : reported[ip] = 0 /\ taken[ip] = 0
  BY DEF SwarmInit
<1>2. \A ip \in Peer : Len(evs[ip]) = 0 /\ Len(hand[ip]) = 0
  BY DEF SwarmInit
<1>3. \A ip \in Peer : Forwarded(ip) = 0
  <2>1. \A ip \in Peer : Forwarded(ip) = 0 - 0 - 0
    BY <1>1, <1>2, Zenon DEF Forwarded
  <2>2. 0 - 0 - 0 = 0
    OBVIOUS
  <2> QED
    BY <2>1, <2>2, Zenon
<1>4. DOMAIN queue = {} /\ \A ip \in Peer : DOMAIN evs[ip] = {} /\ DOMAIN hand[ip] = {}
  BY DEF SwarmInit
<1>5. 0 + 1 .. 0 = {}
  OBVIOUS
<1> QED
  BY <1>1, <1>3, <1>4, <1>5 DEF EventsKeepOrder

\* No event a connection reports is lost, repeated or overtaken on its way to the
\* manager, for any number of peers and any channel capacities.
THEOREM EventOrder == SwarmSpec => []EventsKeepOrder
<1>1. TasksTypeOK /\ EventsKeepOrder /\ [SwarmNext]_swarmVars => EventsKeepOrder'
  BY StepKeepsOrder
<1> QED
  BY <1>1, InitOrder, TasksType, PTL DEF SwarmSpec
=============================================================================
