----------------------------- MODULE TorrentStore -----------------------------
(***************************************************************************)
(* What a download promises its user and the swarm, without blocks, peers, *)
(* queues or awaits.  Every piece is wanted, verified in memory, or        *)
(* persisted; `durable` is the set of pieces whose bytes are on disk, which *)
(* survives a crash; `announced` is the set of pieces with a Have on its    *)
(* way to some peer.  DownloadManager implements this module.               *)
(***************************************************************************)
EXTENDS Naturals

CONSTANT Pieces

VARIABLES status, durable, announced, finished

storeVars == <<status, durable, announced, finished>>

Status == {"wanted", "verified", "persisted"}

StoreInit ==
    /\ status = [p \in Pieces |-> "wanted"]
    /\ durable = {}
    /\ announced = {}
    /\ finished = FALSE

\* Memory holds the right bytes of p (again).
Obtain(p) ==
    /\ ~finished
    /\ status' = [status EXCEPT ![p] = "verified"]
    /\ UNCHANGED <<durable, announced, finished>>

\* Memory loses its copy of p, whatever the disk has.
Lose(p) ==
    /\ ~finished
    /\ status' = [status EXCEPT ![p] = "wanted"]
    /\ UNCHANGED <<durable, announced, finished>>

\* Only a verified piece is written, and only a written piece is announced.
Persist(p) ==
    /\ ~finished
    /\ status[p] = "verified"
    /\ status' = [status EXCEPT ![p] = "persisted"]
    /\ durable' = durable \cup {p}
    /\ announced' \in {announced, announced \cup {p}}
    /\ UNCHANGED finished

\* A write may put every byte on disk and still fail, or be cut off by a crash.
PersistUnreported(p) ==
    /\ ~finished
    /\ status[p] = "verified"
    /\ durable' = durable \cup {p}
    /\ UNCHANGED <<status, announced, finished>>

\* Announcements are delivered, or lost with their connection.
Deliver ==
    /\ announced' \in SUBSET announced
    /\ UNCHANGED <<status, durable, finished>>

Finish ==
    /\ \A p \in Pieces : status[p] # "wanted"
    /\ finished' = TRUE
    /\ UNCHANGED <<status, durable, announced>>

\* Memory and queues are lost, the disk is not.
Crash ==
    /\ status' = [p \in Pieces |-> "wanted"]
    /\ announced' = {}
    /\ finished' = FALSE
    /\ UNCHANGED durable

StoreNext ==
    \/ \E p \in Pieces : Obtain(p) \/ Lose(p) \/ Persist(p) \/ PersistUnreported(p)
    \/ Deliver
    \/ Finish
    \/ Crash

StoreSpec == StoreInit /\ [][StoreNext]_storeVars
=============================================================================
