------------------------------ MODULE PieceDisk ------------------------------
(***************************************************************************)
(* What a disk promises the callers of write_piece and read_piece, without *)
(* files, offsets, buffers or partial transfers.  `durable` is the set of  *)
(* pieces whose bytes are in their place; no call and no crash takes a     *)
(* piece out of it.  DiskIO implements this module, and DownloadManager,   *)
(* which models the disk beneath it by this set only, assumes no more.     *)
(***************************************************************************)

CONSTANTS Caller, Pieces

VARIABLES durable, call

diskVars == <<durable, call>>

Idle == [kind |-> "idle"]
Err == [kind |-> "err"]
Write(p) == [kind |-> "write", piece |-> p]
Written(p) == [kind |-> "written", piece |-> p]
Read(p, sure) == [kind |-> "read", piece |-> p, sure |-> sure]
Returned(p, right) == [kind |-> "returned", piece |-> p, right |-> right]

Becomes(c, next) == call' = [call EXCEPT ![c] = next]

\* The end of a call; a caller may take the reply in the same step.
Ends(c, reply) == Becomes(c, reply) \/ Becomes(c, Idle)

DiskInit ==
    /\ durable \in SUBSET Pieces
    /\ call = [c \in Caller |-> Idle]

BeginWrite(c, p) ==
    /\ call[c] = Idle
    /\ Becomes(c, Write(p))
    /\ UNCHANGED durable

\* A read is sure of a piece that is in place when it begins.
BeginRead(c, p) ==
    /\ call[c] = Idle
    /\ Becomes(c, Read(p, p \in durable))
    /\ UNCHANGED durable

\* There is no such piece.
Refuse(c) ==
    /\ call[c] = Idle
    /\ Ends(c, Err)
    /\ UNCHANGED durable

\* Every byte is in place and the outcome not known yet.
WriteLands(c, p) ==
    /\ call[c] = Write(p)
    /\ durable' = durable \cup {p}
    /\ UNCHANGED call

\* Success is reported only of a piece that is in place.
WriteSucceeds(c, p) ==
    /\ call[c] = Write(p)
    /\ durable' = durable \cup {p}
    /\ Ends(c, Written(p))

\* An error says nothing about the piece.
WriteFails(c, p) ==
    /\ call[c] = Write(p)
    /\ durable' \in {durable, durable \cup {p}}
    /\ Ends(c, Err)

\* A read that is sure of its piece returns the right bytes.
ReadSucceeds(c, p) ==
    /\ \E sure \in BOOLEAN, right \in BOOLEAN :
          /\ call[c] = Read(p, sure)
          /\ sure => right
          /\ Ends(c, Returned(p, right))
    /\ UNCHANGED durable

ReadFails(c) ==
    /\ call[c].kind = "read"
    /\ Ends(c, Err)
    /\ UNCHANGED durable

Return(c) ==
    /\ call[c].kind \in {"written", "returned", "err"}
    /\ Becomes(c, Idle)
    /\ UNCHANGED durable

\* A crash: the calls are gone, what is durable is not.
Restart ==
    /\ call' = [c \in Caller |-> Idle]
    /\ UNCHANGED durable

DiskNext ==
    \/ \E c \in Caller, p \in Pieces :
          \/ BeginWrite(c, p) \/ BeginRead(c, p)
          \/ WriteLands(c, p) \/ WriteSucceeds(c, p) \/ WriteFails(c, p)
          \/ ReadSucceeds(c, p)
    \/ \E c \in Caller : Refuse(c) \/ ReadFails(c) \/ Return(c)
    \/ Restart

DiskSpec == DiskInit /\ [][DiskNext]_diskVars
=============================================================================
