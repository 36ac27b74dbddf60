------------------------------ MODULE FileStore ------------------------------
(***************************************************************************)
(* The storage directory as file_manager.c uses it.  A path is a pair      *)
(* <<f, k>>: <<f, 0>> is the live file storage/f and <<f, n + 1>> is the   *)
(* backup storage/.versions/f/vn (v0 too: a slot of an emptied table has   *)
(* version 0).  Paths name inodes, and an open descriptor names an inode   *)
(* too, so a file that is unlinked, truncated or rewritten by one worker   *)
(* while another has it open behaves as on POSIX.                          *)
(*                                                                         *)
(* One operator per system call.  The code holds its fcntl lock only       *)
(* around one read or one write, never from the open(O_TRUNC) to the write *)
(* nor from one call to the next, so a locked read or write is one step.   *)
(***************************************************************************)
EXTENDS SyncTypes, Functions

CONSTANT NumInodes      \* files the disk can hold; with none left, open fails

ASSUME FileStoreAssumption == NumInodes \in Nat

VARIABLES
    link,       \* paths that exist, and the inode each names
    bytes,      \* contents of each inode, in blocks
    vdirs,      \* files whose .versions directory exists
    fd          \* the descriptors each worker has open

diskVars == <<link, bytes, vdirs, fd>>

Inode   == 1 .. NumInodes
NoInode == 0
Closed  == [src |-> NoInode, dst |-> NoInode]
Path    == File \X Nat
Hole    == 0            \* what a gap left by a write past the end reads as

Live(f)       == <<f, 0>>
Version(f, n) == <<f, n + 1>>
Stored(f)     == {p[2] - 1 : p \in {q \in DOMAIN link : q[1] = f /\ q[2] > 0}}
Contents(p)   == bytes[link[p]]

DiskInit ==
    /\ link = [p \in {} |-> NoInode]
    /\ bytes = [i \in Inode |-> << >>]
    /\ vdirs = {}
    /\ fd = [w \in Worker |-> Closed]

-----------------------------------------------------------------------------
\* Bytes d written at offset off over the bytes already there.
WriteAt(old, off, d) ==
    LET end == IF Len(old) > off + Len(d) THEN Len(old) ELSE off + Len(d)
    IN  [k \in 1 .. end |-> IF k > off /\ k <= off + Len(d) THEN d[k - off]
                            ELSE IF k <= Len(old) THEN old[k] ELSE Hole]

\* Inodes something refers to; the others are free and hold no bytes.
Used(l, d) == Range(l) \cup {d[w].src : w \in Worker} \cup {d[w].dst : w \in Worker}
FreeInodes == Inode \ Used(link, fd)
Reclaim(b) == bytes' = [i \in Inode |-> IF i \in Used(link, fd)' THEN b[i] ELSE << >>]

\* The directory a path is in must exist for the path to be created.
HasDir(p)       == p[2] = 0 \/ p[1] \in vdirs
Linked(p, i)    == [q \in DOMAIN link \cup {p} |-> IF q = p THEN i ELSE link[q]]
CanOpenWrite(p) == HasDir(p) /\ (p \in DOMAIN link \/ FreeInodes # {})

OpenRead(w, p) ==
    /\ p \in DOMAIN link
    /\ fd' = [fd EXCEPT ![w] = [@ EXCEPT !.src = link[p]]]
    /\ UNCHANGED <<link, bytes, vdirs>>

\* Mutant: an existing file is opened without O_TRUNC.
OpenWithoutTruncating(w, p) ==
    /\ CanOpenWrite(p)
    /\ LET i == IF p \in DOMAIN link THEN link[p]
                ELSE CHOOSE j \in FreeInodes : \A k \in FreeInodes : j <= k
       IN  /\ link' = Linked(p, i)
           /\ fd' = [fd EXCEPT ![w] = [@ EXCEPT !.dst = i]]
    /\ UNCHANGED <<bytes, vdirs>>

\* open(O_WRONLY | O_CREAT | O_TRUNC): an existing file loses its bytes here.
OpenWrite(w, p) ==
    /\ CanOpenWrite(p)
    /\ LET i == IF p \in DOMAIN link THEN link[p]
                ELSE CHOOSE j \in FreeInodes : \A k \in FreeInodes : j <= k
       IN  /\ link' = Linked(p, i)
           /\ bytes' = [bytes EXCEPT ![i] = << >>]
           /\ fd' = [fd EXCEPT ![w] = [@ EXCEPT !.dst = i]]
    /\ UNCHANGED vdirs

Write(w, off, d) ==
    /\ bytes' = [bytes EXCEPT ![fd[w].dst] = WriteAt(@, off, d)]
    /\ UNCHANGED <<link, vdirs, fd>>

Close(w) ==
    /\ fd' = [fd EXCEPT ![w] = Closed]
    /\ UNCHANGED <<link, vdirs>>
    /\ Reclaim(bytes)

WriteAndClose(w, off, d) ==
    /\ fd' = [fd EXCEPT ![w] = Closed]
    /\ UNCHANGED <<link, vdirs>>
    /\ Reclaim([bytes EXCEPT ![fd[w].dst] = WriteAt(@, off, d)])

Unlink(P) ==
    /\ link' = Restrict(link, DOMAIN link \ P)
    /\ UNCHANGED <<vdirs, fd>>
    /\ Reclaim(bytes)

MakeDir(f) == vdirs' = vdirs \cup {f} /\ UNCHANGED <<link, bytes, fd>>

\* rmdir succeeds on an empty directory only.
RemoveDir(f) ==
    /\ vdirs' = IF Stored(f) = {} THEN vdirs \ {f} ELSE vdirs
    /\ UNCHANGED <<link, bytes, fd>>

\* Mutants: one too many is kept; the sort is the other way round.
OldestButOne(S, keep) == {n \in S : Cardinality({k \in S : k > n}) > keep}
Newest(S, keep)       == {n \in S : Cardinality({k \in S : k < n}) >= keep}

\* The versions cleanup_old_versions removes: all but the keep highest.
Oldest(S, keep) == {n \in S : Cardinality({k \in S : k > n}) >= keep}

DiskTypeOK ==
    /\ DOMAIN link \subseteq Path
    /\ \A p \in DOMAIN link : link[p] \in Inode
    /\ bytes \in [Inode -> Seq(Nat)]
    /\ vdirs \subseteq File
    /\ fd \in [Worker -> [src: Inode \cup {NoInode}, dst: Inode \cup {NoInode}]]
=============================================================================
