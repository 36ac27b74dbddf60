--------------------------- MODULE SharedStateProofs ---------------------------
(***************************************************************************)
(* What the workers share: every operation on the metadata table keeps it  *)
(* well typed and sound, and every system call keeps the disk well typed   *)
(* and leaves the descriptors of the other workers alone.                  *)
(***************************************************************************)
EXTENDS Metadata, FileStore, SequenceTheorems, FiniteSetTheorems, WellFoundedInduction, TLAPS

\* A non-empty set of numbers has a least one: the first slot of a scan, the
\* lowest free inode, the oldest version.
LEMMA LeastExists ==
    ASSUME NEW S \in SUBSET Nat, S # {}
    PROVE  \E m \in S : \A k \in S : m <= k
<1>1. PICK m \in S : \A k \in S : ~ (<<k, m>> \in OpToRel(<, Nat))
    BY NatLessThanWellFounded, WFMin, Zenon
<1>2. ASSUME NEW k \in S, ~ (m <= k) PROVE FALSE
    <2>1. m \in Nat /\ k \in Nat /\ k < m
        BY <1>2
    <2>2. <<k, m>> \in OpToRel(<, Nat)
        BY <2>1 DEF OpToRel
    <2> QED
        BY <1>1, <2>2
<1> QED
    BY <1>2

-----------------------------------------------------------------------------
(* metadata.c                                                              *)

Table == [Slot -> FileMetadata]

\* First, the slot a scan from index 0 meets first, is well defined: a
\* non-empty set of slots has a least element.
LEMMA FirstIsLeast ==
    ASSUME NEW S \in SUBSET Slot, S # {}
    PROVE  First(S) \in S /\ \A j \in S : First(S) <= j
<1>1. S \in SUBSET Nat
    BY MetadataAssumption DEF Slot
<1> QED
    BY <1>1, LeastExists DEF First

\* find_file_metadata returns a slot in use by the file, or none if there is
\* none.
LEMMA FindIsNamed ==
    ASSUME NEW m, NEW f
    PROVE  /\ FindFileMetadata(m, f) \in Slot \cup {NoSlot}
           /\ FindFileMetadata(m, f) # NoSlot =>
                /\ FindFileMetadata(m, f) \in Slot
                /\ m[FindFileMetadata(m, f)].active
                /\ m[FindFileMetadata(m, f)].file = f
           /\ FindFileMetadata(m, f) = NoSlot <=> Named(m, f) = {}
<1>1. Named(m, f) \in SUBSET Slot /\ NoSlot \notin Slot
    BY MetadataAssumption DEF Named, Slot, NoSlot
<1>2. CASE Named(m, f) = {}
    BY <1>1, <1>2 DEF FindFileMetadata
<1>3. CASE Named(m, f) # {}
    BY <1>1, <1>3, FirstIsLeast DEF FindFileMetadata, Named
<1> QED
    BY <1>2, <1>3

\* The table as init_metadata leaves it.
LEMMA InitMetadataSound == InitMetadata \in Table /\ Sound(InitMetadata)
BY DEF InitMetadata, EmptySlot, Table, FileMetadata, Sound, UniqueNames, LockedOnlyIfActive

\* A change of an entry in use that leaves its name and use alone, whoever
\* holds its lock afterwards, keeps the table sound.
LEMMA ChangeInUse ==
    ASSUME NEW m \in Table, Sound(m), NEW i \in Slot, m[i].active,
           NEW s \in FileMetadata, s.active, s.file = m[i].file
    PROVE  [m EXCEPT ![i] = s] \in Table /\ Sound([m EXCEPT ![i] = s])
<1>1. \A j \in Slot : /\ [m EXCEPT ![i] = s][j].active <=> m[j].active
                      /\ [m EXCEPT ![i] = s][j].file = m[j].file
                      /\ j # i => [m EXCEPT ![i] = s][j] = m[j]
    BY DEF Table
<1>2. [m EXCEPT ![i] = s] \in Table
    BY DEF Table
<1> QED
    BY <1>1, <1>2 DEF Sound, UniqueNames, LockedOnlyIfActive

\* update_file_metadata
LEMMA UpdateSound ==
    ASSUME NEW m \in Table, Sound(m), NEW f, NEW n \in Nat
    PROVE  UpdateFileMetadata(m, f, n) \in Table /\ Sound(UpdateFileMetadata(m, f, n))
<1> DEFINE i == FindFileMetadata(m, f)
           s == [m[i] EXCEPT !.version = m[i].version + 1, !.size = n]
<1>1. CASE i = NoSlot
    BY <1>1 DEF UpdateFileMetadata
<1>2. CASE i # NoSlot
    <2>1. i \in Slot /\ m[i].active
        BY <1>2, FindIsNamed
    <2> HIDE DEF i
    <2>2. m[i] \in FileMetadata
        BY <2>1 DEF Table
    <2>3. m[i].version + 1 \in Nat
        BY <2>2 DEF FileMetadata
    <2>4. s \in FileMetadata /\ s.active /\ s.file = m[i].file
        BY <2>1, <2>2, <2>3 DEF FileMetadata
    <2>5. UpdateFileMetadata(m, f, n) = [m EXCEPT ![i] = s]
        BY <1>2, <2>1 DEF UpdateFileMetadata, Table, i
    <2> HIDE DEF s
    <2> QED
        BY <2>1, <2>4, <2>5, ChangeInUse
<1> QED
    BY <1>1, <1>2

\* add_file_metadata: the new entry takes a free slot, and only when no entry
\* has its name.
LEMMA AddSound ==
    ASSUME NEW m \in Table, Sound(m), NEW f \in File \cup {NoFile},
           NEW u \in User \cup {NoUser}, NEW n \in Nat, HasRoomFor(m, f)
    PROVE  AddFileMetadata(m, f, u, n) \in Table /\ Sound(AddFileMetadata(m, f, u, n))
<1>1. CASE Named(m, f) # {}
    BY <1>1, UpdateSound DEF AddFileMetadata
<1>2. CASE Named(m, f) = {}
    <2> DEFINE i == First(Vacant(m))
               s == [m[i] EXCEPT !.file = f, !.owner = u, !.version = 1, !.size = n,
                                 !.active = TRUE, !.lockedBy = NoUser]
               a == AddFileMetadata(m, f, u, n)
    <2>1. i \in Slot /\ ~ m[i].active
        BY <1>2, FirstIsLeast DEF HasRoomFor, Vacant
    <2>2. m[i] \in FileMetadata
        BY <2>1 DEF Table
    <2>3. s \in FileMetadata /\ s.file = f /\ s.active
        BY <2>2 DEF FileMetadata
    <2>4. a = [m EXCEPT ![i] = s]
        BY <1>2, <2>1 DEF AddFileMetadata, Table
    <2> HIDE DEF s, i, a
    <2>5. a \in Table
        BY <2>1, <2>3, <2>4 DEF Table
    <2>6. a[i] = s /\ \A j \in Slot : j # i => a[j] = m[j]
        BY <2>1, <2>4 DEF Table
    <2>7. \A j \in Slot : m[j].active => m[j].file # f
        BY <1>2 DEF Named
    <2>8. UniqueNames(a)
        BY <2>3, <2>6, <2>7 DEF Sound, UniqueNames
    <2>9. LockedOnlyIfActive(a)
        BY <2>3, <2>6 DEF Sound, LockedOnlyIfActive
    <2> QED
        BY <2>5, <2>8, <2>9 DEF Sound, a
<1> QED
    BY <1>1, <1>2

\* remove_file_metadata: the lock goes with the entry.
LEMMA RemoveSound ==
    ASSUME NEW m \in Table, Sound(m), NEW f
    PROVE  RemoveFileMetadata(m, f) \in Table /\ Sound(RemoveFileMetadata(m, f))
<1> DEFINE i == FindFileMetadata(m, f)
           s == [m[i] EXCEPT !.active = FALSE, !.lockedBy = NoUser]
           r == RemoveFileMetadata(m, f)
<1>1. CASE Named(m, f) = {}
    BY <1>1 DEF RemoveFileMetadata
<1>2. CASE Named(m, f) # {}
    <2>1. i \in Slot
        BY <1>2, FindIsNamed
    <2>2. m[i] \in FileMetadata
        BY <2>1 DEF Table
    <2>3. s \in FileMetadata /\ ~ s.active /\ s.lockedBy = NoUser
        BY <2>2 DEF FileMetadata
    <2>4. r = [m EXCEPT ![i] = s]
        BY <1>2, <2>1 DEF RemoveFileMetadata, Table
    <2> HIDE DEF s, i, r
    <2>5. r \in Table /\ r[i] = s /\ \A j \in Slot : j # i => r[j] = m[j]
        BY <2>1, <2>3, <2>4 DEF Table
    <2>6. UniqueNames(r)
        BY <2>3, <2>5 DEF Sound, UniqueNames
    <2>7. LockedOnlyIfActive(r)
        BY <2>3, <2>5 DEF Sound, LockedOnlyIfActive
    <2> QED
        BY <2>5, <2>6, <2>7 DEF Sound, r
<1> QED
    BY <1>1, <1>2

\* acquire_edit_lock, release_edit_lock and check_edit_lock change the lock
\* of an entry in use and nothing else.
LEMMA SetLockSound ==
    ASSUME NEW m \in Table, Sound(m), NEW i \in Slot, m[i].active,
           NEW u \in User \cup {NoUser}, NEW t \in Nat
    PROVE  /\ [m EXCEPT ![i] = [@ EXCEPT !.lockedBy = u, !.lockedAt = t]] \in Table
           /\ Sound([m EXCEPT ![i] = [@ EXCEPT !.lockedBy = u, !.lockedAt = t]])
<1> DEFINE s == [m[i] EXCEPT !.lockedBy = u, !.lockedAt = t]
<1>1. m[i] \in FileMetadata
    BY DEF Table
<1>2. s \in FileMetadata /\ s.active /\ s.file = m[i].file
    BY <1>1 DEF FileMetadata
<1>3. [m EXCEPT ![i] = [@ EXCEPT !.lockedBy = u, !.lockedAt = t]] = [m EXCEPT ![i] = s]
    BY DEF Table
<1> QED
    BY <1>2, <1>3, ChangeInUse

\* acquire_edit_lock
LEMMA AcquireSound ==
    ASSUME NEW m \in Table, Sound(m), NEW f, NEW u \in User \cup {NoUser}, NEW t \in Nat
    PROVE  AcquireEditLock(m, f, u, t) \in Table /\ Sound(AcquireEditLock(m, f, u, t))
<1> DEFINE i == FindFileMetadata(m, f)
<1>1. CASE i = NoSlot \/ Fresh(m[i], t)
    BY <1>1 DEF AcquireEditLock
<1>2. CASE ~ (i = NoSlot \/ Fresh(m[i], t))
    <2>1. i \in Slot /\ m[i].active
        BY <1>2, FindIsNamed
    <2>2. AcquireEditLock(m, f, u, t)
            = [m EXCEPT ![i] = [@ EXCEPT !.lockedBy = u, !.lockedAt = t]]
        BY <1>2 DEF AcquireEditLock
    <2> HIDE DEF i
    <2>3. /\ [m EXCEPT ![i] = [@ EXCEPT !.lockedBy = u, !.lockedAt = t]] \in Table
          /\ Sound([m EXCEPT ![i] = [@ EXCEPT !.lockedBy = u, !.lockedAt = t]])
        BY <2>1, SetLockSound
    <2> QED
        BY <2>2, <2>3
<1> QED
    BY <1>1, <1>2

\* release_edit_lock
LEMMA ReleaseSound ==
    ASSUME NEW m \in Table, Sound(m), NEW f, NEW u
    PROVE  ReleaseEditLock(m, f, u) \in Table /\ Sound(ReleaseEditLock(m, f, u))
<1> DEFINE i == FindFileMetadata(m, f)
<1>1. CASE i = NoSlot \/ m[i].lockedBy # u
    BY <1>1 DEF ReleaseEditLock
<1>2. CASE ~ (i = NoSlot \/ m[i].lockedBy # u)
    <2>1. i \in Slot /\ m[i].active
        BY <1>2, FindIsNamed
    <2>2. ReleaseEditLock(m, f, u)
            = [m EXCEPT ![i] = [@ EXCEPT !.lockedBy = NoUser, !.lockedAt = 0]]
        BY <1>2 DEF ReleaseEditLock
    <2> HIDE DEF i
    <2>3. /\ [m EXCEPT ![i] = [@ EXCEPT !.lockedBy = NoUser, !.lockedAt = 0]] \in Table
          /\ Sound([m EXCEPT ![i] = [@ EXCEPT !.lockedBy = NoUser, !.lockedAt = 0]])
        BY <2>1, SetLockSound
    <2> QED
        BY <2>2, <2>3
<1> QED
    BY <1>1, <1>2

\* check_edit_lock
LEMMA CheckSound ==
    ASSUME NEW m \in Table, Sound(m), NEW f, NEW t
    PROVE  CheckEditLock(m, f, t) \in Table /\ Sound(CheckEditLock(m, f, t))
<1> DEFINE i == FindFileMetadata(m, f)
           s == [m[i] EXCEPT !.lockedBy = NoUser]
<1>1. CASE i = NoSlot \/ ~ Stale(m[i], t)
    BY <1>1 DEF CheckEditLock
<1>2. CASE ~ (i = NoSlot \/ ~ Stale(m[i], t))
    <2>1. i \in Slot /\ m[i].active
        BY <1>2, FindIsNamed
    <2>2. m[i] \in FileMetadata
        BY <2>1 DEF Table
    <2>3. s \in FileMetadata /\ s.active /\ s.file = m[i].file
        BY <2>1, <2>2 DEF FileMetadata
    <2>4. CheckEditLock(m, f, t) = [m EXCEPT ![i] = s]
        BY <1>2, <2>1 DEF CheckEditLock, Table
    <2> HIDE DEF i, s
    <2> QED
        BY <2>1, <2>3, <2>4, ChangeInUse
<1> QED
    BY <1>1, <1>2

-----------------------------------------------------------------------------
(* The storage directory.                                                  *)

Descriptors == [src: Inode \cup {NoInode}, dst: Inode \cup {NoInode}]
OthersKeep(w) == \A v \in Worker \ {w} : fd'[v] = fd[v]

\* A closed descriptor names no inode.
LEMMA NoInodeIsNone == NoInode \notin Inode /\ Inode \subseteq Nat
BY FileStoreAssumption DEF Inode, NoInode

\* Writing blocks at an offset makes a file of blocks, a hole reading as 0.
LEMMA WriteAtType ==
    ASSUME NEW old \in Seq(Nat), NEW off \in Nat, NEW d \in Seq(Nat)
    PROVE  WriteAt(old, off, d) \in Seq(Nat)
<1> DEFINE end == IF Len(old) > off + Len(d) THEN Len(old) ELSE off + Len(d)
           e(k) == IF k > off /\ k <= off + Len(d) THEN d[k - off]
                   ELSE IF k <= Len(old) THEN old[k] ELSE Hole
<1>1. Len(old) \in Nat /\ Len(d) \in Nat
    BY LenProperties
<1>2. end \in Nat
    BY <1>1
<1>3. ASSUME NEW k \in 1 .. end PROVE e(k) \in Nat
    <2>1. CASE k > off /\ k <= off + Len(d)
        <3>1. k - off \in 1 .. Len(d)
            BY <1>1, <1>2, <2>1
        <3>2. d[k - off] \in Nat
            BY <3>1, ElementOfSeq
        <3> QED
            BY <2>1, <3>2
    <2>2. CASE ~ (k > off /\ k <= off + Len(d)) /\ k <= Len(old)
        <3>1. k \in 1 .. Len(old)
            BY <1>1, <1>2, <2>2
        <3>2. old[k] \in Nat
            BY <3>1, ElementOfSeq
        <3> QED
            BY <2>2, <3>2
    <2>3. CASE ~ (k > off /\ k <= off + Len(d)) /\ ~ (k <= Len(old))
        BY <2>3 DEF Hole
    <2> QED
        BY <2>1, <2>2, <2>3
<1> HIDE DEF end, e
<1>4. [k \in 1 .. end |-> e(k)] \in [1 .. end -> Nat]
    BY <1>3
<1>5. [k \in 1 .. end |-> e(k)] \in Seq(Nat)
    BY <1>2, <1>4
<1> QED
    BY <1>5 DEF WriteAt, end, e

\* A part of a file is a sequence of blocks.
LEMMA PartType ==
    ASSUME NEW s \in Seq(Nat), NEW m \in Nat \ {0}, NEW n \in Nat, n <= Len(s)
    PROVE  SubSeq(s, m, n) \in Seq(Nat)
<1>1. Len(s) \in Nat
    BY LenProperties
<1>2. \A i \in m .. n : i \in 1 .. Len(s)
    BY <1>1
<1>3. \A i \in m .. n : s[i] \in Nat
    BY <1>2, ElementOfSeq
<1> QED
    BY <1>3, SubSeqProperties

\* The storage directory before the first upload.
LEMMA InitDiskType == DiskInit => DiskTypeOK
BY NoInodeIsNone, EmptySeq DEF DiskInit, DiskTypeOK, Closed

\* Freeing the inodes nothing refers to.
LEMMA ReclaimType ==
    ASSUME NEW b \in [Inode -> Seq(Nat)], Reclaim(b)
    PROVE  bytes' \in [Inode -> Seq(Nat)]
BY EmptySeq DEF Reclaim

\* open for reading
LEMMA OpenReadType ==
    ASSUME DiskTypeOK, NEW w \in Worker, NEW p, OpenRead(w, p)
    PROVE  DiskTypeOK' /\ OthersKeep(w) /\ fd'[w].src # NoInode
<1>1. link[p] \in Inode /\ fd[w] \in Descriptors
    BY DEF DiskTypeOK, OpenRead, Descriptors
<1>2. [fd[w] EXCEPT !.src = link[p]] \in Descriptors
    BY <1>1 DEF Descriptors
<1>3. /\ fd' \in [Worker -> Descriptors]
      /\ fd'[w] = [fd[w] EXCEPT !.src = link[p]]
      /\ OthersKeep(w)
    BY <1>2 DEF DiskTypeOK, OpenRead, Descriptors, OthersKeep
<1>4. fd'[w].src = link[p]
    BY <1>1, <1>3 DEF Descriptors
<1> QED
    BY <1>1, <1>3, <1>4, NoInodeIsNone DEF DiskTypeOK, OpenRead, Descriptors

\* open for writing
LEMMA OpenWriteType ==
    ASSUME DiskTypeOK, NEW w \in Worker, NEW p \in Path, OpenWrite(w, p)
    PROVE  /\ DiskTypeOK' /\ OthersKeep(w)
           /\ fd'[w].dst # NoInode /\ fd'[w].src = fd[w].src
<1> DEFINE i == IF p \in DOMAIN link THEN link[p]
                ELSE CHOOSE j \in FreeInodes : \A k \in FreeInodes : j <= k
<1>1. i \in Inode
    <2>1. CASE p \in DOMAIN link
        BY <2>1 DEF DiskTypeOK
    <2>2. CASE p \notin DOMAIN link
        <3>1. FreeInodes \in SUBSET Nat /\ FreeInodes \subseteq Inode /\ FreeInodes # {}
            BY <2>2, NoInodeIsNone DEF OpenWrite, CanOpenWrite, FreeInodes
        <3> QED
            BY <2>2, <3>1, LeastExists
    <2> QED
        BY <2>1, <2>2
<1>2. /\ link' = Linked(p, i)
      /\ bytes' = [bytes EXCEPT ![i] = << >>]
      /\ fd' = [fd EXCEPT ![w] = [@ EXCEPT !.dst = i]]
      /\ vdirs' = vdirs
    BY DEF OpenWrite
<1> HIDE DEF i
<1>3. DOMAIN link' = DOMAIN link \cup {p} /\ \A q \in DOMAIN link' : link'[q] \in Inode
    BY <1>1, <1>2 DEF DiskTypeOK, Linked
<1>4. bytes' \in [Inode -> Seq(Nat)]
    BY <1>1, <1>2, EmptySeq DEF DiskTypeOK
<1>5. fd[w] \in Descriptors
    BY DEF DiskTypeOK, Descriptors
<1>6. [fd[w] EXCEPT !.dst = i] \in Descriptors
    BY <1>1, <1>5 DEF Descriptors
<1>7. /\ fd' \in [Worker -> Descriptors]
      /\ fd'[w] = [fd[w] EXCEPT !.dst = i]
      /\ OthersKeep(w)
    BY <1>2, <1>6 DEF DiskTypeOK, Descriptors, OthersKeep
<1>8. fd'[w].dst = i /\ fd'[w].src = fd[w].src
    BY <1>5, <1>7 DEF Descriptors
<1> QED
    BY <1>1, <1>2, <1>3, <1>4, <1>7, <1>8, NoInodeIsNone DEF DiskTypeOK, Descriptors

\* write
LEMMA WriteType ==
    ASSUME DiskTypeOK, NEW w \in Worker, fd[w].dst # NoInode,
           NEW off \in Nat, NEW d \in Seq(Nat), Write(w, off, d)
    PROVE  DiskTypeOK' /\ fd' = fd
<1>1. fd[w].dst \in Inode
    BY DEF DiskTypeOK
<1>2. bytes[fd[w].dst] \in Seq(Nat)
    BY <1>1 DEF DiskTypeOK
<1>3. WriteAt(bytes[fd[w].dst], off, d) \in Seq(Nat)
    BY <1>2, WriteAtType
<1> QED
    BY <1>1, <1>3 DEF DiskTypeOK, Write

\* close
LEMMA CloseType ==
    ASSUME DiskTypeOK, NEW w \in Worker, Close(w)
    PROVE  DiskTypeOK' /\ OthersKeep(w)
<1>1. bytes' \in [Inode -> Seq(Nat)]
    BY ReclaimType DEF DiskTypeOK, Close
<1>2. Closed \in Descriptors
    BY DEF Closed, Descriptors
<1>3. fd' \in [Worker -> Descriptors] /\ OthersKeep(w)
    BY <1>2 DEF DiskTypeOK, Close, Descriptors, OthersKeep
<1> QED
    BY <1>1, <1>3 DEF DiskTypeOK, Close, Descriptors

\* the locked write of save_file, and the last write of a copy that fails
LEMMA WriteAndCloseType ==
    ASSUME DiskTypeOK, NEW w \in Worker, fd[w].dst # NoInode,
           NEW off \in Nat, NEW d \in Seq(Nat), WriteAndClose(w, off, d)
    PROVE  DiskTypeOK' /\ OthersKeep(w)
<1>1. fd[w].dst \in Inode
    BY DEF DiskTypeOK
<1>2. bytes[fd[w].dst] \in Seq(Nat)
    BY <1>1 DEF DiskTypeOK
<1>3. WriteAt(bytes[fd[w].dst], off, d) \in Seq(Nat)
    BY <1>2, WriteAtType
<1>4. [bytes EXCEPT ![fd[w].dst] = WriteAt(@, off, d)] \in [Inode -> Seq(Nat)]
    BY <1>1, <1>3 DEF DiskTypeOK
<1>5. bytes' \in [Inode -> Seq(Nat)]
    BY <1>4, ReclaimType DEF WriteAndClose
<1>6. Closed \in Descriptors
    BY DEF Closed, Descriptors
<1>7. fd' \in [Worker -> Descriptors] /\ OthersKeep(w)
    BY <1>6 DEF DiskTypeOK, WriteAndClose, Descriptors, OthersKeep
<1> QED
    BY <1>5, <1>7 DEF DiskTypeOK, WriteAndClose, Descriptors

\* remove
LEMMA UnlinkType ==
    ASSUME DiskTypeOK, NEW P, Unlink(P)
    PROVE  DiskTypeOK' /\ fd' = fd
<1>1. bytes' \in [Inode -> Seq(Nat)]
    BY ReclaimType DEF DiskTypeOK, Unlink
<1>2. DOMAIN link' \subseteq DOMAIN link /\ \A p \in DOMAIN link' : link'[p] = link[p]
    BY DEF Unlink, Restrict
<1> QED
    BY <1>1, <1>2 DEF DiskTypeOK, Unlink

\* mkdir and rmdir
LEMMA DirectoryType ==
    ASSUME DiskTypeOK, NEW f \in File, MakeDir(f) \/ RemoveDir(f)
    PROVE  DiskTypeOK' /\ fd' = fd
<1>1. CASE MakeDir(f)
    BY <1>1 DEF DiskTypeOK, MakeDir
<1>2. CASE RemoveDir(f)
    BY <1>2 DEF DiskTypeOK, RemoveDir
<1> QED
    BY <1>1, <1>2

\* What a directory listing returns are version numbers.
LEMMA StoredType ==
    ASSUME DiskTypeOK, NEW f, NEW k
    PROVE  Stored(f) \subseteq Nat /\ Oldest(Stored(f), k) \subseteq Nat
BY DEF DiskTypeOK, Stored, Oldest, Path
=============================================================================
