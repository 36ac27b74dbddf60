----------------------------- MODULE SerialProofs -----------------------------
(***************************************************************************)
(* What the pool guarantees when clients never overlap two requests for    *)
(* one file, for any number of workers, files and users, and also when     *)
(* writes fail half way and servers crash and start again: a file changes  *)
(* only by requests of its owner or an admin, while somebody holds its     *)
(* edit lock only by that user's, and a file in the table is on disk.      *)
(*                                                                         *)
(* The tests of process_task are far from the writes they allow.  The      *)
(* invariant says what a worker, having passed a test, may still rely on:  *)
(* that is kept because every step of another worker leaves the entry and  *)
(* the files of all names but its own as they are.  The disk's half of     *)
(* that argument needs no assumption on the clients.                       *)
(***************************************************************************)
EXTENDS WorkerPoolProofs

-----------------------------------------------------------------------------
(* The table: the entries of other files.                                  *)

\* From table m to table n the entry of file g stays where and what it is.
SameEntry(m, n, g) ==
    /\ FindFileMetadata(n, g) = FindFileMetadata(m, g)
    /\ FindFileMetadata(m, g) # NoSlot
          => n[FindFileMetadata(m, g)] = m[FindFileMetadata(m, g)]

\* A change of one slot, vacant or of file f, to an entry of f.
LEMMA OneSlotChanged ==
    ASSUME NEW m \in Table, NEW n, NEW f, NEW i \in Slot, NEW s,
           n = [m EXCEPT ![i] = s], s.file = f, m[i].active => m[i].file = f,
           NEW g, g # f
    PROVE  SameEntry(m, n, g)
<1>1. n[i] = s /\ \A j \in Slot : j # i => n[j] = m[j]
    BY DEF Table
<1>2. Named(n, g) = Named(m, g)
    BY <1>1 DEF Named
<1>3. FindFileMetadata(n, g) = FindFileMetadata(m, g)
    BY <1>2, FindSame
<1>4. ASSUME FindFileMetadata(m, g) # NoSlot
      PROVE  n[FindFileMetadata(m, g)] = m[FindFileMetadata(m, g)]
    <2>1. /\ FindFileMetadata(m, g) \in Slot
          /\ m[FindFileMetadata(m, g)].active /\ m[FindFileMetadata(m, g)].file = g
        BY <1>4, FindIsNamed
    <2>2. FindFileMetadata(m, g) # i
        BY <2>1
    <2> QED
        BY <1>1, <2>1, <2>2
<1> QED
    BY <1>3, <1>4 DEF SameEntry

\* The functions of metadata.c that change an entry change that of the file
\* they are called for.
LEMMA OthersEntries ==
    ASSUME NEW m \in Table, NEW f \in File, NEW u, NEW t, NEW size, NEW g, g # f
    PROVE  /\ SameEntry(m, CheckEditLock(m, f, t), g)
           /\ SameEntry(m, AcquireEditLock(m, f, u, t), g)
           /\ SameEntry(m, ReleaseEditLock(m, f, u), g)
           /\ SameEntry(m, RemoveFileMetadata(m, f), g)
           /\ SameEntry(m, UpdateFileMetadata(m, f, size), g)
           /\ HasRoomFor(m, f) => SameEntry(m, AddFileMetadata(m, f, u, size), g)
<1> DEFINE i == FindFileMetadata(m, f)
<1>1. SameEntry(m, m, g)
    BY DEF SameEntry
<1>2. ASSUME i # NoSlot
      PROVE  i \in Slot /\ m[i] \in FileMetadata /\ m[i].file = f /\ m[i].active
    BY <1>2, FindIsNamed DEF Table
<1>3. SameEntry(m, CheckEditLock(m, f, t), g)
    <2>1. CASE i = NoSlot \/ ~ Stale(m[i], t)
        BY <1>1, <2>1 DEF CheckEditLock
    <2>2. CASE i # NoSlot /\ Stale(m[i], t)
        <3> DEFINE s == [m[i] EXCEPT !.lockedBy = NoUser]
        <3>1. CheckEditLock(m, f, t) = [m EXCEPT ![i] = s]
            BY <1>2, <2>2 DEF CheckEditLock, Table
        <3>2. s.file = f
            BY <1>2, <2>2 DEF FileMetadata
        <3> HIDE DEF s
        <3> QED
            BY <1>2, <2>2, <3>1, <3>2, OneSlotChanged
    <2> QED
        BY <2>1, <2>2
<1>4. SameEntry(m, AcquireEditLock(m, f, u, t), g)
    <2>1. CASE i = NoSlot \/ Fresh(m[i], t)
        BY <1>1, <2>1 DEF AcquireEditLock
    <2>2. CASE i # NoSlot /\ ~ Fresh(m[i], t)
        <3> DEFINE s == [m[i] EXCEPT !.lockedBy = u, !.lockedAt = t]
        <3>1. AcquireEditLock(m, f, u, t) = [m EXCEPT ![i] = s]
            BY <1>2, <2>2 DEF AcquireEditLock, Table
        <3>2. s.file = f
            BY <1>2, <2>2 DEF FileMetadata
        <3> HIDE DEF s
        <3> QED
            BY <1>2, <2>2, <3>1, <3>2, OneSlotChanged
    <2> QED
        BY <2>1, <2>2
<1>5. SameEntry(m, ReleaseEditLock(m, f, u), g)
    <2>1. CASE i = NoSlot \/ m[i].lockedBy # u
        BY <1>1, <2>1 DEF ReleaseEditLock
    <2>2. CASE i # NoSlot /\ m[i].lockedBy = u
        <3> DEFINE s == [m[i] EXCEPT !.lockedBy = NoUser, !.lockedAt = 0]
        <3>1. ReleaseEditLock(m, f, u) = [m EXCEPT ![i] = s]
            BY <1>2, <2>2 DEF ReleaseEditLock, Table
        <3>2. s.file = f
            BY <1>2, <2>2 DEF FileMetadata
        <3> HIDE DEF s
        <3> QED
            BY <1>2, <2>2, <3>1, <3>2, OneSlotChanged
    <2> QED
        BY <2>1, <2>2
<1>6. SameEntry(m, RemoveFileMetadata(m, f), g)
    <2>1. CASE i = NoSlot
        BY <1>1, <2>1, FindIsNamed DEF RemoveFileMetadata
    <2>2. CASE i # NoSlot
        <3> DEFINE s == [m[i] EXCEPT !.active = FALSE, !.lockedBy = NoUser]
        <3>1. RemoveFileMetadata(m, f) = [m EXCEPT ![i] = s]
            BY <1>2, <2>2, FindIsNamed DEF RemoveFileMetadata, Table
        <3>2. s.file = f
            BY <1>2, <2>2 DEF FileMetadata
        <3> HIDE DEF s
        <3> QED
            BY <1>2, <2>2, <3>1, <3>2, OneSlotChanged
    <2> QED
        BY <2>1, <2>2
<1>7. SameEntry(m, UpdateFileMetadata(m, f, size), g)
    <2>1. CASE i = NoSlot
        BY <1>1, <2>1 DEF UpdateFileMetadata
    <2>2. CASE i # NoSlot
        <3> DEFINE s == [m[i] EXCEPT !.version = @ + 1, !.size = size]
        <3>1. UpdateFileMetadata(m, f, size) = [m EXCEPT ![i] = s]
            BY <1>2, <2>2 DEF UpdateFileMetadata, Table
        <3>2. s.file = f
            BY <1>2, <2>2 DEF FileMetadata
        <3> HIDE DEF s
        <3> QED
            BY <1>2, <2>2, <3>1, <3>2, OneSlotChanged
    <2> QED
        BY <2>1, <2>2
<1>8. ASSUME HasRoomFor(m, f) PROVE SameEntry(m, AddFileMetadata(m, f, u, size), g)
    <2>1. CASE Named(m, f) # {}
        BY <1>7, <2>1 DEF AddFileMetadata
    <2>2. CASE Named(m, f) = {}
        <3> DEFINE j == First(Vacant(m))
                   s == [m[j] EXCEPT !.file = f, !.owner = u, !.version = 1, !.size = size,
                                     !.active = TRUE, !.lockedBy = NoUser]
        <3>1. j \in Vacant(m)
            <4>1. Vacant(m) \in SUBSET Slot /\ Vacant(m) # {}
                BY <1>8, <2>2 DEF HasRoomFor, Vacant
            <4> QED
                BY <4>1, FirstIsLeast
        <3>2. j \in Slot /\ ~ m[j].active /\ m[j] \in FileMetadata
            BY <3>1 DEF Vacant, Table
        <3>3. AddFileMetadata(m, f, u, size) = [m EXCEPT ![j] = s]
            BY <2>2, <3>2 DEF AddFileMetadata, Table
        <3>4. s.file = f
            BY <3>2 DEF FileMetadata
        <3> HIDE DEF s, j
        <3> QED
            BY <3>2, <3>3, <3>4, OneSlotChanged
    <2> QED
        BY <2>1, <2>2
<1> QED
    BY <1>3, <1>4, <1>5, <1>6, <1>7, <1>8

\* So does every step of process_task.
LEMMA TableFrame ==
    ASSUME IInv, NEW w \in Worker, ProcessTask(w), NEW g, g # task[w].file
    PROVE  SameEntry(meta, meta', g)
<1>1. OwnTableStep(w)
    BY ProcessTaskTable
<1>2. task[w].file \in File /\ meta \in Table
    BY <1>1, TaskType DEF OwnTableStep, IInv, TypeOK, Table
<1>3. SameEntry(meta, meta, g)
    BY DEF SameEntry
<1> QED
    BY <1>1, <1>2, <1>3, OthersEntries DEF OwnTableStep, TableStep

-----------------------------------------------------------------------------
(* The table: the file's own entry.                                        *)

\* The user may change the file, as far as the table says: it is the user's,
\* or the user is an admin.
Entitled(m, f, u) ==
    LET i == FindFileMetadata(m, f)
    IN  i # NoSlot => Role[u] = "ADMIN" \/ m[i].owner = u

\* Nobody else holds the file's edit lock, fresh or not.
NotBarred(m, f, u) ==
    LET i == FindFileMetadata(m, f) IN i # NoSlot => m[i].lockedBy \in {NoUser, u}

\* An edit lock is held by somebody who may change the file.
MayEdit(s) == s.lockedBy = NoUser \/ s.lockedBy = s.owner \/ Role[s.lockedBy] = "ADMIN"
HoldersMayEdit(m) == \A i \in Slot : MayEdit(m[i])

\* What holds of an entry holds as long as the entry stays.
LEMMA EntryKept ==
    ASSUME NEW m, NEW n, NEW f, NEW u, SameEntry(m, n, f)
    PROVE  /\ Entitled(m, f, u) => Entitled(n, f, u)
           /\ NotBarred(m, f, u) => NotBarred(n, f, u)
BY DEF SameEntry, Entitled, NotBarred

\* One entry changed, to one that only a user who may change the file locks.
LEMMA OneHolderChanged ==
    ASSUME NEW m \in Table, HoldersMayEdit(m), NEW i \in Slot, NEW s, MayEdit(s)
    PROVE  HoldersMayEdit([m EXCEPT ![i] = s])
<1>1. \A j \in Slot : [m EXCEPT ![i] = s][j] = IF j = i THEN s ELSE m[j]
    BY DEF Table
<1> QED
    BY <1>1 DEF HoldersMayEdit

\* acquire_edit_lock does not ask who may change the file; process_task asked
\* before.  No other function gives the lock of an entry to anybody.
LEMMA HoldersStay ==
    ASSUME NEW m \in Table, HoldersMayEdit(m), NEW f \in File, NEW u, NEW t, NEW size
    PROVE  /\ HoldersMayEdit(CheckEditLock(m, f, t))
           /\ Entitled(m, f, u) => HoldersMayEdit(AcquireEditLock(m, f, u, t))
           /\ HoldersMayEdit(ReleaseEditLock(m, f, u))
           /\ HoldersMayEdit(RemoveFileMetadata(m, f))
           /\ HoldersMayEdit(UpdateFileMetadata(m, f, size))
           /\ HasRoomFor(m, f) => HoldersMayEdit(AddFileMetadata(m, f, u, size))
<1> DEFINE i == FindFileMetadata(m, f)
<1>1. i # NoSlot => i \in Slot /\ m[i] \in FileMetadata
    BY FindIsNamed DEF Table
<1>2. \A j \in Slot : m[j] \in FileMetadata /\ MayEdit(m[j])
    BY DEF Table, HoldersMayEdit
<1>3. HoldersMayEdit(CheckEditLock(m, f, t))
    <2> DEFINE s == [m[i] EXCEPT !.lockedBy = NoUser]
    <2>1. CASE i = NoSlot \/ ~ Stale(m[i], t)
        BY <2>1 DEF CheckEditLock
    <2>2. CASE i # NoSlot /\ Stale(m[i], t)
        <3>1. MayEdit(s)
            BY <1>1, <2>2 DEF FileMetadata, MayEdit
        <3>2. CheckEditLock(m, f, t) = [m EXCEPT ![i] = s]
            BY <1>1, <2>2 DEF CheckEditLock, Table
        <3> HIDE DEF s
        <3>3. HoldersMayEdit([m EXCEPT ![i] = s])
            BY <1>1, <2>2, <3>1, OneHolderChanged
        <3> QED
            BY <3>2, <3>3
    <2> QED
        BY <2>1, <2>2
<1>4. ASSUME Entitled(m, f, u) PROVE HoldersMayEdit(AcquireEditLock(m, f, u, t))
    <2> DEFINE s == [m[i] EXCEPT !.lockedBy = u, !.lockedAt = t]
    <2>1. CASE i = NoSlot \/ Fresh(m[i], t)
        BY <2>1 DEF AcquireEditLock
    <2>2. CASE i # NoSlot /\ ~ Fresh(m[i], t)
        <3>1. MayEdit(s)
            BY <1>1, <1>4, <2>2 DEF FileMetadata, MayEdit, Entitled
        <3>2. AcquireEditLock(m, f, u, t) = [m EXCEPT ![i] = s]
            BY <1>1, <2>2 DEF AcquireEditLock, Table
        <3> HIDE DEF s
        <3>3. HoldersMayEdit([m EXCEPT ![i] = s])
            BY <1>1, <2>2, <3>1, OneHolderChanged
        <3> QED
            BY <3>2, <3>3
    <2> QED
        BY <2>1, <2>2
<1>5. HoldersMayEdit(ReleaseEditLock(m, f, u))
    <2> DEFINE s == [m[i] EXCEPT !.lockedBy = NoUser, !.lockedAt = 0]
    <2>1. CASE i = NoSlot \/ m[i].lockedBy # u
        BY <2>1 DEF ReleaseEditLock
    <2>2. CASE i # NoSlot /\ m[i].lockedBy = u
        <3>1. MayEdit(s)
            BY <1>1, <2>2 DEF FileMetadata, MayEdit
        <3>2. ReleaseEditLock(m, f, u) = [m EXCEPT ![i] = s]
            BY <1>1, <2>2 DEF ReleaseEditLock, Table
        <3> HIDE DEF s
        <3>3. HoldersMayEdit([m EXCEPT ![i] = s])
            BY <1>1, <2>2, <3>1, OneHolderChanged
        <3> QED
            BY <3>2, <3>3
    <2> QED
        BY <2>1, <2>2
<1>6. HoldersMayEdit(RemoveFileMetadata(m, f))
    <2> DEFINE s == [m[i] EXCEPT !.active = FALSE, !.lockedBy = NoUser]
    <2>1. CASE i = NoSlot
        BY <2>1, FindIsNamed DEF RemoveFileMetadata
    <2>2. CASE i # NoSlot
        <3>1. MayEdit(s)
            BY <1>1, <2>2 DEF FileMetadata, MayEdit
        <3>2. RemoveFileMetadata(m, f) = [m EXCEPT ![i] = s]
            BY <1>1, <2>2, FindIsNamed DEF RemoveFileMetadata, Table
        <3> HIDE DEF s
        <3>3. HoldersMayEdit([m EXCEPT ![i] = s])
            BY <1>1, <2>2, <3>1, OneHolderChanged
        <3> QED
            BY <3>2, <3>3
    <2> QED
        BY <2>1, <2>2
<1>7. HoldersMayEdit(UpdateFileMetadata(m, f, size))
    <2> DEFINE s == [m[i] EXCEPT !.version = @ + 1, !.size = size]
    <2>1. CASE i = NoSlot
        BY <2>1 DEF UpdateFileMetadata
    <2>2. CASE i # NoSlot
        <3>1. MayEdit(s)
            BY <1>1, <1>2, <2>2 DEF FileMetadata, MayEdit
        <3>2. UpdateFileMetadata(m, f, size) = [m EXCEPT ![i] = s]
            BY <1>1, <2>2 DEF UpdateFileMetadata, Table
        <3> HIDE DEF s
        <3>3. HoldersMayEdit([m EXCEPT ![i] = s])
            BY <1>1, <2>2, <3>1, OneHolderChanged
        <3> QED
            BY <3>2, <3>3
    <2> QED
        BY <2>1, <2>2
<1>8. ASSUME HasRoomFor(m, f) PROVE HoldersMayEdit(AddFileMetadata(m, f, u, size))
    <2>1. CASE Named(m, f) # {}
        BY <1>7, <2>1 DEF AddFileMetadata
    <2>2. CASE Named(m, f) = {}
        <3> DEFINE j == First(Vacant(m))
                   s == [m[j] EXCEPT !.file = f, !.owner = u, !.version = 1, !.size = size,
                                     !.active = TRUE, !.lockedBy = NoUser]
        <3>1. j \in Slot
            <4>1. Vacant(m) \in SUBSET Slot /\ Vacant(m) # {}
                BY <1>8, <2>2 DEF HasRoomFor, Vacant
            <4> QED
                BY <4>1, FirstIsLeast
        <3>2. MayEdit(s)
            BY <1>2, <3>1 DEF FileMetadata, MayEdit
        <3>3. AddFileMetadata(m, f, u, size) = [m EXCEPT ![j] = s]
            BY <2>2, <3>1 DEF AddFileMetadata, Table
        <3> HIDE DEF s, j
        <3>4. HoldersMayEdit([m EXCEPT ![j] = s])
            BY <3>1, <3>2, OneHolderChanged
        <3> QED
            BY <3>3, <3>4
    <2> QED
        BY <2>1, <2>2
<1> QED
    BY <1>3, <1>4, <1>5, <1>6, <1>7, <1>8

\* Only add_file_metadata makes an entry for a file, and remove_file_metadata
\* leaves none.
LEMMA EntriesAppear ==
    ASSUME NEW m \in Table, Sound(m), NEW f \in File, NEW u \in User, NEW t \in Nat, NEW size \in Nat
    PROVE  /\ FindFileMetadata(CheckEditLock(m, f, t), f) = FindFileMetadata(m, f)
           /\ FindFileMetadata(AcquireEditLock(m, f, u, t), f) = FindFileMetadata(m, f)
           /\ FindFileMetadata(ReleaseEditLock(m, f, u), f) = FindFileMetadata(m, f)
           /\ FindFileMetadata(UpdateFileMetadata(m, f, size), f) = FindFileMetadata(m, f)
           /\ FindFileMetadata(RemoveFileMetadata(m, f), f) = NoSlot
<1> DEFINE i == FindFileMetadata(m, f)
<1>1. ASSUME i # NoSlot
      PROVE  i \in Slot /\ m[i] \in FileMetadata /\ m[i].file = f /\ m[i].active
    BY <1>1, FindIsNamed DEF Table
<1>2. ASSUME NEW n, i # NoSlot,
             \E s : n = [m EXCEPT ![i] = s] /\ s.active = m[i].active /\ s.file = m[i].file
      PROVE  FindFileMetadata(n, f) = i
    <2>1. PICK s : n = [m EXCEPT ![i] = s] /\ s.active = m[i].active /\ s.file = m[i].file
        BY <1>2
    <2>2. n[i] = s /\ \A j \in Slot : j # i => n[j] = m[j]
        BY <1>1, <1>2, <2>1 DEF Table
    <2>3. Named(n, f) = Named(m, f)
        BY <2>1, <2>2 DEF Named
    <2> QED
        BY <2>3, FindSame
<1>3. FindFileMetadata(CheckEditLock(m, f, t), f) = i
    <2> DEFINE s == [m[i] EXCEPT !.lockedBy = NoUser]
    <2>1. i # NoSlot => s.active = m[i].active /\ s.file = m[i].file
        BY <1>1 DEF FileMetadata
    <2>2. CheckEditLock(m, f, t) = m \/ (i # NoSlot /\ CheckEditLock(m, f, t) = [m EXCEPT ![i] = s])
        BY <1>1 DEF CheckEditLock, Table
    <2> QED
        BY <1>2, <2>1, <2>2
<1>4. FindFileMetadata(AcquireEditLock(m, f, u, t), f) = i
    <2> DEFINE s == [m[i] EXCEPT !.lockedBy = u, !.lockedAt = t]
    <2>1. i # NoSlot => s.active = m[i].active /\ s.file = m[i].file
        BY <1>1 DEF FileMetadata
    <2>2. AcquireEditLock(m, f, u, t) = m \/ (i # NoSlot /\ AcquireEditLock(m, f, u, t) = [m EXCEPT ![i] = s])
        BY <1>1 DEF AcquireEditLock, Table
    <2> QED
        BY <1>2, <2>1, <2>2
<1>5. FindFileMetadata(ReleaseEditLock(m, f, u), f) = i
    <2> DEFINE s == [m[i] EXCEPT !.lockedBy = NoUser, !.lockedAt = 0]
    <2>1. i # NoSlot => s.active = m[i].active /\ s.file = m[i].file
        BY <1>1 DEF FileMetadata
    <2>2. ReleaseEditLock(m, f, u) = m \/ (i # NoSlot /\ ReleaseEditLock(m, f, u) = [m EXCEPT ![i] = s])
        BY <1>1 DEF ReleaseEditLock, Table
    <2> QED
        BY <1>2, <2>1, <2>2
<1>6. FindFileMetadata(UpdateFileMetadata(m, f, size), f) = i
    <2> DEFINE s == [m[i] EXCEPT !.version = @ + 1, !.size = size]
    <2>1. i # NoSlot => s.active = m[i].active /\ s.file = m[i].file
        BY <1>1 DEF FileMetadata
    <2>2. UpdateFileMetadata(m, f, size) = m \/ (i # NoSlot /\ UpdateFileMetadata(m, f, size) = [m EXCEPT ![i] = s])
        BY <1>1 DEF UpdateFileMetadata, Table
    <2> QED
        BY <1>2, <2>1, <2>2
<1>7. FindFileMetadata(RemoveFileMetadata(m, f), f) = NoSlot
    <2> DEFINE n == RemoveFileMetadata(m, f)
               s == [m[i] EXCEPT !.active = FALSE, !.lockedBy = NoUser]
    <2>1. CASE i = NoSlot
        BY <2>1, FindIsNamed DEF RemoveFileMetadata
    <2>2. CASE i # NoSlot
        <3>1. ~ s.active
            BY <1>1, <2>2 DEF FileMetadata
        <3>2. n = [m EXCEPT ![i] = s]
            BY <1>1, <2>2, FindIsNamed DEF RemoveFileMetadata, Table
        <3> HIDE DEF n, s
        <3>3. n[i] = s /\ \A j \in Slot : j # i => n[j] = m[j]
            BY <1>1, <2>2, <3>2 DEF Table
        <3>4. Named(n, f) = {}
            BY <1>1, <2>2, <3>1, <3>3 DEF Named, Sound, UniqueNames
        <3>5. FindFileMetadata(n, f) = NoSlot
            BY <3>4, FindIsNamed
        <3> QED
            BY <3>5 DEF n
    <2> QED
        BY <2>1, <2>2
<1> QED
    BY <1>3, <1>4, <1>5, <1>6, <1>7

\* check_edit_lock clears a lock whose time is up, so when it answers that the
\* file is not locked nobody holds the lock.
LEMMA CheckedIsFree ==
    ASSUME NEW m \in Table, Sound(m), NEW f \in File, NEW u \in User, NEW t \in Nat,
           ~ EditLocked(m, f, t)
    PROVE  NotBarred(CheckEditLock(m, f, t), f, u)
<1> DEFINE i == FindFileMetadata(m, f)
           n == CheckEditLock(m, f, t)
<1>1. CASE i = NoSlot
    BY <1>1 DEF CheckEditLock, NotBarred
<1>2. CASE i # NoSlot
    <2>1. i \in Slot /\ m[i] \in FileMetadata
        BY <1>2, FindIsNamed DEF Table
    <2>2. FindFileMetadata(n, f) = i
        BY EntriesAppear, 0 \in Nat
    <2>3. n[i].lockedBy = NoUser
        BY <1>2, <2>1 DEF CheckEditLock, EditLocked, Fresh, Table, FileMetadata
    <2> QED
        BY <2>2, <2>3 DEF NotBarred
<1> QED
    BY <1>1, <1>2

-----------------------------------------------------------------------------
(* The disk: the files of other names.                                     *)

\* No two paths name one inode, and a worker writes to an inode of its file.
InodesApart  == \A p, q \in DOMAIN link : link[p] = link[q] => p = q
InOwnFile(w) == pc[w] \in WritesTarget
                   => \A p \in DOMAIN link : link[p] = fd[w].dst => p[1] = task[w].file
Confined == InodesApart /\ \A w \in Worker : InOwnFile(w)

\* A step leaves the file at path p as it is, there or not.
Still(p) == /\ p \in DOMAIN link' <=> p \in DOMAIN link
            /\ p \in DOMAIN link => link'[p] = link[p] /\ bytes'[link[p]] = bytes[link[p]]

\* It leaves the live files and backups of all names but f as they are.
Spares(f) == \A p \in Path : p[1] # f => Still(p)

\* It writes nothing and makes no file.
NothingWritten == \A p \in DOMAIN link' : p \in DOMAIN link /\ Still(p)

\* The inodes that paths name keep their bytes when others are freed.
LEMMA LinkedKept ==
    ASSUME DiskTypeOK', NEW b, Reclaim(b), NEW p \in DOMAIN link'
    PROVE  bytes'[link'[p]] = b[link'[p]]
<1>1. link'[p] \in Inode
    BY DEF DiskTypeOK
<1>2. link'[p] \in Used(link, fd)'
    BY DEF Used, Range
<1> QED
    BY <1>1, <1>2 DEF Reclaim

\* The system calls that write nothing.
LEMMA CallsWriteNothing ==
    ASSUME DiskTypeOK, DiskTypeOK',
           \/ NoStore
           \/ \E w \in Worker : Close(w) \/ \E p : OpenRead(w, p)
           \/ \E f : MakeDir(f) \/ RemoveDir(f)
    PROVE  NothingWritten /\ \A p : Still(p)
<1>1. CASE NoStore
    BY <1>1 DEF NoStore, diskVars, NothingWritten, Still
<1>2. CASE \E w \in Worker : Close(w)
    <2>1. link' = link /\ Reclaim(bytes)
        BY <1>2 DEF Close
    <2>2. \A p \in DOMAIN link : bytes'[link[p]] = bytes[link[p]]
        BY <2>1, LinkedKept
    <2> QED
        BY <2>1, <2>2 DEF NothingWritten, Still
<1>3. CASE \E w \in Worker : \E p : OpenRead(w, p)
    BY <1>3 DEF OpenRead, NothingWritten, Still
<1>4. CASE \E f : MakeDir(f) \/ RemoveDir(f)
    BY <1>4 DEF MakeDir, RemoveDir, NothingWritten, Still
<1> QED
    BY <1>1, <1>2, <1>3, <1>4

\* remove
LEMMA UnlinkWritesNothing ==
    ASSUME DiskTypeOK, DiskTypeOK', NEW P, Unlink(P)
    PROVE  NothingWritten /\ \A p : p \notin P => Still(p)
<1>1. DOMAIN link' = DOMAIN link \ P /\ \A p \in DOMAIN link' : link'[p] = link[p]
    BY DEF Unlink, Restrict
<1>2. \A p \in DOMAIN link' : bytes'[link[p]] = bytes[link[p]]
    BY <1>1, LinkedKept DEF Unlink
<1> QED
    BY <1>1, <1>2 DEF NothingWritten, Still

\* open for writing: path p names inode i, alone, and i has lost its bytes.
LEMMA OpenWriteEffect ==
    ASSUME DiskTypeOK, InodesApart, NEW w \in Worker, NEW p \in Path, OpenWrite(w, p)
    PROVE  /\ DOMAIN link' = DOMAIN link \cup {p} /\ fd'[w].dst = link'[p]
           /\ bytes'[link'[p]] = << >>
           /\ \A q : q # p => Still(q)
           /\ InodesApart'
           /\ \A v \in Worker \ {w} : link'[p] = fd[v].dst => p \in DOMAIN link /\ link[p] = fd[v].dst
<1> DEFINE i == IF p \in DOMAIN link THEN link[p]
                ELSE CHOOSE j \in FreeInodes : \A k \in FreeInodes : j <= k
<1>1. /\ i \in Inode
      /\ p \in DOMAIN link => i = link[p]
      /\ p \notin DOMAIN link => i \in FreeInodes
    <2>1. CASE p \in DOMAIN link
        BY <2>1 DEF DiskTypeOK
    <2>2. CASE p \notin DOMAIN link
        <3>1. FreeInodes \in SUBSET Nat /\ FreeInodes \subseteq Inode /\ FreeInodes # {}
            BY <2>2, NoInodeIsNone DEF OpenWrite, CanOpenWrite, FreeInodes
        <3> QED
            BY <2>2, <3>1, LeastExists
    <2> QED
        BY <2>1, <2>2
<1>2. /\ link' = Linked(p, i)
      /\ bytes' = [bytes EXCEPT ![i] = << >>]
      /\ fd' = [fd EXCEPT ![w] = [@ EXCEPT !.dst = i]]
    BY DEF OpenWrite
<1> HIDE DEF i
<1>3. /\ DOMAIN link' = DOMAIN link \cup {p} /\ link'[p] = i
      /\ \A q \in DOMAIN link : q # p => link'[q] = link[q]
    BY <1>2 DEF Linked
<1>4. bytes'[i] = << >> /\ \A j \in Inode : j # i => bytes'[j] = bytes[j]
    BY <1>1, <1>2 DEF DiskTypeOK
<1>5. fd'[w].dst = i
    BY <1>2 DEF DiskTypeOK
<1>6. \A q \in DOMAIN link : q # p => link[q] # i /\ link[q] \in Inode
    <2>1. \A q \in DOMAIN link : link[q] \notin FreeInodes
        BY DEF FreeInodes, Used, Range
    <2> QED
        BY <1>1, <2>1 DEF InodesApart, DiskTypeOK
<1>7. \A q : q # p => Still(q)
    BY <1>3, <1>4, <1>6 DEF Still
<1>8. InodesApart'
    BY <1>3, <1>6 DEF InodesApart
<1>9. \A v \in Worker : fd[v].dst \notin FreeInodes
    BY DEF FreeInodes, Used
<1> QED
    BY <1>1, <1>3, <1>4, <1>5, <1>7, <1>8, <1>9

\* write: only the inode the worker has open for writing changes.
LEMMA WriteEffect ==
    ASSUME DiskTypeOK, DiskTypeOK', NEW w \in Worker, NEW off, NEW d,
           Write(w, off, d) \/ WriteAndClose(w, off, d)
    PROVE  /\ link' = link
           /\ \A p \in DOMAIN link : link[p] # fd[w].dst => Still(p)
<1>1. CASE Write(w, off, d)
    <2>1. link' = link /\ \A j \in Inode : j # fd[w].dst => bytes'[j] = bytes[j]
        BY <1>1 DEF Write, DiskTypeOK
    <2> QED
        BY <2>1 DEF Still, DiskTypeOK
<1>2. CASE WriteAndClose(w, off, d)
    <2> DEFINE b == [bytes EXCEPT ![fd[w].dst] = WriteAt(@, off, d)]
    <2>1. link' = link /\ Reclaim(b)
        BY <1>2 DEF WriteAndClose
    <2>2. \A j \in Inode : j # fd[w].dst => b[j] = bytes[j]
        BY DEF DiskTypeOK
    <2> HIDE DEF b
    <2>3. \A p \in DOMAIN link : bytes'[link[p]] = b[link[p]]
        BY <2>1, LinkedKept
    <2> QED
        BY <2>1, <2>2, <2>3 DEF Still, DiskTypeOK
<1> QED
    BY <1>1, <1>2

-----------------------------------------------------------------------------
(* What a step of process_task does to the disk.                           *)

\* Where a worker, all tests passed, changes files.
Changing == {"backup", "cleanup", "store", "restore", "erase"} \X Stage

\* A move of one worker.
Moves(w, from, to) ==
    /\ Goto(w, from, to) /\ from # to /\ OthersKeep(w)
    /\ UNCHANGED reg \/ \E r : reg' = [reg EXCEPT ![w] = r]

\* Outside the routines that change files the live file stays as it is, and
\* only remove_file_from_storage takes it away.
LiveEffect(w, from, to) ==
    LET p == Live(task[w].file)
    IN  /\ from \notin Changing => Still(p)
        /\ p \in DOMAIN link => p \in DOMAIN link' \/ to = <<"erase", "versions">>

\* What every step of process_task keeps to.
Effect(w) ==
    /\ Confined' /\ Spares(task[w].file)
    /\ \E from, to : Moves(w, from, to) /\ LiveEffect(w, from, to)

\* A step that writes nothing.
LEMMA QuietEffect ==
    ASSUME IInv, Confined, NEW w \in Worker, NEW from, NEW to, Moves(w, from, to),
           NothingWritten, Spares(task[w].file), to \notin WritesTarget, LiveEffect(w, from, to)
    PROVE  Effect(w)
<1>1. InodesApart'
    BY DEF Confined, InodesApart, NothingWritten, Still
<1>2. /\ pc'[w] = to /\ task' = task
      /\ \A v \in Worker \ {w} : pc'[v] = pc[v] /\ fd'[v] = fd[v]
    BY DEF Moves, Goto, IInv, TypeOK, OthersKeep
<1>3. ASSUME NEW v \in Worker PROVE InOwnFile(v)'
    BY <1>2 DEF Confined, InOwnFile, NothingWritten, Still
<1> QED
    BY <1>1, <1>3 DEF Confined, Effect

\* A step that leaves the disk alone.
LEMMA NoStoreEffect ==
    ASSUME IInv, Confined, NEW w \in Worker, NEW from, NEW to, Moves(w, from, to), NoStore,
           to \in WritesTarget => from \in WritesTarget
    PROVE  Effect(w)
<1>1. /\ pc[w] = from /\ pc'[w] = to /\ task' = task
      /\ \A v \in Worker \ {w} : pc'[v] = pc[v]
    BY DEF Moves, Goto, IInv, TypeOK
<1>2. Confined'
    BY <1>1 DEF Confined, InodesApart, InOwnFile, NoStore, diskVars
<1>3. Spares(task[w].file) /\ LiveEffect(w, from, to)
    BY DEF Spares, LiveEffect, Still, NoStore, diskVars
<1> QED
    BY <1>2, <1>3 DEF Effect

\* open for writing, of a path of the worker's own file
LEMMA OpenWriteStep ==
    ASSUME IInv, Confined, NEW w \in Worker, NEW from, NEW to, Moves(w, from, to),
           NEW p \in Path, p[1] = task[w].file, OpenWrite(w, p), from \in Changing
    PROVE  Effect(w) /\ p \in DOMAIN link'
<1>1. DiskTypeOK /\ InodesApart
    BY DEF IInv, TypeOK, Confined
<1>2. /\ pc[w] = from /\ pc'[w] = to /\ task' = task
      /\ \A v \in Worker \ {w} : pc'[v] = pc[v] /\ fd'[v] = fd[v]
    BY DEF Moves, Goto, IInv, TypeOK, OthersKeep
<1>3. /\ DOMAIN link' = DOMAIN link \cup {p} /\ fd'[w].dst = link'[p]
      /\ \A q : q # p => Still(q)
      /\ InodesApart'
      /\ \A v \in Worker \ {w} : link'[p] = fd[v].dst => p \in DOMAIN link /\ link[p] = fd[v].dst
    BY <1>1, OpenWriteEffect
<1>4. InOwnFile(w)'
    BY <1>2, <1>3 DEF InOwnFile, InodesApart
<1>5. ASSUME NEW v \in Worker \ {w} PROVE InOwnFile(v)'
    <2>1. InOwnFile(v)
        BY DEF Confined
    <2>2. ASSUME NEW q \in DOMAIN link', link'[q] = fd[v].dst PROVE q \in DOMAIN link /\ link[q] = fd[v].dst
        BY <1>3, <2>2 DEF Still
    <2> QED
        BY <1>2, <2>1, <2>2 DEF InOwnFile
<1>6. Confined'
    BY <1>3, <1>4, <1>5 DEF Confined
<1>7. Spares(task[w].file)
    BY <1>3 DEF Spares
<1>8. LiveEffect(w, from, to)
    BY <1>3 DEF LiveEffect
<1> QED
    BY <1>3, <1>6, <1>7, <1>8 DEF Effect

\* a write
LEMMA WriteStep ==
    ASSUME IInv, IInv', Confined, NEW w \in Worker, NEW from, NEW to, Moves(w, from, to),
           NEW off, NEW d, from \in WritesTarget, from \in Changing,
           \/ Write(w, off, d)
           \/ WriteAndClose(w, off, d) /\ to \notin WritesTarget
    PROVE  Effect(w)
<1>1. DiskTypeOK /\ DiskTypeOK' /\ InodesApart /\ InOwnFile(w)
    BY DEF IInv, TypeOK, Confined
<1>2. /\ pc[w] = from /\ pc'[w] = to /\ task' = task
      /\ \A v \in Worker \ {w} : pc'[v] = pc[v] /\ fd'[v] = fd[v]
    BY DEF Moves, Goto, IInv, TypeOK, OthersKeep
<1>3. link' = link /\ \A p \in DOMAIN link : link[p] # fd[w].dst => Still(p)
    BY <1>1, WriteEffect
<1>4. Confined'
    BY <1>2, <1>3 DEF Confined, InodesApart, InOwnFile, Write
<1>5. Spares(task[w].file)
    <2>1. \A p \in Path : p \notin DOMAIN link => Still(p)
        BY <1>3 DEF Still
    <2>2. \A p \in DOMAIN link : p[1] # task[w].file => link[p] # fd[w].dst
        BY <1>1, <1>2 DEF InOwnFile
    <2> QED
        BY <1>3, <2>1, <2>2 DEF Spares
<1>6. LiveEffect(w, from, to)
    BY <1>3 DEF LiveEffect
<1> QED
    BY <1>4, <1>5, <1>6 DEF Effect

\* A step of a case of process_task itself: between two points outside the
\* routines that change files, or into one, and of the disk it changes at most
\* the version a client wants removed.
CaseStep(w) ==
    /\ \E from, to : /\ Goto(w, from, to) /\ from # to
                     /\ from \notin Changing /\ to \notin WritesTarget
    /\ UNCHANGED reg \/ \E r : reg' = [reg EXCEPT ![w] = r]
    /\ NoStore \/ Unlink({Version(task[w].file, task[w].target)})

\* The points between which the cases move.
LEMMA CasePoints ==
    /\ \A op \in Operations : \A s : <<op, s>> \notin Changing /\ <<op, s>> \notin WritesTarget
    /\ respond \notin WritesTarget /\ <<"backup", "version">> \notin WritesTarget
    /\ <<"store", "open">> \notin WritesTarget /\ <<"load", "open">> \notin WritesTarget
    /\ <<"erase", "file">> \notin WritesTarget
    /\ \A op \in Operations, s \in Stage : <<op, s>> # respond
BY DEF Operations, Changing, WritesTarget, respond

\* The tests before a change.
LEMMA TestsAreCases ==
    ASSUME NEW w \in Worker, NEW op \in Operations, NEW s \in Stage, NEW to, NEW audit,
           to \notin WritesTarget, to # <<op, s>>
    PROVE  /\ FindOr(w, <<op, s>>, to, audit) => CaseStep(w)
           /\ OwnerOr(w, <<op, s>>, to) => CaseStep(w)
<1>1. <<op, s>> \notin Changing /\ respond \notin WritesTarget /\ <<op, s>> # respond
    BY CasePoints
<1>2. FindOr(w, <<op, s>>, to, audit) => CaseStep(w)
    BY <1>1 DEF FindOr, CaseStep, Answer, Registers, NoShared, NoStore
<1>3. OwnerOr(w, <<op, s>>, to) => CaseStep(w)
    BY <1>1 DEF OwnerOr, CaseStep, Answer, NoShared, NoStore
<1> QED
    BY <1>2, <1>3

\* The lock test of DELETE and ROLLBACK.
LEMMA LockTestIsCase ==
    ASSUME NEW w \in Worker, NEW op \in {"DELETE", "ROLLBACK"}, NEW to, NEW audit,
           to \in {<<"erase", "file">>, <<"backup", "version">>}, UnlockedOr(w, op, to, audit)
    PROVE  CaseStep(w)
<1>1. \A s : <<op, s>> \notin Changing /\ <<op, s>> \notin WritesTarget /\ <<op, s>> # to
    BY CasePoints DEF Operations
<1>2. respond \notin WritesTarget /\ to \notin WritesTarget /\ \A s \in Stage : <<op, s>> # respond
    BY CasePoints DEF Operations
<1>3. <<op, "unlocked">> # <<op, "holder">> /\ "holder" \in Stage
    BY DEF Stage
<1>4. \E a, b : Goto(w, a, b) /\ a # b /\ a \notin Changing /\ b \notin WritesTarget
    BY <1>1, <1>2, <1>3 DEF UnlockedOr, Answer
<1> QED
    BY <1>4 DEF UnlockedOr, CaseStep, NoShared, NoStore

\* The cases of process_task.
LEMMA CasesAreCases ==
    ASSUME IInv, NEW w \in Worker,
           \/ Upload(w) \/ Download(w) \/ Delete(w) \/ Edit(w) \/ Save(w) \/ Unlock(w)
           \/ Rollback(w) \/ DeleteVersion(w) \/ Show(w)
    PROVE  CaseStep(w)
<1> USE DEF NoShared, NoStore
<1>1. /\ \A op \in Operations : \A s : <<op, s>> \notin Changing /\ <<op, s>> \notin WritesTarget
      /\ respond \notin WritesTarget /\ <<"backup", "version">> \notin WritesTarget
      /\ <<"store", "open">> \notin WritesTarget /\ <<"load", "open">> \notin WritesTarget
      /\ <<"erase", "file">> \notin WritesTarget
    BY CasePoints
<1>2. CASE Upload(w)
    <2>1. "UPLOAD" \in Operations
        BY DEF Operations
    <2>2. CASE OwnerOr(w, <<"UPLOAD", "owner">>, <<"backup", "version">>)
        BY <1>1, <2>1, <2>2, TestsAreCases DEF Stage
    <2>3. CASE ~ OwnerOr(w, <<"UPLOAD", "owner">>, <<"backup", "version">>)
        <3>1. \E a, b : Goto(w, a, b) /\ a # b /\ a \notin Changing /\ b \notin WritesTarget
            BY <1>1, <1>2, <2>1, <2>3 DEF Upload, Answer, respond
        <3>2. UNCHANGED reg \/ \E r : reg' = [reg EXCEPT ![w] = r]
            BY <1>2, <2>3 DEF Upload, Registers
        <3>3. NoStore
            BY <1>2, <2>3 DEF Upload
        <3> QED
            BY <3>1, <3>2, <3>3 DEF CaseStep
    <2> QED
        BY <2>2, <2>3
<1>3. CASE Download(w)
    <2>1. "DOWNLOAD" \in Operations
        BY DEF Operations
    <2> QED
        BY <1>1, <1>3, <2>1 DEF Download, Answer, CaseStep, respond
<1>4. CASE Delete(w)
    <2>1. "DELETE" \in Operations /\ "find" \in Stage /\ "owner" \in Stage
        BY DEF Operations, Stage
    <2>2. CASE \/ FindOr(w, <<"DELETE", "find">>, <<"DELETE", "owner">>, "NOT_FOUND")
               \/ OwnerOr(w, <<"DELETE", "owner">>, <<"DELETE", "unlocked">>)
        BY <1>1, <2>1, <2>2, TestsAreCases
    <2>3. CASE UnlockedOr(w, "DELETE", <<"erase", "file">>, "LOCKED")
        BY <2>3, LockTestIsCase
    <2>4. CASE \E a, b : Answer(w, <<"DELETE", "forget">>, a, b) /\ UNCHANGED reg /\ NoStore
        BY <1>1, <2>1, <2>4 DEF Answer, CaseStep, respond
    <2> QED
        BY <1>4, <2>2, <2>3, <2>4 DEF Delete
<1>5. CASE Edit(w)
    <2>1. "EDIT" \in Operations /\ "find" \in Stage /\ "owner" \in Stage
        BY DEF Operations, Stage
    <2>2. CASE \/ FindOr(w, <<"EDIT", "find">>, <<"EDIT", "owner">>, "NOT_FOUND")
               \/ OwnerOr(w, <<"EDIT", "owner">>, <<"EDIT", "acquire">>)
        BY <1>1, <2>1, <2>2, TestsAreCases
    <2>3. CASE ~ \/ FindOr(w, <<"EDIT", "find">>, <<"EDIT", "owner">>, "NOT_FOUND")
                 \/ OwnerOr(w, <<"EDIT", "owner">>, <<"EDIT", "acquire">>)
        <3>1. \E a, b : Goto(w, a, b) /\ a # b /\ a \notin Changing /\ b \notin WritesTarget
            BY <1>1, <1>5, <2>1, <2>3 DEF Edit, Answer, respond
        <3>2. UNCHANGED reg \/ \E r : reg' = [reg EXCEPT ![w] = r]
            BY <1>5, <2>3 DEF Edit, Registers
        <3>3. NoStore
            BY <1>5, <2>3 DEF Edit
        <3> QED
            BY <3>1, <3>2, <3>3 DEF CaseStep
    <2> QED
        BY <2>2, <2>3
<1>6. CASE Save(w)
    <2>1. "SAVE" \in Operations /\ "find" \in Stage
        BY DEF Operations, Stage
    <2>2. CASE FindOr(w, <<"SAVE", "find">>, <<"SAVE", "holder">>, "none")
        BY <1>1, <2>1, <2>2, TestsAreCases
    <2>3. CASE ~ FindOr(w, <<"SAVE", "find">>, <<"SAVE", "holder">>, "none")
        <3>1. \E a, b : Goto(w, a, b) /\ a # b /\ a \notin Changing /\ b \notin WritesTarget
            BY <1>1, <1>6, <2>1, <2>3 DEF Save, Answer, respond
        <3>2. UNCHANGED reg /\ NoStore
            BY <1>6, <2>3 DEF Save
        <3> QED
            BY <3>1, <3>2 DEF CaseStep
    <2> QED
        BY <2>2, <2>3
<1>7. CASE Unlock(w)
    <2>1. "UNLOCK" \in Operations
        BY DEF Operations
    <2>2. <<"UNLOCK", "release">> # respond
        BY DEF respond
    <2> QED
        BY <1>1, <1>7, <2>1, <2>2 DEF Unlock, Answer, CaseStep
<1>8. CASE Rollback(w)
    <2>1. "ROLLBACK" \in Operations /\ "find" \in Stage /\ "owner" \in Stage
        BY DEF Operations, Stage
    <2>2. CASE \/ FindOr(w, <<"ROLLBACK", "find">>, <<"ROLLBACK", "owner">>, "NOT_FOUND")
               \/ OwnerOr(w, <<"ROLLBACK", "owner">>, <<"ROLLBACK", "unlocked">>)
        BY <1>1, <2>1, <2>2, TestsAreCases
    <2>3. CASE UnlockedOr(w, "ROLLBACK", <<"backup", "version">>, "none")
        BY <2>3, LockTestIsCase
    <2>4. CASE \E s \in {"failed", "update"} : \E a, b :
                  Answer(w, <<"ROLLBACK", s>>, a, b) /\ UNCHANGED reg /\ NoStore
        BY <1>1, <2>1, <2>4 DEF Answer, CaseStep, respond
    <2> QED
        BY <1>8, <2>2, <2>3, <2>4 DEF Rollback
<1>9. CASE DeleteVersion(w)
    <2>1. "DELVERSION" \in Operations /\ "find" \in Stage /\ "owner" \in Stage
        BY DEF Operations, Stage
    <2>2. CASE \/ FindOr(w, <<"DELVERSION", "find">>, <<"DELVERSION", "owner">>, "NOT_FOUND")
               \/ OwnerOr(w, <<"DELVERSION", "owner">>, <<"DELVERSION", "remove">>)
        BY <1>1, <2>1, <2>2, TestsAreCases
    <2>3. CASE \E a, b : /\ Answer(w, <<"DELVERSION", "remove">>, a, b) /\ UNCHANGED reg
                         /\ NoStore \/ Unlink({Version(task[w].file, task[w].target)})
        BY <1>1, <2>1, <2>3 DEF Answer, CaseStep, respond
    <2> QED
        BY <1>9, <2>2, <2>3 DEF DeleteVersion
<1>10. CASE Show(w)
    <2>1. pc[w] # idle
        BY <1>10 DEF Show, Answer, Goto, idle
    <2>2. task[w].op \in Operations
        BY <2>1, TaskType
    <2>3. <<task[w].op, "show">> # respond
        BY DEF respond
    <2> QED
        BY <1>1, <1>10, <2>2, <2>3 DEF Show, Answer, CaseStep
<1> QED
    BY <1>2, <1>3, <1>4, <1>5, <1>6, <1>7, <1>8, <1>9, <1>10

\* What they do to the disk.
LEMMA CaseEffect ==
    ASSUME IInv, IInv', Confined, NEW w \in Worker,
           \/ Upload(w) \/ Download(w) \/ Delete(w) \/ Edit(w) \/ Save(w) \/ Unlock(w)
           \/ Rollback(w) \/ DeleteVersion(w) \/ Show(w)
    PROVE  Effect(w)
<1>1. CaseStep(w)
    BY CasesAreCases
<1>2. PICK from, to : /\ Goto(w, from, to) /\ from # to
                      /\ from \notin Changing /\ to \notin WritesTarget
    BY <1>1 DEF CaseStep
<1>3. DiskTypeOK /\ DiskTypeOK'
    BY DEF IInv, TypeOK
<1>4. fd' = fd
    BY <1>1 DEF CaseStep, NoStore, diskVars, Unlink
<1>5. Moves(w, from, to)
    BY <1>1, <1>2, <1>4 DEF CaseStep, Moves, OthersKeep
<1>6. CASE NoStore
    BY <1>2, <1>5, <1>6, NoStoreEffect
<1>7. CASE Unlink({Version(task[w].file, task[w].target)})
    <2>1. /\ NothingWritten
          /\ \A p : p # Version(task[w].file, task[w].target) => Still(p)
        BY <1>3, <1>7, UnlinkWritesNothing
    <2>2. Version(task[w].file, task[w].target)[1] = task[w].file
        BY DEF Version
    <2>3. Spares(task[w].file)
        BY <2>1, <2>2 DEF Spares
    <2>4. Still(Live(task[w].file))
        <3>1. pc[w] # idle
            BY <1>7, ProcessTaskTable DEF ProcessTask, OwnTableStep
        <3>2. task[w].target \in Nat
            BY <3>1, TaskType
        <3>3. Live(task[w].file) # Version(task[w].file, task[w].target)
            BY <3>2 DEF Live, Version
        <3> QED
            BY <2>1, <3>3
    <2>5. LiveEffect(w, from, to)
        BY <2>4 DEF LiveEffect, Still
    <2> QED
        BY <1>2, <1>5, <2>1, <2>3, <2>5, QuietEffect
<1> QED
    BY <1>1, <1>6, <1>7 DEF CaseStep

\* A step within the routines that calls something that writes nothing.
LEMMA CallEffect ==
    ASSUME IInv, IInv', Confined, NEW w \in Worker, NEW from, NEW to, Goto(w, from, to), from # to,
           UNCHANGED reg \/ \E r : reg' = [reg EXCEPT ![w] = r],
           to \notin WritesTarget,
           \/ NoStore \/ Close(w) \/ \E p : OpenRead(w, p)
           \/ \E f \in File : MakeDir(f) \/ RemoveDir(f)
    PROVE  Effect(w)
<1>1. DiskTypeOK /\ DiskTypeOK'
    BY DEF IInv, TypeOK
<1>2. NothingWritten /\ \A p : Still(p)
    BY <1>1, CallsWriteNothing
<1>3. OthersKeep(w)
    BY DEF NoStore, diskVars, Close, OpenRead, MakeDir, RemoveDir, OthersKeep, IInv, TypeOK, DiskTypeOK
<1> QED
    BY <1>2, <1>3, QuietEffect DEF Moves, Spares, LiveEffect, Still

\* copy_file, into a path of the worker's own file.
LEMMA CopyEffect ==
    ASSUME IInv, IInv', Confined, NEW w \in Worker, NEW r \in {"backup", "restore"},
           NEW dst \in Path, dst[1] = task[w].file,
           NEW done, NEW failed, done \notin WritesTarget, failed \notin WritesTarget,
           \A s : <<r, s>> \notin {done, failed}, Copy(w, r, dst, done, failed)
    PROVE  Effect(w)
<1>1. DiskTypeOK /\ DiskTypeOK'
    BY DEF IInv, TypeOK
<1>2. /\ \A s \in {"create", "read", "write"} : <<r, s>> \in Changing
      /\ \A s \in {"read", "write"} : <<r, s>> \in WritesTarget
      /\ <<r, "create">> # <<r, "read">> /\ <<r, "read">> # <<r, "write">>
    BY DEF Changing, WritesTarget, Stage
<1>3. CASE Goto(w, <<r, "create">>, <<r, "read">>) /\ OpenWrite(w, dst) /\ UNCHANGED <<reg, reply>>
    <2>1. Moves(w, <<r, "create">>, <<r, "read">>)
        BY <1>1, <1>2, <1>3, OpenWriteType DEF Moves
    <2> QED
        BY <1>2, <1>3, <2>1, OpenWriteStep
<1>4. CASE Goto(w, <<r, "create">>, failed) /\ Close(w) /\ Registers(w, NoReg)
    BY <1>4, CallEffect DEF Registers
<1>5. CASE /\ Goto(w, <<r, "read">>, <<r, "write">>) /\ NoStore
           /\ \E x : Registers(w, x)
    <2>1. OthersKeep(w)
        BY <1>5 DEF NoStore, diskVars, OthersKeep
    <2>2. Moves(w, <<r, "read">>, <<r, "write">>)
        BY <1>2, <1>5, <2>1 DEF Moves, Registers
    <2> QED
        BY <1>2, <1>5, <2>2, NoStoreEffect
<1>6. CASE Goto(w, <<r, "read">>, done) /\ Close(w) /\ \E x : Registers(w, x)
    BY <1>6, CallEffect DEF Registers
<1>7. CASE /\ Goto(w, <<r, "write">>, <<r, "read">>) /\ Write(w, reg[w].off, reg[w].buf)
           /\ \E x : Registers(w, x)
    <2>1. OthersKeep(w)
        BY <1>7 DEF Write, OthersKeep
    <2>2. Moves(w, <<r, "write">>, <<r, "read">>)
        BY <1>2, <1>7, <2>1 DEF Moves, Registers
    <2> QED
        BY <1>2, <1>7, <2>2, WriteStep
<1>8. CASE /\ Goto(w, <<r, "write">>, failed) /\ Registers(w, NoReg)
           /\ \E k \in 0 .. Len(reg[w].buf) - 1 :
                 WriteAndClose(w, reg[w].off, SubSeq(reg[w].buf, 1, k))
    <2>1. OthersKeep(w)
        BY <1>1, <1>8 DEF WriteAndClose, OthersKeep, DiskTypeOK
    <2>2. Moves(w, <<r, "write">>, failed)
        BY <1>2, <1>8, <2>1 DEF Moves, Registers
    <2> QED
        BY <1>2, <1>8, <2>2, WriteStep
<1> QED
    BY <1>3, <1>4, <1>5, <1>6, <1>7, <1>8 DEF Copy

\* Where the routines go on.
LEMMA ReturnsWriteNothing ==
    ASSUME NEW w
    PROVE  /\ AfterBackup(w) \in {<<"restore", "open">>, <<"store", "open">>}
           /\ AfterStore(w) \in {<<"UPLOAD", "add">>, <<"SAVE", "update">>}
           /\ AfterErase(w) \in {<<"UPLOAD", "undone">>, <<"DELETE", "forget">>}
           /\ AfterBackup(w) \notin WritesTarget /\ AfterStore(w) \notin WritesTarget
           /\ AfterErase(w) \notin WritesTarget
BY DEF AfterBackup, AfterStore, AfterErase, WritesTarget

\* save_version
LEMMA BackupEffect ==
    ASSUME IInv, IInv', Confined, NEW w \in Worker, Backup(w) PROVE Effect(w)
<1> DEFINE f == task[w].file
           cp == Copy(w, "backup", Version(f, reg[w].ver), <<"cleanup", "list">>, AfterBackup(w))
<1>1. pc[w] # idle /\ f \in File
    <2>1. pc[w] # idle
        BY RoutinesTable DEF OwnTableStep
    <2> QED
        BY <2>1, TaskType
<1>2. /\ \A s \in {"dir", "mkdir", "open", "create"} : <<"backup", s>> \notin WritesTarget
      /\ <<"cleanup", "list">> \notin WritesTarget
    BY DEF WritesTarget
<1>3. CASE cp
    <2>1. reg[w].ver \in Nat
        BY DEF IInv, TypeOK, RegisterSet
    <2>2. Version(f, reg[w].ver) \in Path /\ Version(f, reg[w].ver)[1] = f
        BY <1>1, <2>1, PathType DEF Version
    <2>3. \A s : <<"backup", s>> \notin {<<"cleanup", "list">>, AfterBackup(w)}
        BY ReturnsWriteNothing
    <2> QED
        BY <1>2, <1>3, <2>2, <2>3, ReturnsWriteNothing, CopyEffect
<1>4. CASE ~ cp
    <2>1. PICK from, to : /\ Goto(w, from, to) /\ from # to
                          /\ to \in {<<"backup", s>> : s \in {"dir", "mkdir", "open", "create"}}
                                       \cup {AfterBackup(w)}
        BY <1>4, ReturnsWriteNothing DEF Backup
    <2>2. UNCHANGED reg \/ \E r : reg' = [reg EXCEPT ![w] = r]
        BY <1>4 DEF Backup, Registers
    <2>3. NoStore \/ OpenRead(w, Live(f)) \/ MakeDir(f)
        BY <1>4 DEF Backup, NoShared, NoStore
    <2>4. to \notin WritesTarget
        BY <1>2, <2>1, ReturnsWriteNothing
    <2> QED
        BY <1>1, <2>1, <2>2, <2>3, <2>4, CallEffect
<1> QED
    BY <1>3, <1>4

\* Removing files of the worker's own that it does not serve to readers.
LEMMA UnlinkEffect ==
    ASSUME IInv, IInv', Confined, NEW w \in Worker, NEW from, NEW to, Goto(w, from, to), from # to,
           UNCHANGED reg \/ \E r : reg' = [reg EXCEPT ![w] = r],
           from \in Changing, to \notin WritesTarget,
           NEW P, \A p \in P : p[1] = task[w].file, Unlink(P),
           Live(task[w].file) \in P => to = <<"erase", "versions">>
    PROVE  Effect(w)
<1>1. DiskTypeOK /\ DiskTypeOK'
    BY DEF IInv, TypeOK
<1>2. NothingWritten /\ \A p : p \notin P => Still(p)
    BY <1>1, UnlinkWritesNothing
<1>3. Spares(task[w].file)
    BY <1>2 DEF Spares
<1>4. LiveEffect(w, from, to)
    BY <1>2 DEF LiveEffect, Still
<1>5. Moves(w, from, to)
    BY DEF Moves, Unlink, OthersKeep
<1> QED
    BY <1>2, <1>3, <1>4, <1>5, QuietEffect

\* No backup is the live file.
LEMMA BackupsAreNotLive ==
    ASSUME NEW f, NEW V \in SUBSET Nat
    PROVE  /\ \A p \in {Version(f, n) : n \in V} : p[1] = f
           /\ Live(f) \notin {Version(f, n) : n \in V}
<1>1. ASSUME NEW n \in V PROVE Version(f, n)[1] = f /\ Live(f) # Version(f, n)
    <2>1. n + 1 # 0
        OBVIOUS
    <2>2. Version(f, n) = <<f, n + 1>> /\ Live(f) = <<f, 0>>
        BY DEF Version, Live
    <2> QED
        BY <2>1, <2>2
<1> QED
    BY <1>1

\* cleanup_old_versions
LEMMA CleanupEffect ==
    ASSUME IInv, IInv', Confined, NEW w \in Worker, Cleanup(w) PROVE Effect(w)
<1> DEFINE old == Oldest(Stored(task[w].file), MaxVersions)
           P == {Version(task[w].file, n) : n \in reg[w].victims}
<1>1. /\ <<"cleanup", "remove">> \notin WritesTarget /\ <<"cleanup", "remove">> \in Changing
      /\ <<"cleanup", "list">> # <<"cleanup", "remove">>
      /\ \A s : <<"cleanup", s>> # AfterBackup(w)
    BY ReturnsWriteNothing DEF WritesTarget, Changing, Stage
<1>2. CASE \/ Goto(w, <<"cleanup", "list">>, AfterBackup(w)) /\ Registers(w, NoReg) /\ NoStore
           \/ /\ Goto(w, <<"cleanup", "list">>, <<"cleanup", "remove">>)
              /\ Registers(w, [NoReg EXCEPT !.victims = old]) /\ NoStore
    BY <1>1, <1>2, ReturnsWriteNothing, CallEffect DEF Registers
<1>3. CASE Goto(w, <<"cleanup", "remove">>, AfterBackup(w)) /\ Unlink(P) /\ Registers(w, NoReg)
    <2>1. reg[w].victims \in SUBSET Nat
        BY DEF IInv, TypeOK, RegisterSet
    <2>2. (\A p \in P : p[1] = task[w].file) /\ Live(task[w].file) \notin P
        BY <2>1, BackupsAreNotLive
    <2> QED
        BY <1>1, <1>3, <2>2, ReturnsWriteNothing, UnlinkEffect DEF Registers
<1> QED
    BY <1>2, <1>3 DEF Cleanup

\* save_file
LEMMA StoreEffect ==
    ASSUME IInv, IInv', Confined, NEW w \in Worker, Store(w) PROVE Effect(w)
<1> DEFINE f == task[w].file
<1>1. DiskTypeOK /\ UNCHANGED reg
    BY DEF IInv, TypeOK, Store
<1>2. Live(f) \in Path /\ Live(f)[1] = f
    <2>1. pc[w] # idle
        BY RoutinesTable DEF OwnTableStep
    <2> QED
        BY <2>1, TaskType, PathType DEF Live
<1>3. /\ <<"store", "open">> \in Changing /\ <<"store", "write">> \in Changing \cap WritesTarget
      /\ <<"store", "open">> # <<"store", "write">> /\ respond \notin WritesTarget
      /\ \A s : <<"store", s>> # respond /\ <<"store", s>> # AfterStore(w)
    BY ReturnsWriteNothing DEF Changing, WritesTarget, Stage, respond
<1>4. CASE Goto(w, <<"store", "open">>, <<"store", "write">>) /\ OpenWrite(w, Live(f))
    <2>1. Moves(w, <<"store", "open">>, <<"store", "write">>)
        BY <1>1, <1>2, <1>3, <1>4, OpenWriteType DEF Moves
    <2> QED
        BY <1>2, <1>3, <1>4, <2>1, OpenWriteStep
<1>5. CASE Goto(w, <<"store", "open">>, respond) /\ NoStore
    BY <1>1, <1>3, <1>5, CallEffect
<1>6. ASSUME NEW to \in {AfterStore(w), respond}, NEW d,
             Goto(w, <<"store", "write">>, to), WriteAndClose(w, 0, d)
      PROVE  Effect(w)
    <2>1. OthersKeep(w)
        BY <1>1, <1>6 DEF WriteAndClose, OthersKeep, DiskTypeOK
    <2>2. Moves(w, <<"store", "write">>, to)
        BY <1>1, <1>3, <1>6, <2>1 DEF Moves
    <2> QED
        BY <1>3, <1>6, <2>2, ReturnsWriteNothing, WriteStep
<1> QED
    BY <1>4, <1>5, <1>6 DEF Store, Answer

\* restore_version
LEMMA RestoreEffect ==
    ASSUME IInv, IInv', Confined, NEW w \in Worker, Restore(w) PROVE Effect(w)
<1> DEFINE f == task[w].file
           cp == Copy(w, "restore", Live(f), <<"ROLLBACK", "update">>, <<"ROLLBACK", "failed">>)
<1>1. Live(f) \in Path /\ Live(f)[1] = f
    <2>1. pc[w] # idle
        BY RoutinesTable DEF OwnTableStep
    <2> QED
        BY <2>1, TaskType, PathType DEF Live
<1>2. /\ <<"ROLLBACK", "update">> \notin WritesTarget /\ <<"ROLLBACK", "failed">> \notin WritesTarget
      /\ <<"restore", "create">> \notin WritesTarget /\ <<"restore", "open">> # <<"restore", "create">>
      /\ \A s : <<"restore", s>> \notin {<<"ROLLBACK", "update">>, <<"ROLLBACK", "failed">>}
    BY DEF WritesTarget
<1>3. CASE cp
    BY <1>1, <1>2, <1>3, CopyEffect
<1>4. CASE ~ cp
    <2>1. PICK from, to : Goto(w, from, to) /\ from # to /\ to \notin WritesTarget
        BY <1>2, <1>4 DEF Restore
    <2>2. UNCHANGED reg \/ \E r : reg' = [reg EXCEPT ![w] = r]
        BY <1>4 DEF Restore, Registers
    <2>3. NoStore \/ \E p : OpenRead(w, p)
        BY <1>4 DEF Restore, NoShared, NoStore
    <2> QED
        BY <2>1, <2>2, <2>3, CallEffect
<1> QED
    BY <1>3, <1>4

\* read_file
LEMMA LoadEffect ==
    ASSUME IInv, IInv', Confined, NEW w \in Worker, Load(w) PROVE Effect(w)
<1>1. \A op : <<op, "unreadable">> \notin WritesTarget /\ <<"load", "open">> # <<op, "unreadable">>
    BY DEF WritesTarget
<1>2. <<"load", "read">> \notin WritesTarget /\ respond \notin WritesTarget
    BY DEF WritesTarget, respond
<1>3. PICK from, to : Goto(w, from, to) /\ from # to /\ to \notin WritesTarget
    BY <1>1, <1>2 DEF Load, Answer, respond
<1>4. UNCHANGED reg \/ \E r : reg' = [reg EXCEPT ![w] = r]
    BY DEF Load
<1>5. NoStore \/ Close(w) \/ \E p : OpenRead(w, p)
    BY DEF Load
<1> QED
    BY <1>3, <1>4, <1>5, CallEffect

\* remove_file_from_storage
LEMMA EraseEffect ==
    ASSUME IInv, IInv', Confined, NEW w \in Worker, Erase(w) PROVE Effect(w)
<1> DEFINE f == task[w].file
<1>1. UNCHANGED reg /\ f \in File
    <2>1. pc[w] # idle
        BY RoutinesTable DEF OwnTableStep
    <2> QED
        BY <2>1, TaskType DEF Erase
<1>2. /\ \A s \in {"file", "versions", "dir"} :
            <<"erase", s>> \in Changing /\ <<"erase", s>> \notin WritesTarget /\ <<"erase", s>> # respond
      /\ <<"erase", "file">> # <<"erase", "versions">> /\ <<"erase", "versions">> # <<"erase", "dir">>
      /\ respond \notin WritesTarget /\ \A s : <<"erase", s>> # AfterErase(w)
    BY ReturnsWriteNothing DEF Changing, WritesTarget, Stage, respond
<1>3. CASE Goto(w, <<"erase", "file">>, <<"erase", "versions">>) /\ Unlink({Live(f)})
    <2>1. \A p \in {Live(f)} : p[1] = f
        BY DEF Live
    <2> QED
        BY <1>1, <1>2, <1>3, <2>1, UnlinkEffect
<1>4. CASE Goto(w, <<"erase", "file">>, respond) /\ NoStore
    BY <1>1, <1>2, <1>4, CallEffect
<1>5. CASE Goto(w, <<"erase", "versions">>, <<"erase", "dir">>)
            /\ Unlink({Version(f, n) : n \in Stored(f)})
    <2>1. Stored(f) \in SUBSET Nat
        BY StoredType DEF IInv, TypeOK
    <2> QED
        BY <1>1, <1>2, <1>5, <2>1, BackupsAreNotLive, UnlinkEffect
<1>6. CASE Goto(w, <<"erase", "dir">>, AfterErase(w)) /\ RemoveDir(f)
    BY <1>1, <1>2, <1>6, ReturnsWriteNothing, CallEffect
<1> QED
    BY <1>3, <1>4, <1>5, <1>6 DEF Erase, Answer

\* Whatever a worker does and whoever else works on the same file, it leaves
\* the live files and backups of all other files as they are.
LEMMA ProcessTaskEffect ==
    ASSUME IInv, IInv', Confined, NEW w \in Worker, ProcessTask(w) PROVE Effect(w)
BY CaseEffect, BackupEffect, CleanupEffect, StoreEffect, RestoreEffect, LoadEffect, EraseEffect
   DEF ProcessTask

-----------------------------------------------------------------------------
(* What a worker knows of its file.                                        *)

\* Where the test of the owner, and of the lock, are behind the worker.
PastOwner == Changing \cup {<<"EDIT", "acquire">>}
                      \cup ({"DELETE", "ROLLBACK"} \X {"unlocked", "holder"})
PastLock  == Changing \cup {<<"UPLOAD", "find">>, <<"UPLOAD", "owner">>}

\* Where it has made the live file, and where a removal is half done.
Made    == {<<"store", "write">>, <<"UPLOAD", "add">>}
Leaving == {<<"erase", "versions">>, <<"erase", "dir">>, <<"DELETE", "forget">>}

\* What a worker at point c with task t and pointer i knows of table m, and of
\* the live file, while nobody else works on its file: its pointer is the
\* file's entry, what it tested still holds, and it undoes an upload only of a
\* file that is not in the table.
KnownAt(c, m, t, i, there) ==
    /\ c[2] \in FollowsPointer /\ FindFileMetadata(m, t.file) # NoSlot
          => i = FindFileMetadata(m, t.file)
    /\ c \in PastOwner => Entitled(m, t.file, t.user)
    /\ c \in PastLock => NotBarred(m, t.file, t.user)
    /\ c \in Made => there
    /\ c[1] = "erase" /\ t.op = "UPLOAD" => FindFileMetadata(m, t.file) = NoSlot
    /\ c[1] = "DELETE" => t.op # "UPLOAD"
Known(w) == KnownAt(pc[w], meta, task[w], reg[w].ptr, Live(task[w].file) \in DOMAIN link)

\* A file in the table is on disk, unless a removal of it is half done.
Kept(f) == FindFileMetadata(meta, f) # NoSlot /\ Live(f) \notin DOMAIN link
              => \E w \in Worker : task[w].file = f /\ pc[w] \in Leaving

\* No two workers work on one file.
Apart == \A v, w \in Worker :
            pc[v] # idle /\ pc[w] # idle /\ task[v].file = task[w].file => v = w

SerialInv ==
    /\ Apart /\ Confined
    /\ HoldersMayEdit(meta)
    /\ \A f \in File : Kept(f)
    /\ \A w \in Worker : Known(w)

\* What a worker's step owes: to know what its next point asks, and to keep the
\* table and the disk together for its own file.
Own(w) ==
    LET f == task[w].file
    IN  /\ Known(w)' /\ HoldersMayEdit(meta')
        /\ FindFileMetadata(meta', f) # NoSlot
              => FindFileMetadata(meta, f) # NoSlot \/ Live(f) \in DOMAIN link'
        /\ pc[w] \in Leaving => pc'[w] \in Leaving \/ FindFileMetadata(meta', f) = NoSlot

\* Then the invariant is kept: the other workers' entries and files are as
\* they were.
LEMMA OwnSuffices ==
    ASSUME IInv, IInv', SerialInv, NEW w \in Worker, ProcessTask(w), Own(w)
    PROVE  SerialInv'
<1> DEFINE f == task[w].file
<1>1. Effect(w) /\ OwnTableStep(w)
    BY ProcessTaskEffect, ProcessTaskTable DEF SerialInv
<1>2. PICK from, to : Moves(w, from, to) /\ LiveEffect(w, from, to)
    BY <1>1 DEF Effect
<1>3. /\ task' = task /\ pc[w] = from /\ pc'[w] = to /\ pc[w] # idle
      /\ \A v \in Worker \ {w} : pc'[v] = pc[v] /\ reg'[v] = reg[v]
    BY <1>1, <1>2 DEF Moves, Goto, OwnTableStep, IInv, TypeOK
<1>4. \A g : g # f => SameEntry(meta, meta', g)
    BY TableFrame
<1>5. \A g \in File : g # f => (Live(g) \in DOMAIN link' <=> Live(g) \in DOMAIN link)
    <2>1. \A g \in File : Live(g) \in Path /\ Live(g)[1] = g
        BY PathType, 0 \in Nat DEF Live
    <2> QED
        BY <1>1, <2>1 DEF Effect, Spares, Still
<1>6. Apart'
    <2>1. \A v \in Worker : pc'[v] # idle => pc[v] # idle
        BY <1>3
    <2> QED
        BY <1>3, <2>1 DEF SerialInv, Apart
<1>7. ASSUME NEW v \in Worker PROVE Known(v)'
    <2>1. CASE v = w
        BY <2>1 DEF Own
    <2>2. CASE v # w /\ pc[v] = idle
        <3>1. pc'[v] = idle
            BY <1>3, <2>2
        <3> QED
            BY <3>1 DEF Known, KnownAt, idle, FollowsPointer, PastOwner, PastLock, Made, Changing
    <2>3. CASE v # w /\ pc[v] # idle
        <3>1. task[v].file # f /\ task[v].file \in File
            BY <1>3, <2>3, TaskType DEF SerialInv, Apart
        <3>2. SameEntry(meta, meta', task[v].file)
            BY <1>4, <3>1
        <3>3. Live(task[v].file) \in DOMAIN link' <=> Live(task[v].file) \in DOMAIN link
            BY <1>5, <3>1
        <3>4. pc'[v] = pc[v] /\ reg'[v] = reg[v] /\ task'[v] = task[v] /\ Known(v)
            BY <1>3, <2>3 DEF SerialInv
        <3>5. FindFileMetadata(meta', task[v].file) = FindFileMetadata(meta, task[v].file)
            BY <3>2 DEF SameEntry
        <3> QED
            BY <3>2, <3>3, <3>4, <3>5, EntryKept DEF Known, KnownAt
    <2> QED
        BY <2>1, <2>2, <2>3
<1>8. ASSUME NEW g \in File PROVE Kept(g)'
    <2>1. CASE g # f
        <3>1. FindFileMetadata(meta', g) = FindFileMetadata(meta, g)
            BY <1>4, <2>1 DEF SameEntry
        <3>2. \A v \in Worker : task[v].file = g => v # w
            BY <2>1
        <3> QED
            BY <1>3, <1>5, <2>1, <3>1, <3>2 DEF SerialInv, Kept
    <2>2. CASE g = f
        <3>1. ASSUME FindFileMetadata(meta', g) # NoSlot, Live(g) \notin DOMAIN link', to \notin Leaving
              PROVE  FALSE
            <4>1. FindFileMetadata(meta, g) # NoSlot /\ from \notin Leaving
                BY <1>3, <2>2, <3>1 DEF Own
            <4>2. Live(g) \notin DOMAIN link
                BY <1>2, <2>2, <3>1 DEF LiveEffect, Leaving
            <4>3. PICK v \in Worker : task[v].file = g /\ pc[v] \in Leaving
                BY <4>1, <4>2 DEF SerialInv, Kept
            <4>4. pc[v] # idle
                BY <4>3 DEF Leaving, idle
            <4>5. v = w
                BY <1>3, <2>2, <4>3, <4>4 DEF SerialInv, Apart
            <4> QED
                BY <1>3, <4>1, <4>3, <4>5
        <3> QED
            BY <1>3, <2>2, <3>1 DEF Kept
    <2> QED
        BY <2>1, <2>2
<1> QED
    BY <1>1, <1>6, <1>7, <1>8 DEF SerialInv, Effect, Own

\* A step that leaves the table alone.
LEMMA SameTableOwn ==
    ASSUME IInv, SerialInv, NEW w \in Worker, NEW from, NEW to, Goto(w, from, to), UNCHANGED meta,
           KnownAt(to, meta, task[w], reg'[w].ptr, Live(task[w].file) \in DOMAIN link'),
           from \in Leaving => to \in Leaving \/ FindFileMetadata(meta, task[w].file) = NoSlot
    PROVE  Own(w)
<1>1. pc[w] = from /\ pc'[w] = to /\ task' = task
    BY DEF Goto, IInv, TypeOK
<1> QED
    BY <1>1 DEF Own, Known, SerialInv

\* Points that ask nothing.
Asks(c) == \/ c[2] \in FollowsPointer \/ c \in PastOwner \/ c \in PastLock \/ c \in Made
           \/ c[1] \in {"erase", "DELETE"}
LEMMA NothingAsked ==
    ASSUME NEW c, ~ Asks(c), NEW m, NEW t, NEW i, NEW there PROVE KnownAt(c, m, t, i, there)
BY DEF Asks, KnownAt

\* Which they are.
LEMMA PointsThatAskNothing ==
    /\ ~ Asks(idle) /\ ~ Asks(respond)
    /\ \A s \in {"check", "locker", "undone"} : ~ Asks(<<"UPLOAD", s>>)
    /\ \A s \in {"find", "check", "unreadable"} : ~ Asks(<<"EDIT", s>>)
    /\ \A s \in {"find", "update", "release"} : ~ Asks(<<"SAVE", s>>)
    /\ \A s \in {"find", "failed", "update"} : ~ Asks(<<"ROLLBACK", s>>)
    /\ \A s \in {"find", "remove"} : ~ Asks(<<"DELVERSION", s>>)
    /\ \A s \in {"open", "read"} : ~ Asks(<<"load", s>>)
    /\ ~ Asks(<<"DOWNLOAD", "find">>) /\ ~ Asks(<<"DOWNLOAD", "unreadable">>)
    /\ ~ Asks(<<"UNLOCK", "release">>)
    /\ \A op \in Operations \ {"DELETE"} : ~ Asks(<<op, "show">>) /\ ~ Asks(<<op, "unreadable">>)
BY DEF Asks, idle, respond, FollowsPointer, PastOwner, PastLock, Made, Changing, Operations

\* From one point of the routines that change files to another.
LEMMA StillPast ==
    ASSUME NEW c \in Changing, NEW d \in Changing, d[2] \notin FollowsPointer, d \notin Made,
           d[1] = "erase" => c[1] = "erase",
           NEW m, NEW t, NEW i, NEW j, NEW k, NEW l, KnownAt(c, m, t, i, k)
    PROVE  KnownAt(d, m, t, j, l)
<1>1. d[1] # "DELETE"
    BY DEF Changing
<1> QED
    BY <1>1 DEF KnownAt, PastOwner, PastLock

-----------------------------------------------------------------------------
(* file_manager.c                                                          *)

\* Points of the routines.
LEMMA RoutinePoints ==
    /\ \A s \in {"dir", "mkdir", "open", "create", "read", "write"} :
          /\ <<"backup", s>> \in Changing \ (Made \cup Leaving) /\ s \notin FollowsPointer
          /\ <<"restore", s>> \in Changing \ (Made \cup Leaving)
    /\ \A s \in {"list", "remove"} :
          <<"cleanup", s>> \in Changing \ (Made \cup Leaving) /\ s \notin FollowsPointer
    /\ <<"backup", "version">> \in Changing \ Leaving
    /\ <<"store", "open">> \in Changing \ (Made \cup Leaving)
    /\ <<"store", "write">> \in Changing \ Leaving
    /\ \A s \in {"file", "versions", "dir"} : <<"erase", s>> \in Changing \ Made /\ s \notin FollowsPointer
    /\ <<"erase", "file">> \notin Leaving
    /\ {<<"erase", "versions">>, <<"erase", "dir">>} \subseteq Leaving
BY DEF Changing, Stage, Made, Leaving, FollowsPointer

\* A step from one such point to another.
LEMMA RoutineOwn ==
    ASSUME IInv, SerialInv, NEW w \in Worker, NEW from \in Changing, NEW to \in Changing,
           Goto(w, from, to), UNCHANGED meta,
           to[2] \notin FollowsPointer, to \notin Made, to[1] = "erase" => from[1] = "erase",
           from \in Leaving => to \in Leaving
    PROVE  Own(w)
<1>1. KnownAt(from, meta, task[w], reg[w].ptr, Live(task[w].file) \in DOMAIN link)
    BY DEF SerialInv, Known, Goto
<1>2. KnownAt(to, meta, task[w], reg'[w].ptr, Live(task[w].file) \in DOMAIN link')
    BY <1>1, StillPast
<1> QED
    BY <1>2, SameTableOwn

\* A step to a point that asks nothing.
LEMMA AsksNothingOwn ==
    ASSUME IInv, SerialInv, NEW w \in Worker, NEW from, NEW to, Goto(w, from, to), UNCHANGED meta,
           ~ Asks(to), from \notin Leaving
    PROVE  Own(w)
BY NothingAsked, SameTableOwn

\* copy_file
LEMMA CopyOwn ==
    ASSUME IInv, SerialInv, NEW w \in Worker, NEW r \in {"backup", "restore"}, NEW dst,
           NEW done, NEW failed, Copy(w, r, dst, done, failed),
           \/ ~ Asks(done)
           \/ done \in Changing \ Made /\ done[2] \notin FollowsPointer /\ done[1] # "erase",
           \/ ~ Asks(failed)
           \/ failed \in Changing \ Made /\ failed[2] \notin FollowsPointer /\ failed[1] # "erase"
    PROVE  Own(w)
<1>1. UNCHANGED meta
    BY DEF Copy
<1>2. PICK from \in {<<r, "create">>, <<r, "read">>, <<r, "write">>},
           to \in {<<r, "read">>, <<r, "write">>, done, failed} : Goto(w, from, to)
    BY DEF Copy
<1>3. from \in Changing \ Leaving /\ from[1] # "erase"
    BY <1>2, RoutinePoints
<1>4. CASE ~ Asks(to)
    BY <1>1, <1>2, <1>3, <1>4, AsksNothingOwn
<1>5. CASE to \in Changing \ Made /\ to[2] \notin FollowsPointer /\ to[1] # "erase"
    BY <1>1, <1>2, <1>3, <1>5, RoutineOwn
<1>6. \/ ~ Asks(to)
      \/ to \in Changing \ Made /\ to[2] \notin FollowsPointer /\ to[1] # "erase"
    BY <1>2, RoutinePoints
<1> QED
    BY <1>4, <1>5, <1>6

\* save_version
LEMMA BackupOwn == ASSUME IInv, SerialInv, NEW w \in Worker, Backup(w) PROVE Own(w)
<1> DEFINE cp == Copy(w, "backup", Version(task[w].file, reg[w].ver), <<"cleanup", "list">>, AfterBackup(w))
<1>1. \A c \in {<<"cleanup", "list">>, AfterBackup(w)} :
         c \in Changing \ Made /\ c[2] \notin FollowsPointer /\ c[1] # "erase"
    BY RoutinePoints DEF AfterBackup, FollowsPointer
<1>2. CASE cp
    BY <1>1, <1>2, CopyOwn
<1>3. CASE ~ cp
    <2>1. PICK from \in {<<"backup", s>> : s \in {"version", "dir", "mkdir", "open"}},
               to \in {<<"backup", s>> : s \in {"dir", "mkdir", "open", "create"}} \cup {AfterBackup(w)} :
                  Goto(w, from, to)
        BY <1>3 DEF Backup
    <2>2. UNCHANGED meta
        BY <1>3 DEF Backup, NoShared
    <2>3. from \in Changing \ Leaving
        BY <2>1, RoutinePoints
    <2>4. to \in Changing \ Made /\ to[2] \notin FollowsPointer /\ to[1] # "erase"
        BY <1>1, <2>1, RoutinePoints
    <2> QED
        BY <2>1, <2>2, <2>3, <2>4, RoutineOwn
<1> QED
    BY <1>2, <1>3

\* cleanup_old_versions
LEMMA CleanupOwn == ASSUME IInv, SerialInv, NEW w \in Worker, Cleanup(w) PROVE Own(w)
<1>1. AfterBackup(w) \in Changing \ Made /\ AfterBackup(w)[2] \notin FollowsPointer /\ AfterBackup(w)[1] # "erase"
    BY RoutinePoints DEF AfterBackup, FollowsPointer
<1>2. PICK from \in {<<"cleanup", "list">>, <<"cleanup", "remove">>},
           to \in {<<"cleanup", "remove">>, AfterBackup(w)} : Goto(w, from, to)
    BY DEF Cleanup
<1>3. UNCHANGED meta
    BY DEF Cleanup
<1>4. from \in Changing \ Leaving
    BY <1>2, RoutinePoints
<1>5. to \in Changing \ Made /\ to[2] \notin FollowsPointer /\ to[1] # "erase"
    BY <1>1, <1>2, RoutinePoints
<1> QED
    BY <1>2, <1>3, <1>4, <1>5, RoutineOwn

\* save_file: the live file is there from its open on.
LEMMA StoreOwn == ASSUME IInv, SerialInv, NEW w \in Worker, Store(w) PROVE Own(w)
<1> DEFINE f == task[w].file
           p == Live(task[w].file)
<1>1. UNCHANGED meta /\ Known(w) /\ ~ Asks(respond)
    BY PointsThatAskNothing DEF SerialInv, Store
<1>2. /\ <<"store", "open">> \in Changing \ Leaving /\ <<"store", "write">> \in Changing \ Leaving
      /\ <<"store", "write">> \in Made
    BY RoutinePoints DEF Made
<1>3. CASE Goto(w, <<"store", "open">>, <<"store", "write">>) /\ OpenWrite(w, p)
    <2>1. p \in DOMAIN link'
        BY <1>3 DEF OpenWrite, Linked
    <2>2. KnownAt(<<"store", "open">>, meta, task[w], reg[w].ptr, p \in DOMAIN link)
        BY <1>1, <1>3 DEF Known, Goto
    <2>3. <<"store", "write">>[2] \notin FollowsPointer /\ <<"store", "write">>[1] \notin {"erase", "DELETE"}
        BY DEF FollowsPointer
    <2>4. KnownAt(<<"store", "write">>, meta, task[w], reg'[w].ptr, p \in DOMAIN link')
        BY <1>2, <2>1, <2>2, <2>3 DEF KnownAt, PastOwner, PastLock
    <2> QED
        BY <1>1, <1>2, <1>3, <2>4, SameTableOwn
<1>4. CASE \E s \in {"open", "write"} : Goto(w, <<"store", s>>, respond)
    BY <1>1, <1>2, <1>4, AsksNothingOwn
<1>5. CASE Goto(w, <<"store", "write">>, AfterStore(w)) /\ link' = link
    <2>1. CASE AfterStore(w) = <<"SAVE", "update">>
        BY <1>1, <1>2, <1>5, <2>1, PointsThatAskNothing, AsksNothingOwn
    <2>2. CASE AfterStore(w) = <<"UPLOAD", "add">>
        <3>1. KnownAt(<<"store", "write">>, meta, task[w], reg[w].ptr, p \in DOMAIN link)
            BY <1>1, <1>5 DEF Known, Goto
        <3>2. p \in DOMAIN link'
            BY <1>2, <1>5, <3>1 DEF KnownAt
        <3>3. /\ <<"UPLOAD", "add">>[2] \notin FollowsPointer
              /\ <<"UPLOAD", "add">>[1] \notin {"erase", "DELETE"}
              /\ <<"UPLOAD", "add">> \notin PastOwner /\ <<"UPLOAD", "add">> \notin PastLock
            BY DEF FollowsPointer, PastOwner, PastLock, Changing
        <3>4. KnownAt(<<"UPLOAD", "add">>, meta, task[w], reg'[w].ptr, p \in DOMAIN link')
            BY <3>2, <3>3 DEF KnownAt
        <3> QED
            BY <1>1, <1>2, <1>5, <2>2, <3>4, SameTableOwn
    <2> QED
        BY <2>1, <2>2, ReturnsWriteNothing
<1> QED
    BY <1>3, <1>4, <1>5 DEF Store, Answer, WriteAndClose

\* restore_version
LEMMA RestoreOwn == ASSUME IInv, SerialInv, NEW w \in Worker, Restore(w) PROVE Own(w)
<1>1. ~ Asks(<<"ROLLBACK", "update">>) /\ ~ Asks(<<"ROLLBACK", "failed">>)
    BY PointsThatAskNothing
<1>2. CASE Copy(w, "restore", Live(task[w].file), <<"ROLLBACK", "update">>, <<"ROLLBACK", "failed">>)
    BY <1>1, <1>2, CopyOwn
<1>3. CASE Goto(w, <<"restore", "open">>, <<"restore", "create">>) /\ UNCHANGED meta
    <2>1. <<"restore", "create">>[2] \notin FollowsPointer
        BY DEF FollowsPointer
    <2> QED
        BY <1>3, <2>1, RoutinePoints, RoutineOwn
<1>4. CASE Goto(w, <<"restore", "open">>, <<"ROLLBACK", "failed">>) /\ UNCHANGED meta
    BY <1>1, <1>4, RoutinePoints, AsksNothingOwn
<1> QED
    BY <1>2, <1>3, <1>4 DEF Restore, NoShared

\* read_file
LEMMA LoadOwn == ASSUME IInv, SerialInv, NEW w \in Worker, Load(w) PROVE Own(w)
<1>1. UNCHANGED meta /\ task[w].op \in Operations
    <2>1. pc[w] # idle
        BY RoutinesTable DEF OwnTableStep
    <2> QED
        BY <2>1, TaskType DEF Load
<1>2. <<"load", "open">> \notin Leaving /\ <<"load", "read">> \notin Leaving
    BY DEF Leaving
<1>3. CASE \/ Goto(w, <<"load", "open">>, <<"load", "read">>)
           \/ Goto(w, <<"load", "read">>, respond)
    BY <1>1, <1>2, <1>3, PointsThatAskNothing, AsksNothingOwn
<1>4. CASE Goto(w, <<"load", "open">>, <<task[w].op, "unreadable">>)
    <2>1. CASE task[w].op # "DELETE"
        BY <1>1, <1>2, <1>4, <2>1, PointsThatAskNothing, AsksNothingOwn
    <2>2. CASE task[w].op = "DELETE"
        <3>1. \A m, i, there : KnownAt(<<"DELETE", "unreadable">>, m, task[w], i, there)
            BY <2>2 DEF KnownAt, FollowsPointer, PastOwner, PastLock, Made, Changing
        <3> QED
            BY <1>1, <1>2, <1>4, <2>2, <3>1, SameTableOwn
    <2> QED
        BY <2>1, <2>2
<1> QED
    BY <1>3, <1>4 DEF Load, Answer

\* remove_file_from_storage
LEMMA EraseOwn == ASSUME IInv, SerialInv, NEW w \in Worker, Erase(w) PROVE Own(w)
<1>1. UNCHANGED meta /\ Known(w)
    BY DEF Erase, SerialInv
<1>2. CASE \/ Goto(w, <<"erase", "file">>, <<"erase", "versions">>)
           \/ Goto(w, <<"erase", "versions">>, <<"erase", "dir">>)
    BY <1>1, <1>2, RoutinePoints, RoutineOwn DEF FollowsPointer
<1>3. CASE Goto(w, <<"erase", "file">>, respond)
    BY <1>1, <1>3, RoutinePoints, PointsThatAskNothing, AsksNothingOwn
<1>4. CASE Goto(w, <<"erase", "dir">>, AfterErase(w))
    <2>1. CASE task[w].op = "UPLOAD"
        <3>1. FindFileMetadata(meta, task[w].file) = NoSlot
            BY <1>1, <1>4, <2>1 DEF Known, KnownAt, Goto
        <3>2. AfterErase(w) = <<"UPLOAD", "undone">>
            BY <2>1 DEF AfterErase
        <3>3. ~ Asks(<<"UPLOAD", "undone">>)
            BY PointsThatAskNothing
        <3> QED
            BY <1>1, <1>4, <3>1, <3>2, <3>3, NothingAsked, SameTableOwn
    <2>2. CASE task[w].op # "UPLOAD"
        <3>1. AfterErase(w) = <<"DELETE", "forget">>
            BY <2>2 DEF AfterErase
        <3>2. \A m, i, there : KnownAt(<<"DELETE", "forget">>, m, task[w], i, there)
            BY <2>2 DEF KnownAt, FollowsPointer, PastOwner, PastLock, Made, Changing
        <3>3. <<"DELETE", "forget">> \in Leaving
            BY DEF Leaving
        <3> QED
            BY <1>1, <1>4, <3>1, <3>2, <3>3, SameTableOwn
    <2> QED
        BY <2>1, <2>2
<1> QED
    BY <1>2, <1>3, <1>4 DEF Erase, Answer

-----------------------------------------------------------------------------
(* process_task                                                            *)

\* A step that changes the table, to a point that asks nothing.
LEMMA TableChangeOwn ==
    ASSUME IInv, SerialInv, NEW w \in Worker, NEW from, NEW to, Goto(w, from, to), ~ Asks(to),
           HoldersMayEdit(meta'),
           FindFileMetadata(meta', task[w].file) # NoSlot
              => FindFileMetadata(meta, task[w].file) # NoSlot \/ Live(task[w].file) \in DOMAIN link',
           from \in Leaving => FindFileMetadata(meta', task[w].file) = NoSlot
    PROVE  Own(w)
<1>1. pc[w] = from /\ pc'[w] = to /\ task' = task
    BY DEF Goto, IInv, TypeOK
<1> QED
    BY <1>1, NothingAsked DEF Own, Known

\* What the table lets a test of the owner, and the pointer, conclude.
LEMMA PointedIsEntry ==
    ASSUME IInv, SerialInv, NEW w \in Worker, pc[w][2] \in FollowsPointer,
           FindFileMetadata(meta, task[w].file) # NoSlot
    PROVE  Pointed(w) = meta[FindFileMetadata(meta, task[w].file)]
BY DEF SerialInv, Known, KnownAt, Pointed

\* The test of the owner, before a point that asks for that and not for more.
LEMMA OwnerOwn ==
    ASSUME IInv, SerialInv, NEW w \in Worker, NEW op \in Operations, NEW to,
           OwnerOr(w, <<op, "owner">>, to),
           to = <<"backup", "version">> => op = "UPLOAD",
           to \in {<<"backup", "version">>, <<"EDIT", "acquire">>, <<"DELETE", "unlocked">>,
                   <<"ROLLBACK", "unlocked">>, <<"DELVERSION", "remove">>},
           to[1] = "DELETE" => op = "DELETE"
    PROVE  Own(w)
<1> DEFINE f == task[w].file
           i == FindFileMetadata(meta, f)
<1>1. UNCHANGED <<meta, reg>> /\ Known(w)
    BY DEF OwnerOr, NoShared, SerialInv
<1>2. <<op, "owner">> \notin Leaving /\ "owner" \in FollowsPointer
    BY DEF Leaving, FollowsPointer
<1>3. CASE Goto(w, <<op, "owner">>, respond)
    BY <1>1, <1>2, <1>3, PointsThatAskNothing, AsksNothingOwn
<1>4. CASE /\ Goto(w, <<op, "owner">>, to)
           /\ Privileged(w) \/ Pointed(w).owner = task[w].user
    <2>1. pc[w] = <<op, "owner">>
        BY <1>4 DEF Goto
    <2>2. KnownAt(<<op, "owner">>, meta, task[w], reg[w].ptr, Live(f) \in DOMAIN link)
        BY <1>1, <2>1 DEF Known
    <2>3. i # NoSlot => reg[w].ptr = i /\ Pointed(w) = meta[i]
        BY <1>2, <2>1, <2>2, PointedIsEntry DEF KnownAt
    <2>4. Entitled(meta, f, task[w].user)
        BY <1>4, <2>3 DEF Entitled, Privileged
    <2>5. to = <<"backup", "version">> => NotBarred(meta, f, task[w].user)
        BY <2>2 DEF KnownAt, PastLock
    <2>6. to \in PastLock => to = <<"backup", "version">>
        BY DEF PastLock, Changing
    <2>7. to[1] # "erase" /\ to \notin Made
        BY DEF Made
    <2>8. to[1] = "DELETE" => task[w].op # "UPLOAD"
        BY <2>2 DEF KnownAt
    <2>9. KnownAt(to, meta, task[w], reg'[w].ptr, Live(f) \in DOMAIN link')
        BY <1>1, <2>3, <2>4, <2>5, <2>6, <2>7, <2>8 DEF KnownAt
    <2> QED
        BY <1>1, <1>2, <1>4, <2>9, SameTableOwn
<1> QED
    BY <1>3, <1>4 DEF OwnerOr, Answer

\* find_file_metadata, before a point that follows the pointer.
LEMMA FindOwn ==
    ASSUME IInv, SerialInv, NEW w \in Worker, NEW op \in Operations, NEW to, NEW audit,
           FindOr(w, <<op, "find">>, to, audit),
           to \in {<<op, "owner">>, <<op, "holder">>}, to \notin PastOwner \cup PastLock
    PROVE  Own(w)
<1> DEFINE i == FindFileMetadata(meta, task[w].file)
<1>1. UNCHANGED meta /\ Known(w)
    BY DEF FindOr, NoShared, SerialInv
<1>2. <<op, "find">> \notin Leaving
    BY DEF Leaving
<1>3. CASE Goto(w, <<op, "find">>, respond)
    BY <1>1, <1>2, <1>3, PointsThatAskNothing, AsksNothingOwn
<1>4. CASE Goto(w, <<op, "find">>, to) /\ Registers(w, [NoReg EXCEPT !.ptr = i])
    <2>1. reg'[w].ptr = i
        BY <1>4 DEF Registers, IInv, TypeOK, NoReg
    <2>2. to \notin Made /\ to[1] # "erase" /\ to[1] = op
        BY DEF Made, Operations
    <2>3. op = "DELETE" => task[w].op # "UPLOAD"
        BY <1>1, <1>4 DEF Known, KnownAt, Goto
    <2>4. KnownAt(to, meta, task[w], reg'[w].ptr, Live(task[w].file) \in DOMAIN link')
        BY <2>1, <2>2, <2>3 DEF KnownAt
    <2> QED
        BY <1>1, <1>2, <1>4, <2>4, SameTableOwn
<1> QED
    BY <1>3, <1>4 DEF FindOr, Answer

\* The lock test of DELETE and ROLLBACK: while nobody else works on the file,
\* reading the holder twice is as good as reading it once.
LEMMA LockTestOwn ==
    ASSUME IInv, SerialInv, NEW w \in Worker, NEW op \in {"DELETE", "ROLLBACK"}, NEW to, NEW audit,
           to = IF op = "DELETE" THEN <<"erase", "file">> ELSE <<"backup", "version">>,
           UnlockedOr(w, op, to, audit)
    PROVE  Own(w)
<1> DEFINE f == task[w].file
           i == FindFileMetadata(meta, f)
<1>1. UNCHANGED <<meta, reg>> /\ Known(w)
    BY DEF UnlockedOr, NoShared, SerialInv
<1>2. \A s : <<op, s>> \in {<<op, "unlocked">>, <<op, "holder">>} =>
          /\ <<op, s>> \in PastOwner \ Leaving /\ s \in FollowsPointer
          /\ <<op, s>> \notin PastLock /\ <<op, s>> \notin Made
    BY DEF PastOwner, PastLock, Made, Leaving, FollowsPointer, Changing
<1>3. ASSUME pc[w] \in {<<op, "unlocked">>, <<op, "holder">>}
      PROVE  /\ i # NoSlot => reg[w].ptr = i /\ Pointed(w) = meta[i]
             /\ Entitled(meta, f, task[w].user)
             /\ op = "DELETE" => task[w].op # "UPLOAD"
    BY <1>1, <1>2, <1>3 DEF Known, KnownAt, Pointed
<1>4. CASE Goto(w, <<op, "holder">>, respond)
    BY <1>1, <1>2, <1>4, PointsThatAskNothing, AsksNothingOwn
<1>5. CASE Goto(w, <<op, "unlocked">>, <<op, "holder">>)
    <2>1. pc[w] = <<op, "unlocked">>
        BY <1>5 DEF Goto
    <2>2. KnownAt(<<op, "holder">>, meta, task[w], reg'[w].ptr, Live(f) \in DOMAIN link')
        BY <1>1, <1>2, <1>3, <2>1 DEF KnownAt
    <2> QED
        BY <1>1, <1>2, <1>5, <2>2, SameTableOwn
<1>6. ASSUME NEW s \in {"unlocked", "holder"}, Goto(w, <<op, s>>, to),
             Pointed(w).lockedBy \in {NoUser, task[w].user}
      PROVE  Own(w)
    <2>1. pc[w] = <<op, s>>
        BY <1>6 DEF Goto
    <2>2. NotBarred(meta, f, task[w].user)
        BY <1>3, <1>6, <2>1 DEF NotBarred
    <2>3. to \notin Made /\ to[1] # "DELETE" /\ (to[1] = "erase" => op = "DELETE")
        BY DEF Made
    <2>4. KnownAt(to, meta, task[w], reg'[w].ptr, Live(f) \in DOMAIN link')
        BY <1>1, <1>3, <2>1, <2>2, <2>3 DEF KnownAt
    <2> QED
        BY <1>1, <1>2, <1>6, <2>4, SameTableOwn
<1> QED
    BY <1>4, <1>5, <1>6 DEF UnlockedOr, Answer

\* What a step of a case may use of the table and the task.
LEMMA CaseFacts ==
    ASSUME IInv, SerialInv, NEW w \in Worker, ProcessTask(w)
    PROVE  /\ meta \in Table /\ Sound(meta) /\ HoldersMayEdit(meta) /\ now \in Nat
           /\ task[w].file \in File /\ task[w].user \in User /\ task[w].user # NoUser
           /\ task[w].op \in Operations /\ Len(task[w].data) \in Nat
           /\ Known(w)
<1>1. pc[w] # idle
    BY ProcessTaskTable DEF OwnTableStep
<1> QED
    BY <1>1, TaskType, TableType, SyncTypesAssumption DEF SerialInv

\* OP_DOWNLOAD
LEMMA DownloadOwn == ASSUME IInv, SerialInv, NEW w \in Worker, Download(w) PROVE Own(w)
<1>1. PICK s \in {"find", "unreadable"}, to \in {<<"load", "open">>, respond} :
         Goto(w, <<"DOWNLOAD", s>>, to)
    BY DEF Download, Answer
<1>2. UNCHANGED meta /\ <<"DOWNLOAD", s>> \notin Leaving
    BY DEF Download, NoShared, Leaving
<1> QED
    BY <1>1, <1>2, PointsThatAskNothing, AsksNothingOwn

\* OP_DELETE
LEMMA DeleteOwn == ASSUME IInv, SerialInv, NEW w \in Worker, Delete(w) PROVE Own(w)
<1>1. CASE FindOr(w, <<"DELETE", "find">>, <<"DELETE", "owner">>, "NOT_FOUND")
    <2>1. <<"DELETE", "owner">> \notin PastOwner \cup PastLock /\ "DELETE" \in Operations
        BY DEF PastOwner, PastLock, Changing, Operations
    <2> QED
        BY <1>1, <2>1, FindOwn
<1>2. CASE OwnerOr(w, <<"DELETE", "owner">>, <<"DELETE", "unlocked">>)
    BY <1>2, OwnerOwn DEF Operations
<1>3. CASE UnlockedOr(w, "DELETE", <<"erase", "file">>, "LOCKED")
    BY <1>3, LockTestOwn
<1>4. CASE /\ Goto(w, <<"DELETE", "forget">>, respond)
           /\ meta' = RemoveFileMetadata(meta, task[w].file)
    <2>1. /\ meta \in Table /\ Sound(meta) /\ HoldersMayEdit(meta) /\ now \in Nat
          /\ task[w].file \in File /\ task[w].user \in User
        BY CaseFacts DEF ProcessTask
    <2>2. HoldersMayEdit(meta') /\ FindFileMetadata(meta', task[w].file) = NoSlot
        BY <1>4, <2>1, HoldersStay, EntriesAppear
    <2> QED
        BY <1>4, <2>2, PointsThatAskNothing, TableChangeOwn
<1> QED
    BY <1>1, <1>2, <1>3, <1>4 DEF Delete, Answer

\* OP_EDIT
LEMMA EditOwn == ASSUME IInv, SerialInv, NEW w \in Worker, Edit(w) PROVE Own(w)
<1> DEFINE f == task[w].file
           u == task[w].user
<1>1. /\ meta \in Table /\ Sound(meta) /\ HoldersMayEdit(meta) /\ now \in Nat
      /\ f \in File /\ u \in User /\ Known(w)
    BY CaseFacts DEF ProcessTask
<1>2. CASE FindOr(w, <<"EDIT", "find">>, <<"EDIT", "owner">>, "NOT_FOUND")
    <2>1. <<"EDIT", "owner">> \notin PastOwner \cup PastLock /\ "EDIT" \in Operations
        BY DEF PastOwner, PastLock, Changing, Operations
    <2> QED
        BY <1>2, <2>1, FindOwn
<1>3. CASE OwnerOr(w, <<"EDIT", "owner">>, <<"EDIT", "acquire">>)
    BY <1>3, OwnerOwn DEF Operations
<1>4. ASSUME NEW to \in {<<"load", "open">>, <<"EDIT", "check">>, respond},
             Goto(w, <<"EDIT", "acquire">>, to), meta' = AcquireEditLock(meta, f, u, now)
      PROVE  Own(w)
    <2>1. Entitled(meta, f, u)
        BY <1>1, <1>4 DEF Known, KnownAt, PastOwner, Goto
    <2>2. HoldersMayEdit(meta') /\ FindFileMetadata(meta', f) = FindFileMetadata(meta, f)
        BY <1>1, <1>4, <2>1, HoldersStay, EntriesAppear, 0 \in Nat
    <2>3. ~ Asks(to) /\ <<"EDIT", "acquire">> \notin Leaving
        BY PointsThatAskNothing DEF Leaving
    <2> QED
        BY <1>4, <2>2, <2>3, TableChangeOwn
<1>5. ASSUME NEW s \in {"check", "unreadable"}, Goto(w, <<"EDIT", s>>, respond),
             meta' \in {CheckEditLock(meta, f, now), ReleaseEditLock(meta, f, u)}
      PROVE  Own(w)
    <2>1. HoldersMayEdit(meta') /\ FindFileMetadata(meta', f) = FindFileMetadata(meta, f)
        <3>1. CASE meta' = CheckEditLock(meta, f, now)
            BY <1>1, <3>1, HoldersStay, EntriesAppear, 0 \in Nat
        <3>2. CASE meta' = ReleaseEditLock(meta, f, u)
            BY <1>1, <3>2, HoldersStay, EntriesAppear, 0 \in Nat
        <3> QED
            BY <1>5, <3>1, <3>2
    <2>2. ~ Asks(respond) /\ <<"EDIT", s>> \notin Leaving
        BY PointsThatAskNothing DEF Leaving
    <2> QED
        BY <1>5, <2>1, <2>2, TableChangeOwn
<1> QED
    BY <1>2, <1>3, <1>4, <1>5 DEF Edit, Answer

\* OP_SAVE: whoever holds the lock may change the file.
LEMMA SaveOwn == ASSUME IInv, SerialInv, NEW w \in Worker, Save(w) PROVE Own(w)
<1> DEFINE f == task[w].file
           u == task[w].user
           i == FindFileMetadata(meta, f)
<1>1. /\ meta \in Table /\ Sound(meta) /\ HoldersMayEdit(meta) /\ now \in Nat
      /\ f \in File /\ u \in User /\ u # NoUser /\ Known(w) /\ Len(task[w].data) \in Nat
    BY CaseFacts DEF ProcessTask
<1>2. \A s : <<"SAVE", s>> \notin Leaving
    BY DEF Leaving
<1>3. CASE FindOr(w, <<"SAVE", "find">>, <<"SAVE", "holder">>, "none")
    <2>1. <<"SAVE", "holder">> \notin PastOwner \cup PastLock /\ "SAVE" \in Operations
        BY DEF PastOwner, PastLock, Changing, Operations
    <2> QED
        BY <1>3, <2>1, FindOwn
<1>4. CASE Goto(w, <<"SAVE", "holder">>, respond) /\ NoShared
    BY <1>2, <1>4, PointsThatAskNothing, AsksNothingOwn DEF NoShared
<1>5. CASE /\ Goto(w, <<"SAVE", "holder">>, <<"backup", "version">>) /\ UNCHANGED <<reg, reply>>
           /\ Pointed(w).lockedBy = u /\ NoShared
    <2>1. KnownAt(<<"SAVE", "holder">>, meta, task[w], reg[w].ptr, Live(f) \in DOMAIN link)
        BY <1>1, <1>5 DEF Known, Goto
    <2>2. i # NoSlot => reg[w].ptr = i /\ i \in Slot /\ meta[i].lockedBy = u
        BY <1>5, <2>1, FindIsNamed DEF KnownAt, FollowsPointer, Pointed
    <2>3. NotBarred(meta, f, u) /\ Entitled(meta, f, u)
        BY <1>1, <2>2 DEF NotBarred, Entitled, HoldersMayEdit, MayEdit
    <2>4. /\ <<"backup", "version">> \notin Made
          /\ <<"backup", "version">>[1] \notin {"erase", "DELETE"}
        BY DEF Made
    <2>5. KnownAt(<<"backup", "version">>, meta, task[w], reg'[w].ptr, Live(f) \in DOMAIN link')
        BY <1>5, <2>2, <2>3, <2>4 DEF KnownAt
    <2> QED
        BY <1>2, <1>5, <2>5, SameTableOwn DEF NoShared
<1>6. ASSUME NEW s, NEW to \in {<<"SAVE", "release">>, respond}, Goto(w, <<"SAVE", s>>, to),
             meta' \in {UpdateFileMetadata(meta, f, Len(task[w].data)), ReleaseEditLock(meta, f, u)}
      PROVE  Own(w)
    <2>1. HoldersMayEdit(meta') /\ FindFileMetadata(meta', f) = FindFileMetadata(meta, f)
        <3>1. CASE meta' = UpdateFileMetadata(meta, f, Len(task[w].data))
            BY <1>1, <3>1, HoldersStay, EntriesAppear
        <3>2. CASE meta' = ReleaseEditLock(meta, f, u)
            BY <1>1, <3>2, HoldersStay, EntriesAppear, 0 \in Nat
        <3> QED
            BY <1>6, <3>1, <3>2
    <2>2. ~ Asks(to)
        BY PointsThatAskNothing
    <2> QED
        BY <1>2, <1>6, <2>1, <2>2, TableChangeOwn
<1> QED
    BY <1>3, <1>4, <1>5, <1>6 DEF Save, Answer

\* OP_UNLOCK
LEMMA UnlockOwn == ASSUME IInv, SerialInv, NEW w \in Worker, Unlock(w) PROVE Own(w)
<1>1. /\ meta \in Table /\ Sound(meta) /\ HoldersMayEdit(meta)
      /\ task[w].file \in File /\ task[w].user \in User
    BY CaseFacts DEF ProcessTask
<1>2. /\ Goto(w, <<"UNLOCK", "release">>, respond)
      /\ meta' = ReleaseEditLock(meta, task[w].file, task[w].user)
    BY DEF Unlock, Answer
<1>3. /\ HoldersMayEdit(meta')
      /\ FindFileMetadata(meta', task[w].file) = FindFileMetadata(meta, task[w].file)
    BY <1>1, <1>2, HoldersStay, EntriesAppear, 0 \in Nat
<1>4. <<"UNLOCK", "release">> \notin Leaving
    BY DEF Leaving
<1> QED
    BY <1>2, <1>3, <1>4, PointsThatAskNothing, TableChangeOwn

\* OP_ROLLBACK
LEMMA RollbackOwn == ASSUME IInv, SerialInv, NEW w \in Worker, Rollback(w) PROVE Own(w)
<1>1. CASE FindOr(w, <<"ROLLBACK", "find">>, <<"ROLLBACK", "owner">>, "NOT_FOUND")
    <2>1. <<"ROLLBACK", "owner">> \notin PastOwner \cup PastLock /\ "ROLLBACK" \in Operations
        BY DEF PastOwner, PastLock, Changing, Operations
    <2> QED
        BY <1>1, <2>1, FindOwn
<1>2. CASE OwnerOr(w, <<"ROLLBACK", "owner">>, <<"ROLLBACK", "unlocked">>)
    BY <1>2, OwnerOwn DEF Operations
<1>3. CASE UnlockedOr(w, "ROLLBACK", <<"backup", "version">>, "none")
    BY <1>3, LockTestOwn
<1>4. \A s : <<"ROLLBACK", s>> \notin Leaving
    BY DEF Leaving
<1>5. CASE Goto(w, <<"ROLLBACK", "failed">>, respond) /\ NoShared
    BY <1>4, <1>5, PointsThatAskNothing, AsksNothingOwn DEF NoShared
<1>6. CASE /\ Goto(w, <<"ROLLBACK", "update">>, respond)
           /\ meta' = UpdateFileMetadata(meta, task[w].file, reg[w].size)
    <2>1. /\ meta \in Table /\ Sound(meta) /\ HoldersMayEdit(meta) /\ now \in Nat
          /\ task[w].file \in File /\ task[w].user \in User
        BY CaseFacts DEF ProcessTask
    <2>2. reg[w].size \in Nat
        BY DEF IInv, TypeOK, RegisterSet
    <2>3. /\ HoldersMayEdit(meta')
          /\ FindFileMetadata(meta', task[w].file) = FindFileMetadata(meta, task[w].file)
        BY <1>6, <2>1, <2>2, HoldersStay, EntriesAppear
    <2> QED
        BY <1>4, <1>6, <2>3, PointsThatAskNothing, TableChangeOwn
<1> QED
    BY <1>1, <1>2, <1>3, <1>5, <1>6 DEF Rollback, Answer

\* OP_DELVERSION
LEMMA DeleteVersionOwn == ASSUME IInv, SerialInv, NEW w \in Worker, DeleteVersion(w) PROVE Own(w)
<1>1. CASE FindOr(w, <<"DELVERSION", "find">>, <<"DELVERSION", "owner">>, "NOT_FOUND")
    <2>1. <<"DELVERSION", "owner">> \notin PastOwner \cup PastLock /\ "DELVERSION" \in Operations
        BY DEF PastOwner, PastLock, Changing, Operations
    <2> QED
        BY <1>1, <2>1, FindOwn
<1>2. CASE OwnerOr(w, <<"DELVERSION", "owner">>, <<"DELVERSION", "remove">>)
    BY <1>2, OwnerOwn DEF Operations
<1>3. CASE Goto(w, <<"DELVERSION", "remove">>, respond) /\ UNCHANGED meta
    <2>1. <<"DELVERSION", "remove">> \notin Leaving
        BY DEF Leaving
    <2> QED
        BY <1>3, <2>1, PointsThatAskNothing, AsksNothingOwn
<1> QED
    BY <1>1, <1>2, <1>3 DEF DeleteVersion, Answer, NoShared

\* OP_LIST, OP_VERSION, OP_HISTORY, OP_AUDIT
LEMMA ShowOwn == ASSUME IInv, SerialInv, NEW w \in Worker, Show(w) PROVE Own(w)
<1>1. Goto(w, <<task[w].op, "show">>, respond) /\ UNCHANGED meta
    BY DEF Show, Answer, NoShared
<1>2. <<task[w].op, "show">> \notin Leaving
    BY DEF Leaving
<1> QED
    BY <1>1, <1>2, PointsThatAskNothing, AsksNothingOwn

\* OP_UPLOAD: check_edit_lock clears a lock whose time is up, and the pointer
\* of the second test is the entry, so nobody else holds the lock when the
\* worker goes on.
LEMMA UploadChecks ==
    ASSUME IInv, SerialInv, NEW w \in Worker, Upload(w), pc[w] # <<"UPLOAD", "owner">>,
           pc[w] # <<"UPLOAD", "add">>
    PROVE  Own(w)
<1> DEFINE f == task[w].file
           u == task[w].user
           i == FindFileMetadata(meta, f)
           there == Live(f) \in DOMAIN link'
           find == <<"UPLOAD", "find">>
<1>1. /\ meta \in Table /\ Sound(meta) /\ HoldersMayEdit(meta) /\ now \in Nat
      /\ f \in File /\ u \in User /\ u # NoUser /\ Known(w)
    BY CaseFacts DEF ProcessTask
<1>2. \A s : <<"UPLOAD", s>> \notin Leaving
    BY DEF Leaving
<1>3. ASSUME NEW m, NEW j, NotBarred(m, f, u) PROVE KnownAt(find, m, task[w], j, there)
    BY <1>3 DEF KnownAt, FollowsPointer, PastOwner, Made, Changing
<1>4. CASE Goto(w, <<"UPLOAD", "check">>, find) /\ ~ EditLocked(meta, f, now)
             /\ meta' = CheckEditLock(meta, f, now)
    <2>1. HoldersMayEdit(meta') /\ FindFileMetadata(meta', f) = i
        BY <1>1, <1>4, HoldersStay, EntriesAppear, 0 \in Nat
    <2>2. NotBarred(meta', f, u)
        BY <1>1, <1>4, CheckedIsFree
    <2>3. KnownAt(find, meta', task[w], reg'[w].ptr, there)
        BY <1>3, <2>2
    <2>4. pc[w] = <<"UPLOAD", "check">> /\ pc'[w] = find /\ task' = task
        BY <1>4 DEF Goto, IInv, TypeOK
    <2> QED
        BY <1>2, <2>1, <2>3, <2>4 DEF Own, Known
<1>5. CASE Goto(w, <<"UPLOAD", "check">>, <<"UPLOAD", "locker">>) /\ meta' = CheckEditLock(meta, f, now)
    <2>1. HoldersMayEdit(meta') /\ FindFileMetadata(meta', f) = i
        BY <1>1, <1>5, HoldersStay, EntriesAppear, 0 \in Nat
    <2> QED
        BY <1>2, <1>5, <2>1, PointsThatAskNothing, TableChangeOwn
<1>6. CASE /\ Goto(w, <<"UPLOAD", "locker">>, IF i = NoSlot THEN find ELSE <<"UPLOAD", "holder">>)
           /\ Registers(w, [NoReg EXCEPT !.ptr = i]) /\ UNCHANGED meta
    <2>1. reg'[w].ptr = i
        BY <1>6 DEF Registers, IInv, TypeOK, NoReg
    <2>2. CASE i = NoSlot
        BY <1>2, <1>3, <1>6, <2>2, SameTableOwn DEF NotBarred
    <2>3. CASE i # NoSlot
        <3>1. KnownAt(<<"UPLOAD", "holder">>, meta, task[w], reg'[w].ptr, there)
            BY <2>1 DEF KnownAt, PastOwner, PastLock, Made, Changing
        <3> QED
            BY <1>2, <1>6, <2>3, <3>1, SameTableOwn
    <2> QED
        BY <2>2, <2>3
<1>7. CASE Goto(w, <<"UPLOAD", "holder">>, find) /\ Pointed(w).lockedBy = u /\ UNCHANGED meta
    <2>1. pc[w] = <<"UPLOAD", "holder">> /\ "holder" \in FollowsPointer
        BY <1>7 DEF Goto, FollowsPointer
    <2>2. i # NoSlot => meta[i].lockedBy = u
        BY <1>7, <2>1, PointedIsEntry
    <2>3. NotBarred(meta, f, u)
        BY <2>2 DEF NotBarred
    <2> QED
        BY <1>2, <1>3, <1>7, <2>3, SameTableOwn
<1>8. CASE /\ Goto(w, find, IF i = NoSlot THEN <<"store", "open">> ELSE <<"UPLOAD", "owner">>)
           /\ Registers(w, [NoReg EXCEPT !.ptr = i]) /\ UNCHANGED meta
    <2>1. reg'[w].ptr = i
        BY <1>8 DEF Registers, IInv, TypeOK, NoReg
    <2>2. NotBarred(meta, f, u)
        BY <1>1, <1>8 DEF Known, KnownAt, PastLock, Goto
    <2>3. CASE i = NoSlot
        <3>1. KnownAt(<<"store", "open">>, meta, task[w], reg'[w].ptr, there)
            BY <2>3 DEF KnownAt, Entitled, NotBarred, FollowsPointer, Made
        <3> QED
            BY <1>2, <1>8, <2>3, <3>1, SameTableOwn
    <2>4. CASE i # NoSlot
        <3>1. KnownAt(<<"UPLOAD", "owner">>, meta, task[w], reg'[w].ptr, there)
            BY <2>1, <2>2 DEF KnownAt, PastOwner, Made, Changing
        <3> QED
            BY <1>2, <1>8, <2>4, <3>1, SameTableOwn
    <2> QED
        BY <2>3, <2>4
<1>9. CASE \E s : Goto(w, <<"UPLOAD", s>>, respond) /\ UNCHANGED meta
    BY <1>2, <1>9, PointsThatAskNothing, AsksNothingOwn
<1> QED
    BY <1>4, <1>5, <1>6, <1>7, <1>8, <1>9 DEF Upload, OwnerOr, Answer, Goto, NoShared

\* The entry an upload adds is one of a file that is on disk, and what an
\* upload without room undoes is not in the table.
LEMMA UploadOwn == ASSUME IInv, SerialInv, NEW w \in Worker, Upload(w) PROVE Own(w)
<1> DEFINE f == task[w].file
           u == task[w].user
           n == Len(task[w].data)
<1>1. /\ meta \in Table /\ Sound(meta) /\ HoldersMayEdit(meta)
      /\ f \in File /\ u \in User /\ Known(w)
    BY CaseFacts DEF ProcessTask
<1>2. <<"UPLOAD", "add">> \notin Leaving
    BY DEF Leaving
<1>3. CASE OwnerOr(w, <<"UPLOAD", "owner">>, <<"backup", "version">>)
    BY <1>3, OwnerOwn DEF Operations
<1>4. CASE /\ Goto(w, <<"UPLOAD", "add">>, respond) /\ HasRoomFor(meta, f)
           /\ meta' = AddFileMetadata(meta, f, u, n) /\ NoStore
    <2>1. HoldersMayEdit(meta')
        BY <1>1, <1>4, HoldersStay
    <2>2. Live(f) \in DOMAIN link'
        BY <1>1, <1>4 DEF Known, KnownAt, Made, Goto, NoStore, diskVars
    <2> QED
        BY <1>2, <1>4, <2>1, <2>2, PointsThatAskNothing, TableChangeOwn
<1>5. CASE Goto(w, <<"UPLOAD", "add">>, <<"erase", "file">>) /\ ~ HasRoomFor(meta, f) /\ UNCHANGED meta
    <2>1. FindFileMetadata(meta, f) = NoSlot
        BY <1>5, FindIsNamed DEF HasRoomFor
    <2>2. KnownAt(<<"erase", "file">>, meta, task[w], reg'[w].ptr, Live(f) \in DOMAIN link')
        BY <2>1 DEF KnownAt, Entitled, NotBarred, FollowsPointer, Made
    <2> QED
        BY <1>2, <1>5, <2>2, SameTableOwn
<1>6. CASE pc[w] # <<"UPLOAD", "owner">> /\ pc[w] # <<"UPLOAD", "add">>
    BY <1>6, UploadChecks
<1> QED
    BY <1>3, <1>4, <1>5, <1>6 DEF Upload, Answer, Goto, NoShared

\* process_task
LEMMA ProcessTaskOwn == ASSUME IInv, SerialInv, NEW w \in Worker, ProcessTask(w) PROVE Own(w)
BY UploadOwn, DownloadOwn, DeleteOwn, EditOwn, SaveOwn, UnlockOwn, RollbackOwn, DeleteVersionOwn,
   ShowOwn, BackupOwn, CleanupOwn, StoreOwn, RestoreOwn, LoadOwn, EraseOwn DEF ProcessTask

-----------------------------------------------------------------------------
(* The worker's loop, a crash and a second server.                         *)

\* A new task asks nothing, wherever it starts.
LEMMA EntryKnows ==
    ASSUME NEW t, t.op \in Operations, NEW m, NEW i, NEW there
    PROVE  KnownAt(Entry(t.op), m, t, i, there) /\ Entry(t.op) \notin WritesTarget
<1>1. CASE t.op = "DELETE"
    BY <1>1 DEF Entry, KnownAt, FollowsPointer, PastOwner, PastLock, Made, Changing, WritesTarget
<1>2. CASE t.op # "DELETE"
    <2>1. ~ Asks(Entry(t.op))
        BY <1>2, PointsThatAskNothing DEF Entry, Operations
    <2>2. Entry(t.op) \notin WritesTarget
        BY DEF Entry, WritesTarget
    <2> QED
        BY <2>1, <2>2, NothingAsked
<1> QED
    BY <1>1, <1>2

\* A worker in its loop: it begins or ends, and the rest is as it was.
LEMMA LoopSerial ==
    ASSUME IInv, SerialInv, NEW w \in Worker, UNCHANGED <<meta, diskVars>>,
           \A v \in Worker \ {w} : pc'[v] = pc[v] /\ task'[v] = task[v] /\ reg'[v] = reg[v],
           pc[w] \notin Leaving, pc'[w] \notin WritesTarget, Known(w)', Apart'
    PROVE  SerialInv'
<1>1. Confined'
    BY DEF SerialInv, Confined, InodesApart, InOwnFile, diskVars
<1>2. ASSUME NEW v \in Worker PROVE Known(v)'
    BY DEF SerialInv, Known, diskVars
<1>3. ASSUME NEW f \in File PROVE Kept(f)'
    BY DEF SerialInv, Kept, diskVars
<1> QED
    BY <1>1, <1>2, <1>3 DEF SerialInv

\* mq_receive: this is where the clients' waiting for each other comes in.
LEMMA ReceiveTaskSerial ==
    ASSUME PerFileSerial, IInv, SerialInv, NEW w \in Worker, ReceiveTask(w) PROVE SerialInv'
<1>1. PICK t \in Requests : /\ Serving(t.file) = {}
                            /\ task' = [task EXCEPT ![w] = t]
                            /\ pc' = [pc EXCEPT ![w] = Entry(t.op)]
    BY DEF ReceiveTask
<1>2. t.op \in Operations
    BY <1>1, WorkerPoolAssumption DEF Requests
<1>3. pc[w] = idle /\ UNCHANGED <<reg, meta, diskVars>>
    BY DEF ReceiveTask, NoShared
<1>4. /\ pc'[w] = Entry(t.op) /\ task'[w] = t
      /\ \A v \in Worker \ {w} : pc'[v] = pc[v] /\ task'[v] = task[v] /\ reg'[v] = reg[v]
    BY <1>1, <1>3 DEF IInv, TypeOK
<1>5. Known(w)' /\ pc'[w] \notin WritesTarget /\ pc[w] \notin Leaving
    BY <1>2, <1>3, <1>4, EntryKnows DEF Known, idle, Leaving
<1>6. Apart'
    <2>1. \A v \in Worker \ {w} : pc[v] # idle => task[v].file # t.file
        BY <1>1 DEF Serving, Busy, IInv, TypeOK, WorkerOK
    <2> QED
        BY <1>4, <2>1 DEF SerialInv, Apart
<1> QED
    BY <1>3, <1>4, <1>5, <1>6, LoopSerial

\* send_response
LEMMA SendResponseSerial ==
    ASSUME IInv, SerialInv, NEW w \in Worker, SendResponse(w) PROVE SerialInv'
<1>1. pc[w] = respond /\ UNCHANGED <<meta, diskVars>>
    BY DEF SendResponse, NoShared
<1>2. /\ pc'[w] = idle
      /\ \A v \in Worker \ {w} : pc'[v] = pc[v] /\ task'[v] = task[v] /\ reg'[v] = reg[v]
    BY DEF SendResponse, IInv, TypeOK
<1>3. Known(w)'
    BY <1>2, PointsThatAskNothing, NothingAsked DEF Known
<1>4. pc[w] \notin Leaving /\ idle \notin WritesTarget
    BY <1>1 DEF respond, idle, Leaving, WritesTarget
<1>5. Apart'
    BY <1>2 DEF SerialInv, Apart
<1> QED
    BY <1>1, <1>2, <1>3, <1>4, <1>5, LoopSerial

\* The empty table asks nothing of the disk or of anybody.
LEMMA EmptyTableSerial ==
    /\ HoldersMayEdit(InitMetadata)
    /\ \A f : FindFileMetadata(InitMetadata, f) = NoSlot
<1>1. HoldersMayEdit(InitMetadata)
    BY DEF HoldersMayEdit, MayEdit, InitMetadata, EmptySlot
<1>2. \A f : Named(InitMetadata, f) = {}
    BY DEF Named, InitMetadata, EmptySlot
<1> QED
    BY <1>1, <1>2, FindIsNamed

\* The server as it starts: workers that are idle know all they need, and
\* write to nothing.
Started == meta = InitMetadata /\ \A w \in Worker : pc[w] = idle
LEMMA StartedSerial == Started /\ InodesApart => SerialInv
<1> SUFFICES ASSUME meta = InitMetadata, \A w \in Worker : pc[w] = idle, InodesApart
             PROVE  SerialInv
    BY DEF Started
<1>1. Apart
    BY DEF Apart
<1>2. Confined
    BY DEF Confined, InOwnFile, idle, WritesTarget
<1>3. \A w \in Worker : Known(w)
    BY PointsThatAskNothing, NothingAsked DEF Known
<1>4. \A f \in File : Kept(f)
    BY EmptyTableSerial DEF Kept
<1> QED
    BY <1>1, <1>2, <1>3, <1>4, EmptyTableSerial DEF SerialInv

\* It starts for the first time.
LEMMA InitSerial == Init => SerialInv
<1>1. Init => InodesApart
    BY DEF Init, DiskInit, InodesApart
<1> QED
    BY <1>1, StartedSerial DEF Init, Started

\* It starts after a crash, on the files it finds.
LEMMA RestartSerial == SerialInv /\ Restart => SerialInv'
<1>1. SerialInv /\ Restart => InodesApart'
    BY DEF Restart, SerialInv, Confined, InodesApart
<1>2. Restart => Started'
    BY DEF Restart, Started
<1> QED
    BY <1>1, <1>2, StartedSerial, PTL

\* A second server empties the table under the workers: there is nothing left
\* in it for them to be entitled to.
LEMMA StartTwiceSerial == ASSUME SerialInv, StartTwice PROVE SerialInv'
<1>1. UNCHANGED <<pc, task, reg, diskVars>> /\ meta' = InitMetadata
    BY DEF StartTwice
<1>2. Apart' /\ Confined'
    BY <1>1 DEF SerialInv, Apart, Confined, InodesApart, InOwnFile, diskVars
<1>3. ASSUME NEW w \in Worker PROVE Known(w)'
    <2>1. Known(w)
        BY DEF SerialInv
    <2>2. FindFileMetadata(meta', task[w].file) = NoSlot
        BY <1>1, EmptyTableSerial
    <2> QED
        BY <1>1, <2>1, <2>2 DEF Known, KnownAt, Entitled, NotBarred, diskVars
<1>4. \A f \in File : Kept(f)'
    BY <1>1, EmptyTableSerial DEF Kept
<1> QED
    BY <1>1, <1>2, <1>3, <1>4, EmptyTableSerial DEF SerialInv

\* Every step of the pool keeps the invariant.
LEMMA SerialStep == PerFileSerial /\ IInv /\ IInv' /\ SerialInv /\ [Next]_vars => SerialInv'
<1> SUFFICES ASSUME PerFileSerial, IInv, IInv', SerialInv, [Next]_vars PROVE SerialInv'
    OBVIOUS
<1>1. ASSUME NEW w \in Worker, WorkerStep(w) PROVE SerialInv'
    BY <1>1, ReceiveTaskSerial, ProcessTaskOwn, OwnSuffices, SendResponseSerial DEF WorkerStep
<1>2. CASE Tick \/ UNCHANGED vars
    <2>1. UNCHANGED <<meta, diskVars, pc, task, reg>>
        BY <1>2 DEF Tick, NoShared, vars, poolVars
    <2> QED
        BY <2>1 DEF SerialInv, Apart, Confined, InodesApart, InOwnFile, HoldersMayEdit, Kept, Known, diskVars
<1> QED
    BY <1>1, <1>2, RestartSerial, StartTwiceSerial DEF Next, Finished

\* The invariant holds when clients never overlap two requests for one file.
LEMMA SerialInductive == PerFileSerial => (Spec => [](IInv /\ SerialInv))
<1> SUFFICES ASSUME PerFileSerial PROVE Spec => [](IInv /\ SerialInv)
    OBVIOUS
<1>1. Init => IInv /\ SerialInv
    BY InitKeeps, InitSerial
<1>2. IInv /\ SerialInv /\ [Next]_vars => (IInv /\ SerialInv)'
    BY NextKeeps, SerialStep
<1> QED
    BY <1>1, <1>2, PTL DEF Spec

-----------------------------------------------------------------------------
(* What follows.                                                           *)

\* A step changes the live file of f.
Modified(f) == LiveBytes(f)' # LiveBytes(f) \/ Exists(Live(f))' # Exists(Live(f))

\* A step that leaves the path alone does not.
LEMMA StillUnmodified == ASSUME NEW f, Still(Live(f)) PROVE ~ Modified(f)
BY DEF Still, Modified, LiveBytes, Exists, Contents

\* Only a worker whose tests are behind it changes a live file, its own: not a
\* crash, which loses no written bytes, nor a second server.
LEMMA WhoModifies ==
    ASSUME IInv, IInv', SerialInv, [Next]_vars, NEW f \in File, Modified(f)
    PROVE  \E w \in Worker : task[w].file = f /\ pc[w] \in Changing /\ pc'[w] # pc[w]
<1>1. Live(f) \in Path /\ Live(f)[1] = f
    BY PathType, 0 \in Nat DEF Live
<1>2. ~ Still(Live(f))
    BY StillUnmodified
<1>3. ASSUME NEW w \in Worker, ProcessTask(w)
      PROVE  task[w].file = f /\ pc[w] \in Changing /\ pc'[w] # pc[w]
    <2>1. Effect(w)
        BY <1>3, ProcessTaskEffect DEF SerialInv
    <2>2. PICK from, to : Moves(w, from, to) /\ LiveEffect(w, from, to)
        BY <2>1 DEF Effect
    <2>3. task[w].file = f
        BY <1>1, <1>2, <2>1 DEF Effect, Spares
    <2>4. pc[w] = from /\ pc'[w] = to /\ from # to
        BY <2>2 DEF Moves, Goto, IInv, TypeOK
    <2> QED
        BY <1>2, <2>2, <2>3, <2>4 DEF LiveEffect
<1>4. UNCHANGED diskVars => Still(Live(f))
    BY DEF diskVars, Still
<1>5. CASE Restart
    <2>1. DiskTypeOK' /\ link' = link /\ Reclaim(bytes)
        BY <1>5 DEF Restart, IInv, TypeOK
    <2>2. \A p \in DOMAIN link : bytes'[link[p]] = bytes[link[p]]
        BY <2>1, LinkedKept
    <2> QED
        BY <1>2, <2>1, <2>2 DEF Still
<1> QED
    BY <1>2, <1>3, <1>4, <1>5
       DEF Next, WorkerStep, ReceiveTask, SendResponse, Tick, StartTwice, Finished, NoShared, vars

\* When clients never overlap two requests for one file, a file in the table
\* changes on disk only by a request of its owner or of an admin, although the
\* owner is asked steps before the write and an upload of a file that was not
\* in the table asks nobody (worker.c OP_UPLOAD, OP_DELETE, OP_ROLLBACK; and
\* OP_SAVE, which asks for the lock only: nobody else ever gets it).
THEOREM OwnersAlone == PerFileSerial => (Spec => OwnersOnlyModify)
<1> SUFFICES ASSUME PerFileSerial PROVE Spec => OwnersOnlyModify
    OBVIOUS
<1>1. ASSUME IInv, IInv', SerialInv, [Next]_vars, NEW f \in File, Active(f), Modified(f)
      PROVE  \E w \in Worker : /\ pc'[w] # pc[w]
                               /\ \/ Role[task[w].user] = "ADMIN"
                                  \/ task[w].user = meta[LockOf(f)].owner
    <2>1. PICK w \in Worker : task[w].file = f /\ pc[w] \in Changing /\ pc'[w] # pc[w]
        BY <1>1, WhoModifies
    <2>2. Entitled(meta, f, task[w].user)
        BY <1>1, <2>1 DEF SerialInv, Known, KnownAt, PastOwner
    <2> QED
        BY <1>1, <2>1, <2>2 DEF Entitled, Active, LockOf
<1>2. IInv /\ SerialInv /\ (IInv /\ SerialInv)' /\ [Next]_vars =>
        [\A f \in File :
            Active(f) /\ (LiveBytes(f)' # LiveBytes(f) \/ Exists(Live(f))' # Exists(Live(f)))
            => \E w \in Worker : /\ pc'[w] # pc[w]
                                 /\ \/ Role[task[w].user] = "ADMIN"
                                    \/ task[w].user = meta[LockOf(f)].owner]_vars
    BY <1>1 DEF Modified
<1> QED
    BY <1>2, SerialInductive, PTL DEF Spec, OwnersOnlyModify

\* When clients never overlap two requests for one file, the file changes on
\* disk only by its lock holder's own requests while the lock's time is not
\* up, although UPLOAD, DELETE and ROLLBACK test the lock steps before they
\* write, and each in a way of its own (worker.c; check_edit_lock).
THEOREM LockExcludes == PerFileSerial => (Spec => EditLockExcludesWrites)
<1> SUFFICES ASSUME PerFileSerial PROVE Spec => EditLockExcludesWrites
    OBVIOUS
<1>1. ASSUME IInv, IInv', SerialInv, [Next]_vars, NEW f \in File,
             Active(f), Fresh(meta[LockOf(f)], now), Modified(f)
      PROVE  \E w \in Worker : pc'[w] # pc[w] /\ task[w].user = meta[LockOf(f)].lockedBy
    <2>1. PICK w \in Worker : task[w].file = f /\ pc[w] \in Changing /\ pc'[w] # pc[w]
        BY <1>1, WhoModifies
    <2>2. NotBarred(meta, f, task[w].user)
        BY <1>1, <2>1 DEF SerialInv, Known, KnownAt, PastLock
    <2> QED
        BY <1>1, <2>1, <2>2 DEF NotBarred, Active, LockOf, Fresh
<1>2. IInv /\ SerialInv /\ (IInv /\ SerialInv)' /\ [Next]_vars =>
        [\A f \in File :
            Active(f) /\ Fresh(meta[LockOf(f)], now)
                      /\ (LiveBytes(f)' # LiveBytes(f) \/ Exists(Live(f))' # Exists(Live(f)))
            => \E w \in Worker : pc'[w] # pc[w] /\ task[w].user = meta[LockOf(f)].lockedBy]_vars
    BY <1>1 DEF Modified
<1> QED
    BY <1>2, SerialInductive, PTL DEF Spec, EditLockExcludesWrites

\* When clients never overlap two requests for one file, a file in the table
\* that nobody works on is on disk, whichever writes fail half way and however
\* often the server crashes: save_file makes the file before the entry is
\* added, and remove_file_from_storage takes it away before the entry goes.
THEOREM EntriesOnDisk == PerFileSerial => (Spec => []ActiveOnDisk)
<1> SUFFICES ASSUME PerFileSerial PROVE Spec => []ActiveOnDisk
    OBVIOUS
<1>1. IInv /\ SerialInv => ActiveOnDisk
    <2> SUFFICES ASSUME IInv, SerialInv, NEW f \in File, Quiet(f), Active(f), ~ Exists(Live(f))
                 PROVE  FALSE
        BY DEF ActiveOnDisk
    <2>1. PICK w \in Worker : task[w].file = f /\ pc[w] \in Leaving
        BY DEF SerialInv, Kept, Active, LockOf, Exists
    <2>2. w \in Serving(f)
        BY <2>1 DEF IInv, TypeOK, WorkerOK, Serving, Busy, Leaving, idle
    <2> QED
        BY <2>2 DEF Quiet
<1> QED
    BY <1>1, SerialInductive, PTL
=============================================================================
