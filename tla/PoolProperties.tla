---------------------------- MODULE PoolProperties ----------------------------
(***************************************************************************)
(* What the worker pool is meant to guarantee.  The first part holds under *)
(* every interleaving of the workers; the second when the clients never    *)
(* overlap two requests for one file, and the violation runs show that it  *)
(* takes that assumption; the third is promised by the documentation and   *)
(* not kept.                                                               *)
(***************************************************************************)
EXTENDS WorkerPool

Routine == Operations \cup {"main", "backup", "cleanup", "store", "restore", "load", "erase"}
Stage   == {"receive", "respond", "version", "dir", "mkdir", "open", "create", "read", "write",
            "list", "remove", "file", "versions", "check", "locker", "holder", "find", "owner",
            "unlocked", "acquire", "add", "undone", "unreadable", "forget", "update", "release",
            "failed", "show"}

RegisterSet == [ptr: Slot \cup {NoSlot}, ver: Nat, buf: Seq(Nat), off: Nat, size: Nat,
                victims: SUBSET Nat]

\* Response codes and the result a worker writes to the audit log.
ReplySet ==
    [status: {"none", "SUCCESS", "ERROR", "FILE_NOT_FOUND", "PERMISSION_DENIED", "FILE_LOCKED"},
     audit:  {"none", "SUCCESS", "ERROR", "NOT_FOUND", "VERSION_NOT_FOUND", "DENIED", "LOCKED",
              "LOCK_ACQUIRED", "NOT_LOCK_HOLDER", "UNLOCKED", "FAILED"}]

\* Where a worker follows its pointer, and where it uses its descriptors.
FollowsPointer == {"owner", "holder", "unlocked", "version"}
ReadsSource  == {<<"load", "read">>} \cup ({"backup", "restore"} \X {"create", "read", "write"})
WritesTarget == {<<"store", "write">>} \cup ({"backup", "restore"} \X {"read", "write"})

\* A worker at work on a task never follows a null pointer and never reads or
\* writes through a descriptor that is not open.
WorkerOK(w) ==
    /\ task[w] = NoTask <=> pc[w] = idle
    /\ pc[w][2] \in FollowsPointer => reg[w].ptr # NoSlot
    /\ pc[w] \in ReadsSource => fd[w].src # NoInode
    /\ pc[w] \in WritesTarget => fd[w].dst # NoInode

\* The type invariant: what each variable holds, and WorkerOK: process_task
\* and file_manager.c test what find_file_metadata and open return wherever
\* they go on to use it.
TypeOK ==
    /\ meta \in [Slot -> FileMetadata]
    /\ DiskTypeOK
    /\ pc \in [Worker -> Routine \X Stage]
    /\ task \in [Worker -> Task \cup {NoTask}]
    /\ reg \in [Worker -> RegisterSet]
    /\ reply \in [Worker -> ReplySet]
    /\ now \in Nat /\ left \in Nat /\ restarts \in Nat
    /\ \A w \in Worker : WorkerOK(w)

-----------------------------------------------------------------------------
(* Under every interleaving.                                               *)

\* However uploads, deletes and restarts interleave, the table never has two
\* entries for one file, and a slot that is free is not locked.
TableSound == Sound(meta)

\* MAX_VERSIONS: the backups of a file exceed the limit by no more than the
\* workers that have created one and not yet cleaned up after themselves, those
\* that a crash stopped in between included.
Saving(f) == {w \in Serving(f) :
                 pc[w] \in {<<"backup", "read">>, <<"backup", "write">>,
                            <<"cleanup", "list">>, <<"cleanup", "remove">>}}
Abandoned == Cardinality(Worker) * (MaxRestarts - restarts)
HistoryBounded ==
    \A f \in File :
        Cardinality(Stored(f)) <= MaxVersions + Cardinality(Saving(f)) + Abandoned

\* The pool implements the edit lock: what EditLock promises of a grant and
\* of its end is what the table, the clock and the workers do.
FilesIn(m)  == {f \in File : FindFileMetadata(m, f) # NoSlot}
HolderIn(m) == [f \in File |-> IF f \in FilesIn(m) THEN m[FindFileMetadata(m, f)].lockedBy
                                                   ELSE NoUser]
SinceIn(m)  == [f \in File |-> IF HolderIn(m)[f] # NoUser THEN m[FindFileMetadata(m, f)].lockedAt
                                                          ELSE 0]
Lock == INSTANCE EditLock WITH
    exists <- FilesIn(meta),
    holder <- HolderIn(meta),
    since  <- SinceIn(meta),
    asks   <- [w \in Worker |-> task[w].user],
    clock  <- now
ImplementsEditLock == Lock!Spec
-----------------------------------------------------------------------------
(* When requests for one file do not overlap.                              *)
LockOf(f) == FindFileMetadata(meta, f)
Quiet(f)  == Serving(f) = {}
Active(f) == LockOf(f) # NoSlot
Exists(p) == p \in DOMAIN link
LiveBytes(f) == IF Exists(Live(f)) THEN Contents(Live(f)) ELSE << >>

\* A file nobody is working on is in the table exactly when it is on disk, and
\* the table's size is its length, whichever way earlier requests failed.
TableMatchesDisk ==
    \A f \in File : Quiet(f) =>
        /\ Active(f) <=> Exists(Live(f))
        /\ Active(f) => meta[LockOf(f)].size = Len(LiveBytes(f))

\* Backups are numbered below the current version, or equal to it with the
\* current contents (a rollback that failed); a deleted file has none.  That
\* is what makes cleanup_old_versions remove the oldest and not the newest.
HistoryBehindCurrent ==
    \A f \in File : Quiet(f) => \A n \in Stored(f) :
        /\ Active(f)
        /\ \/ n < meta[LockOf(f)].version
           \/ n = meta[LockOf(f)].version /\ Contents(Version(f, n)) = LiveBytes(f)

\* No request empties a file whose contents are not among its backups.
NothingOverwrittenUnsaved ==
    [][\A f \in File :
        Exists(Live(f)) /\ Exists(Live(f))' /\ LiveBytes(f) # << >> /\ LiveBytes(f)' = << >>
        => \E n \in Stored(f)' : Contents(Version(f, n))' = LiveBytes(f)]_vars

\* What DOWNLOAD and EDIT hand out is a whole file some client sent.
DownloadWhole ==
    \A w \in Worker :
        pc[w] = respond /\ reply[w].status = "SUCCESS" /\ task[w].op \in {"DOWNLOAD", "EDIT"}
        => reg[w].buf \in Data

\* While a user holds the edit lock of a file and its time is not up, the file
\* on disk changes only by that user's own requests.
EditLockExcludesWrites ==
    [][\A f \in File :
        Active(f) /\ Fresh(meta[LockOf(f)], now)
                  /\ (LiveBytes(f)' # LiveBytes(f) \/ Exists(Live(f))' # Exists(Live(f)))
        => \E w \in Worker : pc'[w] # pc[w] /\ task[w].user = meta[LockOf(f)].lockedBy]_vars

\* The file on disk changes only by requests of its owner or of an admin.
OwnersOnlyModify ==
    [][\A f \in File :
        Active(f) /\ (LiveBytes(f)' # LiveBytes(f) \/ Exists(Live(f))' # Exists(Live(f)))
        => \E w \in Worker : /\ pc'[w] # pc[w]
                             /\ \/ Role[task[w].user] = "ADMIN"
                                \/ task[w].user = meta[LockOf(f)].owner]_vars

\* A file in the table that nobody is working on is on disk, also when writes
\* fail half way and when the server crashes and starts again.
ActiveOnDisk == \A f \in File : Quiet(f) /\ Active(f) => Exists(Live(f))
-----------------------------------------------------------------------------
(* Promised and not kept.                                                  *)

\* A rollback does not lose the version it was asked for.
RollbackKeepsItsTarget ==
    [][\A w \in Worker :
        task[w].op = "ROLLBACK" /\ pc'[w] # pc[w] /\ task'[w] = task[w]
            /\ Exists(Version(task[w].file, task[w].target))
        => Exists(Version(task[w].file, task[w].target))']_vars
=============================================================================
