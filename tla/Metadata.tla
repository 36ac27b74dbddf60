------------------------------- MODULE Metadata -------------------------------
(***************************************************************************)
(* The metadata table of metadata.c: an array of MaxFiles slots in shared  *)
(* memory.  Every function of metadata.c takes the one semaphore for its   *)
(* whole body, so each is one operator on the table m, applied in a single *)
(* step by the workers.  What is not protected, the use of the pointer     *)
(* find_file_metadata returns, is a step of its own in WorkerPool: a       *)
(* pointer is a slot number, and the slot it names may since have been     *)
(* released and given to another file.                                     *)
(***************************************************************************)
EXTENDS SyncTypes

CONSTANTS
    MaxFiles,     \* MAX_FILES
    LockTimeout   \* LOCK_TIMEOUT_SECS

ASSUME MetadataAssumption ==
    /\ MaxFiles \in Nat \ {0}
    /\ LockTimeout \in Nat

Slot   == 1 .. MaxFiles
NoSlot == 0                       \* the NULL find_file_metadata returns

\* FileMetadata: timestamps other than lock_acquired_at are only displayed.
FileMetadata ==
    [file: File \cup {NoFile}, owner: User \cup {NoUser}, version: Nat,
     size: Nat, active: BOOLEAN, lockedBy: User \cup {NoUser}, lockedAt: Nat]

EmptySlot ==
    [file |-> NoFile, owner |-> NoUser, version |-> 0, size |-> 0,
     active |-> FALSE, lockedBy |-> NoUser, lockedAt |-> 0]

InitMetadata == [i \in Slot |-> EmptySlot]

-----------------------------------------------------------------------------
Named(m, f) == {i \in Slot : m[i].active /\ m[i].file = f}
Vacant(m)   == {i \in Slot : ~ m[i].active}
First(S)    == CHOOSE i \in S : \A j \in S : i <= j

FindFileMetadata(m, f) ==
    IF Named(m, f) = {} THEN NoSlot ELSE First(Named(m, f))

\* Mutants: the size is forgotten; the version is forgotten.
UpdateVersionOnly(m, f, size) ==
    LET i == FindFileMetadata(m, f)
    IN  IF i = NoSlot THEN m ELSE [m EXCEPT ![i].version = @ + 1]
UpdateSizeOnly(m, f, size) ==
    LET i == FindFileMetadata(m, f)
    IN  IF i = NoSlot THEN m ELSE [m EXCEPT ![i].size = size]

UpdateFileMetadata(m, f, size) ==
    LET i == FindFileMetadata(m, f)
    IN  IF i = NoSlot THEN m
        ELSE [m EXCEPT ![i].version = @ + 1, ![i].size = size]

HasRoomFor(m, f) == Named(m, f) # {} \/ Vacant(m) # {}

\* Mutant: an entry of the same name is not looked for.
AddWithoutLookup(m, f, u, size) ==
    IF Vacant(m) = {} THEN m
    ELSE [m EXCEPT ![First(Vacant(m))] =
            [@ EXCEPT !.file = f, !.owner = u, !.version = 1, !.size = size,
                      !.active = TRUE, !.lockedBy = NoUser]]

\* add_file_metadata when HasRoomFor holds; lock_acquired_at and
\* locked_by_username of a reused slot keep their old values.
AddFileMetadata(m, f, u, size) ==
    IF Named(m, f) # {} THEN UpdateFileMetadata(m, f, size)
    ELSE [m EXCEPT ![First(Vacant(m))] =
            [@ EXCEPT !.file = f, !.owner = u, !.version = 1, !.size = size,
                      !.active = TRUE, !.lockedBy = NoUser]]

\* Mutant: the lock is cleared but the entry stays.
RemoveLockOnly(m, f) ==
    IF Named(m, f) = {} THEN m
    ELSE [m EXCEPT ![FindFileMetadata(m, f)] = [@ EXCEPT !.lockedBy = NoUser]]

RemoveFileMetadata(m, f) ==
    IF Named(m, f) = {} THEN m
    ELSE [m EXCEPT ![FindFileMetadata(m, f)] =
            [@ EXCEPT !.active = FALSE, !.lockedBy = NoUser]]

-----------------------------------------------------------------------------
\* A lock older than the timeout is stale: any user may take it over.
Stale(s, t) == s.lockedBy # NoUser /\ t - s.lockedAt > LockTimeout
Fresh(s, t) == s.lockedBy # NoUser /\ ~ Stale(s, t)

\* A fresh lock is left as it is, its time stamp too, even for its holder.
AcquireEditLock(m, f, u, t) ==
    LET i == FindFileMetadata(m, f)
    IN  IF i = NoSlot \/ Fresh(m[i], t) THEN m
        ELSE [m EXCEPT ![i] = [@ EXCEPT !.lockedBy = u, !.lockedAt = t]]

AcquireResult(m, f, u, t) ==
    LET i == FindFileMetadata(m, f)
    IN  CASE i = NoSlot                                  -> "absent"
          [] i # NoSlot /\ Fresh(m[i], t)
                        /\ m[i].lockedBy # u             -> "held"
          [] OTHER                                       -> "granted"

\* Mutant: whoever asks, the lock is released.
ReleaseAnyEditLock(m, f, u) ==
    LET i == FindFileMetadata(m, f)
    IN  IF i = NoSlot THEN m
        ELSE [m EXCEPT ![i] = [@ EXCEPT !.lockedBy = NoUser, !.lockedAt = 0]]

ReleaseEditLock(m, f, u) ==
    LET i == FindFileMetadata(m, f)
    IN  IF i = NoSlot \/ m[i].lockedBy # u THEN m
        ELSE [m EXCEPT ![i] = [@ EXCEPT !.lockedBy = NoUser, !.lockedAt = 0]]

ReleaseResult(m, f, u) ==
    LET i == FindFileMetadata(m, f)
    IN  CASE i = NoSlot                                  -> "absent"
          [] i # NoSlot /\ m[i].lockedBy \notin {NoUser, u} -> "held"
          [] OTHER                                       -> "released"

\* check_edit_lock: EditLocked is what it returns, CheckEditLock what it
\* leaves behind (a stale lock is cleared).
EditLockedWhenStale(m, f, t) ==      \* Mutant: the comparison is reversed.
    LET i == FindFileMetadata(m, f) IN i # NoSlot /\ Stale(m[i], t)

EditLocked(m, f, t) ==
    LET i == FindFileMetadata(m, f) IN i # NoSlot /\ Fresh(m[i], t)

CheckEditLock(m, f, t) ==
    LET i == FindFileMetadata(m, f)
    IN  IF i = NoSlot \/ ~ Stale(m[i], t) THEN m
        ELSE [m EXCEPT ![i] = [@ EXCEPT !.lockedBy = NoUser]]

-----------------------------------------------------------------------------
(* What every table must satisfy.                                          *)
UniqueNames(m) ==
    \A i, j \in Slot : m[i].active /\ m[j].active /\ m[i].file = m[j].file => i = j

LockedOnlyIfActive(m) == \A i \in Slot : ~ m[i].active => m[i].lockedBy = NoUser

Sound(m) == UniqueNames(m) /\ LockedOnlyIfActive(m)
=============================================================================
