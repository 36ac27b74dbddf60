---------------------------- MODULE ContentsProofs ----------------------------
(***************************************************************************)
(* What is in the files when clients never overlap two requests for one    *)
(* file, no write fails and no server crashes, for any number of workers,  *)
(* files, versions and blocks: the table agrees with the disk, the history *)
(* is behind the current version, what is handed out is what some client   *)
(* sent, and nothing is emptied that is not among the backups.             *)
(*                                                                         *)
(* Between requests a file is Settled.  A request unsettles its own file   *)
(* only, and the invariant says how far it has come: at each point of a    *)
(* copy, a store, a removal and of the change of the table that follows    *)
(* what of Settled is left, and what settles the file again.               *)
(***************************************************************************)
EXTENDS SerialProofs

-----------------------------------------------------------------------------
(* The routine a worker is in, and the operation it is in it for.          *)

\* The operations that call a routine.
Callers(r) ==
    CASE r \in {"backup", "cleanup"} -> {"UPLOAD", "SAVE", "ROLLBACK"}
      [] r = "store"                 -> {"UPLOAD", "SAVE"}
      [] r = "restore"               -> {"ROLLBACK"}
      [] r = "load"                  -> {"DOWNLOAD", "EDIT"}
      [] r = "erase"                 -> {"UPLOAD", "DELETE"}
      [] r = "main"                  -> Operations
      [] OTHER                       -> {r}
Showing == {"LIST", "VERSION", "HISTORY", "AUDIT"}

\* A worker at work has a task for the routine, and data to store if it stores.
Called(w) == pc[w] # idle => /\ task[w].op \in Callers(pc[w][1])
                             /\ pc[w][2] = "show" => task[w].op \in Showing
                             /\ task[w].op \in {"UPLOAD", "SAVE"} => task[w].data \in Data

\* A step from routine a to routine b.
Calls(w, a, b) == a # "main" /\ pc[w][1] = a /\ pc'[w][1] = b /\ pc'[w][2] # "show"

\* A step within a routine, or into one its task is for.
LEMMA CalledStep ==
    ASSUME IInv, NEW w \in Worker, Called(w), UNCHANGED task, NEW a, NEW b, Calls(w, a, b),
           task[w].op \in Callers(a) => task[w].op \in Callers(b)
    PROVE  Called(w)'
<1>1. pc[w] # idle
    BY DEF Calls, idle
<1> QED
    BY <1>1 DEF Called, Calls

\* Where a move leads.
LEMMA Moved ==
    ASSUME IInv, NEW w \in Worker
    PROVE  \A from, to : Goto(w, from, to) => pc[w] = from /\ pc'[w] = to /\ task' = task
BY DEF Goto, IInv, TypeOK

\* The routines of file_manager.c go on with what their task asks for.
LEMMA RoutinesCalled ==
    ASSUME IInv, NEW w \in Worker, Called(w),
           Backup(w) \/ Cleanup(w) \/ Store(w) \/ Restore(w) \/ Load(w) \/ Erase(w)
    PROVE  Called(w)'
<1> DEFINE op == task[w].op
<1>1. \A from, to : Goto(w, from, to) => pc[w] = from /\ pc'[w] = to /\ task' = task
    BY Moved
<1>2. ASSUME NEW r \in {"backup", "restore"}, NEW dst, NEW done, NEW failed,
             Copy(w, r, dst, done, failed)
      PROVE  /\ task' = task /\ pc[w][1] = r
             /\ \/ pc'[w][1] = r /\ pc'[w][2] # "show"
                \/ pc'[w] = done \/ pc'[w] = failed
    BY <1>1, <1>2 DEF Copy
<1>3. CASE Backup(w) \/ Cleanup(w)
    <2>1. /\ task' = task
          /\ \E a \in {"backup", "cleanup"} : \/ Calls(w, a, "backup") /\ a = "backup"
                                              \/ Calls(w, a, "cleanup")
                                              \/ pc[w][1] = a /\ pc'[w] = AfterBackup(w)
        BY <1>1, <1>2, <1>3 DEF Backup, Cleanup, Calls
    <2>2. PICK a \in {"backup", "cleanup"} : \/ Calls(w, a, "backup") /\ a = "backup"
                                             \/ Calls(w, a, "cleanup")
                                             \/ pc[w][1] = a /\ pc'[w] = AfterBackup(w)
        BY <2>1
    <2>3. CASE pc[w][1] = a /\ pc'[w] = AfterBackup(w)
        <3>1. Calls(w, a, IF op = "ROLLBACK" THEN "restore" ELSE "store")
            BY <2>3 DEF Calls, AfterBackup
        <3> QED
            BY <2>1, <3>1, CalledStep DEF Callers
    <2> QED
        BY <2>1, <2>2, <2>3, CalledStep DEF Callers
<1>4. CASE Store(w)
    <2>1. /\ task' = task
          /\ \E b \in {"store", "main", IF op = "UPLOAD" THEN "UPLOAD" ELSE "SAVE"} : Calls(w, "store", b)
        BY <1>1, <1>4 DEF Store, Answer, respond, AfterStore, Calls
    <2> QED
        BY <2>1, CalledStep DEF Callers, Operations
<1>5. CASE Restore(w)
    <2>1. task' = task /\ \E b \in {"restore", "ROLLBACK"} : Calls(w, "restore", b)
        BY <1>1, <1>2, <1>5 DEF Restore, Calls
    <2> QED
        BY <2>1, CalledStep DEF Callers
<1>6. CASE Load(w)
    <2>1. task' = task /\ \E b \in {"load", "main", op} : Calls(w, "load", b)
        BY <1>1, <1>6 DEF Load, Answer, respond, Calls
    <2> QED
        BY <2>1, CalledStep DEF Callers, Operations
<1>7. CASE Erase(w)
    <2>1. /\ task' = task
          /\ \E b \in {"erase", "main", IF op = "UPLOAD" THEN "UPLOAD" ELSE "DELETE"} : Calls(w, "erase", b)
        BY <1>1, <1>7 DEF Erase, Answer, respond, AfterErase, Calls
    <2> QED
        BY <2>1, CalledStep DEF Callers, Operations
<1> QED
    BY <1>3, <1>4, <1>5, <1>6, <1>7

\* The cases of process_task call the routines they need.
LEMMA CasesCalled ==
    ASSUME IInv, NEW w \in Worker, Called(w),
           \/ Upload(w) \/ Download(w) \/ Delete(w) \/ Edit(w) \/ Save(w) \/ Unlock(w)
           \/ Rollback(w) \/ DeleteVersion(w) \/ Show(w)
    PROVE  Called(w)'
<1> DEFINE op == task[w].op
<1>1. \A from, to : Goto(w, from, to) => pc[w] = from /\ pc'[w] = to /\ task' = task
    BY Moved
<1>2. CASE Upload(w)
    <2>1. task' = task /\ \E b \in {"UPLOAD", "main", "store", "backup", "erase"} : Calls(w, "UPLOAD", b)
        BY <1>1, <1>2 DEF Upload, OwnerOr, Answer, respond, Calls
    <2> QED
        BY <2>1, CalledStep DEF Callers, Operations
<1>3. CASE Download(w)
    <2>1. task' = task /\ \E b \in {"DOWNLOAD", "main", "load"} : Calls(w, "DOWNLOAD", b)
        BY <1>1, <1>3 DEF Download, Answer, respond, Calls
    <2> QED
        BY <2>1, CalledStep DEF Callers, Operations
<1>4. CASE Delete(w)
    <2>1. task' = task /\ \E b \in {"DELETE", "main", "erase"} : Calls(w, "DELETE", b)
        BY <1>1, <1>4 DEF Delete, FindOr, OwnerOr, UnlockedOr, Answer, respond, Calls
    <2> QED
        BY <2>1, CalledStep DEF Callers, Operations
<1>5. CASE Edit(w)
    <2>1. task' = task /\ \E b \in {"EDIT", "main", "load"} : Calls(w, "EDIT", b)
        BY <1>1, <1>5 DEF Edit, FindOr, OwnerOr, Answer, respond, Calls
    <2> QED
        BY <2>1, CalledStep DEF Callers, Operations
<1>6. CASE Save(w)
    <2>1. task' = task /\ \E b \in {"SAVE", "main", "backup"} : Calls(w, "SAVE", b)
        BY <1>1, <1>6 DEF Save, FindOr, Answer, respond, Calls
    <2> QED
        BY <2>1, CalledStep DEF Callers, Operations
<1>7. CASE Unlock(w)
    <2>1. task' = task /\ Calls(w, "UNLOCK", "main")
        BY <1>1, <1>7 DEF Unlock, Answer, respond, Calls
    <2> QED
        BY <2>1, CalledStep DEF Callers, Operations
<1>8. CASE Rollback(w)
    <2>1. task' = task /\ \E b \in {"ROLLBACK", "main", "backup"} : Calls(w, "ROLLBACK", b)
        BY <1>1, <1>8 DEF Rollback, FindOr, OwnerOr, UnlockedOr, Answer, respond, Calls
    <2> QED
        BY <2>1, CalledStep DEF Callers, Operations
<1>9. CASE DeleteVersion(w)
    <2>1. task' = task /\ \E b \in {"DELVERSION", "main"} : Calls(w, "DELVERSION", b)
        BY <1>1, <1>9 DEF DeleteVersion, FindOr, OwnerOr, Answer, respond, Calls
    <2> QED
        BY <2>1, CalledStep DEF Callers, Operations
<1>10. CASE Show(w)
    <2>1. pc[w] = <<op, "show">> /\ pc'[w] = respond /\ task' = task
        BY <1>1, <1>10 DEF Show, Answer
    <2>2. pc[w] # idle
        BY <2>1 DEF idle
    <2>3. op \in Operations
        BY <2>2, TaskType
    <2> QED
        BY <2>1, <2>2, <2>3 DEF Called, Callers, respond
<1> QED
    BY <1>2, <1>3, <1>4, <1>5, <1>6, <1>7, <1>8, <1>9, <1>10

\* So every step of a task stays in the routines the task is for.
LEMMA ProcessTaskCalled == ASSUME IInv, NEW w \in Worker, Called(w), ProcessTask(w) PROVE Called(w)'
BY RoutinesCalled, CasesCalled DEF ProcessTask

\* A new task starts where its operation does.
LEMMA ReceiveTaskCalled ==
    ASSUME IInv, NEW w \in Worker, ReceiveTask(w) PROVE Called(w)'
<1>1. PICK t \in Requests : /\ task' = [task EXCEPT ![w] = t]
                            /\ pc' = [pc EXCEPT ![w] = Entry(t.op)]
    BY DEF ReceiveTask
<1>2. task'[w] = t /\ pc'[w] = Entry(t.op)
    BY <1>1 DEF IInv, TypeOK
<1>3. t.op \in Operations
    BY <1>1, WorkerPoolAssumption DEF Requests
<1>4. /\ Entry(t.op)[1] = t.op
      /\ Entry(t.op)[2] = "show" => t.op \in Showing
    BY <1>3 DEF Entry, Showing
<1>5. t.op \in Callers(t.op)
    BY <1>3 DEF Callers, Operations
<1>6. t.op \in {"UPLOAD", "SAVE"} => t.data \in Data
    BY DEF Requests
<1> QED
    BY <1>2, <1>4, <1>5, <1>6 DEF Called

-----------------------------------------------------------------------------
(* The invariant.                                                          *)

Backups(f) == {p \in DOMAIN link : p[1] = f /\ p[2] # 0}
Current(f) == meta[LockOf(f)].version
Size(f)    == meta[LockOf(f)].size
Latest(f)  == Version(f, Current(f))

\* The backups of f are whole and not above the current version.
Older(f) == \A p \in Backups(f) : Active(f) /\ Contents(p) \in Data /\ p[2] <= Current(f) + 1

\* As f is between requests, but for a backup in X.
Settled(f, X) ==
    /\ Active(f) <=> Exists(Live(f))
    /\ Active(f) => Contents(Live(f)) \in Data /\ Size(f) = Len(Contents(Live(f)))
    /\ \A p \in Backups(f) \ X :
          /\ Active(f) /\ Contents(p) \in Data
          /\ p[2] <= Current(f) \/ (p = Latest(f) /\ Contents(p) = Contents(Live(f)))

\* How far a copy has come: its one block of all bytes is read, written, or not.
Copying(w, src, dst) ==
    /\ Exists(src) /\ Exists(dst) /\ fd[w].src = link[src] /\ fd[w].dst = link[dst]
    /\ Contents(src) \in Data
    /\ IF pc[w][2] = "write"
       THEN reg[w].off = 0 /\ Contents(dst) = << >> /\ reg[w].buf = Contents(src)
       ELSE \/ reg[w].off = 0 /\ Contents(dst) = << >>
            \/ reg[w].off = Len(Contents(src)) /\ Contents(dst) = Contents(src)

\* Where a request has the contents of its file, or the entry, in hand.
InCopy    == {"backup", "restore"} \X {"read", "write"}
Written   == {<<"UPLOAD", "add">>, <<"SAVE", "update">>}
Unsettled == InCopy \cup Written \cup Leaving \cup {<<"store", "write">>, <<"ROLLBACK", "update">>}

\* Where it knows more than that the file is as between requests.
Special == Unsettled \cup {<<"backup", s>> : s \in {"dir", "mkdir", "open", "create"}}
              \cup {<<"restore", "create">>, <<"load", "read">>, <<"erase", "file">>}

NeedsEntry(c, op) ==
    \/ c[2] \in FollowsPointer
    \/ c[1] \in {"backup", "cleanup", "restore"}
    \/ c[1] = "store" /\ op = "SAVE"
    \/ c \in {<<"SAVE", "update">>, <<"ROLLBACK", "update">>}

\* What it knows there: in save_version, save_file, restore_version, read_file,
\* remove_file_from_storage and what follows them.
InBackup(w) ==
    LET f == task[w].file  kept == Version(f, reg[w].ver)
    IN  /\ reg[w].ver = Current(f)
        /\ IF pc[w] \in InCopy THEN Settled(f, {kept}) /\ Copying(w, Live(f), kept)
                               ELSE reg[w].off = 0 /\ Settled(f, {})
        /\ pc[w][2] = "create" => fd[w].src = link[Live(f)]

InStore(w) ==
    LET f == task[w].file
    IN  /\ Older(f) /\ Exists(Live(f))
        /\ IF pc[w] \in Written THEN Contents(Live(f)) = task[w].data
           ELSE Contents(Live(f)) = << >> /\ fd[w].dst = link[Live(f)]

InRestore(w) ==
    LET f == task[w].file  old == Version(f, task[w].target)
    IN  IF pc[w] \in InCopy
        THEN Older(f) /\ Copying(w, old, Live(f)) /\ reg[w].size = Len(Contents(old))
        ELSE /\ Exists(old) /\ fd[w].src = link[old] /\ reg[w].size = Len(Contents(old))
             /\ reg[w].off = 0 /\ Settled(f, {})

Restored(w) ==
    LET f == task[w].file
    IN  /\ Older(f) /\ Exists(Live(f)) /\ Contents(Live(f)) \in Data
        /\ reg[w].size = Len(Contents(Live(f)))

InLoad(w) ==
    LET f == task[w].file
    IN  Settled(f, {}) /\ Exists(Live(f)) /\ fd[w].src = link[Live(f)]

InErase(w) ==
    LET f == task[w].file
    IN  CASE pc[w] = <<"erase", "file">> /\ task[w].op # "UPLOAD" -> Settled(f, {})
          [] pc[w] = <<"erase", "file">> /\ task[w].op = "UPLOAD" -> Backups(f) = {}
          [] pc[w] = <<"erase", "versions">> -> ~ Exists(Live(f))
          [] OTHER -> ~ Exists(Live(f)) /\ Backups(f) = {}

Midway(w) ==
    /\ pc[w][1] = "backup" => InBackup(w)
    /\ pc[w] \in Written \cup {<<"store", "write">>} => InStore(w)
    /\ pc[w][1] = "restore" => InRestore(w)
    /\ pc[w] = <<"ROLLBACK", "update">> => Restored(w)
    /\ pc[w][1] = "load" => InLoad(w)
    /\ pc[w] \in Leaving \cup {<<"erase", "file">>} => InErase(w)

Holding(w) ==
    /\ pc[w] \notin Special => Settled(task[w].file, {})
    /\ NeedsEntry(pc[w], task[w].op) => Active(task[w].file)
    /\ pc[w] \in Special => Midway(w)

HandsOut(w) == pc[w] = respond /\ reply[w].status = "SUCCESS" /\ task[w].op \in {"DOWNLOAD", "EDIT"}
                  => reg[w].buf \in Data

ContentsInv ==
    /\ \A f \in File : Quiet(f) => Settled(f, {})
    /\ \A w \in Worker : /\ Called(w) /\ HandsOut(w)
                         /\ pc[w] # idle => Holding(w)

-----------------------------------------------------------------------------
(* What steps leave as it is.                                              *)

\* From table m to table n the entry of f stays, but for its lock.
SameRow(m, n, f) ==
    LET i == FindFileMetadata(m, f)
    IN  /\ FindFileMetadata(n, f) = i
        /\ i # NoSlot => n[i].version = m[i].version /\ n[i].size = m[i].size

\* The live file stays, and so do the backups that stay, but for those in X.
FilesStay(f, X) ==
    /\ Still(Live(f))
    /\ \A p \in Backups(f)' \ X : p \in Backups(f) /\ Still(p)

\* All of f stays.
Undisturbed(f) == SameRow(meta, meta', f) /\ \A p : p[1] = f => Still(p)

\* An entry that stays keeps its version and its size.
LEMMA RowKept ==
    ASSUME NEW f, SameRow(meta, meta', f)
    PROVE  /\ Active(f)' <=> Active(f)
           /\ Active(f) => Current(f)' = Current(f) /\ Size(f)' = Size(f) /\ Latest(f)' = Latest(f)
BY DEF SameRow, Active, Current, Size, Latest, LockOf

\* A step that leaves the entry and the files of f leaves it settled.
LEMMA SettledKept ==
    ASSUME NEW f, NEW X, NEW Y, Y \subseteq X, SameRow(meta, meta', f), FilesStay(f, X), Settled(f, Y)
    PROVE  Settled(f, X)'
<1>1. /\ Active(f)' <=> Active(f)
      /\ Active(f) => Current(f)' = Current(f) /\ Size(f)' = Size(f) /\ Latest(f)' = Latest(f)
    BY RowKept
<1>2. /\ Exists(Live(f))' <=> Exists(Live(f))
      /\ Exists(Live(f)) => Contents(Live(f))' = Contents(Live(f))
    BY DEF FilesStay, Still, Exists, Contents
<1>3. \A p \in Backups(f)' \ X : p \in Backups(f) \ Y /\ Contents(p)' = Contents(p)
    BY DEF FilesStay, Still, Backups, Contents
<1> QED
    BY <1>1, <1>2, <1>3 DEF Settled

\* Nor do its backups rise above the version when they stay.
LEMMA OlderKept ==
    ASSUME NEW f, SameRow(meta, meta', f), Older(f),
           \A p \in Backups(f)' : p \in Backups(f) /\ Still(p)
    PROVE  Older(f)'
<1>1. /\ Active(f)' <=> Active(f)
      /\ Active(f) => Current(f)' = Current(f)
    BY RowKept
<1>2. \A p \in Backups(f)' : p \in Backups(f) /\ Contents(p)' = Contents(p)
    BY DEF Still, Backups, Contents
<1> QED
    BY <1>1, <1>2 DEF Older

\* A step that leaves all of f as it is.
LEMMA UndisturbedFiles ==
    ASSUME NEW f, Undisturbed(f)
    PROVE  /\ SameRow(meta, meta', f) /\ FilesStay(f, {})
           /\ \A p : p[1] = f => /\ Exists(p)' <=> Exists(p)
                                 /\ Exists(p) => Contents(p)' = Contents(p) /\ link'[p] = link[p]
           /\ Backups(f)' = Backups(f)
<1>1. Backups(f)' = Backups(f)
    <2>1. \A p : p \in Backups(f)' <=> p \in Backups(f)
        BY DEF Undisturbed, Still, Backups
    <2> QED
        BY <2>1
<1>2. Live(f)[1] = f /\ \A p \in Backups(f) : p[1] = f
    BY DEF Live, Backups
<1> QED
    BY <1>1, <1>2 DEF Undisturbed, FilesStay, Still, Exists, Contents

\* What holds of a worker that stands still, and of its file, stays.
LEMMA HoldingKept ==
    ASSUME NEW w, Undisturbed(task[w].file), Holding(w),
           task'[w] = task[w], pc'[w] = pc[w], reg'[w] = reg[w], fd'[w] = fd[w]
    PROVE  Holding(w)'
<1>0. PICK f, kept, old : /\ f = task[w].file
                         /\ kept = Version(f, reg[w].ver) /\ old = Version(f, task[w].target)
    OBVIOUS
<1>1. /\ \A p : p[1] = f => /\ Exists(p)' <=> Exists(p)
                            /\ Exists(p) => Contents(p)' = Contents(p) /\ link'[p] = link[p]
      /\ Backups(f)' = Backups(f)
      /\ SameRow(meta, meta', f) /\ FilesStay(f, {})
    BY <1>0, UndisturbedFiles
<1>2. Live(f)[1] = f /\ kept[1] = f /\ old[1] = f
    BY <1>0 DEF Live, Version
<1>3. /\ Active(f)' <=> Active(f)
      /\ Active(f) => Current(f)' = Current(f)
    BY <1>1, RowKept
<1>4. \A X \in {{}, {kept}} : Settled(f, X) => Settled(f, X)'
    <2> SUFFICES ASSUME NEW X \in {{}, {kept}}, Settled(f, X) PROVE Settled(f, X)'
        OBVIOUS
    <2>1. FilesStay(f, X)
        BY <1>1 DEF FilesStay
    <2> QED
        BY <1>1, <2>1, SettledKept
<1>5. Older(f) => Older(f)'
    <2>1. \A p \in Backups(f)' : p \in Backups(f) /\ Still(p)
        BY <1>1 DEF FilesStay
    <2> QED
        BY <1>1, <2>1, OlderKept
<1>6. \A p, q : p[1] = f /\ q[1] = f /\ Copying(w, p, q) => Copying(w, p, q)'
    BY <1>1 DEF Copying
<1>7. task'[w].file = f /\ Version(task'[w].file, reg'[w].ver) = kept /\ Version(f, task'[w].target) = old
    BY <1>0
<1>8. \A p \in {Live(f), kept, old} : /\ Exists(p)' <=> Exists(p)
                                      /\ Exists(p) => Contents(p)' = Contents(p) /\ link'[p] = link[p]
    BY <1>1, <1>2
<1>9. Settled(f, {}) /\ Active(f) => Exists(Live(f))
    BY DEF Settled
<1>10. InBackup(w) /\ Active(f) => InBackup(w)'
    <2>1. Copying(w, Live(f), kept) => Copying(w, Live(f), kept)'
        BY <1>2, <1>6
    <2>2. Settled(f, {}) => Settled(f, {})'
        BY <1>4
    <2>3. Settled(f, {kept}) => Settled(f, {kept})'
        BY <1>4
    <2>4. Settled(f, {}) /\ Active(f) => link'[Live(f)] = link[Live(f)]
        BY <1>8, <1>9
    <2>5. CASE pc[w] \in InCopy
        <3>1. pc[w][2] # "create"
            BY <2>5 DEF InCopy
        <3> QED
            BY <1>0, <1>3, <1>7, <2>1, <2>3, <2>5, <3>1 DEF InBackup
    <2>6. CASE pc[w] \notin InCopy
        BY <1>0, <1>3, <1>7, <2>2, <2>4, <2>6 DEF InBackup
    <2> QED
        BY <2>5, <2>6
<1>11. InStore(w) => InStore(w)'
    BY <1>0, <1>5, <1>7, <1>8 DEF InStore
<1>12. InRestore(w) => InRestore(w)'
    <2>1. Copying(w, old, Live(f)) => Exists(old)
        BY DEF Copying
    <2> QED
        BY <1>0, <1>2, <1>4, <1>5, <1>6, <1>7, <1>8, <2>1 DEF InRestore
<1>13. Restored(w) => Restored(w)'
    BY <1>0, <1>5, <1>7, <1>8 DEF Restored
<1>14. InLoad(w) => InLoad(w)'
    BY <1>0, <1>4, <1>7, <1>8 DEF InLoad
<1>15. InErase(w) => InErase(w)'
    BY <1>0, <1>1, <1>4, <1>7, <1>8 DEF InErase
<1>16. pc[w][1] = "backup" => Active(f)
    BY <1>0 DEF Holding, NeedsEntry
<1>17. pc[w] \in Special => Midway(w)'
    BY <1>10, <1>11, <1>12, <1>13, <1>14, <1>15, <1>16 DEF Holding, Midway
<1> QED
    BY <1>0, <1>3, <1>4, <1>7, <1>17 DEF Holding

-----------------------------------------------------------------------------
(* A step unsettles no file but its own.                                   *)

\* Nor does it answer for another worker.
LEMMA OthersReplies ==
    ASSUME IInv, NEW w \in Worker, ProcessTask(w), NEW v \in Worker, v # w
    PROVE  reply'[v] = reply[v]
<1> DEFINE Same == UNCHANGED reply \/ \E r : reply' = [reply EXCEPT ![w] = r]
<1>0. /\ UNCHANGED reply => Same
      /\ \A r : Registers(w, r) => Same
      /\ \A from, status, audit : Answer(w, from, status, audit) => Same
    BY DEF Registers, Answer
<1> SUFFICES Same
    BY DEF IInv, TypeOK
<1> HIDE DEF Same
<1>1. ASSUME NEW r, NEW dst, NEW done, NEW failed, Copy(w, r, dst, done, failed) PROVE Same
    BY <1>0, <1>1 DEF Copy
<1>2. ASSUME NEW op, NEW s, NEW to, NEW audit,
             FindOr(w, <<op, s>>, to, audit) \/ OwnerOr(w, <<op, s>>, to) \/ UnlockedOr(w, op, to, audit)
      PROVE  Same
    BY <1>0, <1>2 DEF FindOr, OwnerOr, UnlockedOr
<1>3. CASE Upload(w)
    BY <1>0, <1>2, <1>3 DEF Upload
<1>4. CASE Download(w) \/ Delete(w) \/ Edit(w)
    BY <1>0, <1>2, <1>4 DEF Download, Delete, Edit
<1>5. CASE Save(w) \/ Unlock(w) \/ Rollback(w) \/ DeleteVersion(w) \/ Show(w)
    BY <1>0, <1>2, <1>5 DEF Save, Unlock, Rollback, DeleteVersion, Show
<1>6. CASE Backup(w) \/ Cleanup(w) \/ Restore(w)
    BY <1>0, <1>1, <1>6 DEF Backup, Cleanup, Restore
<1>7. CASE Store(w) \/ Load(w) \/ Erase(w)
    BY <1>0, <1>7 DEF Store, Load, Erase
<1> QED
    BY <1>3, <1>4, <1>5, <1>6, <1>7 DEF ProcessTask

\* The files of other names and their entries stay.
LEMMA OthersUndisturbed ==
    ASSUME IInv, IInv', SerialInv, NEW w \in Worker, ProcessTask(w), NEW g, g # task[w].file
    PROVE  Undisturbed(g)
<1>1. SameRow(meta, meta', g)
    BY TableFrame DEF SameEntry, SameRow
<1>2. Effect(w)
    BY ProcessTaskEffect DEF SerialInv
<1>3. \A p : p[1] = g => Still(p)
    <2>1. \A p \in Path : p[1] = g => Still(p)
        BY <1>2 DEF Effect, Spares
    <2>2. \A p : p \notin Path => Still(p)
        BY DEF IInv, TypeOK, DiskTypeOK, Still
    <2> QED
        BY <2>1, <2>2
<1> QED
    BY <1>1, <1>3 DEF Undisturbed

\* So a step has to keep what is said of its own worker and file.
LEMMA OwnContents ==
    ASSUME IInv, IInv', SerialInv, ContentsInv, NEW w \in Worker, ProcessTask(w),
           Holding(w)', HandsOut(w)'
    PROVE  ContentsInv'
<1>1. OwnTableStep(w) /\ Effect(w)
    BY ProcessTaskTable, ProcessTaskEffect DEF SerialInv
<1>2. PICK from, to : Moves(w, from, to)
    BY <1>1 DEF Effect
<1>3. /\ task' = task /\ pc[w] # idle
      /\ \A v \in Worker \ {w} : pc'[v] = pc[v] /\ reg'[v] = reg[v] /\ fd'[v] = fd[v]
    BY <1>1, <1>2 DEF Moves, Goto, OwnTableStep, OthersKeep, IInv, TypeOK
<1>4. ASSUME NEW g \in File, Quiet(g)' PROVE Settled(g, {})'
    <2>1. w \notin Serving(g)' /\ w \in Busy' /\ Quiet(g)
        BY <1>3, <1>4 DEF Quiet, Serving, Busy, IInv, TypeOK, WorkerOK
    <2>2. g # task[w].file
        BY <1>3, <2>1 DEF Serving, Busy
    <2>3. Undisturbed(g)
        BY <2>2, OthersUndisturbed
    <2> QED
        BY <2>1, <2>3, UndisturbedFiles, SettledKept DEF ContentsInv
<1>5. ASSUME NEW v \in Worker, v # w
      PROVE  Called(v)' /\ HandsOut(v)' /\ (pc'[v] # idle => Holding(v)')
    <2>1. reply'[v] = reply[v]
        BY <1>5, OthersReplies
    <2>2. Called(v)' /\ HandsOut(v)'
        BY <1>3, <1>5, <2>1 DEF ContentsInv, Called, HandsOut
    <2>3. ASSUME pc'[v] # idle PROVE Holding(v)'
        <3>1. pc[v] # idle /\ Holding(v)
            BY <1>3, <1>5, <2>3 DEF ContentsInv
        <3>2. task[v].file # task[w].file
            BY <1>3, <1>5, <3>1 DEF SerialInv, Apart
        <3>3. Undisturbed(task[v].file)
            BY <3>2, OthersUndisturbed
        <3> QED
            BY <1>3, <1>5, <3>1, <3>3, HoldingKept
    <2> QED
        BY <2>2, <2>3
<1>6. Called(w)'
    BY ProcessTaskCalled DEF ContentsInv
<1> QED
    BY <1>4, <1>5, <1>6 DEF ContentsInv

-----------------------------------------------------------------------------
(* Bytes.                                                                  *)

\* What clients send is a sequence of blocks, and not empty.
LEMMA DataType == ASSUME NEW d \in Data PROVE d \in Seq(Nat) /\ Len(d) \in Nat /\ d # << >>
<1>1. d \in Seq(Nat \ {Hole}) /\ d # << >>
    BY WorkerPoolAssumption
<1>2. Len(d) \in Nat /\ DOMAIN d = 1 .. Len(d) /\ d = [i \in 1 .. Len(d) |-> d[i]]
    BY <1>1
<1>3. \A i \in 1 .. Len(d) : d[i] \in Nat
    BY <1>1, ElementOfSeq
<1>4. [i \in 1 .. Len(d) |-> d[i]] \in [1 .. Len(d) -> Nat]
    BY <1>3
<1>5. d \in [1 .. Len(d) -> Nat]
    BY <1>2, <1>4
<1> QED
    BY <1>1, <1>2, <1>5

\* One write of all bytes to an empty file.
LEMMA WriteWhole == ASSUME NEW d \in Seq(Nat) PROVE WriteAt(<< >>, 0, d) = d
<1>1. Len(d) \in Nat /\ Len(<< >>) = 0 /\ d = [k \in 1 .. Len(d) |-> d[k]]
    OBVIOUS
<1> DEFINE end == IF Len(<< >>) > 0 + Len(d) THEN Len(<< >>) ELSE 0 + Len(d)
           e(k) == IF k > 0 /\ k <= 0 + Len(d) THEN d[k - 0]
                   ELSE IF k <= Len(<< >>) THEN << >>[k] ELSE Hole
<1>2. end = Len(d)
    BY <1>1
<1>3. \A k \in 1 .. Len(d) : k > 0 /\ k <= 0 + Len(d) /\ k - 0 = k
    BY <1>1
<1>4. \A k \in 1 .. Len(d) : e(k) = d[k]
    BY <1>3
<1> HIDE DEF e, end
<1>5. [k \in 1 .. end |-> e(k)] = [k \in 1 .. Len(d) |-> d[k]]
    BY <1>2, <1>4
<1>6. [k \in 1 .. end |-> e(k)] = d
    BY <1>1, <1>5
<1> QED
    BY <1>6 DEF WriteAt, e, end

\* One read of all bytes from the start, and of none from the end.
LEMMA ReadWhole ==
    ASSUME NEW d \in Seq(Nat)
    PROVE  SubSeq(d, 0 + 1, Len(d)) = d /\ SubSeq(d, Len(d) + 1, Len(d)) = << >>
<1>1. Len(d) \in Nat /\ d = [k \in 1 .. Len(d) |-> d[k]]
    OBVIOUS
<1>2. Len(d) + 1 > Len(d) /\ 0 + 1 = 1
    BY <1>1
<1>3. SubSeq(d, 1, Len(d)) = d
    BY <1>1
<1>4. SubSeq(d, Len(d) + 1, Len(d)) = << >>
    BY <1>1, <1>2
<1> QED
    BY <1>2, <1>3, <1>4

\* The bytes at the one path a worker has open for writing, after its write.
LEMMA WrittenContents ==
    ASSUME DiskTypeOK, DiskTypeOK', NEW w \in Worker, NEW off, NEW d, NEW p \in DOMAIN link,
           link[p] = fd[w].dst, Write(w, off, d) \/ WriteAndClose(w, off, d)
    PROVE  p \in DOMAIN link' /\ link'[p] = link[p] /\ Contents(p)' = WriteAt(Contents(p), off, d)
<1> DEFINE b == [bytes EXCEPT ![fd[w].dst] = WriteAt(@, off, d)]
<1>1. link' = link /\ link[p] \in Inode
    BY DEF Write, WriteAndClose, DiskTypeOK
<1>2. b[link[p]] = WriteAt(bytes[link[p]], off, d)
    BY <1>1 DEF DiskTypeOK
<1>3. bytes' = b \/ Reclaim(b)
    BY DEF Write, WriteAndClose
<1> HIDE DEF b
<1>4. bytes'[link[p]] = b[link[p]]
    BY <1>1, <1>3, LinkedKept
<1> QED
    BY <1>1, <1>2, <1>4 DEF Contents

\* The bytes a worker reads are those at the path it opened.
LEMMA OpenedSource ==
    ASSUME DiskTypeOK, NEW w \in Worker, NEW p, OpenRead(w, p)
    PROVE  Exists(p)' /\ Exists(p) /\ fd'[w].src = link'[p] /\ link'[p] = link[p]
BY DEF OpenRead, Exists, DiskTypeOK

-----------------------------------------------------------------------------
(* Table rows.                                                             *)

\* From table m to table n the entry of f is left, with one more version
\* and the given size.
NextRow(m, n, f, size) ==
    LET i == FindFileMetadata(n, f)
    IN  /\ i # NoSlot /\ n[i].size = size
        /\ FindFileMetadata(m, f) # NoSlot
              => n[i].version = m[FindFileMetadata(m, f)].version + 1

\* The lock's functions leave an entry but for its lock; the others make the
\* next version.
LEMMA RowEffects ==
    ASSUME NEW m \in Table, Sound(m), NEW f \in File, NEW u \in User, NEW t \in Nat, NEW size \in Nat
    PROVE  /\ SameRow(m, m, f)
           /\ SameRow(m, CheckEditLock(m, f, t), f)
           /\ SameRow(m, AcquireEditLock(m, f, u, t), f)
           /\ SameRow(m, ReleaseEditLock(m, f, u), f)
           /\ FindFileMetadata(m, f) # NoSlot => NextRow(m, UpdateFileMetadata(m, f, size), f, size)
           /\ HasRoomFor(m, f) => NextRow(m, AddFileMetadata(m, f, u, size), f, size)
<1> DEFINE i == FindFileMetadata(m, f)
<1>1. /\ FindFileMetadata(CheckEditLock(m, f, t), f) = i
      /\ FindFileMetadata(AcquireEditLock(m, f, u, t), f) = i
      /\ FindFileMetadata(ReleaseEditLock(m, f, u), f) = i
      /\ FindFileMetadata(UpdateFileMetadata(m, f, size), f) = i
    BY EntriesAppear
<1>2. ASSUME i # NoSlot
      PROVE  i \in Slot /\ m[i] \in FileMetadata /\ DOMAIN m = Slot
    BY <1>2, FindIsNamed DEF Table
<1>3. SameRow(m, m, f)
    BY DEF SameRow
<1>4. SameRow(m, CheckEditLock(m, f, t), f)
    <2>1. i # NoSlot => CheckEditLock(m, f, t)[i] \in {m[i], [m[i] EXCEPT !.lockedBy = NoUser]}
        BY <1>2 DEF CheckEditLock
    <2>2. i # NoSlot => /\ CheckEditLock(m, f, t)[i].version = m[i].version
                        /\ CheckEditLock(m, f, t)[i].size = m[i].size
        BY <1>2, <2>1 DEF FileMetadata
    <2> QED
        BY <1>1, <2>2 DEF SameRow
<1>5. SameRow(m, AcquireEditLock(m, f, u, t), f)
    <2>1. i # NoSlot => AcquireEditLock(m, f, u, t)[i]
                           \in {m[i], [m[i] EXCEPT !.lockedBy = u, !.lockedAt = t]}
        BY <1>2 DEF AcquireEditLock
    <2>2. i # NoSlot => /\ AcquireEditLock(m, f, u, t)[i].version = m[i].version
                        /\ AcquireEditLock(m, f, u, t)[i].size = m[i].size
        BY <1>2, <2>1 DEF FileMetadata
    <2> QED
        BY <1>1, <2>2 DEF SameRow
<1>6. SameRow(m, ReleaseEditLock(m, f, u), f)
    <2>1. i # NoSlot => ReleaseEditLock(m, f, u)[i]
                           \in {m[i], [m[i] EXCEPT !.lockedBy = NoUser, !.lockedAt = 0]}
        BY <1>2 DEF ReleaseEditLock
    <2>2. i # NoSlot => /\ ReleaseEditLock(m, f, u)[i].version = m[i].version
                        /\ ReleaseEditLock(m, f, u)[i].size = m[i].size
        BY <1>2, <2>1 DEF FileMetadata
    <2> QED
        BY <1>1, <2>2 DEF SameRow
<1>7. ASSUME i # NoSlot PROVE NextRow(m, UpdateFileMetadata(m, f, size), f, size)
    <2>1. UpdateFileMetadata(m, f, size)[i] = [m[i] EXCEPT !.version = @ + 1, !.size = size]
        BY <1>2, <1>7 DEF UpdateFileMetadata, FileMetadata
    <2>2. /\ UpdateFileMetadata(m, f, size)[i].version = m[i].version + 1
          /\ UpdateFileMetadata(m, f, size)[i].size = size
        BY <1>2, <1>7, <2>1 DEF FileMetadata
    <2> QED
        BY <1>1, <1>7, <2>2 DEF NextRow
<1>8. ASSUME HasRoomFor(m, f) PROVE NextRow(m, AddFileMetadata(m, f, u, size), f, size)
    <2>1. CASE i # NoSlot
        BY <1>7, <2>1, FindIsNamed DEF AddFileMetadata
    <2>2. CASE i = NoSlot
        <3> DEFINE j == First(Vacant(m))
                   s == [m[j] EXCEPT !.file = f, !.owner = u, !.version = 1, !.size = size,
                                     !.active = TRUE, !.lockedBy = NoUser]
                   n == AddFileMetadata(m, f, u, size)
        <3>1. Named(m, f) = {}
            BY <2>2, FindIsNamed
        <3>2. j \in Vacant(m)
            <4>1. Vacant(m) \in SUBSET Slot /\ Vacant(m) # {}
                BY <1>8, <3>1 DEF HasRoomFor, Vacant
            <4> QED
                BY <4>1, FirstIsLeast
        <3>3. j \in Slot /\ m[j] \in FileMetadata /\ DOMAIN m = Slot
            BY <3>2 DEF Vacant, Table
        <3>4. n = [m EXCEPT ![j] = s]
            BY <3>1, <3>3 DEF AddFileMetadata
        <3>5. s.active /\ s.file = f /\ s.size = size
            BY <3>3 DEF FileMetadata
        <3> HIDE DEF n, s, j
        <3>6. n[j] = s /\ \A k \in Slot : k # j => n[k] = m[k]
            BY <3>3, <3>4
        <3>7. Named(n, f) = {j}
            BY <3>1, <3>3, <3>5, <3>6 DEF Named
        <3>8. FindFileMetadata(n, f) = j /\ j # NoSlot
            BY <3>3, <3>7, FindIsNamed DEF Named, Slot, NoSlot
        <3>9. NextRow(m, n, f, size)
            BY <2>2, <3>5, <3>6, <3>8 DEF NextRow
        <3> QED
            BY <3>9 DEF n
    <2> QED
        BY <2>1, <2>2
<1> QED
    BY <1>3, <1>4, <1>5, <1>6, <1>7, <1>8

-----------------------------------------------------------------------------
(* Steps that leave the file settled.                                      *)

\* Where a file is settled while a request is at work on it.
LEMMA SettledThere ==
    ASSUME NEW w, Holding(w), pc[w] \notin Unsettled,
           pc[w] = <<"erase", "file">> => task[w].op # "UPLOAD"
    PROVE  Settled(task[w].file, {})
<1>1. CASE pc[w] \notin Special
    BY <1>1 DEF Holding
<1>2. CASE pc[w] \in Special
    <2>1. pc[w] \notin InCopy
        BY DEF Unsettled
    <2>2. \/ pc[w][1] = "backup" \/ pc[w] = <<"restore", "create">> \/ pc[w] = <<"load", "read">>
          \/ pc[w] = <<"erase", "file">>
        BY <1>2 DEF Special
    <2>3. Midway(w)
        BY <1>2 DEF Holding
    <2>4. CASE pc[w][1] = "backup"
        BY <2>1, <2>3, <2>4 DEF Midway, InBackup
    <2>5. CASE pc[w] = <<"restore", "create">>
        BY <2>1, <2>3, <2>5 DEF Midway, InRestore
    <2>6. CASE pc[w] = <<"load", "read">>
        BY <2>3, <2>6 DEF Midway, InLoad
    <2>7. CASE pc[w] = <<"erase", "file">>
        BY <2>3, <2>7 DEF Midway, InErase
    <2> QED
        BY <2>2, <2>4, <2>5, <2>6, <2>7
<1> QED
    BY <1>1, <1>2

\* A step to a point that knows no more than that the file is settled.
LEMMA QuietStep ==
    ASSUME IInv, NEW w \in Worker, NEW from, NEW to, Goto(w, from, to), to \notin Special,
           NeedsEntry(to, task[w].op) => Active(task[w].file),
           SameRow(meta, meta', task[w].file), FilesStay(task[w].file, {}),
           Settled(task[w].file, {})
    PROVE  Holding(w)'
<1>1. PICK f : f = task[w].file
    OBVIOUS
<1>2. pc'[w] = to /\ task' = task
    BY Moved
<1>3. Settled(f, {})'
    BY <1>1, SettledKept
<1>4. Active(f)' <=> Active(f)
    BY <1>1, RowKept
<1> QED
    BY <1>1, <1>2, <1>3, <1>4 DEF Holding

\* The change of the table that settles a file again: what is on disk is the
\* next version.
LEMMA Resettled ==
    ASSUME NEW f, NEW size, IInv, NextRow(meta, meta', f, size), NoStore, Older(f), Exists(Live(f)),
           Contents(Live(f)) \in Data, size = Len(Contents(Live(f)))
    PROVE  Settled(f, {})' /\ Active(f)'
<1>1. /\ Active(f)' /\ Size(f)' = size
      /\ Active(f) => Current(f)' = Current(f) + 1 
    BY DEF NextRow, Active, Current, Size, LockOf
<1>2. /\ Backups(f)' = Backups(f) /\ Exists(Live(f))' /\ Contents(Live(f))' = Contents(Live(f))
      /\ \A p : Contents(p)' = Contents(p)
    BY DEF NoStore, diskVars, Backups, Exists, Contents
<1>3. \A p \in Backups(f) : Contents(p) \in Data /\ p[2] <= Current(f)'
    BY <1>1 DEF Older
<1> QED
    BY <1>1, <1>2, <1>3 DEF Settled

-----------------------------------------------------------------------------
(* file_manager.c                                                          *)

\* What a step owes.
Contained(w) == Holding(w)' /\ HandsOut(w)'

\* What it may use.
LEMMA WorkFacts ==
    ASSUME IInv, IInv', SerialInv, ContentsInv, NEW w \in Worker, ProcessTask(w)
    PROVE  /\ Called(w) /\ Holding(w) /\ Known(w) /\ pc[w] # idle
           /\ InodesApart /\ DiskTypeOK /\ DiskTypeOK'
           /\ task[w].op \in Callers(pc[w][1])
           /\ task[w].op \in {"UPLOAD", "SAVE"} => task[w].data \in Data
           /\ NeedsEntry(pc[w], task[w].op) => Active(task[w].file)
           /\ pc[w] \in Special => Midway(w)
           /\ task[w].file \in File /\ task[w].target \in Nat /\ reg[w].ver \in Nat
<1>1. pc[w] # idle
    BY ProcessTaskTable DEF OwnTableStep
<1>2. Called(w) /\ Holding(w) /\ Known(w)
    BY <1>1 DEF ContentsInv, SerialInv
<1>3. InodesApart /\ DiskTypeOK /\ DiskTypeOK' /\ reg[w].ver \in Nat
    BY DEF SerialInv, Confined, IInv, TypeOK, RegisterSet
<1> QED
    BY <1>1, <1>2, <1>3, TaskType DEF Called, Holding

\* An answer that hands nothing out.
LEMMA NothingHandedOut ==
    ASSUME IInv, NEW w \in Worker, NEW from, NEW to, Goto(w, from, to),
           \/ to # respond \/ task[w].op \notin {"DOWNLOAD", "EDIT"}
           \/ \E status, audit : Answer(w, from, status, audit) /\ status # "SUCCESS"
    PROVE  HandsOut(w)'
<1>1. pc'[w] = to /\ task' = task
    BY Moved
<1>2. ASSUME NEW status, NEW audit, Answer(w, from, status, audit) PROVE reply'[w].status = status
    BY <1>2 DEF Answer, IInv, TypeOK
<1> QED
    BY <1>1, <1>2 DEF HandsOut

\* Calls that write nothing leave all files as they are.
LEMMA StillFiles ==
    ASSUME NEW f, \A p : Still(p) PROVE FilesStay(f, {}) /\ Backups(f)' = Backups(f)
<1>1. \A p : p \in Backups(f)' <=> p \in Backups(f)
    BY DEF Still, Backups
<1> QED
    BY <1>1 DEF FilesStay

\* So do removals the files that are not removed.
LEMMA RestStays ==
    ASSUME DiskTypeOK, DiskTypeOK', NEW P, Unlink(P), NEW f
    PROVE  /\ DOMAIN link' = DOMAIN link \ P
           /\ Live(f) \notin P => FilesStay(f, {})
<1>1. NothingWritten /\ \A p : p \notin P => Still(p)
    BY UnlinkWritesNothing
<1>2. DOMAIN link' = DOMAIN link \ P
    BY DEF Unlink, Restrict
<1>3. \A p \in Backups(f)' : p \in Backups(f) /\ Still(p)
    BY <1>1 DEF Backups, NothingWritten
<1> QED
    BY <1>1, <1>2, <1>3 DEF FilesStay

\* copy_file: its two loops of one block are a copy of the whole file.
LEMMA CopyCopies ==
    ASSUME IInv, IInv', InodesApart, ~ DiskMayFail, NEW w \in Worker,
           NEW r \in {"backup", "restore"}, NEW src \in Path, NEW dst \in Path, src # dst,
           NEW done, NEW failed, Copy(w, r, dst, done, failed),
           pc[w] = <<r, "create">> =>
              /\ Exists(src) /\ Contents(src) \in Data /\ fd[w].src = link[src]
              /\ reg[w].off = 0,
           pc[w] \in {<<r, "read">>, <<r, "write">>} => Copying(w, src, dst)
    PROVE  /\ UNCHANGED <<meta, task>> /\ \A p : p # dst => Still(p)
           /\ \/ /\ pc[w] \in {<<r, "create">>, <<r, "read">>, <<r, "write">>}
                 /\ pc'[w] \in {<<r, "read">>, <<r, "write">>} /\ Copying(w, src, dst)'
                 /\ reg'[w].ver = reg[w].ver /\ reg'[w].size = reg[w].size
              \/ pc[w] = <<r, "create">> /\ Goto(w, <<r, "create">>, failed) /\ \A p : Still(p)
              \/ /\ pc[w] = <<r, "read">> /\ Goto(w, <<r, "read">>, done) /\ \A p : Still(p)
                 /\ Exists(dst) /\ Exists(src)
                 /\ Contents(dst) = Contents(src) /\ Contents(src) \in Data
                 /\ reg'[w].size = reg[w].size
<1> DEFINE d == Contents(src)
<1>0. /\ DiskTypeOK /\ DiskTypeOK' /\ reg[w] \in RegisterSet
      /\ \A x : Registers(w, x) => reg'[w] = x
    BY DEF IInv, TypeOK, Registers
<1>1. \A from, to : Goto(w, from, to) => pc[w] = from /\ pc'[w] = to /\ task' = task
    BY Moved
<1>2. UNCHANGED meta
    BY DEF Copy
<1>3. CASE Goto(w, <<r, "create">>, <<r, "read">>) /\ OpenWrite(w, dst) /\ UNCHANGED <<reg, reply>>
    <2>1. /\ DOMAIN link' = DOMAIN link \cup {dst} /\ fd'[w].dst = link'[dst]
          /\ bytes'[link'[dst]] = << >>
          /\ \A q : q # dst => Still(q)
        BY <1>0, <1>3, OpenWriteEffect
    <2>2. fd'[w].src = fd[w].src
        BY <1>0, <1>3, OpenWriteType
    <2>3. pc[w] = <<r, "create">> /\ pc'[w] = <<r, "read">> /\ task' = task
        BY <1>1, <1>3
    <2>4. /\ Exists(src)' /\ Exists(dst)' /\ link'[src] = link[src] /\ Contents(src)' = Contents(src)
          /\ Contents(dst)' = << >>
        BY <2>1, <2>3 DEF Still, Exists, Contents
    <2>5. Copying(w, src, dst)'
        BY <1>3, <2>1, <2>2, <2>3, <2>4 DEF Copying
    <2> QED
        BY <1>2, <1>3, <2>1, <2>3, <2>5
<1>4. CASE Goto(w, <<r, "create">>, failed) /\ Close(w)
    <2>1. \A p : Still(p)
        BY <1>0, <1>4, CallsWriteNothing
    <2> QED
        BY <1>1, <1>2, <1>4, <2>1
<1>5. ASSUME pc[w] = <<r, "read">>
      PROVE  /\ Copying(w, src, dst) /\ bytes[fd[w].src] = d /\ d \in Data /\ d \in Seq(Nat)
             /\ \/ /\ reg[w].off = 0 /\ Contents(dst) = << >>
                   /\ SubSeq(d, reg[w].off + 1, Len(d)) = d /\ d # << >>
                \/ Contents(dst) = d /\ SubSeq(d, reg[w].off + 1, Len(d)) = << >>
    <2>1. Copying(w, src, dst) /\ d \in Data /\ bytes[fd[w].src] = d
        BY <1>5 DEF Copying, Contents
    <2>2. d \in Seq(Nat) /\ d # << >>
        BY <2>1, DataType
    <2>3. SubSeq(d, 0 + 1, Len(d)) = d /\ SubSeq(d, Len(d) + 1, Len(d)) = << >>
        BY <2>2, ReadWhole
    <2>4. \/ reg[w].off = 0 /\ Contents(dst) = << >>
          \/ reg[w].off = Len(d) /\ Contents(dst) = d
        BY <1>5, <2>1 DEF Copying
    <2> QED
        BY <2>1, <2>2, <2>3, <2>4
<1>6. CASE /\ Goto(w, <<r, "read">>, <<r, "write">>) /\ NoStore
           /\ SubSeq(bytes[fd[w].src], reg[w].off + 1, Len(bytes[fd[w].src])) # << >>
           /\ Registers(w, [reg[w] EXCEPT !.buf = SubSeq(bytes[fd[w].src], reg[w].off + 1,
                                                         Len(bytes[fd[w].src]))])
    <2>1. pc[w] = <<r, "read">> /\ pc'[w] = <<r, "write">> /\ task' = task
        BY <1>1, <1>6
    <2>2. reg[w].off = 0 /\ Contents(dst) = << >> /\ reg'[w] = [reg[w] EXCEPT !.buf = d]
        BY <1>0, <1>5, <1>6, <2>1
    <2>3. /\ reg'[w].off = 0 /\ reg'[w].buf = d
          /\ reg'[w].ver = reg[w].ver /\ reg'[w].size = reg[w].size
        BY <1>0, <2>2 DEF RegisterSet
    <2>4. \A p : Still(p)
        BY <1>6 DEF NoStore, diskVars, Still
    <2>5. Copying(w, src, dst)'
        BY <1>5, <1>6, <2>1, <2>2, <2>3 DEF Copying, NoStore, diskVars, Exists, Contents
    <2> QED
        BY <1>2, <2>1, <2>3, <2>4, <2>5
<1>7. CASE /\ Goto(w, <<r, "read">>, done) /\ Close(w)
           /\ SubSeq(bytes[fd[w].src], reg[w].off + 1, Len(bytes[fd[w].src])) = << >>
           /\ Registers(w, [NoReg EXCEPT !.size = reg[w].size])
    <2>1. pc[w] = <<r, "read">> /\ task' = task
        BY <1>1, <1>7
    <2>2. Copying(w, src, dst) /\ Contents(dst) = d /\ d \in Data
        BY <1>5, <1>7, <2>1
    <2>3. reg'[w].size = reg[w].size
        BY <1>0, <1>7 DEF NoReg
    <2>4. \A p : Still(p)
        BY <1>0, <1>7, CallsWriteNothing
    <2> QED
        BY <1>2, <1>7, <2>1, <2>2, <2>3, <2>4 DEF Copying
<1>8. CASE /\ Goto(w, <<r, "write">>, <<r, "read">>) /\ Write(w, reg[w].off, reg[w].buf)
           /\ Registers(w, [reg[w] EXCEPT !.off = @ + Len(reg[w].buf), !.buf = << >>])
    <2>1. pc[w] = <<r, "write">> /\ pc'[w] = <<r, "read">> /\ task' = task
        BY <1>1, <1>8
    <2>2. /\ Exists(src) /\ Exists(dst) /\ fd[w].src = link[src] /\ fd[w].dst = link[dst]
          /\ d \in Data /\ reg[w].off = 0 /\ Contents(dst) = << >> /\ reg[w].buf = d
        BY <2>1 DEF Copying
    <2>3. d \in Seq(Nat) /\ Len(d) \in Nat
        BY <2>2, DataType
    <2>4. Contents(dst)' = d /\ link'[dst] = link[dst] /\ Exists(dst)'
        BY <1>0, <1>8, <2>2, <2>3, WrittenContents, WriteWhole DEF Exists
    <2>5. link' = link /\ \A p : p # dst => Still(p)
        <3>1. link' = link /\ \A p \in DOMAIN link : link[p] # fd[w].dst => Still(p)
            BY <1>0, <1>8, WriteEffect
        <3>2. \A p : p \notin DOMAIN link => Still(p)
            BY <3>1 DEF Still
        <3>3. \A p \in DOMAIN link : p # dst => link[p] # fd[w].dst
            BY <2>2 DEF InodesApart, Exists
        <3> QED
            BY <3>1, <3>2, <3>3
    <2>6. fd' = fd
        BY <1>8 DEF Write
    <2>7. /\ reg'[w].off = Len(d) /\ reg'[w].ver = reg[w].ver /\ reg'[w].size = reg[w].size
        <3>1. reg'[w] = [reg[w] EXCEPT !.off = reg[w].off + Len(reg[w].buf), !.buf = << >>]
            BY <1>0, <1>8
        <3> QED
            BY <1>0, <2>2, <2>3, <3>1 DEF RegisterSet
    <2>8. Exists(src)' /\ Contents(src)' = d
        BY <2>2, <2>5 DEF Still, Exists, Contents
    <2>9. Copying(w, src, dst)'
        BY <2>1, <2>2, <2>4, <2>5, <2>6, <2>7, <2>8 DEF Copying
    <2> QED
        BY <1>2, <2>1, <2>5, <2>7, <2>9
<1> QED
    BY <1>3, <1>4, <1>6, <1>7, <1>8 DEF Copy

\* Where save_version goes on.
LEMMA AfterBackupPoint ==
    ASSUME NEW w, NeedsEntry(<<"backup", "version">>, task[w].op) => Active(task[w].file)
    PROVE  AfterBackup(w) \notin Special /\ AfterBackup(w) # respond /\ Active(task[w].file)
BY DEF AfterBackup, Special, Unsettled, InCopy, Written, Leaving, NeedsEntry, respond

\* The points of save_version and cleanup_old_versions.
LEMMA BackupPoints ==
    /\ \A s : <<"backup", s>> # respond /\ <<"cleanup", s>> # respond
    /\ \A op, s : NeedsEntry(<<"backup", s>>, op) /\ NeedsEntry(<<"cleanup", s>>, op)
    /\ \A s \in {"dir", "mkdir", "open", "create"} : <<"backup", s>> \in Special \ (InCopy \cup Unsettled)
    /\ \A s \in {"read", "write"} : <<"backup", s>> \in Special \cap InCopy
    /\ <<"backup", "version">> \notin Special
    /\ \A s \in {"list", "remove"} : <<"cleanup", s>> \notin Special
BY DEF NeedsEntry, respond, Special, InCopy, Unsettled, Written, Leaving

\* A step within save_version before the backup is opened.
LEMMA BackupBegins ==
    ASSUME IInv, NEW w \in Worker, NEW s \in {"dir", "mkdir", "open", "create"}, NEW from,
           Goto(w, from, <<"backup", s>>), UNCHANGED meta, \A p : Still(p),
           Active(task[w].file), Settled(task[w].file, {}),
           reg'[w].ver = Current(task[w].file), reg'[w].off = 0,
           s = "create" => fd'[w].src = link'[Live(task[w].file)]
    PROVE  Contained(w)
<1>1. PICK f : f = task[w].file
    OBVIOUS
<1>2. pc'[w] = <<"backup", s>> /\ task' = task
    BY Moved
<1>3. SameRow(meta, meta', f)
    BY DEF SameRow
<1>4. Settled(f, {})' /\ Active(f)' /\ Current(f)' = Current(f)
    BY <1>1, <1>3, StillFiles, SettledKept, RowKept
<1>5. pc'[w] \in Special /\ pc'[w] \notin InCopy /\ pc'[w][1] = "backup" /\ pc'[w][2] = s
    BY <1>2, BackupPoints
<1>6. InBackup(w)'
    BY <1>1, <1>2, <1>4, <1>5 DEF InBackup
<1>7. Midway(w)'
    BY <1>2, <1>5, <1>6 DEF Midway, Written, Leaving
<1>8. Holding(w)'
    BY <1>1, <1>2, <1>4, <1>5, <1>7 DEF Holding
<1> QED
    BY <1>2, <1>8, BackupPoints, NothingHandedOut DEF Contained

\* The copy in save_version is one of the live file, to the latest version.
LEMMA BackupCopies ==
    ASSUME IInv, IInv', SerialInv, ContentsInv, ~ DiskMayFail, NEW w \in Worker, Backup(w),
           NEW f, NEW kept, f = task[w].file, kept = Version(f, reg[w].ver),
           Copy(w, "backup", kept, <<"cleanup", "list">>, AfterBackup(w))
    PROVE  /\ Live(f) # kept /\ reg[w].ver = Current(f) /\ kept = Latest(f) /\ Active(f)
           /\ pc[w] = <<"backup", "create">> => Settled(f, {})
           /\ pc[w] \in {<<"backup", "read">>, <<"backup", "write">>} => Settled(f, {kept})
           /\ UNCHANGED <<meta, task>> /\ \A p : p # kept => Still(p)
           /\ \/ /\ pc[w] \in {<<"backup", "create">>, <<"backup", "read">>, <<"backup", "write">>}
                 /\ pc'[w] \in {<<"backup", "read">>, <<"backup", "write">>} /\ Copying(w, Live(f), kept)'
                 /\ reg'[w].ver = reg[w].ver /\ reg'[w].size = reg[w].size
              \/ /\ pc[w] = <<"backup", "create">> /\ Goto(w, <<"backup", "create">>, AfterBackup(w))
                 /\ \A p : Still(p)
              \/ /\ pc[w] = <<"backup", "read">> /\ Goto(w, <<"backup", "read">>, <<"cleanup", "list">>)
                 /\ \A p : Still(p)
                 /\ Exists(kept) /\ Exists(Live(f))
                 /\ Contents(kept) = Contents(Live(f)) /\ Contents(Live(f)) \in Data
                 /\ reg'[w].size = reg[w].size
<1>1. /\ Holding(w) /\ InodesApart /\ DiskTypeOK /\ DiskTypeOK'
      /\ pc[w] \in Special => Midway(w)
      /\ f \in File /\ reg[w].ver \in Nat
      /\ NeedsEntry(pc[w], task[w].op) => Active(f)
    BY WorkFacts DEF ProcessTask
<1>2. pc[w] \in {<<"backup", s>> : s \in {"create", "read", "write"}}
    BY Moved DEF Copy
<1>3. Live(f) \in Path /\ kept \in Path /\ Live(f) # kept
    <2>1. Live(f) # kept
        BY <1>1 DEF Live, Version
    <2> QED
        BY <1>1, <2>1, PathType, 0 \in Nat
<1>4. InBackup(w) /\ Active(f)
    <2>1. PICK s \in {"create", "read", "write"} : pc[w] = <<"backup", s>>
        BY <1>2
    <2>2. pc[w] \in Special /\ pc[w][1] = "backup" /\ NeedsEntry(pc[w], task[w].op)
        BY <2>1 DEF Special, Unsettled, InCopy, NeedsEntry
    <2> QED
        BY <1>1, <2>2 DEF Midway
<1>5. reg[w].ver = Current(f) /\ kept = Latest(f)
    BY <1>4 DEF InBackup, Latest
<1>6. pc[w] = <<"backup", "create">> =>
          /\ Exists(Live(f)) /\ Contents(Live(f)) \in Data /\ fd[w].src = link[Live(f)]
          /\ reg[w].off = 0 /\ Settled(f, {})
    BY <1>4 DEF InBackup, InCopy, Settled
<1>7. pc[w] \in {<<"backup", "read">>, <<"backup", "write">>} =>
          Copying(w, Live(f), kept) /\ Settled(f, {kept})
    BY <1>4 DEF InBackup, InCopy
<1> QED
    BY <1>1, <1>3, <1>4, <1>5, <1>6, <1>7, CopyCopies

\* save_version
LEMMA BackupContained ==
    ASSUME IInv, IInv', SerialInv, ContentsInv, ~ DiskMayFail, NEW w \in Worker, Backup(w)
    PROVE  Contained(w)
<1>1. PICK f, kept : f = task[w].file /\ kept = Version(f, reg[w].ver)
    OBVIOUS
<1>2. /\ Holding(w) /\ Known(w) /\ InodesApart /\ DiskTypeOK /\ DiskTypeOK'
      /\ pc[w] \in Special => Midway(w)
      /\ f \in File /\ reg[w].ver \in Nat
      /\ NeedsEntry(pc[w], task[w].op) => Active(f)
    BY <1>1, WorkFacts DEF ProcessTask
<1>3. \A from, to : Goto(w, from, to) => pc[w] = from /\ pc'[w] = to /\ task' = task
    BY Moved
<1>4. \A r : Registers(w, r) => reg'[w] = r
    BY DEF Registers, IInv, TypeOK
<1>5. pc[w][1] = "backup" /\ Active(f)
    <2>1. pc[w][1] = "backup"
        BY <1>3 DEF Backup, Copy
    <2> QED
        BY <1>2, <2>1 DEF NeedsEntry
<1>6. AfterBackup(w) \notin Special /\ AfterBackup(w) # respond
    BY <1>1, <1>5, AfterBackupPoint
<1>7. pc[w] \notin InCopy => Settled(f, {})
    BY <1>1, <1>2, <1>5, SettledThere DEF Unsettled, Written, Leaving, InCopy
<1>8. SameRow(meta, meta, f)
    BY DEF SameRow
<1>9. ASSUME NEW from, Goto(w, from, AfterBackup(w)), UNCHANGED meta, \A p : Still(p), from \notin InCopy
      PROVE  Contained(w)
    <2>1. Settled(f, {})
        BY <1>3, <1>7, <1>9
    <2>2. FilesStay(f, {})
        BY <1>9, StillFiles
    <2>3. Holding(w)'
        BY <1>1, <1>5, <1>6, <1>8, <1>9, <2>1, <2>2, QuietStep
    <2> QED
        BY <1>6, <1>9, <2>3, NothingHandedOut DEF Contained
<1>10. NoShared => UNCHANGED meta /\ \A p : Still(p)
    BY DEF NoShared, diskVars, Still
<1>11. CASE /\ Goto(w, <<"backup", "version">>, <<"backup", "dir">>)
            /\ Registers(w, [NoReg EXCEPT !.ver = Pointed(w).version]) /\ NoShared
    <2>1. pc[w] = <<"backup", "version">>
        BY <1>3, <1>11
    <2>2. Pointed(w).version = Current(f)
        BY <1>1, <1>5, <2>1, PointedIsEntry DEF Active, LockOf, Current, FollowsPointer
    <2>3. reg'[w].ver = Current(f) /\ reg'[w].off = 0
        BY <1>4, <1>11, <2>2 DEF NoReg
    <2>4. Settled(f, {})
        BY <1>7, <2>1 DEF InCopy
    <2> QED
        BY <1>1, <1>5, <1>10, <1>11, <2>3, <2>4, BackupBegins
<1>12. ASSUME NEW s \in {"dir", "mkdir", "open"}, pc[w] = <<"backup", s>>
       PROVE  Settled(f, {}) /\ reg[w].ver = Current(f) /\ reg[w].off = 0
    <2>1. pc[w] \in Special /\ pc[w] \notin InCopy
        BY <1>12, BackupPoints DEF InCopy
    <2> QED
        BY <1>1, <1>2, <1>5, <2>1 DEF Midway, InBackup
<1>13. CASE \E s \in {"open", "mkdir"} : /\ Goto(w, <<"backup", "dir">>, <<"backup", s>>)
                                         /\ UNCHANGED <<reg, reply>> /\ NoShared
    BY <1>1, <1>3, <1>5, <1>10, <1>12, <1>13, BackupBegins
<1>14. CASE /\ Goto(w, <<"backup", "mkdir">>, <<"backup", "open">>)
            /\ MakeDir(f) /\ UNCHANGED <<meta, reg, reply>>
    <2>1. \A p : Still(p)
        BY <1>2, <1>14, CallsWriteNothing
    <2> QED
        BY <1>1, <1>3, <1>5, <1>12, <1>14, <2>1, BackupBegins
<1>15. CASE \E s \in {"mkdir", "open"} : Goto(w, <<"backup", s>>, AfterBackup(w)) /\ NoShared
    BY <1>9, <1>10, <1>15 DEF InCopy
<1>16. CASE /\ Goto(w, <<"backup", "open">>, <<"backup", "create">>)
            /\ OpenRead(w, Live(f)) /\ UNCHANGED <<meta, reg, reply>>
    <2>1. \A p : Still(p)
        BY <1>2, <1>16, CallsWriteNothing
    <2>2. fd'[w].src = link'[Live(f)]
        BY <1>2, <1>16, OpenedSource
    <2> QED
        BY <1>1, <1>3, <1>5, <1>12, <1>16, <2>1, <2>2, BackupBegins
<1>17. CASE Copy(w, "backup", kept, <<"cleanup", "list">>, AfterBackup(w))
    <2>1. Live(f) # kept /\ reg[w].ver = Current(f) /\ kept = Latest(f)
        BY <1>1, <1>17, BackupCopies
    <2>2. /\ pc[w] = <<"backup", "create">> => Settled(f, {})
          /\ pc[w] \in {<<"backup", "read">>, <<"backup", "write">>} => Settled(f, {kept})
        BY <1>1, <1>17, BackupCopies
    <2>3. /\ UNCHANGED <<meta, task>> /\ \A p : p # kept => Still(p)
          /\ \/ /\ pc[w] \in {<<"backup", "create">>, <<"backup", "read">>, <<"backup", "write">>}
                /\ pc'[w] \in {<<"backup", "read">>, <<"backup", "write">>} /\ Copying(w, Live(f), kept)'
                /\ reg'[w].ver = reg[w].ver /\ reg'[w].size = reg[w].size
             \/ /\ pc[w] = <<"backup", "create">> /\ Goto(w, <<"backup", "create">>, AfterBackup(w))
                /\ \A p : Still(p)
             \/ /\ pc[w] = <<"backup", "read">> /\ Goto(w, <<"backup", "read">>, <<"cleanup", "list">>)
                /\ \A p : Still(p)
                /\ Contents(kept) = Contents(Live(f)) /\ Contents(Live(f)) \in Data
        BY <1>1, <1>17, BackupCopies
    <2>4. CASE /\ pc'[w] \in {<<"backup", "read">>, <<"backup", "write">>} /\ Copying(w, Live(f), kept)'
               /\ pc[w] \in {<<"backup", "create">>, <<"backup", "read">>, <<"backup", "write">>}
               /\ reg'[w].ver = reg[w].ver
        <3>1. Settled(f, {}) \/ Settled(f, {kept})
            BY <2>2, <2>4
        <3>2. FilesStay(f, {kept})
            BY <2>1, <2>3 DEF FilesStay, Backups, Still
        <3>3. SameRow(meta, meta', f)
            BY <1>8, <2>3
        <3>4. Settled(f, {kept})'
            BY <3>1, <3>2, <3>3, SettledKept
        <3>5. Active(f)' /\ Current(f)' = Current(f)
            BY <1>5, <3>3, RowKept
        <3>6. pc'[w] \in Special /\ pc'[w] \in InCopy /\ pc'[w][1] = "backup" /\ pc'[w][2] # "create"
            BY <2>4, BackupPoints
        <3>7. task'[w].file = f /\ Version(task'[w].file, reg'[w].ver) = kept
            BY <1>1, <2>3, <2>4
        <3>8. InBackup(w)'
            BY <2>1, <2>4, <3>4, <3>5, <3>6, <3>7 DEF InBackup
        <3>9. Midway(w)'
            BY <2>4, <3>6, <3>8 DEF Midway, Written, Leaving
        <3>10. Holding(w)'
            BY <3>5, <3>6, <3>7, <3>9 DEF Holding
        <3>11. HandsOut(w)'
            BY <2>4 DEF HandsOut, respond
        <3> QED
            BY <3>10, <3>11 DEF Contained
    <2>5. CASE /\ pc[w] = <<"backup", "create">> /\ Goto(w, <<"backup", "create">>, AfterBackup(w))
               /\ \A p : Still(p)
        BY <1>9, <2>3, <2>5 DEF InCopy
    <2>6. CASE /\ pc[w] = <<"backup", "read">> /\ Goto(w, <<"backup", "read">>, <<"cleanup", "list">>)
               /\ \A p : Still(p)
               /\ Contents(kept) = Contents(Live(f)) /\ Contents(Live(f)) \in Data
        <3>1. Settled(f, {kept})
            BY <2>2, <2>6
        <3>2. Settled(f, {})
            BY <1>5, <2>1, <2>6, <3>1 DEF Settled
        <3>3. FilesStay(f, {}) /\ SameRow(meta, meta', f)
            BY <1>8, <2>3, <2>6, StillFiles
        <3>4. <<"cleanup", "list">> \notin Special /\ <<"cleanup", "list">> # respond
            BY BackupPoints
        <3>5. Holding(w)'
            BY <1>1, <1>5, <2>6, <3>2, <3>3, <3>4, QuietStep
        <3> QED
            BY <2>6, <3>4, <3>5, NothingHandedOut DEF Contained
    <2> QED
        BY <2>3, <2>4, <2>5, <2>6
<1> QED
    BY <1>1, <1>11, <1>13, <1>14, <1>15, <1>16, <1>17 DEF Backup

\* cleanup_old_versions
LEMMA CleanupContained ==
    ASSUME IInv, IInv', SerialInv, ContentsInv, NEW w \in Worker, Cleanup(w)
    PROVE  Contained(w)
<1> DEFINE f == task[w].file
<1>1. /\ Holding(w) /\ DiskTypeOK /\ DiskTypeOK'
      /\ NeedsEntry(pc[w], task[w].op) => Active(f)
    BY WorkFacts DEF ProcessTask
<1>2. PICK s \in {"list", "remove"}, to \in {<<"cleanup", "remove">>, AfterBackup(w)} :
         Goto(w, <<"cleanup", s>>, to)
    BY DEF Cleanup
<1>3. pc[w] = <<"cleanup", s>>
    BY <1>2, Moved
<1>4. Active(f) /\ Settled(f, {})
    BY <1>1, <1>3, BackupPoints DEF Holding
<1>5. to \notin Special /\ to # respond
    BY <1>4, AfterBackupPoint, BackupPoints
<1>6. SameRow(meta, meta', f)
    BY DEF Cleanup, SameRow
<1>7. FilesStay(f, {})
    <2>1. CASE NoStore
        <3>1. \A p : Still(p)
            BY <2>1 DEF NoStore, diskVars, Still
        <3> QED
            BY <3>1, StillFiles
    <2>2. CASE Unlink({Version(f, n) : n \in reg[w].victims})
        <3>1. reg[w].victims \in SUBSET Nat
            BY DEF IInv, TypeOK, RegisterSet
        <3>2. Live(f) \notin {Version(f, n) : n \in reg[w].victims}
            BY <3>1, BackupsAreNotLive
        <3> QED
            BY <1>1, <2>2, <3>2, RestStays
    <2> QED
        BY <2>1, <2>2 DEF Cleanup
<1>8. Holding(w)'
    BY <1>2, <1>4, <1>5, <1>6, <1>7, QuietStep
<1> QED
    BY <1>2, <1>5, <1>8, NothingHandedOut DEF Contained

\* What is settled is not above the current version.
LEMMA SettledIsOlder ==
    ASSUME IInv, NEW f \in File, Settled(f, {}), SameRow(meta, meta', f),
           \A p : p # Live(f) => Still(p)
    PROVE  Older(f)'
<1>1. /\ Active(f)' <=> Active(f)
      /\ Active(f) => Current(f)' = Current(f) /\ Current(f) \in Nat
    BY RowKept, FindIsNamed DEF Active, Current, LockOf, IInv, TypeOK, FileMetadata
<1>2. \A p \in Backups(f)' : p \in Backups(f) /\ Contents(p)' = Contents(p)
    BY DEF Backups, Live, Still, Contents
<1>3. \A p \in Backups(f) : Active(f) /\ Contents(p) \in Data /\ p[2] <= Current(f) + 1
    <2> SUFFICES ASSUME NEW p \in Backups(f)
                 PROVE  Active(f) /\ Contents(p) \in Data /\ p[2] <= Current(f) + 1
        OBVIOUS
    <2>1. p[2] \in Nat
        BY DEF Backups, IInv, TypeOK, DiskTypeOK, Path
    <2>2. /\ Active(f) /\ Contents(p) \in Data
          /\ p[2] <= Current(f) \/ p = Latest(f)
        BY DEF Settled
    <2>3. Latest(f)[2] = Current(f) + 1
        BY DEF Latest, Version
    <2> QED
        BY <1>1, <2>1, <2>2, <2>3
<1> QED
    BY <1>1, <1>2, <1>3 DEF Older

\* save_file
LEMMA StoreContained ==
    ASSUME IInv, IInv', SerialInv, ContentsInv, ~ DiskMayFail, NEW w \in Worker, Store(w)
    PROVE  Contained(w)
<1>1. PICK f, data, op : f = task[w].file /\ data = task[w].data /\ op = task[w].op
    OBVIOUS
<1>2. /\ Holding(w) /\ InodesApart /\ DiskTypeOK /\ DiskTypeOK'
      /\ pc[w] \in Special => Midway(w)
      /\ f \in File /\ op \in Callers(pc[w][1])
      /\ op \in {"UPLOAD", "SAVE"} => data \in Data
      /\ NeedsEntry(pc[w], op) => Active(f)
    BY <1>1, WorkFacts DEF ProcessTask
<1>3. \A from, to : Goto(w, from, to) => pc[w] = from /\ pc'[w] = to /\ task' = task
    BY Moved
<1>4. /\ pc[w][1] = "store" /\ op \in {"UPLOAD", "SAVE"} /\ data \in Data
      /\ op = "SAVE" => Active(f)
    <2>1. pc[w][1] = "store"
        BY <1>3 DEF Store, Answer
    <2> QED
        BY <1>2, <2>1 DEF Callers, NeedsEntry
<1>5. UNCHANGED <<meta, reg>> /\ SameRow(meta, meta', f)
    BY DEF Store, SameRow
<1>6. Active(f)' <=> Active(f)
    BY <1>5, RowKept
<1>7. Live(f) \in Path
    BY <1>2, PathType, 0 \in Nat
<1>8. /\ <<"store", "open">> \notin Special /\ respond \notin Special
      /\ <<"store", "write">> \in Special \ Written /\ AfterStore(w) \in Special
      /\ AfterStore(w) \in Written /\ <<"store", "write">> # respond
    BY DEF Special, Unsettled, InCopy, Written, Leaving, respond, AfterStore
<1>9. CASE Goto(w, <<"store", "open">>, <<"store", "write">>) /\ OpenWrite(w, Live(f))
    <2>1. pc[w] = <<"store", "open">> /\ pc'[w] = <<"store", "write">> /\ task' = task
        BY <1>3, <1>9
    <2>2. Settled(f, {})
        BY <1>1, <1>2, <1>8, <2>1 DEF Holding
    <2>3. /\ DOMAIN link' = DOMAIN link \cup {Live(f)} /\ fd'[w].dst = link'[Live(f)]
          /\ bytes'[link'[Live(f)]] = << >>
          /\ \A q : q # Live(f) => Still(q)
        BY <1>2, <1>7, <1>9, OpenWriteEffect
    <2>4. Older(f)'
        BY <1>2, <1>5, <2>2, <2>3, SettledIsOlder
    <2>5. Exists(Live(f))' /\ Contents(Live(f))' = << >>
        BY <2>3 DEF Exists, Contents
    <2>6. InStore(w)'
        BY <1>1, <1>8, <2>1, <2>3, <2>4, <2>5 DEF InStore
    <2>7. Midway(w)'
        BY <2>1, <2>6 DEF Midway, Leaving
    <2>8. Holding(w)'
        BY <1>1, <1>4, <1>6, <1>8, <2>1, <2>7 DEF Holding, NeedsEntry, FollowsPointer
    <2> QED
        BY <1>8, <1>9, <2>8, NothingHandedOut DEF Contained
<1>10. CASE Answer(w, <<"store", "open">>, "ERROR", "ERROR") /\ NoStore
    <2>1. Goto(w, <<"store", "open">>, respond)
        BY <1>10 DEF Answer
    <2>2. pc[w] = <<"store", "open">>
        BY <1>3, <2>1
    <2>3. Settled(f, {})
        BY <1>1, <1>2, <1>8, <2>2 DEF Holding
    <2>4. \A p : Still(p)
        BY <1>10 DEF NoStore, diskVars, Still
    <2>5. FilesStay(f, {})
        BY <2>4, StillFiles
    <2>6. ~ NeedsEntry(respond, op)
        BY DEF NeedsEntry, respond, FollowsPointer
    <2>7. Holding(w)'
        BY <1>1, <1>5, <1>8, <2>1, <2>3, <2>5, <2>6, QuietStep
    <2>8. HandsOut(w)'
        BY <1>10, <2>1, NothingHandedOut, "ERROR" # "SUCCESS"
    <2> QED
        BY <2>7, <2>8 DEF Contained
<1>11. CASE Goto(w, <<"store", "write">>, AfterStore(w)) /\ WriteAndClose(w, 0, data)
    <2>1. pc[w] = <<"store", "write">> /\ pc'[w] = AfterStore(w) /\ task' = task
        BY <1>3, <1>11
    <2>2. InStore(w)
        BY <1>2, <1>8, <2>1 DEF Midway
    <2>3. /\ Older(f) /\ Exists(Live(f)) /\ Contents(Live(f)) = << >> /\ fd[w].dst = link[Live(f)]
        BY <1>1, <1>8, <2>1, <2>2 DEF InStore
    <2>4. data \in Seq(Nat)
        BY <1>4, DataType
    <2>5. Contents(Live(f))' = data /\ Exists(Live(f))'
        BY <1>2, <1>11, <2>3, <2>4, WrittenContents, WriteWhole DEF Exists
    <2>6. Older(f)'
        <3>1. link' = link /\ \A p \in DOMAIN link : link[p] # fd[w].dst => Still(p)
            BY <1>2, <1>11, WriteEffect
        <3>2. \A p \in Backups(f) : p \in DOMAIN link /\ link[p] # fd[w].dst
            BY <1>2, <2>3 DEF Backups, Live, InodesApart, Exists
        <3>3. \A p \in Backups(f)' : p \in Backups(f) /\ Still(p)
            BY <3>1, <3>2 DEF Backups
        <3> QED
            BY <1>5, <2>3, <3>3, OlderKept
    <2>7. InStore(w)'
        BY <1>1, <1>8, <2>1, <2>5, <2>6 DEF InStore
    <2>8. Midway(w)'
        BY <1>8, <2>1, <2>7 DEF Midway, Written, Leaving
    <2>9. NeedsEntry(AfterStore(w), op) => op = "SAVE"
        BY <1>1, <1>4 DEF NeedsEntry, AfterStore, FollowsPointer
    <2>10. Holding(w)'
        BY <1>1, <1>4, <1>6, <1>8, <2>1, <2>8, <2>9 DEF Holding
    <2>11. AfterStore(w) # respond
        BY DEF AfterStore, respond
    <2> QED
        BY <1>11, <2>10, <2>11, NothingHandedOut DEF Contained
<1> QED
    BY <1>1, <1>9, <1>10, <1>11 DEF Store

\* The points of restore_version and of what follows it.
LEMMA RestorePoints ==
    /\ \A s, op : NeedsEntry(<<"restore", s>>, op) /\ <<"restore", s>> # respond
    /\ \A s \in {"read", "write"} : <<"restore", s>> \in Special \cap InCopy
    /\ <<"restore", "create">> \in Special \ (InCopy \cup Unsettled) /\ <<"restore", "open">> \notin Special
    /\ \A s : <<"restore", s>> \notin Written \cup Leaving
    /\ <<"ROLLBACK", "update">> \in Special /\ <<"ROLLBACK", "update">> \notin Written \cup Leaving
    /\ <<"ROLLBACK", "failed">> \notin Special
    /\ <<"ROLLBACK", "update">> # respond /\ <<"ROLLBACK", "failed">> # respond
    /\ \A op : ~ NeedsEntry(<<"ROLLBACK", "failed">>, op)
BY DEF NeedsEntry, respond, Special, InCopy, Unsettled, Written, Leaving, FollowsPointer

\* restore_version
LEMMA RestoreContained ==
    ASSUME IInv, IInv', SerialInv, ContentsInv, ~ DiskMayFail, NEW w \in Worker, Restore(w)
    PROVE  Contained(w)
<1>1. PICK f, old : f = task[w].file /\ old = Version(f, task[w].target)
    OBVIOUS
<1>2. /\ Holding(w) /\ InodesApart /\ DiskTypeOK /\ DiskTypeOK'
      /\ pc[w] \in Special => Midway(w)
      /\ f \in File /\ task[w].target \in Nat
      /\ NeedsEntry(pc[w], task[w].op) => Active(f)
    BY <1>1, WorkFacts DEF ProcessTask
<1>3. \A from, to : Goto(w, from, to) => pc[w] = from /\ pc'[w] = to /\ task' = task
    BY Moved
<1>4. \A r : Registers(w, r) => reg'[w] = r
    BY DEF Registers, IInv, TypeOK
<1>5. pc[w][1] = "restore" /\ Active(f)
    <2>1. pc[w][1] = "restore"
        BY <1>3 DEF Restore, Copy
    <2>2. pc[w] = <<"restore", pc[w][2]>>
        BY <2>1 DEF IInv, TypeOK
    <2> QED
        BY <1>2, <2>1, <2>2, RestorePoints
<1>6. SameRow(meta, meta', f)
    BY DEF Restore, Copy, NoShared, SameRow
<1>7. Active(f)'
    BY <1>5, <1>6, RowKept
<1>8. Live(f) \in Path /\ old \in Path /\ Live(f) # old
    BY <1>1, <1>2, PathType, 0 \in Nat DEF Live, Version
<1>9. pc[w] \notin InCopy => Settled(f, {})
    BY <1>1, <1>2, <1>5, SettledThere DEF Unsettled, Written, Leaving, InCopy
<1>10. ASSUME NEW from, Goto(w, from, <<"ROLLBACK", "failed">>), \A p : Still(p), from \notin InCopy
       PROVE  Contained(w)
    <2>1. Settled(f, {})
        BY <1>3, <1>9, <1>10
    <2>2. FilesStay(f, {})
        BY <1>10, StillFiles
    <2>3. Holding(w)'
        BY <1>1, <1>6, <1>10, <2>1, <2>2, RestorePoints, QuietStep
    <2> QED
        BY <1>10, <2>3, RestorePoints, NothingHandedOut DEF Contained
<1>11. CASE /\ Goto(w, <<"restore", "open">>, <<"restore", "create">>) /\ OpenRead(w, old)
            /\ Registers(w, [NoReg EXCEPT !.size = Len(Contents(old))])
    <2>1. pc[w] = <<"restore", "open">> /\ pc'[w] = <<"restore", "create">> /\ task' = task
        BY <1>3, <1>11
    <2>2. reg'[w].size = Len(Contents(old)) /\ reg'[w].off = 0
        BY <1>4, <1>11 DEF NoReg
    <2>3. \A p : Still(p)
        BY <1>2, <1>11, CallsWriteNothing
    <2>4. Exists(old)' /\ fd'[w].src = link'[old] /\ Contents(old)' = Contents(old)
        BY <1>2, <1>11, <2>3, OpenedSource DEF Still, Exists, Contents
    <2>5. Settled(f, {})'
        <3>1. Settled(f, {}) /\ FilesStay(f, {})
            BY <1>9, <2>1, <2>3, StillFiles DEF InCopy
        <3> QED
            BY <1>6, <3>1, SettledKept
    <2>6. InRestore(w)'
        BY <1>1, <2>1, <2>2, <2>4, <2>5, RestorePoints DEF InRestore
    <2>7. Midway(w)'
        BY <2>1, <2>6, RestorePoints DEF Midway
    <2>8. Holding(w)'
        BY <1>1, <1>7, <2>1, <2>7, RestorePoints DEF Holding
    <2> QED
        BY <1>11, <2>8, RestorePoints, NothingHandedOut DEF Contained
<1>12. CASE Goto(w, <<"restore", "open">>, <<"ROLLBACK", "failed">>) /\ NoShared
    <2>1. \A p : Still(p)
        BY <1>12 DEF NoShared, diskVars, Still
    <2> QED
        BY <1>10, <1>12, <2>1 DEF InCopy
<1>13. CASE Copy(w, "restore", Live(f), <<"ROLLBACK", "update">>, <<"ROLLBACK", "failed">>)
    <2>1. pc[w] \in {<<"restore", s>> : s \in {"create", "read", "write"}}
        BY <1>3, <1>13 DEF Copy
    <2>2. InRestore(w)
        BY <1>2, <2>1, RestorePoints DEF Midway
    <2>3. pc[w] = <<"restore", "create">> =>
              /\ Exists(old) /\ Contents(old) \in Data /\ fd[w].src = link[old]
              /\ reg[w].off = 0 /\ reg[w].size = Len(Contents(old)) /\ Settled(f, {})
        <3> SUFFICES ASSUME pc[w] = <<"restore", "create">>
                     PROVE  /\ Exists(old) /\ Contents(old) \in Data /\ fd[w].src = link[old]
                            /\ reg[w].off = 0 /\ reg[w].size = Len(Contents(old)) /\ Settled(f, {})
            OBVIOUS
        <3>1. /\ Exists(old) /\ fd[w].src = link[old] /\ reg[w].off = 0
              /\ reg[w].size = Len(Contents(old)) /\ Settled(f, {})
            BY <1>1, <2>2, RestorePoints DEF InRestore
        <3>2. old \in Backups(f)
            BY <1>1, <1>2, <3>1 DEF Version, Backups, Exists
        <3> QED
            BY <3>1, <3>2 DEF Settled
    <2>4. pc[w] \in {<<"restore", "read">>, <<"restore", "write">>} =>
              Copying(w, old, Live(f)) /\ Older(f) /\ reg[w].size = Len(Contents(old))
        BY <1>1, <2>2, RestorePoints DEF InRestore
    <2>5. /\ UNCHANGED <<meta, task>> /\ \A p : p # Live(f) => Still(p)
          /\ \/ /\ pc[w] \in {<<"restore", "create">>, <<"restore", "read">>, <<"restore", "write">>}
                /\ pc'[w] \in {<<"restore", "read">>, <<"restore", "write">>}
                /\ Copying(w, old, Live(f))'
                /\ reg'[w].ver = reg[w].ver /\ reg'[w].size = reg[w].size
             \/ /\ pc[w] = <<"restore", "create">>
                /\ Goto(w, <<"restore", "create">>, <<"ROLLBACK", "failed">>) /\ \A p : Still(p)
             \/ /\ pc[w] = <<"restore", "read">>
                /\ Goto(w, <<"restore", "read">>, <<"ROLLBACK", "update">>) /\ \A p : Still(p)
                /\ Exists(Live(f)) /\ Exists(old)
                /\ Contents(Live(f)) = Contents(old) /\ Contents(old) \in Data
                /\ reg'[w].size = reg[w].size
        BY <1>2, <1>8, <1>13, <2>3, <2>4, CopyCopies
    <2>6. Older(f)'
        <3>1. CASE pc[w] = <<"restore", "create">>
            BY <1>2, <1>6, <2>3, <2>5, <3>1, SettledIsOlder
        <3>2. CASE pc[w] \in {<<"restore", "read">>, <<"restore", "write">>}
            <4>1. \A p \in Backups(f)' : p \in Backups(f) /\ Still(p)
                BY <2>5 DEF Backups, Live, Still
            <4> QED
                BY <1>6, <2>4, <3>2, <4>1, OlderKept
        <3> QED
            BY <2>1, <3>1, <3>2
    <2>7. CASE /\ pc'[w] \in {<<"restore", "read">>, <<"restore", "write">>}
               /\ Copying(w, old, Live(f))' /\ reg'[w].size = reg[w].size
        <3>1. Contents(old)' = Contents(old)
            <4>1. Still(old) /\ Exists(old)
                BY <1>8, <2>1, <2>3, <2>4, <2>5 DEF Copying
            <4> QED
                BY <4>1 DEF Still, Exists, Contents
        <3>2. reg'[w].size = Len(Contents(old)')
            BY <2>1, <2>3, <2>4, <2>7, <3>1
        <3>3. pc'[w] \in Special /\ pc'[w] \in InCopy /\ pc'[w][1] = "restore"
            BY <2>7, RestorePoints
        <3>4. task'[w].file = f /\ Version(f, task'[w].target) = old
            BY <1>1, <2>5
        <3>5. InRestore(w)'
            BY <2>6, <2>7, <3>2, <3>3, <3>4 DEF InRestore
        <3>6. Midway(w)'
            BY <2>7, <3>3, <3>5, RestorePoints DEF Midway
        <3>7. Holding(w)'
            BY <1>7, <3>3, <3>4, <3>6 DEF Holding
        <3>8. HandsOut(w)'
            BY <2>7 DEF HandsOut, respond
        <3> QED
            BY <3>7, <3>8 DEF Contained
    <2>8. CASE /\ pc[w] = <<"restore", "create">> /\ \A p : Still(p)
               /\ Goto(w, <<"restore", "create">>, <<"ROLLBACK", "failed">>)
        BY <1>10, <2>8 DEF InCopy
    <2>9. CASE /\ pc[w] = <<"restore", "read">> /\ \A p : Still(p)
               /\ Goto(w, <<"restore", "read">>, <<"ROLLBACK", "update">>)
               /\ Exists(Live(f))
               /\ Contents(Live(f)) = Contents(old) /\ Contents(old) \in Data
               /\ reg'[w].size = reg[w].size
        <3>1. pc'[w] = <<"ROLLBACK", "update">> /\ task' = task
            BY <1>3, <2>9
        <3>2. Exists(Live(f))' /\ Contents(Live(f))' = Contents(old)
            BY <2>9 DEF Still, Exists, Contents
        <3>3. Restored(w)'
            BY <1>1, <2>4, <2>6, <2>9, <3>1, <3>2 DEF Restored
        <3>4. Midway(w)'
            BY <3>1, <3>3, RestorePoints DEF Midway
        <3>5. Holding(w)'
            BY <1>1, <1>7, <3>1, <3>4, RestorePoints DEF Holding
        <3> QED
            BY <2>9, <3>5, RestorePoints, NothingHandedOut DEF Contained
    <2> QED
        BY <2>5, <2>7, <2>8, <2>9
<1> QED
    BY <1>1, <1>11, <1>12, <1>13 DEF Restore

\* read_file: what it hands out is the file.
LEMMA LoadContained ==
    ASSUME IInv, IInv', SerialInv, ContentsInv, NEW w \in Worker, Load(w)
    PROVE  Contained(w)
<1>1. PICK f, op : f = task[w].file /\ op = task[w].op
    OBVIOUS
<1>2. /\ Holding(w) /\ DiskTypeOK /\ DiskTypeOK'
      /\ pc[w] \in Special => Midway(w)
      /\ op \in Callers(pc[w][1])
    BY <1>1, WorkFacts DEF ProcessTask
<1>3. \A from, to : Goto(w, from, to) => pc[w] = from /\ pc'[w] = to /\ task' = task
    BY Moved
<1>4. pc[w] \in {<<"load", "open">>, <<"load", "read">>} /\ op \in {"DOWNLOAD", "EDIT"}
    <2>1. pc[w] \in {<<"load", "open">>, <<"load", "read">>}
        BY <1>3 DEF Load, Answer
    <2> QED
        BY <1>2, <2>1 DEF Callers
<1>5. /\ <<"load", "open">> \notin Special /\ <<"load", "read">> \in Special
      /\ <<"load", "read">> \notin Written \cup Leaving /\ <<"load", "read">> # respond
      /\ respond \notin Special /\ ~ NeedsEntry(respond, op) /\ ~ NeedsEntry(<<"load", "read">>, op)
      /\ <<op, "unreadable">> \notin Special /\ <<op, "unreadable">> # respond
      /\ ~ NeedsEntry(<<op, "unreadable">>, op)
    BY <1>4 DEF NeedsEntry, respond, Special, InCopy, Unsettled, Written, Leaving, FollowsPointer
<1>6. Settled(f, {})
    BY <1>1, <1>2, <1>4, SettledThere DEF Unsettled, InCopy, Written, Leaving
<1>7. SameRow(meta, meta', f)
    BY DEF Load, SameRow
<1>8. \A p : Still(p)
    <2>1. NoStore \/ Close(w) \/ OpenRead(w, Live(f))
        BY <1>1 DEF Load
    <2>2. \/ NoStore
          \/ \E v \in Worker : Close(v) \/ \E p : OpenRead(v, p)
        BY <2>1
    <2> QED
        BY <1>2, <2>2, CallsWriteNothing
<1>9. FilesStay(f, {}) /\ Settled(f, {})'
    BY <1>6, <1>7, <1>8, StillFiles, SettledKept
<1>10. CASE Goto(w, <<"load", "open">>, <<"load", "read">>) /\ OpenRead(w, Live(f))
    <2>1. pc'[w] = <<"load", "read">> /\ task' = task
        BY <1>3, <1>10
    <2>2. Exists(Live(f))' /\ fd'[w].src = link'[Live(f)]
        BY <1>2, <1>10, OpenedSource DEF Exists
    <2>3. InLoad(w)'
        BY <1>1, <1>9, <2>1, <2>2 DEF InLoad
    <2>4. Holding(w)'
        BY <1>1, <1>5, <2>1, <2>3 DEF Holding, Midway
    <2> QED
        BY <1>5, <1>10, <2>4, NothingHandedOut DEF Contained
<1>11. CASE Goto(w, <<"load", "open">>, <<op, "unreadable">>)
    <2>1. Holding(w)'
        BY <1>1, <1>5, <1>6, <1>7, <1>9, <1>11, QuietStep
    <2> QED
        BY <1>5, <1>11, <2>1, NothingHandedOut DEF Contained
<1>12. CASE /\ Goto(w, <<"load", "read">>, respond)
            /\ reg' = [reg EXCEPT ![w] = [NoReg EXCEPT !.buf = bytes[fd[w].src]]]
    <2>1. pc[w] = <<"load", "read">>
        BY <1>3, <1>12
    <2>2. Exists(Live(f)) /\ fd[w].src = link[Live(f)]
        <3>1. Midway(w) /\ pc[w][1] = "load"
            BY <1>2, <1>5, <2>1
        <3>2. InLoad(w)
            BY <3>1 DEF Midway
        <3> QED
            BY <1>1, <3>2 DEF InLoad
    <2>3. reg'[w].buf = Contents(Live(f))
        BY <1>12, <2>2 DEF Contents, NoReg, IInv, TypeOK
    <2>4. Contents(Live(f)) \in Data
        BY <1>6, <2>2 DEF Settled
    <2>5. Holding(w)'
        BY <1>1, <1>5, <1>6, <1>7, <1>9, <1>12, QuietStep
    <2> QED
        BY <2>3, <2>4, <2>5 DEF Contained, HandsOut
<1> QED
    BY <1>1, <1>10, <1>11, <1>12 DEF Load, Answer

\* The points of remove_file_from_storage and of what follows it.
LEMMA ErasePoints ==
    /\ <<"erase", "file">> \in Special \ Leaving /\ Leaving \subseteq Special \cap Unsettled
    /\ respond \notin Special /\ <<"UPLOAD", "undone">> \notin Special
    /\ \A s : <<"erase", s>> # respond /\ <<"erase", s>> \notin Written \cup {<<"store", "write">>}
    /\ <<"UPLOAD", "undone">> # respond /\ <<"DELETE", "forget">> # respond
    /\ \A op : /\ \A c \in Leaving \cup {<<"erase", "file">>} : ~ NeedsEntry(c, op)
               /\ ~ NeedsEntry(respond, op) /\ ~ NeedsEntry(<<"UPLOAD", "undone">>, op)
    /\ \A c \in Leaving \cup {<<"erase", "file">>} :
          /\ c \notin Written \cup {<<"store", "write">>, <<"ROLLBACK", "update">>}
          /\ c[1] \notin {"backup", "restore", "load"}
<1>1. /\ \A c \in Leaving \cup {<<"erase", "file">>} :
            c[1] \in {"erase", "DELETE"} /\ c[2] \in {"file", "versions", "dir", "forget"}
    BY DEF Leaving
<1> QED
    BY <1>1 DEF NeedsEntry, respond, Special, InCopy, Unsettled, Written, Leaving, FollowsPointer

\* A file that is neither in the table nor on disk is settled.
LEMMA NothingLeft ==
    ASSUME NEW f, ~ Active(f), ~ Exists(Live(f)), Backups(f) = {} PROVE Settled(f, {})
BY DEF Settled

\* A step on to a point of a removal.
LEMMA Removing ==
    ASSUME IInv, NEW w \in Worker, NEW from, NEW to \in Leaving \cup {<<"erase", "file">>},
           Goto(w, from, to), InErase(w)'
    PROVE  Contained(w)
<1>1. pc'[w] = to /\ task' = task
    BY Moved
<1>2. Midway(w)'
    BY <1>1, ErasePoints DEF Midway
<1>3. Holding(w)'
    BY <1>1, <1>2, ErasePoints DEF Holding
<1>4. to # respond
    BY ErasePoints DEF Leaving
<1> QED
    BY <1>3, <1>4, NothingHandedOut DEF Contained

\* Once all that is listed is removed no backup is left.
LEMMA AllRemoved ==
    ASSUME DiskTypeOK, NEW f, Unlink({Version(f, n) : n \in Stored(f)}) PROVE Backups(f)' = {}
<1> SUFFICES ASSUME NEW p \in Backups(f)' PROVE FALSE
    OBVIOUS
<1>1. /\ p \in DOMAIN link /\ p \notin {Version(f, n) : n \in Stored(f)}
      /\ p[1] = f /\ p[2] # 0
    BY DEF Backups, Unlink, Restrict
<1>2. p = <<f, p[2]>> /\ p[2] \in Nat
    BY <1>1 DEF DiskTypeOK, Path
<1>3. p[2] - 1 \in Stored(f)
    BY <1>1, <1>2 DEF Stored
<1>4. Version(f, p[2] - 1) = p
    BY <1>2 DEF Version
<1> QED
    BY <1>1, <1>3, <1>4

\* remove_file_from_storage
LEMMA EraseContained ==
    ASSUME IInv, IInv', SerialInv, ContentsInv, NEW w \in Worker, Erase(w)
    PROVE  Contained(w)
<1>1. PICK f, op : f = task[w].file /\ op = task[w].op
    OBVIOUS
<1>2. /\ Holding(w) /\ Known(w) /\ DiskTypeOK /\ DiskTypeOK'
      /\ pc[w] \in Special => Midway(w)
      /\ op \in Callers(pc[w][1])
    BY <1>1, WorkFacts DEF ProcessTask
<1>3. \A from, to : Goto(w, from, to) => pc[w] = from /\ pc'[w] = to /\ task' = task
    BY Moved
<1>4. SameRow(meta, meta', f)
    BY DEF Erase, SameRow
<1>5. PICK s \in {"file", "versions", "dir"} : pc[w] = <<"erase", s>>
    BY <1>3 DEF Erase, Answer
<1>6. op \in {"UPLOAD", "DELETE"} /\ (op = "UPLOAD" => ~ Active(f))
    BY <1>1, <1>2, <1>5 DEF Callers, Known, KnownAt, Active, LockOf
<1>7. InErase(w)
    <2>1. pc[w] \in Leaving \cup {<<"erase", "file">>}
        BY <1>5 DEF Leaving
    <2> QED
        BY <1>2, <2>1, ErasePoints DEF Midway
<1>8. CASE Goto(w, <<"erase", "file">>, <<"erase", "versions">>) /\ Unlink({Live(f)})
    <2>1. pc'[w] = <<"erase", "versions">> /\ task' = task
        BY <1>3, <1>8
    <2>2. ~ Exists(Live(f))'
        BY <1>8 DEF Unlink, Restrict, Exists
    <2>3. InErase(w)'
        BY <1>1, <2>1, <2>2 DEF InErase
    <2> QED
        BY <1>8, <2>3, Removing DEF Leaving
<1>9. CASE Answer(w, <<"erase", "file">>, "ERROR", "ERROR") /\ Live(f) \notin DOMAIN link /\ NoStore
    <2>1. Goto(w, <<"erase", "file">>, respond)
        BY <1>9 DEF Answer
    <2>2. pc[w] = <<"erase", "file">>
        BY <1>3, <2>1
    <2>3. Settled(f, {})
        <3>1. CASE op = "UPLOAD"
            <4>1. Backups(f) = {}
                BY <1>1, <1>7, <2>2, <3>1 DEF InErase
            <4> QED
                BY <1>6, <1>9, <3>1, <4>1, NothingLeft DEF Exists
        <3>2. CASE op # "UPLOAD"
            BY <1>1, <1>7, <2>2, <3>2 DEF InErase
        <3> QED
            BY <3>1, <3>2
    <2>4. \A p : Still(p)
        BY <1>9 DEF NoStore, diskVars, Still
    <2>5. Holding(w)'
        BY <1>1, <1>4, <2>1, <2>3, <2>4, StillFiles, ErasePoints, QuietStep
    <2>6. HandsOut(w)'
        BY <1>9, <2>1, NothingHandedOut, "ERROR" # "SUCCESS"
    <2> QED
        BY <2>5, <2>6 DEF Contained
<1>10. CASE /\ Goto(w, <<"erase", "versions">>, <<"erase", "dir">>)
            /\ Unlink({Version(f, n) : n \in Stored(f)})
    <2>1. pc[w] = <<"erase", "versions">> /\ pc'[w] = <<"erase", "dir">> /\ task' = task
        BY <1>3, <1>10
    <2>2. ~ Exists(Live(f))
        BY <1>1, <1>7, <2>1 DEF InErase
    <2>3. ~ Exists(Live(f))' /\ Backups(f)' = {}
        BY <1>2, <1>10, <2>2, AllRemoved DEF Unlink, Restrict, Exists
    <2>4. InErase(w)'
        BY <1>1, <2>1, <2>3 DEF InErase
    <2> QED
        BY <1>10, <2>4, Removing DEF Leaving
<1>11. CASE Goto(w, <<"erase", "dir">>, AfterErase(w)) /\ RemoveDir(f)
    <2>1. pc[w] = <<"erase", "dir">> /\ pc'[w] = AfterErase(w) /\ task' = task
        BY <1>3, <1>11
    <2>2. ~ Exists(Live(f)) /\ Backups(f) = {}
        BY <1>1, <1>7, <2>1 DEF InErase
    <2>3. ~ Exists(Live(f))' /\ Backups(f)' = {} /\ \A p : Still(p)
        BY <1>11, <2>2 DEF RemoveDir, Exists, Backups, Still
    <2>4. CASE op = "UPLOAD"
        <3>1. Settled(f, {}) /\ AfterErase(w) = <<"UPLOAD", "undone">>
            BY <1>1, <1>6, <2>2, <2>4, NothingLeft DEF AfterErase
        <3>2. Holding(w)'
            BY <1>1, <1>4, <1>11, <2>3, <3>1, StillFiles, ErasePoints, QuietStep
        <3>3. HandsOut(w)'
            BY <1>11, <3>1, NothingHandedOut, ErasePoints
        <3> QED
            BY <3>2, <3>3 DEF Contained
    <2>5. CASE op = "DELETE"
        <3>1. AfterErase(w) = <<"DELETE", "forget">>
            BY <1>1, <2>5 DEF AfterErase
        <3>2. InErase(w)'
            BY <1>1, <2>1, <2>3, <3>1 DEF InErase
        <3> QED
            BY <1>11, <3>1, <3>2, Removing DEF Leaving
    <2> QED
        BY <1>6, <2>4, <2>5
<1> QED
    BY <1>1, <1>8, <1>9, <1>10, <1>11 DEF Erase

-----------------------------------------------------------------------------
(* The cases of process_task.                                              *)

\* The points of the cases at which the file is as between requests.
Asking == Stage \ {"add", "update", "forget"}

\* Nothing special is known at these points.
LEMMA AskingPoints ==
    /\ \A op \in Operations, s \in Asking : <<op, s>> \notin Special /\ <<op, s>> # respond
    /\ respond \notin Special /\ \A c : ~ NeedsEntry(respond, c)
    /\ \A op, c : \A s \in FollowsPointer : NeedsEntry(<<op, s>>, c)
    /\ FollowsPointer \subseteq Asking
BY DEF Operations, Asking, Stage, NeedsEntry, respond, Special, InCopy, Unsettled, Written, Leaving,
       FollowsPointer

\* A worker in a case has the task the case is for.
LEMMA OwnCase ==
    ASSUME NEW w, NEW op \in Operations, task[w].op \in Callers(pc[w][1]), pc[w][1] = op
    PROVE  task[w].op = op
BY DEF Callers, Operations

\* A step of a case that changes no file, and no entry but for its lock.
LEMMA QuietCase ==
    ASSUME IInv, IInv', SerialInv, ContentsInv, NEW w \in Worker, ProcessTask(w),
           NEW op \in Operations, NEW s \in Asking, NEW to, Goto(w, <<op, s>>, to), to \notin Special,
           NoStore, SameRow(meta, meta', task[w].file),
           NeedsEntry(to, op) => Active(task[w].file),
           \/ to # respond \/ op \notin {"DOWNLOAD", "EDIT"}
           \/ \E status, audit : Answer(w, <<op, s>>, status, audit) /\ status # "SUCCESS"
    PROVE  Contained(w)
<1>1. pc[w] = <<op, s>>
    BY Moved
<1>2. Holding(w) /\ task[w].op \in Callers(pc[w][1])
    BY WorkFacts
<1>3. task[w].op = op
    BY <1>1, <1>2, OwnCase
<1>4. Settled(task[w].file, {})
    BY <1>1, <1>2, AskingPoints DEF Holding
<1>5. \A p : Still(p)
    BY DEF NoStore, diskVars, Still
<1>6. Holding(w)'
    BY <1>3, <1>4, <1>5, StillFiles, QuietStep
<1>7. HandsOut(w)'
    BY <1>3, NothingHandedOut
<1> QED
    BY <1>6, <1>7 DEF Contained

\* The lookup, and the tests of the owner and of the lock.
LEMMA FindContained ==
    ASSUME IInv, IInv', SerialInv, ContentsInv, NEW w \in Worker, ProcessTask(w),
           NEW op \in Operations, NEW s \in Asking, NEW to, NEW audit,
           FindOr(w, <<op, s>>, to, audit), to \notin Special, to # respond
    PROVE  Contained(w)
<1>1. NoStore /\ SameRow(meta, meta', task[w].file)
    BY DEF FindOr, NoShared, NoStore, SameRow
<1>2. CASE Goto(w, <<op, s>>, to) /\ FindFileMetadata(meta, task[w].file) # NoSlot
    BY <1>1, <1>2, QuietCase DEF Active, LockOf
<1>3. CASE Answer(w, <<op, s>>, "FILE_NOT_FOUND", audit)
    BY <1>1, <1>3, AskingPoints, QuietCase, "FILE_NOT_FOUND" # "SUCCESS" DEF Answer
<1> QED
    BY <1>2, <1>3 DEF FindOr

\* Where a case follows its pointer the file is in the table.
LEMMA EntryThere ==
    ASSUME IInv, IInv', SerialInv, ContentsInv, NEW w \in Worker, ProcessTask(w),
           NEW op \in Operations, NEW s \in FollowsPointer, pc[w] = <<op, s>>
    PROVE  Active(task[w].file)
BY WorkFacts, AskingPoints

\* The test of the owner.
LEMMA OwnerContained ==
    ASSUME IInv, IInv', SerialInv, ContentsInv, NEW w \in Worker, ProcessTask(w),
           NEW op \in Operations, NEW to,
           OwnerOr(w, <<op, "owner">>, to), to \notin Special, to # respond
    PROVE  Contained(w)
<1>1. NoStore /\ SameRow(meta, meta', task[w].file)
    BY DEF OwnerOr, NoShared, NoStore, SameRow
<1>2. "owner" \in FollowsPointer /\ "owner" \in Asking
    BY AskingPoints DEF FollowsPointer
<1>3. CASE Goto(w, <<op, "owner">>, to)
    BY <1>1, <1>2, <1>3, Moved, EntryThere, QuietCase
<1>4. CASE Answer(w, <<op, "owner">>, "PERMISSION_DENIED", "DENIED")
    BY <1>1, <1>2, <1>4, AskingPoints, QuietCase, "PERMISSION_DENIED" # "SUCCESS" DEF Answer
<1> QED
    BY <1>3, <1>4 DEF OwnerOr

\* Past the test of the lock DELETE knows that the file is settled.
LEMMA LockTestContained ==
    ASSUME IInv, IInv', SerialInv, ContentsInv, NEW w \in Worker, ProcessTask(w),
           NEW op \in {"DELETE", "ROLLBACK"}, NEW to, NEW audit, UnlockedOr(w, op, to, audit),
           IF op = "DELETE" THEN to = <<"erase", "file">> ELSE to = <<"backup", "version">>
    PROVE  Contained(w)
<1>1. NoStore /\ SameRow(meta, meta', task[w].file)
    BY DEF UnlockedOr, NoShared, NoStore, SameRow
<1>2. op \in Operations /\ {"unlocked", "holder"} \subseteq FollowsPointer
    BY DEF Operations, FollowsPointer
<1>3. \A c : \A s \in {"unlocked", "holder"} : Goto(w, <<op, s>>, c) => Active(task[w].file)
    BY <1>2, Moved, EntryThere
<1>4. CASE Answer(w, <<op, "holder">>, "FILE_LOCKED", audit)
    BY <1>1, <1>2, <1>4, AskingPoints, QuietCase, "FILE_LOCKED" # "SUCCESS" DEF Answer
<1>5. CASE Goto(w, <<op, "unlocked">>, <<op, "holder">>)
    BY <1>1, <1>2, <1>3, <1>5, AskingPoints, QuietCase
<1>6. ASSUME NEW s \in {"unlocked", "holder"}, Goto(w, <<op, s>>, to) PROVE Contained(w)
    <2>1. CASE op = "ROLLBACK"
        <3>1. to \notin Special /\ to # respond
            BY <2>1, BackupPoints
        <3> QED
            BY <1>1, <1>2, <1>3, <1>6, <3>1, AskingPoints, QuietCase
    <2>2. CASE op = "DELETE"
        <3>1. pc[w] = <<op, s>> /\ pc'[w] = to /\ task' = task
            BY <1>6, Moved
        <3>2. Holding(w) /\ task[w].op = op
            BY <1>2, <3>1, WorkFacts, OwnCase
        <3>3. Settled(task[w].file, {})
            BY <1>2, <3>1, <3>2, AskingPoints DEF Holding
        <3>4. \A p : Still(p)
            BY <1>1 DEF NoStore, diskVars, Still
        <3>5. PICK f : f = task[w].file
            OBVIOUS
        <3>6. Settled(f, {})'
            BY <1>1, <3>3, <3>4, <3>5, StillFiles, SettledKept
        <3>7. pc'[w] = <<"erase", "file">> /\ task'[w].op # "UPLOAD" /\ task'[w].file = f
            BY <2>2, <3>1, <3>2, <3>5
        <3>8. InErase(w)'
            BY <3>6, <3>7 DEF InErase
        <3> QED
            BY <1>6, <2>2, <3>8, Removing
    <2> QED
        BY <2>1, <2>2
<1> QED
    BY <1>4, <1>5, <1>6 DEF UnlockedOr

\* What the lock's functions leave of the entry.
LEMMA LockRows ==
    ASSUME IInv, SerialInv, NEW w \in Worker, ProcessTask(w)
    PROVE  /\ SameRow(meta, meta, task[w].file)
           /\ SameRow(meta, CheckEditLock(meta, task[w].file, now), task[w].file)
           /\ SameRow(meta, AcquireEditLock(meta, task[w].file, task[w].user, now), task[w].file)
           /\ SameRow(meta, ReleaseEditLock(meta, task[w].file, task[w].user), task[w].file)
<1>1. /\ meta \in Table /\ Sound(meta) /\ now \in Nat
      /\ task[w].file \in File /\ task[w].user \in User
    BY CaseFacts
<1> QED
    BY <1>1, RowEffects, 0 \in Nat

\* OP_DOWNLOAD
LEMMA DownloadContained ==
    ASSUME IInv, IInv', SerialInv, ContentsInv, NEW w \in Worker, Download(w) PROVE Contained(w)
<1>1. ProcessTask(w) /\ NoStore /\ SameRow(meta, meta', task[w].file)
    BY DEF ProcessTask, Download, NoShared, NoStore, SameRow
<1>2. "DOWNLOAD" \in Operations /\ {"find", "unreadable"} \subseteq Asking
    BY DEF Operations, Asking, Stage
<1>3. /\ <<"load", "open">> \notin Special /\ <<"load", "open">> # respond
      /\ ~ NeedsEntry(<<"load", "open">>, "DOWNLOAD")
    BY DEF Special, Unsettled, InCopy, Written, Leaving, respond, NeedsEntry, FollowsPointer
<1>4. CASE Goto(w, <<"DOWNLOAD", "find">>, <<"load", "open">>)
    BY <1>1, <1>2, <1>3, <1>4, QuietCase
<1>5. CASE Answer(w, <<"DOWNLOAD", "find">>, "FILE_NOT_FOUND", "NOT_FOUND")
    BY <1>1, <1>2, <1>5, AskingPoints, QuietCase, "FILE_NOT_FOUND" # "SUCCESS" DEF Answer
<1>6. CASE Answer(w, <<"DOWNLOAD", "unreadable">>, "ERROR", "ERROR")
    BY <1>1, <1>2, <1>6, AskingPoints, QuietCase, "ERROR" # "SUCCESS" DEF Answer
<1> QED
    BY <1>4, <1>5, <1>6 DEF Download

\* OP_EDIT
LEMMA EditContained ==
    ASSUME IInv, IInv', SerialInv, ContentsInv, NEW w \in Worker, Edit(w) PROVE Contained(w)
<1>1. ProcessTask(w)
    BY DEF ProcessTask
<1>2. /\ "EDIT" \in Operations
      /\ {"find", "owner", "acquire", "check", "unreadable"} \subseteq Asking
    BY DEF Operations, Asking, Stage
<1>3. /\ <<"load", "open">> \notin Special /\ <<"load", "open">> # respond
      /\ ~ NeedsEntry(<<"load", "open">>, "EDIT") /\ ~ NeedsEntry(<<"EDIT", "check">>, "EDIT")
      /\ ~ NeedsEntry(<<"EDIT", "acquire">>, "EDIT")
    BY DEF Special, Unsettled, InCopy, Written, Leaving, respond, NeedsEntry, FollowsPointer
<1>4. CASE FindOr(w, <<"EDIT", "find">>, <<"EDIT", "owner">>, "NOT_FOUND")
    BY <1>1, <1>2, <1>4, AskingPoints, FindContained
<1>5. CASE OwnerOr(w, <<"EDIT", "owner">>, <<"EDIT", "acquire">>)
    BY <1>1, <1>2, <1>5, AskingPoints, OwnerContained
<1>6. CASE /\ meta' = AcquireEditLock(meta, task[w].file, task[w].user, now) /\ NoStore
           /\ \/ Goto(w, <<"EDIT", "acquire">>, <<"load", "open">>)
              \/ Answer(w, <<"EDIT", "acquire">>, "FILE_NOT_FOUND", "NOT_FOUND")
              \/ Goto(w, <<"EDIT", "acquire">>, <<"EDIT", "check">>)
    <2>1. SameRow(meta, meta', task[w].file)
        BY <1>1, <1>6, LockRows
    <2>2. CASE Goto(w, <<"EDIT", "acquire">>, <<"load", "open">>)
        BY <1>1, <1>2, <1>3, <1>6, <2>1, <2>2, QuietCase
    <2>3. CASE Answer(w, <<"EDIT", "acquire">>, "FILE_NOT_FOUND", "NOT_FOUND")
        BY <1>1, <1>2, <1>6, <2>1, <2>3, AskingPoints, QuietCase, "FILE_NOT_FOUND" # "SUCCESS" DEF Answer
    <2>4. CASE Goto(w, <<"EDIT", "acquire">>, <<"EDIT", "check">>)
        BY <1>1, <1>2, <1>3, <1>6, <2>1, <2>4, AskingPoints, QuietCase
    <2> QED
        BY <1>6, <2>2, <2>3, <2>4
<1>7. CASE /\ Answer(w, <<"EDIT", "check">>, "FILE_LOCKED", "LOCKED")
           /\ meta' = CheckEditLock(meta, task[w].file, now) /\ NoStore
    BY <1>1, <1>2, <1>7, LockRows, AskingPoints, QuietCase, "FILE_LOCKED" # "SUCCESS" DEF Answer
<1>8. CASE /\ Answer(w, <<"EDIT", "unreadable">>, "ERROR", "ERROR")
           /\ meta' = ReleaseEditLock(meta, task[w].file, task[w].user) /\ NoStore
    BY <1>1, <1>2, <1>8, LockRows, AskingPoints, QuietCase, "ERROR" # "SUCCESS" DEF Answer
<1> QED
    BY <1>4, <1>5, <1>6, <1>7, <1>8 DEF Edit

\* OP_UNLOCK and the operations that only read.
LEMMA UnlockContained ==
    ASSUME IInv, IInv', SerialInv, ContentsInv, NEW w \in Worker, Unlock(w) PROVE Contained(w)
<1>1. ProcessTask(w) /\ "UNLOCK" \in Operations /\ "release" \in Asking
    BY DEF ProcessTask, Operations, Asking, Stage
<1>2. /\ Goto(w, <<"UNLOCK", "release">>, respond) /\ NoStore
      /\ meta' = ReleaseEditLock(meta, task[w].file, task[w].user)
    BY DEF Unlock, Answer
<1> QED
    BY <1>1, <1>2, LockRows, AskingPoints, QuietCase

\* OP_LIST, OP_VERSION, OP_HISTORY and OP_AUDIT
LEMMA ShowContained ==
    ASSUME IInv, IInv', SerialInv, ContentsInv, NEW w \in Worker, Show(w) PROVE Contained(w)
<1>1. /\ ProcessTask(w) /\ Goto(w, <<task[w].op, "show">>, respond) /\ NoStore
      /\ SameRow(meta, meta', task[w].file)
    BY DEF ProcessTask, Show, Answer, NoShared, NoStore, SameRow
<1>2. pc[w] = <<task[w].op, "show">>
    BY <1>1, Moved
<1>3. task[w].op \in Showing
    BY <1>1, <1>2, WorkFacts DEF Called
<1>4. task[w].op \in Operations \ {"DOWNLOAD", "EDIT"} /\ "show" \in Asking
    BY <1>3 DEF Showing, Operations, Asking, Stage
<1> QED
    BY <1>1, <1>4, AskingPoints, QuietCase

\* A change of the table after which the file is as between requests.
LEMMA SettlingStep ==
    ASSUME IInv, NEW w \in Worker, NEW from, NEW to, Goto(w, from, to), to \notin Special,
           ~ NeedsEntry(to, task[w].op), task[w].op \notin {"DOWNLOAD", "EDIT"},
           NEW f, f = task[w].file, Settled(f, {})'
    PROVE  Contained(w)
<1>1. pc'[w] = to /\ task' = task
    BY Moved
<1>2. Holding(w)'
    BY <1>1 DEF Holding
<1> QED
    BY <1>2, NothingHandedOut DEF Contained

\* Where the table changes after the disk.
LEMMA ChangePoints ==
    /\ <<"UPLOAD", "add">> \in Written \cap Special /\ <<"SAVE", "update">> \in Written \cap Special
    /\ <<"ROLLBACK", "update">> \in Special /\ <<"DELETE", "forget">> \in Leaving \cap Special
    /\ \A op : /\ NeedsEntry(<<"SAVE", "update">>, op) /\ NeedsEntry(<<"ROLLBACK", "update">>, op)
               /\ ~ NeedsEntry(<<"SAVE", "release">>, op)
BY DEF Special, Unsettled, InCopy, Written, Leaving, NeedsEntry, FollowsPointer

\* OP_UPLOAD: the entry that is made is that of what is on disk.
LEMMA AddContained ==
    ASSUME IInv, IInv', SerialInv, ContentsInv, NEW w \in Worker, ProcessTask(w),
           \/ /\ Answer(w, <<"UPLOAD", "add">>, "SUCCESS", "SUCCESS") /\ NoStore
              /\ HasRoomFor(meta, task[w].file)
              /\ meta' = AddFileMetadata(meta, task[w].file, task[w].user, Len(task[w].data))
           \/ /\ Goto(w, <<"UPLOAD", "add">>, <<"erase", "file">>)
              /\ ~ HasRoomFor(meta, task[w].file) /\ NoStore
    PROVE  Contained(w)
<1>1. PICK f, data, u : f = task[w].file /\ data = task[w].data /\ u = task[w].user
    OBVIOUS
<1>2. pc[w] = <<"UPLOAD", "add">>
    BY Moved DEF Answer
<1>3. /\ meta \in Table /\ Sound(meta) /\ f \in File /\ u \in User /\ Len(data) \in Nat
      /\ task[w].op = "UPLOAD" /\ data \in Data /\ Midway(w)
    BY <1>1, <1>2, WorkFacts, CaseFacts, OwnCase, ChangePoints DEF Operations
<1>4. Older(f) /\ Exists(Live(f)) /\ Contents(Live(f)) = data
    BY <1>1, <1>2, <1>3, ChangePoints DEF Midway, InStore
<1>5. CASE /\ Answer(w, <<"UPLOAD", "add">>, "SUCCESS", "SUCCESS") /\ NoStore
           /\ HasRoomFor(meta, f) /\ meta' = AddFileMetadata(meta, f, u, Len(data))
    <2>1. NextRow(meta, meta', f, Len(data))
        BY <1>3, <1>5, RowEffects, 0 \in Nat
    <2>2. Settled(f, {})'
        BY <1>3, <1>4, <1>5, <2>1, Resettled
    <2>3. Goto(w, <<"UPLOAD", "add">>, respond)
        BY <1>5 DEF Answer
    <2> QED
        BY <1>1, <1>3, <2>2, <2>3, AskingPoints, SettlingStep
<1>6. CASE Goto(w, <<"UPLOAD", "add">>, <<"erase", "file">>) /\ ~ HasRoomFor(meta, f) /\ NoStore
    <2>1. ~ Active(f)
        BY <1>6, FindIsNamed DEF HasRoomFor, Active, LockOf
    <2>2. Backups(f)' = {}
        BY <1>4, <1>6, <2>1 DEF Older, NoStore, diskVars, Backups
    <2>3. pc'[w] = <<"erase", "file">> /\ task' = task
        BY <1>6, Moved
    <2>4. InErase(w)'
        BY <1>1, <1>3, <2>2, <2>3 DEF InErase
    <2> QED
        BY <1>6, <2>4, Removing
<1> QED
    BY <1>1, <1>5, <1>6

\* OP_UPLOAD: its tests, and the change of the table after the write.
LEMMA UploadContained ==
    ASSUME IInv, IInv', SerialInv, ContentsInv, NEW w \in Worker, Upload(w) PROVE Contained(w)
<1>1. PICK f, i : f = task[w].file /\ i = FindFileMetadata(meta, f)
    OBVIOUS
<1>2. ProcessTask(w)
    BY DEF ProcessTask
<1>3. /\ "UPLOAD" \in Operations
      /\ {"check", "locker", "holder", "find", "owner", "undone"} \subseteq Asking
    BY DEF Operations, Asking, Stage
<1>4. /\ <<"store", "open">> \notin Special /\ <<"store", "open">> # respond
      /\ \A c \in {<<"store", "open">>, <<"UPLOAD", "locker">>, <<"UPLOAD", "find">>} : ~ NeedsEntry(c, "UPLOAD")
    BY DEF Special, Unsettled, InCopy, Written, Leaving, respond, NeedsEntry, FollowsPointer
<1>5. i # NoSlot => Active(f)
    BY <1>1 DEF Active, LockOf
<1>6. CASE /\ Goto(w, <<"UPLOAD", "check">>, IF EditLocked(meta, f, now) THEN <<"UPLOAD", "locker">>
                                                                          ELSE <<"UPLOAD", "find">>)
           /\ meta' = CheckEditLock(meta, f, now) /\ NoStore
    <2>1. SameRow(meta, meta', f)
        BY <1>1, <1>2, <1>6, LockRows
    <2>2. PICK to \in {<<"UPLOAD", "locker">>, <<"UPLOAD", "find">>} : Goto(w, <<"UPLOAD", "check">>, to)
        BY <1>6
    <2>3. to \notin Special /\ ~ NeedsEntry(to, "UPLOAD")
        BY <1>3, <1>4, <2>2, AskingPoints
    <2> QED
        BY <1>1, <1>2, <1>3, <1>6, <2>1, <2>2, <2>3, QuietCase
<1>7. ASSUME NEW s \in Asking, NEW to, Goto(w, <<"UPLOAD", s>>, to), NoShared, to \notin Special,
             NeedsEntry(to, "UPLOAD") => Active(f)
      PROVE  Contained(w)
    <2>1. NoStore /\ SameRow(meta, meta', f)
        BY <1>7 DEF NoShared, NoStore, SameRow
    <2> QED
        BY <1>1, <1>2, <1>3, <1>7, <2>1, QuietCase
<1>8. CASE /\ NoShared
           /\ Goto(w, <<"UPLOAD", "locker">>, IF i = NoSlot THEN <<"UPLOAD", "find">> ELSE <<"UPLOAD", "holder">>)
    BY <1>3, <1>4, <1>5, <1>7, <1>8, AskingPoints
<1>9. CASE NoShared /\ Goto(w, <<"UPLOAD", "holder">>, <<"UPLOAD", "find">>)
    BY <1>3, <1>4, <1>7, <1>9, AskingPoints
<1>10. CASE /\ NoShared
            /\ \/ Answer(w, <<"UPLOAD", "holder">>, "FILE_LOCKED", "LOCKED")
               \/ Answer(w, <<"UPLOAD", "undone">>, "ERROR", "ERROR")
    <2>1. PICK s \in {"holder", "undone"} : Goto(w, <<"UPLOAD", s>>, respond)
        BY <1>10 DEF Answer
    <2> QED
        BY <1>3, <1>7, <1>10, <2>1, AskingPoints
<1>11. CASE /\ NoShared
            /\ Goto(w, <<"UPLOAD", "find">>, IF i = NoSlot THEN <<"store", "open">> ELSE <<"UPLOAD", "owner">>)
    BY <1>3, <1>4, <1>5, <1>7, <1>11, AskingPoints
<1>12. CASE OwnerOr(w, <<"UPLOAD", "owner">>, <<"backup", "version">>)
    BY <1>2, <1>3, <1>12, BackupPoints, OwnerContained
<1>13. CASE \/ /\ Answer(w, <<"UPLOAD", "add">>, "SUCCESS", "SUCCESS") /\ NoStore
               /\ HasRoomFor(meta, f)
               /\ meta' = AddFileMetadata(meta, f, task[w].user, Len(task[w].data))
            \/ /\ Goto(w, <<"UPLOAD", "add">>, <<"erase", "file">>)
               /\ ~ HasRoomFor(meta, f) /\ NoShared
    <2>1. NoShared => NoStore
        BY DEF NoShared, NoStore
    <2> QED
        BY <1>1, <1>2, <1>13, <2>1, AddContained
<1> QED
    BY <1>1, <1>6, <1>8, <1>9, <1>10, <1>11, <1>12, <1>13 DEF Upload

\* OP_DELETE
LEMMA DeleteContained ==
    ASSUME IInv, IInv', SerialInv, ContentsInv, NEW w \in Worker, Delete(w) PROVE Contained(w)
<1>1. PICK f : f = task[w].file
    OBVIOUS
<1>2. /\ ProcessTask(w) /\ "DELETE" \in Operations
      /\ {"find", "owner", "unlocked", "holder"} \subseteq Asking
    BY DEF ProcessTask, Operations, Asking, Stage
<1>3. CASE FindOr(w, <<"DELETE", "find">>, <<"DELETE", "owner">>, "NOT_FOUND")
    BY <1>2, <1>3, AskingPoints, FindContained
<1>4. CASE OwnerOr(w, <<"DELETE", "owner">>, <<"DELETE", "unlocked">>)
    BY <1>2, <1>4, AskingPoints, OwnerContained
<1>5. CASE UnlockedOr(w, "DELETE", <<"erase", "file">>, "LOCKED")
    BY <1>2, <1>5, LockTestContained
<1>6. CASE /\ Goto(w, <<"DELETE", "forget">>, respond)
           /\ meta' = RemoveFileMetadata(meta, f) /\ NoStore
    <2>1. pc[w] = <<"DELETE", "forget">>
        BY <1>6, Moved
    <2>2. /\ meta \in Table /\ Sound(meta) /\ f \in File /\ task[w].user \in User
          /\ task[w].op = "DELETE" /\ Midway(w)
        BY <1>1, <1>2, <2>1, WorkFacts, CaseFacts, OwnCase, ChangePoints
    <2>3. InErase(w)
        BY <2>1, <2>2, ChangePoints DEF Midway
    <2>4. ~ Exists(Live(f)) /\ Backups(f) = {}
        BY <1>1, <2>1, <2>3 DEF InErase
    <2>5. ~ Active(f)'
        BY <1>6, <2>2, EntriesAppear, 0 \in Nat DEF Active, LockOf
    <2>6. Settled(f, {})'
        BY <1>6, <2>4, <2>5 DEF Settled, NoStore, diskVars, Exists, Backups
    <2> QED
        BY <1>1, <1>6, <2>2, <2>6, AskingPoints, SettlingStep
<1> QED
    BY <1>1, <1>3, <1>4, <1>5, <1>6 DEF Delete, Answer

\* OP_SAVE: the entry is brought up to what is on disk.
LEMMA SaveContained ==
    ASSUME IInv, IInv', SerialInv, ContentsInv, NEW w \in Worker, Save(w) PROVE Contained(w)
<1>1. PICK f, data : f = task[w].file /\ data = task[w].data
    OBVIOUS
<1>2. /\ ProcessTask(w) /\ "SAVE" \in Operations
      /\ {"find", "holder", "release"} \subseteq Asking /\ "holder" \in FollowsPointer
    BY DEF ProcessTask, Operations, Asking, Stage, FollowsPointer
<1>3. CASE FindOr(w, <<"SAVE", "find">>, <<"SAVE", "holder">>, "none")
    BY <1>2, <1>3, AskingPoints, FindContained
<1>4. CASE /\ NoShared
           /\ \/ Answer(w, <<"SAVE", "holder">>, "PERMISSION_DENIED", "NOT_LOCK_HOLDER")
              \/ Goto(w, <<"SAVE", "holder">>, <<"backup", "version">>)
    <2>1. NoStore /\ SameRow(meta, meta', f)
        BY <1>4 DEF NoShared, NoStore, SameRow
    <2>2. PICK to \in {respond, <<"backup", "version">>} : Goto(w, <<"SAVE", "holder">>, to)
        BY <1>4 DEF Answer
    <2>3. to \notin Special /\ Active(f)
        BY <1>1, <1>2, <2>2, Moved, EntryThere, AskingPoints, BackupPoints
    <2> QED
        BY <1>1, <1>2, <2>1, <2>2, <2>3, QuietCase
<1>5. CASE /\ \/ Goto(w, <<"SAVE", "update">>, <<"SAVE", "release">>)
              \/ Answer(w, <<"SAVE", "update">>, "ERROR", "ERROR")
           /\ meta' = UpdateFileMetadata(meta, f, Len(data)) /\ NoStore
    <2>1. PICK to \in {respond, <<"SAVE", "release">>} : Goto(w, <<"SAVE", "update">>, to)
        BY <1>5 DEF Answer
    <2>2. pc[w] = <<"SAVE", "update">>
        BY <2>1, Moved
    <2>3. /\ meta \in Table /\ Sound(meta) /\ f \in File /\ Len(data) \in Nat /\ task[w].user \in User
          /\ task[w].op = "SAVE" /\ data \in Data /\ Midway(w) /\ Active(f)
        BY <1>1, <1>2, <2>2, WorkFacts, CaseFacts, OwnCase, ChangePoints
    <2>4. Older(f) /\ Exists(Live(f)) /\ Contents(Live(f)) = data
        BY <1>1, <2>2, <2>3, ChangePoints DEF Midway, InStore
    <2>5. NextRow(meta, meta', f, Len(data))
        BY <1>5, <2>3, RowEffects, 0 \in Nat DEF Active, LockOf
    <2>6. Settled(f, {})'
        BY <1>5, <2>3, <2>4, <2>5, Resettled
    <2>7. to \notin Special /\ ~ NeedsEntry(to, "SAVE")
        BY <1>2, <2>1, AskingPoints, ChangePoints
    <2> QED
        BY <1>1, <2>1, <2>3, <2>6, <2>7, SettlingStep
<1>6. CASE /\ Goto(w, <<"SAVE", "release">>, respond)
           /\ meta' = ReleaseEditLock(meta, f, task[w].user) /\ NoStore
    BY <1>1, <1>2, <1>6, LockRows, AskingPoints, QuietCase
<1> QED
    BY <1>1, <1>3, <1>4, <1>5, <1>6 DEF Save, Answer

\* OP_ROLLBACK
LEMMA RollbackContained ==
    ASSUME IInv, IInv', SerialInv, ContentsInv, NEW w \in Worker, Rollback(w) PROVE Contained(w)
<1>1. PICK f, size : f = task[w].file /\ size = reg[w].size
    OBVIOUS
<1>2. /\ ProcessTask(w) /\ "ROLLBACK" \in Operations
      /\ {"find", "owner", "unlocked", "holder", "failed"} \subseteq Asking
    BY DEF ProcessTask, Operations, Asking, Stage
<1>3. CASE FindOr(w, <<"ROLLBACK", "find">>, <<"ROLLBACK", "owner">>, "NOT_FOUND")
    BY <1>2, <1>3, AskingPoints, FindContained
<1>4. CASE OwnerOr(w, <<"ROLLBACK", "owner">>, <<"ROLLBACK", "unlocked">>)
    BY <1>2, <1>4, AskingPoints, OwnerContained
<1>5. CASE UnlockedOr(w, "ROLLBACK", <<"backup", "version">>, "none")
    BY <1>2, <1>5, LockTestContained, "ROLLBACK" # "DELETE"
<1>6. CASE Goto(w, <<"ROLLBACK", "failed">>, respond) /\ NoShared
    <2>1. NoStore /\ SameRow(meta, meta', f)
        BY <1>6 DEF NoShared, NoStore, SameRow
    <2> QED
        BY <1>1, <1>2, <1>6, <2>1, AskingPoints, QuietCase
<1>7. CASE /\ Goto(w, <<"ROLLBACK", "update">>, respond)
           /\ meta' = UpdateFileMetadata(meta, f, size) /\ NoStore
    <2>1. pc[w] = <<"ROLLBACK", "update">>
        BY <1>7, Moved
    <2>2. /\ meta \in Table /\ Sound(meta) /\ f \in File /\ task[w].user \in User
          /\ task[w].op = "ROLLBACK" /\ Midway(w) /\ Active(f) /\ size \in Nat
        <3>1. size \in Nat
            BY <1>1 DEF IInv, TypeOK, RegisterSet
        <3> QED
            BY <1>1, <1>2, <2>1, <3>1, WorkFacts, CaseFacts, OwnCase, ChangePoints
    <2>3. Older(f) /\ Exists(Live(f)) /\ Contents(Live(f)) \in Data /\ size = Len(Contents(Live(f)))
        BY <1>1, <2>1, <2>2 DEF Midway, Restored
    <2>4. NextRow(meta, meta', f, size)
        BY <1>7, <2>2, RowEffects, 0 \in Nat DEF Active, LockOf
    <2>5. Settled(f, {})'
        BY <1>7, <2>3, <2>4, Resettled
    <2> QED
        BY <1>1, <1>7, <2>2, <2>5, AskingPoints, SettlingStep
<1> QED
    BY <1>1, <1>3, <1>4, <1>5, <1>6, <1>7 DEF Rollback, Answer

\* OP_DELETE_VERSION
LEMMA DeleteVersionContained ==
    ASSUME IInv, IInv', SerialInv, ContentsInv, NEW w \in Worker, DeleteVersion(w) PROVE Contained(w)
<1>1. PICK f, p : f = task[w].file /\ p = Version(f, task[w].target)
    OBVIOUS
<1>2. /\ ProcessTask(w) /\ "DELVERSION" \in Operations
      /\ {"find", "owner", "remove"} \subseteq Asking
    BY DEF ProcessTask, Operations, Asking, Stage
<1>3. CASE FindOr(w, <<"DELVERSION", "find">>, <<"DELVERSION", "owner">>, "NOT_FOUND")
    BY <1>2, <1>3, AskingPoints, FindContained
<1>4. CASE OwnerOr(w, <<"DELVERSION", "owner">>, <<"DELVERSION", "remove">>)
    BY <1>2, <1>4, AskingPoints, OwnerContained
<1>5. CASE Goto(w, <<"DELVERSION", "remove">>, respond) /\ Unlink({p}) /\ UNCHANGED <<meta, reg>>
    <2>1. pc[w] = <<"DELVERSION", "remove">>
        BY <1>5, Moved
    <2>2. /\ Holding(w) /\ DiskTypeOK /\ DiskTypeOK' /\ task[w].target \in Nat
          /\ task[w].op = "DELVERSION"
        BY <1>2, <2>1, WorkFacts, OwnCase
    <2>3. Settled(f, {})
        BY <1>1, <1>2, <2>1, <2>2, AskingPoints DEF Holding
    <2>4. Live(f) # p
        BY <1>1, <2>2 DEF Live, Version
    <2>5. FilesStay(f, {})
        BY <1>5, <2>2, <2>4, RestStays
    <2>6. SameRow(meta, meta', f)
        BY <1>5 DEF SameRow
    <2>7. Holding(w)'
        BY <1>1, <1>5, <2>3, <2>5, <2>6, AskingPoints, QuietStep
    <2> QED
        BY <1>5, <2>2, <2>7, NothingHandedOut DEF Contained
<1>6. CASE Goto(w, <<"DELVERSION", "remove">>, respond) /\ NoShared
    <2>1. NoStore /\ SameRow(meta, meta', f)
        BY <1>6 DEF NoShared, NoStore, SameRow
    <2> QED
        BY <1>1, <1>2, <1>6, <2>1, AskingPoints, QuietCase
<1> QED
    BY <1>1, <1>3, <1>4, <1>5, <1>6 DEF DeleteVersion, Answer

\* Every step of process_task.
LEMMA ProcessTaskContained ==
    ASSUME IInv, IInv', SerialInv, ContentsInv, ~ DiskMayFail, NEW w \in Worker, ProcessTask(w)
    PROVE  ContentsInv'
<1>1. Contained(w)
    BY UploadContained, DownloadContained, DeleteContained, EditContained, SaveContained,
       UnlockContained, RollbackContained, DeleteVersionContained, ShowContained, BackupContained,
       CleanupContained, StoreContained, RestoreContained, LoadContained, EraseContained
       DEF ProcessTask
<1> QED
    BY <1>1, OwnContents DEF Contained

-----------------------------------------------------------------------------
(* The worker's loop and the clock.                                        *)

\* A step that leaves the table and the files, and all workers but one.
LEMMA LoopContents ==
    ASSUME IInv, ContentsInv, NEW W \in SUBSET Worker, UNCHANGED <<meta, diskVars>>,
           \A v \in Worker \ W : /\ pc'[v] = pc[v] /\ task'[v] = task[v]
                                 /\ reg'[v] = reg[v] /\ reply'[v] = reply[v],
           \A w \in W : Called(w)' /\ HandsOut(w)' /\ (pc'[w] # idle => Holding(w)'),
           \A g \in File : Quiet(g)' => Settled(g, {})
    PROVE  ContentsInv'
<1>1. \A g : Undisturbed(g)
    BY DEF Undisturbed, SameRow, Still, diskVars
<1>2. ASSUME NEW g \in File, Quiet(g)' PROVE Settled(g, {})'
    BY <1>1, <1>2, UndisturbedFiles, SettledKept
<1>3. ASSUME NEW v \in Worker \ W
      PROVE  Called(v)' /\ HandsOut(v)' /\ (pc'[v] # idle => Holding(v)')
    <2>1. Called(v)' /\ HandsOut(v)'
        BY <1>3 DEF ContentsInv, Called, HandsOut
    <2>2. fd'[v] = fd[v]
        BY DEF diskVars
    <2>3. ASSUME pc'[v] # idle PROVE Holding(v)'
        <3>1. Holding(v)
            BY <1>3, <2>3 DEF ContentsInv
        <3> QED
            BY <1>1, <1>3, <2>2, <3>1, HoldingKept
    <2> QED
        BY <2>1, <2>3
<1> QED
    BY <1>2, <1>3 DEF ContentsInv

\* mq_receive: the file of the new task is settled, for nobody works on it.
LEMMA ReceiveTaskContents ==
    ASSUME PerFileSerial, IInv, ContentsInv, NEW w \in Worker, ReceiveTask(w) PROVE ContentsInv'
<1>1. PICK t \in Requests : /\ Serving(t.file) = {}
                            /\ task' = [task EXCEPT ![w] = t]
                            /\ pc' = [pc EXCEPT ![w] = Entry(t.op)]
    BY DEF ReceiveTask
<1>2. /\ pc'[w] = Entry(t.op) /\ task'[w] = t
      /\ \A v \in Worker \ {w} : pc'[v] = pc[v] /\ task'[v] = task[v]
    BY <1>1 DEF IInv, TypeOK
<1>3. pc[w] = idle /\ UNCHANGED <<reg, reply, meta, diskVars>>
    BY DEF ReceiveTask, NoShared
<1>4. t.op \in Operations /\ t.file \in File
    BY <1>1, WorkerPoolAssumption DEF Requests
<1>5. /\ Entry(t.op) \notin Special /\ Entry(t.op) # respond
      /\ ~ NeedsEntry(Entry(t.op), t.op)
    <2>1. \A op \in Operations : \E s \in {"check", "release", "show", "find"} : Entry(op) = <<op, s>>
        BY DEF Entry, Operations
    <2>2. PICK s \in {"check", "release", "show", "find"} : Entry(t.op) = <<t.op, s>>
        BY <1>4, <2>1
    <2>3. s \in Asking
        BY DEF Asking, Stage
    <2>4. ~ NeedsEntry(<<t.op, s>>, t.op)
        BY <1>4 DEF NeedsEntry, FollowsPointer, Operations
    <2> QED
        BY <1>4, <2>2, <2>3, <2>4, AskingPoints
<1>6. task[w] = NoTask /\ \A v \in Worker : task[v].file = t.file => task[v] = NoTask
    BY <1>1, <1>3 DEF IInv, TypeOK, WorkerOK, Serving, Busy
<1>7. \A g \in File : Quiet(g)' => Settled(g, {})
    <2> SUFFICES ASSUME NEW g \in File, Quiet(g)' PROVE Quiet(g)
        BY DEF ContentsInv
    <2>1. \A v \in Worker \ {w} : task[v] # NoTask => task[v].file # g
        BY <1>2 DEF Quiet, Serving, Busy
    <2> QED
        BY <1>6, <2>1 DEF Quiet, Serving, Busy
<1>8. Settled(t.file, {})
    BY <1>1, <1>4 DEF ContentsInv, Quiet
<1>9. Settled(t.file, {})'
    <2>1. Undisturbed(t.file)
        BY <1>3 DEF Undisturbed, SameRow, Still, diskVars
    <2> QED
        BY <1>8, <2>1, UndisturbedFiles, SettledKept
<1>10. Called(w)' /\ HandsOut(w)'
    BY <1>2, <1>5, ReceiveTaskCalled DEF HandsOut
<1>11. Holding(w)'
    <2>1. PICK f : f = t.file
        OBVIOUS
    <2>2. f = task'[w].file /\ Settled(f, {})'
        BY <1>2, <1>9, <2>1
    <2> QED
        BY <1>2, <1>5, <2>2 DEF Holding
<1>12. \A v \in {w} : Called(v)' /\ HandsOut(v)' /\ (pc'[v] # idle => Holding(v)')
    BY <1>10, <1>11
<1> QED
    BY <1>2, <1>3, <1>7, <1>12, LoopContents

\* send_response
LEMMA SendResponseContents ==
    ASSUME IInv, ContentsInv, NEW w \in Worker, SendResponse(w) PROVE ContentsInv'
<1>1. pc[w] = respond /\ UNCHANGED <<meta, diskVars>> /\ respond # idle
    BY DEF SendResponse, NoShared, respond, idle
<1>2. /\ pc'[w] = idle /\ task'[w] = NoTask
      /\ \A v \in Worker \ {w} : /\ pc'[v] = pc[v] /\ task'[v] = task[v]
                                 /\ reg'[v] = reg[v] /\ reply'[v] = reply[v]
    BY DEF SendResponse, IInv, TypeOK
<1>3. Settled(task[w].file, {})
    BY <1>1, AskingPoints DEF ContentsInv, Holding
<1>4. \A g \in File : Quiet(g)' => Settled(g, {})
    <2> SUFFICES ASSUME NEW g \in File, Quiet(g)', g # task[w].file PROVE Quiet(g)
        BY <1>3 DEF ContentsInv
    <2>1. \A v \in Worker \ {w} : task[v] # NoTask => task[v].file # g
        BY <1>2 DEF Quiet, Serving, Busy
    <2> QED
        BY <2>1 DEF Quiet, Serving, Busy
<1>5. \A v \in {w} : Called(v)' /\ HandsOut(v)' /\ (pc'[v] # idle => Holding(v)')
    BY <1>1, <1>2 DEF Called, HandsOut
<1> QED
    BY <1>1, <1>2, <1>4, <1>5, LoopContents

\* The server as it starts: no files, and an empty table.
LEMMA InitContents == Init => ContentsInv
<1> SUFFICES ASSUME Init PROVE ContentsInv
    OBVIOUS
<1>1. \A f \in File : Settled(f, {})
    <2> SUFFICES ASSUME NEW f \in File PROVE Settled(f, {})
        OBVIOUS
    <2>1. ~ Active(f)
        BY EmptyTableSerial DEF Init, Active, LockOf
    <2>2. DOMAIN link = {}
        BY DEF Init, DiskInit
    <2> QED
        BY <2>1, <2>2, NothingLeft DEF Exists, Backups
<1>2. \A w \in Worker : pc[w] = idle /\ idle # respond
    BY DEF Init, idle, respond
<1> QED
    BY <1>1, <1>2 DEF ContentsInv, Called, HandsOut

\* Every step keeps the invariant, while the server does not start again.
LEMMA ContentsStep ==
    PerFileSerial /\ ~ DiskMayFail /\ IInv /\ IInv' /\ SerialInv /\ ContentsInv /\ restarts = 0 /\ [Next]_vars
    => ContentsInv' /\ restarts' = 0
<1> SUFFICES ASSUME PerFileSerial, ~ DiskMayFail, IInv, IInv', SerialInv, ContentsInv, restarts = 0,
                    [Next]_vars
             PROVE  ContentsInv' /\ restarts' = 0
    OBVIOUS
<1>1. ASSUME NEW w \in Worker, WorkerStep(w) PROVE ContentsInv'
    BY <1>1, ReceiveTaskContents, ProcessTaskContained, SendResponseContents DEF WorkerStep
<1>2. ASSUME NEW w \in Worker, WorkerStep(w) PROVE restarts' = 0
    <2>1. CASE ReceiveTask(w) \/ SendResponse(w)
        BY <2>1 DEF ReceiveTask, SendResponse
    <2>2. CASE ProcessTask(w)
        <3>1. Effect(w)
            BY <2>2, ProcessTaskEffect DEF SerialInv
        <3> QED
            BY <3>1 DEF Effect, Moves, Goto
    <2> QED
        BY <1>2, <2>1, <2>2 DEF WorkerStep
<1>3. CASE Tick \/ UNCHANGED vars
    <2>1. UNCHANGED <<meta, diskVars, poolVars, restarts>>
        BY <1>3 DEF Tick, NoShared, vars
    <2>2. \A g \in File : Quiet(g)' => Settled(g, {})
        BY <2>1 DEF ContentsInv, Quiet, Serving, Busy, poolVars
    <2>3. ContentsInv'
        <3>1. \A v \in Worker \ {} : /\ pc'[v] = pc[v] /\ task'[v] = task[v]
                                    /\ reg'[v] = reg[v] /\ reply'[v] = reply[v]
            BY <2>1 DEF poolVars
        <3>2. \A v \in {} : Called(v)' /\ HandsOut(v)' /\ (pc'[v] # idle => Holding(v)')
            OBVIOUS
        <3>3. {} \in SUBSET Worker /\ UNCHANGED <<meta, diskVars>>
            BY <2>1
        <3> QED
            BY <2>2, <3>1, <3>2, <3>3, LoopContents
    <2> QED
        BY <2>1, <2>3
<1>4. ~ Restart /\ ~ StartTwice
    BY DEF Restart, StartTwice
<1> QED
    BY <1>1, <1>2, <1>3, <1>4 DEF Next, Finished

\* So the invariant holds throughout.
LEMMA ContentsInductive ==
    PerFileSerial /\ ~ DiskMayFail /\ MaxRestarts = 0
    => (Spec => [](IInv /\ SerialInv /\ ContentsInv /\ restarts = 0))
<1> SUFFICES ASSUME PerFileSerial, ~ DiskMayFail, MaxRestarts = 0
             PROVE  Spec => [](IInv /\ SerialInv /\ ContentsInv /\ restarts = 0)
    OBVIOUS
<1>1. Init => IInv /\ SerialInv /\ ContentsInv /\ restarts = 0
    BY InitKeeps, InitSerial, InitContents DEF Init
<1>2. IInv /\ SerialInv /\ ContentsInv /\ restarts = 0 /\ [Next]_vars
      => (IInv /\ SerialInv /\ ContentsInv /\ restarts = 0)'
    BY NextKeeps, SerialStep, ContentsStep
<1> QED
    BY <1>1, <1>2, PTL DEF Spec

-----------------------------------------------------------------------------
(* What follows.                                                           *)

\* The backups of f, by their numbers.
LEMMA StoredBackups ==
    ASSUME DiskTypeOK, NEW f, NEW n \in Stored(f) PROVE n \in Nat /\ Version(f, n) \in Backups(f)
<1>1. PICK p \in DOMAIN link : p[1] = f /\ p[2] > 0 /\ n = p[2] - 1
    BY DEF Stored
<1>2. p = <<f, p[2]>> /\ p[2] \in Nat
    BY <1>1 DEF DiskTypeOK, Path
<1>3. n \in Nat /\ Version(f, n) = p
    BY <1>1, <1>2 DEF Version
<1> QED
    BY <1>1, <1>2, <1>3 DEF Backups

\* When clients never overlap two requests for one file, no write fails and no
\* server crashes: a file nobody is working on is in the table exactly when it
\* is on disk, and the table has its length.
THEOREM TableAgrees ==
    PerFileSerial /\ ~ DiskMayFail /\ MaxRestarts = 0 => (Spec => []TableMatchesDisk)
<1>1. ContentsInv => TableMatchesDisk
    BY DEF ContentsInv, TableMatchesDisk, Settled, Size, LiveBytes
<1> QED
    BY <1>1, ContentsInductive, PTL

\* Then its backups are numbered below its version, or they are the current one.
THEOREM HistoryIsBehind ==
    PerFileSerial /\ ~ DiskMayFail /\ MaxRestarts = 0 => (Spec => []HistoryBehindCurrent)
<1>1. ASSUME IInv, ContentsInv PROVE HistoryBehindCurrent
    <2> SUFFICES ASSUME NEW f \in File, Settled(f, {}), NEW n \in Stored(f)
                 PROVE  /\ Active(f)
                        /\ \/ n < Current(f)
                           \/ n = Current(f) /\ Contents(Version(f, n)) = LiveBytes(f)
        BY <1>1 DEF ContentsInv, HistoryBehindCurrent, Current
    <2>1. n \in Nat /\ Version(f, n) \in Backups(f)
        BY <1>1, StoredBackups DEF IInv, TypeOK
    <2>2. /\ Active(f) /\ Exists(Live(f))
          /\ \/ Version(f, n)[2] <= Current(f)
             \/ Version(f, n) = Latest(f) /\ Contents(Version(f, n)) = Contents(Live(f))
        BY <2>1 DEF Settled
    <2>3. Current(f) \in Nat
        BY <1>1, <2>2, FindIsNamed DEF Active, Current, LockOf, IInv, TypeOK, FileMetadata
    <2>4. Version(f, n)[2] = n + 1 /\ Latest(f)[2] = Current(f) + 1
        BY DEF Version, Latest
    <2> QED
        BY <2>1, <2>2, <2>3, <2>4 DEF LiveBytes
<1>2. IInv /\ ContentsInv => HistoryBehindCurrent
    BY <1>1
<1> QED
    BY <1>2, ContentsInductive, PTL

\* And what DOWNLOAD and EDIT hand out is what some client sent, whole.
THEOREM DownloadsWhole ==
    PerFileSerial /\ ~ DiskMayFail /\ MaxRestarts = 0 => (Spec => []DownloadWhole)
<1>1. ContentsInv => DownloadWhole
    BY DEF ContentsInv, DownloadWhole, HandsOut
<1> QED
    BY <1>1, ContentsInductive, PTL

-----------------------------------------------------------------------------
(* What is saved before it is overwritten, on a disk that does not fill.   *)

\* The current version is among the backups.
HasCopy(f) == /\ Exists(Live(f)) /\ Exists(Latest(f))
              /\ Contents(Latest(f)) = Contents(Live(f))

\* The points between the backup and the overwrite.
Backed == {<<"cleanup", "list">>, <<"cleanup", "remove">>, <<"restore", "open">>,
           <<"restore", "create">>, <<"store", "open">>}

\* The way a worker takes to the backup has no exit, and the backup stays.
SavedAt(w) ==
    LET f == task[w].file
    IN  /\ pc[w] = <<"backup", "mkdir">> => f \notin vdirs
        /\ pc[w] \in {<<"backup", "open">>, <<"backup", "create">>} => f \in vdirs
        /\ pc[w] \in Backed /\ Active(f) => HasCopy(f)
        /\ pc[w] = <<"cleanup", "remove">> => Current(f) \notin reg[w].victims
SavedInv == \A w \in Worker : SavedAt(w)

\* Elsewhere nothing is asked.
SavedPoints == Backed \cup {<<"backup", s>> : s \in {"mkdir", "open", "create"}}

\* A worker that is at none of these points owes nothing.
LEMMA NothingSaved == ASSUME NEW w, pc[w] \notin SavedPoints PROVE SavedAt(w)
BY DEF SavedAt, SavedPoints, Backed

\* Where nothing is asked.
LEMMA UnsavedPoints ==
    /\ \A op \in Operations : \A s : <<op, s>> \notin SavedPoints
    /\ respond \notin SavedPoints /\ idle \notin SavedPoints
    /\ \A s \in {"version", "dir", "read", "write"} : <<"backup", s>> \notin SavedPoints
    /\ \A s \in {"read", "write"} : <<"restore", s>> \notin SavedPoints
    /\ \A s : <<"load", s>> \notin SavedPoints /\ <<"erase", s>> \notin SavedPoints
    /\ <<"store", "write">> \notin SavedPoints
BY DEF Operations, SavedPoints, Backed, respond, idle

\* A step that leaves the live file and the latest backup.
LEMMA CopyStays ==
    ASSUME NEW f, Active(f), HasCopy(f), SameRow(meta, meta', f), Still(Live(f)), Still(Latest(f))
    PROVE  HasCopy(f)'
<1>1. PICK p, q : p = Live(f) /\ q = Latest(f)
    OBVIOUS
<1>2. q = Latest(f)'
    BY <1>1, RowKept
<1>3. Exists(p)' /\ Exists(q)' /\ Contents(q)' = Contents(p)'
    BY <1>1 DEF HasCopy, Still, Exists, Contents
<1> QED
    BY <1>1, <1>2, <1>3 DEF HasCopy, Exists, Contents

\* The directories of other files stay.
LEMMA OthersDirectories ==
    ASSUME NEW w \in Worker, ProcessTask(w), NEW g, g # task[w].file
    PROVE  g \in vdirs' <=> g \in vdirs
<1> DEFINE Same == vdirs' = vdirs
<1>1. /\ NoStore => Same
      /\ \A p : OpenRead(w, p) \/ OpenWrite(w, p) => Same
      /\ \A off, d : Write(w, off, d) \/ WriteAndClose(w, off, d) => Same
      /\ \A P : Unlink(P) => Same
      /\ Close(w) => Same
    BY DEF NoStore, NoShared, diskVars, OpenRead, OpenWrite, Write, WriteAndClose, Unlink, Close
<1>2. NoShared => Same
    BY DEF NoShared, diskVars
<1> HIDE DEF Same
<1>3. ASSUME NEW r, NEW dst, NEW done, NEW failed, Copy(w, r, dst, done, failed) PROVE Same
    BY <1>1, <1>3 DEF Copy
<1>4. ASSUME NEW c, NEW op, NEW to, NEW audit,
             FindOr(w, c, to, audit) \/ OwnerOr(w, c, to) \/ UnlockedOr(w, op, to, audit)
      PROVE  Same
    BY <1>2, <1>4 DEF FindOr, OwnerOr, UnlockedOr
<1>5. Same \/ MakeDir(task[w].file) \/ RemoveDir(task[w].file)
    <2>1. CASE Upload(w)
        BY <1>1, <1>2, <1>4, <2>1 DEF Upload
    <2>2. CASE Download(w) \/ Delete(w) \/ Edit(w)
        BY <1>1, <1>2, <1>4, <2>2 DEF Download, Delete, Edit
    <2>3. CASE Save(w) \/ Unlock(w) \/ Rollback(w) \/ DeleteVersion(w) \/ Show(w)
        BY <1>1, <1>2, <1>4, <2>3 DEF Save, Unlock, Rollback, DeleteVersion, Show
    <2>4. CASE Backup(w)
        BY <1>1, <1>2, <1>3, <2>4 DEF Backup
    <2>5. CASE Cleanup(w) \/ Restore(w)
        BY <1>1, <1>2, <1>3, <2>5 DEF Cleanup, Restore
    <2>6. CASE Store(w) \/ Load(w) \/ Erase(w)
        BY <1>1, <1>2, <2>6 DEF Store, Load, Erase
    <2> QED
        BY <2>1, <2>2, <2>3, <2>4, <2>5, <2>6 DEF ProcessTask
<1> QED
    BY <1>5 DEF Same, MakeDir, RemoveDir

\* What is said of a worker that stands still stays.
LEMMA SavedKept ==
    ASSUME NEW w, SavedAt(w), Undisturbed(task[w].file),
           task[w].file \in vdirs' <=> task[w].file \in vdirs,
           task'[w] = task[w], pc'[w] = pc[w], reg'[w] = reg[w],
           pc[w] = <<"cleanup", "remove">> => Active(task[w].file)
    PROVE  SavedAt(w)'
<1>1. PICK f : f = task[w].file
    OBVIOUS
<1>2. /\ SameRow(meta, meta', f) /\ Still(Live(f)) /\ Still(Latest(f))
    BY <1>1 DEF Undisturbed, Live, Latest, Version
<1>3. Active(f)' <=> Active(f)
    BY <1>2, RowKept
<1>4. pc[w] \in Backed /\ Active(f) => HasCopy(f)'
    BY <1>1, <1>2, CopyStays DEF SavedAt
<1>5. pc[w] = <<"cleanup", "remove">> => Current(f)' = Current(f)
    BY <1>1, <1>2, RowKept
<1> QED
    BY <1>1, <1>3, <1>4, <1>5 DEF SavedAt

\* save_version: with room on the disk it ends in a backup.
LEMMA BackupSaved ==
    ASSUME IInv, IInv', SerialInv, ContentsInv, ~ DiskMayFail, FreeInodes # {},
           NEW w \in Worker, SavedAt(w), Backup(w)
    PROVE  SavedAt(w)'
<1>1. PICK f, kept : f = task[w].file /\ kept = Version(f, reg[w].ver)
    OBVIOUS
<1>2. Holding(w) /\ NeedsEntry(pc[w], task[w].op) => Active(f)
    BY <1>1, WorkFacts DEF ProcessTask
<1>3. \A from, to : Goto(w, from, to) => pc[w] = from /\ pc'[w] = to /\ task' = task
    BY Moved
<1>4. CASE Goto(w, <<"backup", "version">>, <<"backup", "dir">>)
    BY <1>3, <1>4, UnsavedPoints, NothingSaved DEF SavedAt, Backed
<1>5. CASE /\ Goto(w, <<"backup", "dir">>, IF f \in vdirs THEN <<"backup", "open">> ELSE <<"backup", "mkdir">>)
           /\ NoShared
    <2>1. vdirs' = vdirs /\ task'[w].file = f
        BY <1>1, <1>3, <1>5 DEF NoShared, diskVars
    <2> QED
        BY <1>3, <1>5, <2>1 DEF SavedAt, Backed
<1>6. CASE Goto(w, <<"backup", "mkdir">>, <<"backup", "open">>) /\ MakeDir(f)
    <2>1. f \in vdirs' /\ task'[w].file = f
        BY <1>1, <1>3, <1>6 DEF MakeDir
    <2> QED
        BY <1>3, <1>6, <2>1 DEF SavedAt, Backed
<1>7. ~ (Goto(w, <<"backup", "mkdir">>, AfterBackup(w)) /\ f \in vdirs)
    BY <1>1, <1>3 DEF SavedAt
<1>8. CASE Goto(w, <<"backup", "open">>, <<"backup", "create">>) /\ OpenRead(w, Live(f))
    <2>1. f \in vdirs' /\ task'[w].file = f
        BY <1>1, <1>3, <1>8 DEF OpenRead, SavedAt
    <2> QED
        BY <1>3, <1>8, <2>1 DEF SavedAt, Backed
<1>9. ~ (Goto(w, <<"backup", "open">>, AfterBackup(w)) /\ Live(f) \notin DOMAIN link)
    <2> SUFFICES ASSUME pc[w] = <<"backup", "open">> PROVE Exists(Live(f))
        BY <1>3 DEF Exists
    <2>1. Holding(w) /\ Active(f)
        BY <1>1, BackupPoints, WorkFacts DEF ProcessTask
    <2>2. Settled(f, {})
        BY <1>1, <2>1, SettledThere DEF Unsettled, InCopy, Written, Leaving
    <2> QED
        BY <2>1, <2>2 DEF Settled
<1>10. CASE Copy(w, "backup", kept, <<"cleanup", "list">>, AfterBackup(w))
    <2>1. kept = Latest(f) /\ Active(f) /\ UNCHANGED <<meta, task>>
        BY <1>1, <1>10, BackupCopies
    <2>2. \/ pc'[w] \in {<<"backup", "read">>, <<"backup", "write">>}
          \/ pc[w] = <<"backup", "create">> /\ Goto(w, <<"backup", "create">>, AfterBackup(w))
          \/ /\ Goto(w, <<"backup", "read">>, <<"cleanup", "list">>) /\ \A p : Still(p)
             /\ Exists(kept) /\ Exists(Live(f)) /\ Contents(kept) = Contents(Live(f))
        BY <1>1, <1>10, BackupCopies
    <2>3. CASE pc'[w] \in {<<"backup", "read">>, <<"backup", "write">>}
        BY <2>3 DEF SavedAt, Backed
    <2>4. ~ (pc[w] = <<"backup", "create">> /\ Goto(w, <<"backup", "create">>, AfterBackup(w)))
        <3> SUFFICES ASSUME pc[w] = <<"backup", "create">>, Goto(w, <<"backup", "create">>, AfterBackup(w))
                     PROVE  FALSE
            OBVIOUS
        <3>1. pc'[w] = AfterBackup(w)
            BY <1>3
        <3>2. f \in vdirs
            BY <1>1 DEF SavedAt
        <3>3. CanOpenWrite(kept)
            BY <1>1, <3>2 DEF CanOpenWrite, HasDir, Version
        <3>4. AfterBackup(w) # <<"backup", "read">>
            BY DEF AfterBackup
        <3>5. \A to : Goto(w, <<"backup", "read">>, to) \/ Goto(w, <<"backup", "write">>, to) => FALSE
            BY <1>3
        <3>6. \A to : Goto(w, <<"backup", "create">>, to) => pc'[w] = to
            BY <1>3
        <3> QED
            BY <1>10, <3>1, <3>3, <3>4, <3>5, <3>6 DEF Copy
    <2>5. CASE /\ Goto(w, <<"backup", "read">>, <<"cleanup", "list">>) /\ \A p : Still(p)
               /\ Exists(kept) /\ Exists(Live(f)) /\ Contents(kept) = Contents(Live(f))
        <3>1. HasCopy(f) /\ SameRow(meta, meta', f)
            BY <2>1, <2>5 DEF HasCopy, SameRow
        <3>2. HasCopy(f)'
            BY <2>1, <2>5, <3>1, CopyStays
        <3> QED
            BY <1>1, <1>3, <2>5, <3>2 DEF SavedAt
    <2> QED
        BY <2>2, <2>3, <2>4, <2>5
<1> QED
    BY <1>1, <1>4, <1>5, <1>6, <1>7, <1>8, <1>9, <1>10 DEF Backup

\* cleanup_old_versions does not remove the backup just made.
LEMMA CleanupSaved ==
    ASSUME IInv, IInv', SerialInv, ContentsInv, NEW w \in Worker, SavedAt(w), Cleanup(w)
    PROVE  SavedAt(w)'
<1>1. PICK f, V : f = task[w].file /\ V = reg[w].victims
    OBVIOUS
<1>2. \A from, to : Goto(w, from, to) => pc[w] = from /\ pc'[w] = to /\ task' = task
    BY Moved
<1>3. PICK s \in {"list", "remove"} : pc[w] = <<"cleanup", s>>
    BY <1>2 DEF Cleanup
<1>4. /\ Active(f) /\ Holding(w) /\ DiskTypeOK /\ DiskTypeOK'
      /\ pc[w] \notin Special
    BY <1>1, <1>3, BackupPoints, WorkFacts DEF ProcessTask
<1>5. HasCopy(f) /\ SameRow(meta, meta', f) /\ UNCHANGED meta
    BY <1>1, <1>3, <1>4 DEF SavedAt, Backed, Cleanup, SameRow
<1>6. NoStore => \A p : Still(p)
    BY DEF NoStore, diskVars, Still
<1>7. pc'[w] # <<"cleanup", "remove">> /\ HasCopy(f)' /\ pc'[w] \in Backed /\ task' = task => SavedAt(w)'
    BY <1>1 DEF SavedAt, Backed
<1>8. AfterBackup(w) \in Backed /\ AfterBackup(w) # <<"cleanup", "remove">>
    BY DEF AfterBackup, Backed
<1>9. CASE Goto(w, <<"cleanup", "list">>, AfterBackup(w)) /\ NoStore
    <2>1. HasCopy(f)'
        BY <1>4, <1>5, <1>6, <1>9, CopyStays
    <2> QED
        BY <1>2, <1>7, <1>8, <1>9, <2>1
<1>10. CASE /\ Goto(w, <<"cleanup", "list">>, <<"cleanup", "remove">>) /\ NoStore
            /\ Registers(w, [NoReg EXCEPT !.victims = Oldest(Stored(f), MaxVersions)])
    <2>1. HasCopy(f)'
        BY <1>4, <1>5, <1>6, <1>10, CopyStays
    <2>2. reg'[w].victims = Oldest(Stored(f), MaxVersions)
        BY <1>10 DEF Registers, NoReg, IInv, TypeOK
    <2>3. Current(f) \notin Oldest(Stored(f), MaxVersions)
        <3>1. Settled(f, {})
            BY <1>1, <1>4 DEF Holding
        <3>2. Current(f) \in Nat
            BY <1>4, FindIsNamed DEF Active, Current, LockOf, IInv, TypeOK, FileMetadata
        <3>3. {k \in Stored(f) : k > Current(f)} = {}
            <4> SUFFICES ASSUME NEW k \in Stored(f) PROVE k <= Current(f)
                BY <3>2, <1>4, StoredType
            <4>1. k \in Nat /\ Version(f, k) \in Backups(f)
                BY <1>4, StoredBackups
            <4>2. Version(f, k)[2] <= Current(f) \/ Version(f, k) = Latest(f)
                BY <3>1, <4>1 DEF Settled
            <4>3. Version(f, k)[2] = k + 1 /\ Latest(f)[2] = Current(f) + 1
                BY DEF Version, Latest
            <4> QED
                BY <3>2, <4>1, <4>2, <4>3
        <3>4. ~ (Cardinality({}) >= MaxVersions)
            BY WorkerPoolAssumption, FS_EmptySet
        <3> QED
            BY <3>3, <3>4 DEF Oldest
    <2>4. Current(f)' = Current(f)
        BY <1>4, <1>5, RowKept
    <2>5. pc'[w] = <<"cleanup", "remove">> /\ task'[w].file = f
        BY <1>1, <1>2, <1>10
    <2> QED
        BY <2>1, <2>2, <2>3, <2>4, <2>5 DEF SavedAt
<1>11. CASE Goto(w, <<"cleanup", "remove">>, AfterBackup(w)) /\ Unlink({Version(f, n) : n \in V})
    <2>1. Current(f) \notin V /\ V \in SUBSET Nat
        BY <1>1, <1>2, <1>11 DEF SavedAt, IInv, TypeOK, RegisterSet
    <2>2. Current(f) \in Nat
        BY <1>4, FindIsNamed DEF Active, Current, LockOf, IInv, TypeOK, FileMetadata
    <2>3. Latest(f) \notin {Version(f, n) : n \in V}
        BY <2>1, <2>2 DEF Latest, Version
    <2>4. Live(f) \notin {Version(f, n) : n \in V}
        BY <2>1, BackupsAreNotLive
    <2>5. Still(Live(f)) /\ Still(Latest(f))
        BY <1>4, <1>11, <2>3, <2>4, UnlinkWritesNothing
    <2>6. HasCopy(f)'
        BY <1>4, <1>5, <2>5, CopyStays
    <2> QED
        BY <1>2, <1>7, <1>8, <1>11, <2>6
<1> QED
    BY <1>1, <1>9, <1>10, <1>11 DEF Cleanup

\* restore_version: the live file is saved until it is opened for writing.
LEMMA RestoreSaved ==
    ASSUME IInv, IInv', SerialInv, ContentsInv, NEW w \in Worker, SavedAt(w), Restore(w)
    PROVE  SavedAt(w)'
<1>1. PICK f, old : f = task[w].file /\ old = Version(f, task[w].target)
    OBVIOUS
<1>2. \A from, to : Goto(w, from, to) => pc[w] = from /\ pc'[w] = to /\ task' = task
    BY Moved
<1>3. CASE /\ Goto(w, <<"restore", "open">>, <<"restore", "create">>)
           /\ OpenRead(w, old) /\ UNCHANGED meta
    <2>1. Active(f)
        BY <1>1, <1>2, <1>3, RestorePoints, WorkFacts DEF ProcessTask
    <2>2. HasCopy(f) /\ SameRow(meta, meta', f) /\ \A p : Still(p)
        BY <1>1, <1>2, <1>3, <2>1 DEF SavedAt, Backed, SameRow, OpenRead, Still
    <2>3. HasCopy(f)'
        BY <2>1, <2>2, CopyStays
    <2> QED
        BY <1>1, <1>2, <1>3, <2>3 DEF SavedAt
<1>4. CASE \/ Goto(w, <<"restore", "open">>, <<"ROLLBACK", "failed">>)
           \/ Copy(w, "restore", Live(f), <<"ROLLBACK", "update">>, <<"ROLLBACK", "failed">>)
    <2>1. pc'[w] \in {<<"restore", "read">>, <<"restore", "write">>, <<"ROLLBACK", "update">>,
                      <<"ROLLBACK", "failed">>}
        BY <1>2, <1>4 DEF Copy
    <2> QED
        BY <2>1 DEF SavedAt, Backed
<1> QED
    BY <1>1, <1>3, <1>4 DEF Restore

\* The cases of process_task come to no point before the overwrite, but for an
\* upload of a file that is not in the table.
LEMMA CasesSaved ==
    ASSUME IInv, NEW w \in Worker,
           \/ Upload(w) \/ Download(w) \/ Delete(w) \/ Edit(w) \/ Save(w) \/ Unlock(w)
           \/ Rollback(w) \/ DeleteVersion(w) \/ Show(w)
    PROVE  SavedAt(w)'
<1> DEFINE Out == pc'[w] \notin SavedPoints
<1>1. /\ \A from, to : Goto(w, from, to) => pc[w] = from /\ pc'[w] = to /\ task' = task
      /\ \A from, status, audit : Answer(w, from, status, audit) => Goto(w, from, respond)
    BY Moved DEF Answer
<1>2. /\ \A op \in Operations : \A s : <<op, s>> \notin SavedPoints
      /\ respond \notin SavedPoints /\ <<"backup", "version">> \notin SavedPoints
      /\ <<"load", "open">> \notin SavedPoints /\ <<"erase", "file">> \notin SavedPoints
    BY UnsavedPoints
<1>3. \A from, to : Goto(w, from, to) /\ to \notin SavedPoints => Out
    BY <1>1
<1> HIDE DEF Out
<1>4. ASSUME NEW from, NEW to, NEW op, NEW audit, to \notin SavedPoints, <<op, "holder">> \notin SavedPoints
      PROVE  FindOr(w, from, to, audit) \/ OwnerOr(w, from, to) \/ UnlockedOr(w, op, to, audit) => Out
    BY <1>1, <1>2, <1>3, <1>4 DEF FindOr, OwnerOr, UnlockedOr
<1>5. Out => SavedAt(w)'
    BY NothingSaved DEF Out, SavedAt, SavedPoints, Backed
<1>6. CASE Upload(w)
    <2>1. \A s : <<"UPLOAD", s>> \notin SavedPoints
        BY <1>2 DEF Operations
    <2>2. \/ Out
          \/ /\ Goto(w, <<"UPLOAD", "find">>, <<"store", "open">>) /\ NoShared
             /\ FindFileMetadata(meta, task[w].file) = NoSlot
        BY <1>1, <1>2, <1>3, <1>4, <1>6, <2>1 DEF Upload
    <2>3. CASE /\ Goto(w, <<"UPLOAD", "find">>, <<"store", "open">>) /\ NoShared
               /\ FindFileMetadata(meta, task[w].file) = NoSlot
        <3>1. PICK f : f = task[w].file
            OBVIOUS
        <3>2. meta' = meta /\ task'[w].file = f /\ pc'[w] = <<"store", "open">>
            BY <1>1, <2>3, <3>1 DEF NoShared
        <3>3. ~ Active(f)'
            BY <2>3, <3>1, <3>2 DEF Active, LockOf
        <3> QED
            BY <3>2, <3>3 DEF SavedAt
    <2> QED
        BY <1>5, <2>2, <2>3
<1>7. CASE Download(w) \/ Unlock(w) \/ Show(w)
    <2>1. \A s : <<"DOWNLOAD", s>> \notin SavedPoints
        BY <1>2 DEF Operations
    <2> QED
        BY <1>1, <1>2, <1>3, <1>5, <1>7, <2>1 DEF Download, Unlock, Show
<1>8. CASE Delete(w)
    <2>1. \A s : <<"DELETE", s>> \notin SavedPoints
        BY <1>2 DEF Operations
    <2> QED
        BY <1>1, <1>2, <1>3, <1>4, <1>5, <1>8, <2>1 DEF Delete
<1>9. CASE Edit(w)
    <2>1. \A s : <<"EDIT", s>> \notin SavedPoints
        BY <1>2 DEF Operations
    <2> QED
        BY <1>1, <1>2, <1>3, <1>4, <1>5, <1>9, <2>1 DEF Edit
<1>10. CASE Save(w)
    <2>1. \A s : <<"SAVE", s>> \notin SavedPoints
        BY <1>2 DEF Operations
    <2> QED
        BY <1>1, <1>2, <1>3, <1>4, <1>5, <1>10, <2>1 DEF Save
<1>11. CASE Rollback(w)
    <2>1. \A s : <<"ROLLBACK", s>> \notin SavedPoints
        BY <1>2 DEF Operations
    <2> QED
        BY <1>1, <1>2, <1>3, <1>4, <1>5, <1>11, <2>1 DEF Rollback
<1>12. CASE DeleteVersion(w)
    <2>1. \A s : <<"DELVERSION", s>> \notin SavedPoints
        BY <1>2 DEF Operations
    <2> QED
        BY <1>1, <1>2, <1>3, <1>4, <1>5, <1>12, <2>1 DEF DeleteVersion
<1> QED
    BY <1>6, <1>7, <1>8, <1>9, <1>10, <1>11, <1>12

\* Nor do save_file, read_file and remove_file_from_storage.
LEMMA CallsSaved ==
    ASSUME IInv, NEW w \in Worker, Store(w) \/ Load(w) \/ Erase(w) PROVE SavedAt(w)'
<1> DEFINE Out == pc'[w] \notin SavedPoints
<1>1. /\ \A from, to : Goto(w, from, to) => pc[w] = from /\ pc'[w] = to /\ task' = task
      /\ \A from, status, audit : Answer(w, from, status, audit) => Goto(w, from, respond)
    BY Moved DEF Answer
<1>2. /\ respond \notin SavedPoints /\ <<"store", "write">> \notin SavedPoints
      /\ \A s : <<"load", s>> \notin SavedPoints /\ <<"erase", s>> \notin SavedPoints
      /\ AfterStore(w) \notin SavedPoints /\ AfterErase(w) \notin SavedPoints
    BY UnsavedPoints, ReturnsWriteNothing DEF Operations
<1>3. \A from, to : Goto(w, from, to) /\ to \notin SavedPoints => Out
    BY <1>1
<1> HIDE DEF Out
<1>4. \A op : <<op, "unreadable">> \notin SavedPoints
    BY DEF SavedPoints, Backed
<1>5. Out
    BY <1>1, <1>2, <1>3, <1>4 DEF Store, Load, Erase
<1> QED
    BY <1>5 DEF Out, SavedAt, SavedPoints, Backed

\* Whatever a worker does, what is said of it stays, and of the others.
LEMMA ProcessTaskSaved ==
    ASSUME IInv, IInv', SerialInv, ContentsInv, SavedInv, ~ DiskMayFail, FreeInodes # {},
           NEW w \in Worker, ProcessTask(w)
    PROVE  SavedInv'
<1>1. SavedAt(w)'
    BY CasesSaved, BackupSaved, CleanupSaved, RestoreSaved, CallsSaved DEF ProcessTask, SavedInv
<1>2. OwnTableStep(w) /\ Effect(w)
    BY ProcessTaskTable, ProcessTaskEffect DEF SerialInv
<1>3. PICK from, to : Moves(w, from, to)
    BY <1>2 DEF Effect
<1>4. /\ task' = task /\ pc[w] # idle
      /\ \A v \in Worker \ {w} : pc'[v] = pc[v] /\ reg'[v] = reg[v]
    BY <1>2, <1>3 DEF Moves, Goto, OwnTableStep, IInv, TypeOK
<1>5. ASSUME NEW v \in Worker, v # w PROVE SavedAt(v)'
    <2>1. CASE pc[v] = idle
        <3>1. pc'[v] \notin SavedPoints
            BY <1>4, <1>5, <2>1, UnsavedPoints
        <3> QED
            BY <3>1 DEF SavedAt, SavedPoints, Backed
    <2>2. CASE pc[v] # idle
        <3>1. task[v].file # task[w].file
            BY <1>4, <1>5, <2>2 DEF SerialInv, Apart
        <3>2. Undisturbed(task[v].file)
            BY <3>1, OthersUndisturbed
        <3>3. task[v].file \in vdirs' <=> task[v].file \in vdirs
            BY <3>1, OthersDirectories
        <3>4. Holding(v) /\ SavedAt(v)
            BY <2>2 DEF ContentsInv, SavedInv
        <3>5. pc[v] = <<"cleanup", "remove">> => Active(task[v].file)
            BY <3>4, BackupPoints DEF Holding
        <3> QED
            BY <1>4, <1>5, <3>2, <3>3, <3>4, <3>5, SavedKept
    <2> QED
        BY <2>1, <2>2
<1> QED
    BY <1>1, <1>5 DEF SavedInv

\* Nor do the worker's loop and the clock change it, or make it.
LEMMA LoopSaved ==
    ASSUME SavedInv, UNCHANGED <<meta, diskVars>>, NEW W \in SUBSET Worker,
           \A v \in Worker \ W : pc'[v] = pc[v] /\ task'[v] = task[v] /\ reg'[v] = reg[v],
           \A w \in W : pc'[w] \notin SavedPoints
    PROVE  SavedInv'
<1>1. ASSUME NEW v \in W PROVE SavedAt(v)'
    BY <1>1 DEF SavedAt, SavedPoints, Backed
<1>2. ASSUME NEW v \in Worker \ W PROVE SavedAt(v)'
    <2>1. PICK f : f = task[v].file /\ f = task'[v].file
        BY <1>2
    <2>2. /\ Active(f)' <=> Active(f)
          /\ HasCopy(f)' <=> HasCopy(f)
          /\ Current(f)' = Current(f)
          /\ f \in vdirs' <=> f \in vdirs
        BY DEF Active, HasCopy, Current, Latest, LockOf, Exists, Contents, diskVars
    <2> QED
        BY <1>2, <2>1, <2>2 DEF SavedInv, SavedAt
<1> QED
    BY <1>1, <1>2 DEF SavedInv

\* Every step keeps it, while the server does not start again.
LEMMA SavedStep ==
    /\ ~ DiskMayFail /\ IInv /\ IInv' /\ SerialInv /\ ContentsInv /\ restarts = 0
    /\ FreeInodes # {} /\ SavedInv /\ [Next]_vars
    => SavedInv'
<1> SUFFICES ASSUME ~ DiskMayFail, IInv, IInv', SerialInv, ContentsInv, restarts = 0,
                    FreeInodes # {}, SavedInv, [Next]_vars
             PROVE  SavedInv'
    OBVIOUS
<1>1. ASSUME NEW w \in Worker, ProcessTask(w) PROVE SavedInv'
    BY <1>1, ProcessTaskSaved
<1>2. ASSUME NEW w \in Worker, ReceiveTask(w) \/ SendResponse(w) PROVE SavedInv'
    <2>1. UNCHANGED <<meta, diskVars>>
        BY <1>2 DEF ReceiveTask, SendResponse, NoShared
    <2>2. \A v \in Worker \ {w} : pc'[v] = pc[v] /\ task'[v] = task[v] /\ reg'[v] = reg[v]
        BY <1>2 DEF ReceiveTask, SendResponse, IInv, TypeOK
    <2>3. pc'[w] \notin SavedPoints
        <3>1. \A op \in Operations : Entry(op) \notin SavedPoints
            BY UnsavedPoints DEF Entry
        <3>2. \A t \in Requests : t.op \in Operations
            BY WorkerPoolAssumption DEF Requests
        <3> QED
            BY <1>2, <3>1, <3>2, UnsavedPoints DEF ReceiveTask, SendResponse, IInv, TypeOK
    <2>4. {w} \in SUBSET Worker /\ \A v \in {w} : pc'[v] \notin SavedPoints
        BY <2>3
    <2> QED
        BY <2>1, <2>2, <2>4, LoopSaved
<1>3. CASE Tick \/ UNCHANGED vars
    <2>1. UNCHANGED <<meta, diskVars>> /\ UNCHANGED <<pc, task, reg>>
        BY <1>3 DEF Tick, NoShared, vars, poolVars
    <2>2. \A v \in Worker \ {} : pc'[v] = pc[v] /\ task'[v] = task[v] /\ reg'[v] = reg[v]
        BY <2>1
    <2>3. {} \in SUBSET Worker /\ \A v \in {} : pc'[v] \notin SavedPoints
        OBVIOUS
    <2> QED
        BY <2>1, <2>2, <2>3, LoopSaved
<1>4. ~ Restart /\ ~ StartTwice
    BY DEF Restart, StartTwice
<1> QED
    BY <1>1, <1>2, <1>3, <1>4 DEF Next, WorkerStep, Finished

-----------------------------------------------------------------------------
(* The overwrite.                                                          *)

\* open for writing, of a live file that is among the backups, leaves it there.
LEMMA OverwriteSaved ==
    ASSUME IInv, IInv', SerialInv, ContentsInv, SavedInv, NEW w \in Worker, ProcessTask(w),
           NEW f, f = task[w].file, Exists(Live(f)), OpenWrite(w, Live(f)),
           pc[w] \in {<<"store", "open">>, <<"restore", "create">>}
    PROVE  \E n \in Stored(f)' : Contents(Version(f, n))' = LiveBytes(f)
<1>1. /\ Holding(w) /\ InodesApart /\ DiskTypeOK /\ DiskTypeOK' /\ f \in File
      /\ pc[w] \in Special => Midway(w)
    BY WorkFacts
<1>2. Settled(f, {})
    <2>1. CASE pc[w] = <<"store", "open">>
        <3>1. pc[w] \notin Special
            BY <2>1 DEF Special, Unsettled, InCopy, Written, Leaving
        <3> QED
            BY <1>1, <3>1 DEF Holding
    <2>2. CASE pc[w] = <<"restore", "create">>
        <3>1. InRestore(w) /\ pc[w] \notin InCopy
            BY <1>1, <2>2, RestorePoints DEF Midway
        <3> QED
            BY <3>1 DEF InRestore
    <2> QED
        BY <2>1, <2>2
<1>3. Active(f)
    BY <1>2 DEF Settled
<1>4. HasCopy(f)
    BY <1>3 DEF SavedInv, SavedAt, Backed
<1>5. PICK n, p, q : n \in Nat /\ n = Current(f) /\ p = Live(f) /\ q = Version(f, n)
    BY <1>3, FindIsNamed DEF Active, Current, LockOf, IInv, TypeOK, FileMetadata
<1>6. q # p /\ q[1] = f /\ q[2] = n + 1 /\ q[2] > 0 /\ q[2] - 1 = n
    BY <1>5 DEF Live, Version
<1>7. q \in DOMAIN link /\ Contents(q) = Contents(p) /\ LiveBytes(f) = Contents(p)
    BY <1>4, <1>5 DEF HasCopy, Latest, Exists, LiveBytes
<1>8. Still(q)
    <2>1. p \in Path
        BY <1>1, <1>5, PathType, 0 \in Nat
    <2> QED
        BY <1>1, <1>5, <1>6, <2>1, OpenWriteEffect
<1>9. q \in DOMAIN link' /\ Contents(q)' = Contents(q)
    BY <1>7, <1>8 DEF Still, Contents
<1>10. n \in Stored(f)'
    BY <1>6, <1>9 DEF Stored
<1> QED
    BY <1>5, <1>7, <1>9, <1>10

\* Only there is a file emptied.
LEMMA EmptiedAtOpen ==
    ASSUME IInv, IInv', SerialInv, ContentsInv, ~ DiskMayFail, NEW w \in Worker, ProcessTask(w),
           NEW f, f = task[w].file, Exists(Live(f)), Exists(Live(f))',
           LiveBytes(f) # << >>, LiveBytes(f)' = << >>
    PROVE  OpenWrite(w, Live(f)) /\ pc[w] \in {<<"store", "open">>, <<"restore", "create">>}
<1>1. ~ Still(Live(f))
    BY DEF Still, LiveBytes, Exists, Contents
<1>2. Contents(Live(f)) # << >>
    BY DEF LiveBytes
<1>3. /\ DiskTypeOK /\ DiskTypeOK'
      /\ pc[w] \in Special => Midway(w)
    BY WorkFacts
<1>4. \A from, to : Goto(w, from, to) => pc[w] = from /\ pc'[w] = to /\ task' = task
    BY Moved
<1>5. pc[w] \in Changing
    <2>1. Effect(w)
        BY ProcessTaskEffect DEF SerialInv
    <2>2. PICK from, to : Goto(w, from, to) /\ LiveEffect(w, from, to)
        BY <2>1 DEF Effect, Moves
    <2> QED
        BY <1>1, <1>4, <2>2 DEF LiveEffect
<1>6. ~ NoStore /\ ~ Close(w) /\ ~ MakeDir(f) /\ ~ RemoveDir(f) /\ \A p : ~ OpenRead(w, p)
    BY <1>1, <1>3, CallsWriteNothing
<1>7. ~ NoShared
    BY <1>6 DEF NoShared, NoStore
<1>8. \A V \in SUBSET Nat : ~ Unlink({Version(f, n) : n \in V})
    BY <1>1, <1>3, UnlinkWritesNothing, BackupsAreNotLive
<1>9. ~ (Upload(w) \/ Download(w) \/ Delete(w) \/ Edit(w) \/ Save(w) \/ Unlock(w)
            \/ Rollback(w) \/ DeleteVersion(w) \/ Show(w))
    BY <1>4, <1>5, CasesAreCases DEF CaseStep
<1>10. ~ Backup(w)
    <2> SUFFICES ASSUME Backup(w) PROVE FALSE
        OBVIOUS
    <2>1. PICK kept : kept = Version(f, reg[w].ver)
        OBVIOUS
    <2>2. Copy(w, "backup", kept, <<"cleanup", "list">>, AfterBackup(w))
        BY <1>6, <1>7, <2>1 DEF Backup
    <2>3. Live(f) # kept /\ \A p : p # kept => Still(p)
        BY <2>1, <2>2, BackupCopies
    <2> QED
        BY <1>1, <2>3
<1>11. ~ Cleanup(w)
    <2>1. reg[w].victims \in SUBSET Nat
        BY DEF IInv, TypeOK, RegisterSet
    <2> QED
        BY <1>6, <1>8, <2>1 DEF Cleanup
<1>12. ~ Load(w)
    BY <1>6 DEF Load
<1>13. ~ Erase(w)
    <2>1. Stored(f) \in SUBSET Nat
        BY <1>3, StoredType
    <2>2. ~ Unlink({Live(f)})
        BY DEF Unlink, Restrict, Exists
    <2> QED
        BY <1>6, <1>8, <2>1, <2>2 DEF Erase
<1>14. CASE Store(w)
    <2>1. pc[w] # <<"store", "write">>
        <3> SUFFICES ASSUME pc[w] = <<"store", "write">> PROVE FALSE
            OBVIOUS
        <3>1. InStore(w) /\ pc[w] \notin Written
            BY <1>3 DEF Special, Unsettled, Midway, Written
        <3> QED
            BY <1>2, <3>1 DEF InStore
    <2>2. \A from, status, audit : Answer(w, from, status, audit) => pc[w] = from
        BY <1>4 DEF Answer
    <2> QED
        BY <1>4, <1>6, <1>14, <2>1, <2>2 DEF Store
<1>15. CASE Restore(w)
    <2>1. Copy(w, "restore", Live(f), <<"ROLLBACK", "update">>, <<"ROLLBACK", "failed">>)
        BY <1>6, <1>7, <1>15 DEF Restore
    <2>2. pc[w] # <<"restore", "write">>
        <3> SUFFICES ASSUME pc[w] = <<"restore", "write">> PROVE FALSE
            OBVIOUS
        <3>1. InRestore(w) /\ pc[w] \in InCopy
            BY <1>3, RestorePoints DEF Midway, InCopy
        <3>2. PICK old : Copying(w, old, Live(f))
            BY <3>1 DEF InRestore
        <3> QED
            BY <1>2, <3>2 DEF Copying
    <2> QED
        BY <1>4, <1>6, <2>1, <2>2 DEF Copy
<1> QED
    BY <1>9, <1>10, <1>11, <1>12, <1>13, <1>14, <1>15 DEF ProcessTask

\* No step empties a file that is not among its backups.
LEMMA EmptiedIsSaved ==
    ASSUME IInv, IInv', SerialInv, ContentsInv, SavedInv, ~ DiskMayFail, restarts = 0, [Next]_vars,
           NEW f \in File, Exists(Live(f)), Exists(Live(f))',
           LiveBytes(f) # << >>, LiveBytes(f)' = << >>
    PROVE  \E n \in Stored(f)' : Contents(Version(f, n))' = LiveBytes(f)
<1>1. ~ Still(Live(f))
    BY DEF Still, LiveBytes, Exists, Contents
<1>2. ~ UNCHANGED diskVars
    BY <1>1 DEF diskVars, Still
<1>3. PICK w \in Worker : ProcessTask(w)
    BY <1>2 DEF Next, WorkerStep, ReceiveTask, SendResponse, Tick, Restart, StartTwice, Finished,
                NoShared, vars
<1>4. f = task[w].file
    BY <1>1, <1>3, OthersUndisturbed DEF Undisturbed, Live
<1> QED
    BY <1>3, <1>4, EmptiedAtOpen, OverwriteSaved

\* When clients never overlap two requests for one file, no write fails, the
\* disk never fills and no server crashes: save_file and restore_version empty
\* a file only when save_version has made a whole copy of it and
\* cleanup_old_versions has left that copy.  Neither caller asks whether the
\* backup was made.
THEOREM OverwritesAreSaved ==
    PerFileSerial /\ ~ DiskMayFail /\ MaxRestarts = 0
    => (Spec /\ [](FreeInodes # {}) => NothingOverwrittenUnsaved)
<1> SUFFICES ASSUME PerFileSerial, ~ DiskMayFail, MaxRestarts = 0
             PROVE  Spec /\ [](FreeInodes # {}) => NothingOverwrittenUnsaved
    OBVIOUS
<1> DEFINE Inv  == IInv /\ SerialInv /\ ContentsInv /\ restarts = 0
           Free == FreeInodes # {}
<1>1. Spec => []Inv
    BY ContentsInductive
<1>2. Init => SavedInv
    BY UnsavedPoints, NothingSaved DEF Init, SavedInv
<1>3. Inv /\ Inv' /\ Free /\ SavedInv /\ [Next]_vars => SavedInv'
    BY SavedStep
<1>4. Inv /\ Inv' /\ SavedInv /\ [Next]_vars =>
        [\A f \in File :
            Exists(Live(f)) /\ Exists(Live(f))' /\ LiveBytes(f) # << >> /\ LiveBytes(f)' = << >>
            => \E n \in Stored(f)' : Contents(Version(f, n))' = LiveBytes(f)]_vars
    BY EmptiedIsSaved
<1> HIDE DEF Inv, Free
<1> QED
    BY <1>1, <1>2, <1>3, <1>4, PTL DEF Spec, NothingOverwrittenUnsaved, Free
=============================================================================
