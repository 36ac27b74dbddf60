------------------------------ MODULE WorkerPool ------------------------------
(***************************************************************************)
(* The pre-forked worker processes of worker.c at work on the shared       *)
(* metadata table and the storage directory.  Each worker takes a task,    *)
(* runs process_task on it and sends the response; workers interleave at   *)
(* every semaphore section, every system call and every use of a pointer   *)
(* into the table that is made outside the semaphore.                      *)
(*                                                                         *)
(* A control point is a pair <<routine, step>>.  The routines are the      *)
(* cases of process_task and the functions of file_manager.c they call;    *)
(* what a routine returns to follows from the task's operation.            *)
(***************************************************************************)
EXTENDS Metadata, FileStore

CONSTANTS
    Ops,            \* operations clients send
    Data,           \* contents clients send: non-empty, see client.c
    Targets,        \* version numbers clients name
    MaxVersions,    \* MAX_VERSIONS
    DiskMayFail,    \* whether opens for writing and writes may fail
    PerFileSerial,  \* whether clients never overlap requests for one file
    MaxTasks,       \* bound: tasks in a behaviour
    MaxTime,        \* bound: the clock
    MaxRestarts     \* bound: starts of the server after the first

Operations ==
    {"UPLOAD", "DOWNLOAD", "DELETE", "LIST", "VERSION", "EDIT", "SAVE",
     "UNLOCK", "HISTORY", "ROLLBACK", "AUDIT", "DELVERSION"}

ASSUME WorkerPoolAssumption ==
    /\ Ops \subseteq Operations
    /\ Data \subseteq Seq(Nat \ {Hole}) \ {<< >>}
    /\ Targets \subseteq Nat \ {0}
    /\ MaxVersions \in Nat \ {0}
    /\ DiskMayFail \in BOOLEAN
    /\ PerFileSerial \in BOOLEAN
    /\ MaxTasks \in Nat /\ MaxTime \in Nat /\ MaxRestarts \in Nat

VARIABLES
    meta,       \* the table in shared memory
    pc,         \* control point of each worker
    task,       \* the TaskMessage each worker holds
    reg,        \* its local variables
    reply,      \* the status of its ResponseMessage and what it audited
    now,        \* time(NULL), in units the timeout is counted in
    left,       \* tasks still to come
    restarts    \* crashes still to come

poolVars == <<pc, task, reg, reply>>
vars     == <<meta, diskVars, poolVars, now, left, restarts>>

-----------------------------------------------------------------------------
(* Tasks: a request that check_permission let through.                     *)
Task == [op: Operations, user: User, file: File,
         data: Data \cup {<< >>}, target: Targets \cup {0}]

NoTask == [op |-> "none", user |-> NoUser, file |-> NoFile,
           data |-> << >>, target |-> 0]
NoReg  == [ptr |-> NoSlot, ver |-> 0, buf |-> << >>, off |-> 0, size |-> 0,
           victims |-> {}]
NoReply == [status |-> "none", audit |-> "none"]

idle    == <<"main", "receive">>
respond == <<"main", "respond">>

CheckPermission(role, op) ==
    CASE role = "ADMIN" -> TRUE
      [] role = "USER"  -> op # "AUDIT"
      [] role = "GUEST" -> op \in {"DOWNLOAD", "LIST", "VERSION", "HISTORY"}

\* The fields of a request the operation does not use are left empty.
Requests ==
    {t \in [op: Ops, user: User, file: File,
            data: Data \cup {<< >>}, target: Targets \cup {0}] :
        /\ CheckPermission(Role[t.user], t.op)
        /\ (t.data # << >>) <=> (t.op \in {"UPLOAD", "SAVE"})
        /\ (t.target # 0) <=> (t.op \in {"ROLLBACK", "DELVERSION"})}

Busy       == {w \in Worker : task[w] # NoTask}
Serving(f) == {w \in Busy : task[w].file = f}

-----------------------------------------------------------------------------
(* The forms a step takes.                                                 *)
Goto(w, from, to) ==
    /\ pc[w] = from
    /\ pc' = [pc EXCEPT ![w] = to]
    /\ UNCHANGED <<task, now, left, restarts>>

Answer(w, from, status, audit) ==
    /\ Goto(w, from, respond)
    /\ reply' = [reply EXCEPT ![w] = [status |-> status, audit |-> audit]]

Registers(w, r) == reg' = [reg EXCEPT ![w] = r] /\ UNCHANGED reply
NoStore         == UNCHANGED diskVars
NoShared        == UNCHANGED <<meta, diskVars>>

\* Mutant: the pointer is used without a test for NULL.
FindUnchecked(w, from, to, audit) ==
    /\ Goto(w, from, to)
    /\ Registers(w, [NoReg EXCEPT !.ptr = FindFileMetadata(meta, task[w].file)])
    /\ NoShared

\* find_file_metadata, and the answer when there is no such file.
FindOr(w, from, to, audit) ==
    LET i == FindFileMetadata(meta, task[w].file)
    IN  /\ \/ Goto(w, from, to) /\ i # NoSlot /\ Registers(w, [NoReg EXCEPT !.ptr = i])
           \/ Answer(w, from, "FILE_NOT_FOUND", audit) /\ i = NoSlot /\ UNCHANGED reg
        /\ NoShared

\* The slot the worker's pointer names, as it is now.
Pointed(w) == meta[reg[w].ptr]
NotGuest(w)   == Role[task[w].user] # "GUEST"    \* Mutant of Privileged.
Privileged(w) == Role[task[w].user] = "ADMIN"

OwnerOr(w, from, to) ==
    LET mine == Privileged(w) \/ Pointed(w).owner = task[w].user
    IN  /\ \/ Goto(w, from, to) /\ mine /\ UNCHANGED reply
           \/ Answer(w, from, "PERMISSION_DENIED", "DENIED") /\ ~ mine
        /\ UNCHANGED reg /\ NoShared

\* The lock test of DELETE and ROLLBACK looks at the holder, not the time,
\* and reads it twice: is the file locked, and if so by someone else?
UnlockedOr(w, op, to, audit) ==
    LET holder == Pointed(w).lockedBy
    IN  /\ \/ Goto(w, <<op, "unlocked">>, to) /\ holder = NoUser /\ UNCHANGED reply
           \/ Goto(w, <<op, "unlocked">>, <<op, "holder">>) /\ holder # NoUser /\ UNCHANGED reply
           \/ Goto(w, <<op, "holder">>, to) /\ holder = task[w].user /\ UNCHANGED reply
           \/ /\ Answer(w, <<op, "holder">>, "FILE_LOCKED", audit)
              /\ holder # task[w].user
        /\ UNCHANGED reg /\ NoShared

-----------------------------------------------------------------------------
(* file_manager.c: copy_file, from the open source fd[w].src to dst.       *)
Copy(w, routine, dst, done, failed) ==
    /\ UNCHANGED meta
    /\ \/ /\ Goto(w, <<routine, "create">>, <<routine, "read">>)
          /\ OpenWrite(w, dst)
          /\ UNCHANGED <<reg, reply>>
       \/ /\ Goto(w, <<routine, "create">>, failed)
          /\ DiskMayFail \/ ~ CanOpenWrite(dst)
          /\ Close(w)
          /\ Registers(w, NoReg)
       \/ LET src   == bytes[fd[w].src]
              chunk == SubSeq(src, reg[w].off + 1, Len(src))
          IN  \/ /\ Goto(w, <<routine, "read">>, <<routine, "write">>)
                 /\ chunk # << >>
                 /\ Registers(w, [reg[w] EXCEPT !.buf = chunk])
                 /\ NoStore
              \/ /\ Goto(w, <<routine, "read">>, done)
                 /\ chunk = << >>
                 /\ Close(w)
                 /\ Registers(w, [NoReg EXCEPT !.size = reg[w].size])
       \/ /\ Goto(w, <<routine, "write">>, <<routine, "read">>)
          /\ Write(w, reg[w].off, reg[w].buf)
          /\ Registers(w, [reg[w] EXCEPT !.off = @ + Len(reg[w].buf), !.buf = << >>])
       \/ /\ Goto(w, <<routine, "write">>, failed)
          /\ DiskMayFail
          /\ \E k \in 0 .. Len(reg[w].buf) - 1 :
                WriteAndClose(w, reg[w].off, SubSeq(reg[w].buf, 1, k))
          /\ Registers(w, NoReg)

\* save_version.  Its result is ignored by every caller, so every way out of
\* it leads on to the overwrite.
AfterBackup(w) ==
    IF task[w].op = "ROLLBACK" THEN <<"restore", "open">> ELSE <<"store", "open">>

Backup(w) ==
    LET f == task[w].file
    IN  \/ /\ Goto(w, <<"backup", "version">>, <<"backup", "dir">>)
           /\ Registers(w, [NoReg EXCEPT !.ver = Pointed(w).version])
           /\ NoShared
        \/ /\ Goto(w, <<"backup", "dir">>,
                      IF f \in vdirs THEN <<"backup", "open">> ELSE <<"backup", "mkdir">>)
           /\ UNCHANGED <<reg, reply>> /\ NoShared
        \/ /\ Goto(w, <<"backup", "mkdir">>, <<"backup", "open">>)
           /\ f \notin vdirs
           /\ MakeDir(f)
           /\ UNCHANGED <<meta, reg, reply>>
        \/ /\ Goto(w, <<"backup", "mkdir">>, AfterBackup(w))
           /\ f \in vdirs       \* EEXIST: another worker has just created it
           /\ Registers(w, NoReg) /\ NoShared
        \/ /\ Goto(w, <<"backup", "open">>, <<"backup", "create">>)
           /\ OpenRead(w, Live(f))
           /\ UNCHANGED <<meta, reg, reply>>
        \/ /\ Goto(w, <<"backup", "open">>, AfterBackup(w))
           /\ Live(f) \notin DOMAIN link
           /\ Registers(w, NoReg) /\ NoShared
        \/ Copy(w, "backup", Version(f, reg[w].ver), <<"cleanup", "list">>, AfterBackup(w))

\* cleanup_old_versions: list the directory, then remove what was listed.
Cleanup(w) ==
    LET f    == task[w].file
        old  == Oldest(Stored(f), MaxVersions)
    IN  /\ UNCHANGED meta
        /\ \/ /\ Goto(w, <<"cleanup", "list">>, AfterBackup(w))
              /\ old = {}
              /\ Registers(w, NoReg) /\ NoStore
           \/ /\ Goto(w, <<"cleanup", "list">>, <<"cleanup", "remove">>)
              /\ old # {}
              /\ Registers(w, [NoReg EXCEPT !.victims = old]) /\ NoStore
           \/ /\ Goto(w, <<"cleanup", "remove">>, AfterBackup(w))
              /\ Unlink({Version(f, n) : n \in reg[w].victims})
              /\ Registers(w, NoReg)

\* save_file: the file is emptied by open, before the write lock is taken.
AfterStore(w) ==
    IF task[w].op = "UPLOAD" THEN <<"UPLOAD", "add">> ELSE <<"SAVE", "update">>

Store(w) ==
    /\ UNCHANGED <<meta, reg>>
    /\ \/ /\ Goto(w, <<"store", "open">>, <<"store", "write">>)
          /\ OpenWrite(w, Live(task[w].file))
          /\ UNCHANGED reply
       \/ /\ Answer(w, <<"store", "open">>, "ERROR", "ERROR")
          /\ DiskMayFail \/ ~ CanOpenWrite(Live(task[w].file))
          /\ NoStore
       \/ /\ Goto(w, <<"store", "write">>, AfterStore(w))
          /\ WriteAndClose(w, 0, task[w].data)
          /\ UNCHANGED reply
       \/ /\ Answer(w, <<"store", "write">>, "ERROR", "ERROR")
          /\ DiskMayFail
          /\ \E k \in 0 .. Len(task[w].data) - 1 :
                WriteAndClose(w, 0, SubSeq(task[w].data, 1, k))

\* restore_version: the size it returns is the one stat saw before the copy.
Restore(w) ==
    LET src == Version(task[w].file, task[w].target)
    IN  \/ /\ Goto(w, <<"restore", "open">>, <<"restore", "create">>)
           /\ OpenRead(w, src)
           /\ Registers(w, [NoReg EXCEPT !.size = Len(Contents(src))])
           /\ UNCHANGED meta
        \/ /\ Goto(w, <<"restore", "open">>, <<"ROLLBACK", "failed">>)
           /\ src \notin DOMAIN link
           /\ UNCHANGED <<reg, reply>> /\ NoShared
        \/ Copy(w, "restore", Live(task[w].file), <<"ROLLBACK", "update">>,
                <<"ROLLBACK", "failed">>)

\* read_file
Load(w) ==
    LET f == task[w].file
    IN  /\ UNCHANGED meta
        /\ \/ /\ Goto(w, <<"load", "open">>, <<"load", "read">>)
              /\ OpenRead(w, Live(f))
              /\ UNCHANGED <<reg, reply>>
           \/ /\ Goto(w, <<"load", "open">>, <<task[w].op, "unreadable">>)
              /\ Live(f) \notin DOMAIN link
              /\ UNCHANGED <<reg, reply>> /\ NoStore
           \/ /\ Answer(w, <<"load", "read">>, "SUCCESS",
                        IF task[w].op = "EDIT" THEN "LOCK_ACQUIRED" ELSE "SUCCESS")
              /\ reg' = [reg EXCEPT ![w] = [NoReg EXCEPT !.buf = bytes[fd[w].src]]]
              /\ Close(w)

\* remove_file_from_storage.  A failure is an error to DELETE; UPLOAD, which
\* calls it to undo its write, answers ERROR either way.
AfterErase(w) ==
    IF task[w].op = "UPLOAD" THEN <<"UPLOAD", "undone">> ELSE <<"DELETE", "forget">>

Erase(w) ==
    LET f == task[w].file
    IN  /\ UNCHANGED <<meta, reg>>
        /\ \/ /\ Goto(w, <<"erase", "file">>, <<"erase", "versions">>)
              /\ Live(f) \in DOMAIN link
              /\ Unlink({Live(f)})
              /\ UNCHANGED reply
           \/ /\ Answer(w, <<"erase", "file">>, "ERROR", "ERROR")
              /\ Live(f) \notin DOMAIN link
              /\ NoStore
           \/ /\ Goto(w, <<"erase", "versions">>, <<"erase", "dir">>)
              /\ Unlink({Version(f, n) : n \in Stored(f)})
              /\ UNCHANGED reply
           \/ /\ Goto(w, <<"erase", "dir">>, AfterErase(w))
              /\ RemoveDir(f)
              /\ UNCHANGED reply

-----------------------------------------------------------------------------
(* process_task: one operator per case.                                    *)
Upload(w) ==
    LET f == task[w].file  u == task[w].user
    IN  \/ /\ Goto(w, <<"UPLOAD", "check">>,
                   IF EditLocked(meta, f, now) THEN <<"UPLOAD", "locker">>
                                               ELSE <<"UPLOAD", "find">>)
           /\ meta' = CheckEditLock(meta, f, now)
           /\ UNCHANGED <<reg, reply>> /\ NoStore
        \/ LET i == FindFileMetadata(meta, f)
           IN  /\ Goto(w, <<"UPLOAD", "locker">>,
                       IF i = NoSlot THEN <<"UPLOAD", "find">> ELSE <<"UPLOAD", "holder">>)
               /\ Registers(w, [NoReg EXCEPT !.ptr = i])
               /\ NoShared
        \/ /\ Goto(w, <<"UPLOAD", "holder">>, <<"UPLOAD", "find">>)
           /\ Pointed(w).lockedBy = u
           /\ Registers(w, NoReg) /\ NoShared
        \/ /\ Answer(w, <<"UPLOAD", "holder">>, "FILE_LOCKED", "LOCKED")
           /\ Pointed(w).lockedBy # u
           /\ UNCHANGED reg /\ NoShared
        \/ LET i == FindFileMetadata(meta, f)
           IN  /\ Goto(w, <<"UPLOAD", "find">>,
                       IF i = NoSlot THEN <<"store", "open">> ELSE <<"UPLOAD", "owner">>)
               /\ Registers(w, [NoReg EXCEPT !.ptr = i])
               /\ NoShared
        \/ OwnerOr(w, <<"UPLOAD", "owner">>, <<"backup", "version">>)
        \/ /\ Answer(w, <<"UPLOAD", "add">>, "SUCCESS", "SUCCESS")
           /\ HasRoomFor(meta, f)
           /\ meta' = AddFileMetadata(meta, f, u, Len(task[w].data))
           /\ UNCHANGED reg /\ NoStore
        \/ /\ Goto(w, <<"UPLOAD", "add">>, <<"erase", "file">>)
           /\ ~ HasRoomFor(meta, f)
           /\ UNCHANGED <<reg, reply>> /\ NoShared
        \/ /\ Answer(w, <<"UPLOAD", "undone">>, "ERROR", "ERROR")
           /\ UNCHANGED reg /\ NoShared

Download(w) ==
    \/ /\ Goto(w, <<"DOWNLOAD", "find">>, <<"load", "open">>)
       /\ FindFileMetadata(meta, task[w].file) # NoSlot
       /\ UNCHANGED <<reg, reply>> /\ NoShared
    \/ /\ Answer(w, <<"DOWNLOAD", "find">>, "FILE_NOT_FOUND", "NOT_FOUND")
       /\ FindFileMetadata(meta, task[w].file) = NoSlot
       /\ UNCHANGED reg /\ NoShared
    \/ /\ Answer(w, <<"DOWNLOAD", "unreadable">>, "ERROR", "ERROR")
       /\ UNCHANGED reg /\ NoShared

Delete(w) ==
    LET f == task[w].file
    IN  \/ FindOr(w, <<"DELETE", "find">>, <<"DELETE", "owner">>, "NOT_FOUND")
        \/ OwnerOr(w, <<"DELETE", "owner">>, <<"DELETE", "unlocked">>)
        \/ UnlockedOr(w, "DELETE", <<"erase", "file">>, "LOCKED")
        \/ LET there == FindFileMetadata(meta, f) # NoSlot
           IN  /\ Answer(w, <<"DELETE", "forget">>,
                         IF there THEN "SUCCESS" ELSE "ERROR",
                         IF there THEN "SUCCESS" ELSE "ERROR")
               /\ meta' = RemoveFileMetadata(meta, f)
               /\ UNCHANGED reg /\ NoStore

Edit(w) ==
    LET f == task[w].file  u == task[w].user
    IN  \/ FindOr(w, <<"EDIT", "find">>, <<"EDIT", "owner">>, "NOT_FOUND")
        \/ OwnerOr(w, <<"EDIT", "owner">>, <<"EDIT", "acquire">>)
        \/ LET got == AcquireResult(meta, f, u, now)
           IN  /\ \/ /\ Goto(w, <<"EDIT", "acquire">>, <<"load", "open">>)
                     /\ got = "granted"
                     /\ Registers(w, NoReg)
                  \/ /\ Answer(w, <<"EDIT", "acquire">>, "FILE_NOT_FOUND", "NOT_FOUND")
                     /\ got = "absent"
                     /\ UNCHANGED reg
                  \/ /\ Goto(w, <<"EDIT", "acquire">>, <<"EDIT", "check">>)
                     /\ got = "held"
                     /\ Registers(w, NoReg)
               /\ meta' = AcquireEditLock(meta, f, u, now)
               /\ NoStore
        \/ /\ Answer(w, <<"EDIT", "check">>, "FILE_LOCKED", "LOCKED")
           /\ meta' = CheckEditLock(meta, f, now)
           /\ UNCHANGED reg /\ NoStore
        \/ /\ Answer(w, <<"EDIT", "unreadable">>, "ERROR", "ERROR")
           /\ meta' = ReleaseEditLock(meta, f, u)
           /\ UNCHANGED reg /\ NoStore

\* SAVE asks who holds the lock, not who owns the file nor how old the lock
\* is; a file that is not there is answered without an audit entry.  Its test
\* for guests is dead code: check_permission has refused them already.
Save(w) ==
    LET f == task[w].file  u == task[w].user
    IN  \/ FindOr(w, <<"SAVE", "find">>, <<"SAVE", "holder">>, "none")
        \/ /\ Answer(w, <<"SAVE", "holder">>, "PERMISSION_DENIED", "NOT_LOCK_HOLDER")
           /\ Pointed(w).lockedBy # u
           /\ UNCHANGED reg /\ NoShared
        \/ /\ Goto(w, <<"SAVE", "holder">>, <<"backup", "version">>)
           /\ Pointed(w).lockedBy = u
           /\ UNCHANGED <<reg, reply>> /\ NoShared
        \/ LET there == FindFileMetadata(meta, f) # NoSlot
           IN  /\ \/ Goto(w, <<"SAVE", "update">>, <<"SAVE", "release">>)
                           /\ there /\ UNCHANGED reply
                  \/ Answer(w, <<"SAVE", "update">>, "ERROR", "ERROR") /\ ~ there
               /\ meta' = UpdateFileMetadata(meta, f, Len(task[w].data))
               /\ UNCHANGED reg /\ NoStore
        \/ /\ Answer(w, <<"SAVE", "release">>, "SUCCESS", "SUCCESS")
           /\ meta' = ReleaseEditLock(meta, f, u)
           /\ UNCHANGED reg /\ NoStore

Unlock(w) ==
    LET f == task[w].file  u == task[w].user
        got == ReleaseResult(meta, f, u)
    IN  /\ Answer(w, <<"UNLOCK", "release">>,
                  CASE got = "absent"   -> "FILE_NOT_FOUND"
                    [] got = "held"     -> "PERMISSION_DENIED"
                    [] got = "released" -> "SUCCESS",
                  IF got = "released" THEN "UNLOCKED" ELSE "FAILED")
        /\ meta' = ReleaseEditLock(meta, f, u)
        /\ UNCHANGED reg /\ NoStore

Rollback(w) ==
    \/ FindOr(w, <<"ROLLBACK", "find">>, <<"ROLLBACK", "owner">>, "NOT_FOUND")
    \/ OwnerOr(w, <<"ROLLBACK", "owner">>, <<"ROLLBACK", "unlocked">>)
    \/ UnlockedOr(w, "ROLLBACK", <<"backup", "version">>, "none")
    \/ /\ Answer(w, <<"ROLLBACK", "failed">>, "ERROR", "VERSION_NOT_FOUND")
       /\ UNCHANGED reg /\ NoShared
    \/ /\ Answer(w, <<"ROLLBACK", "update">>, "SUCCESS", "SUCCESS")
       /\ meta' = UpdateFileMetadata(meta, task[w].file, reg[w].size)
       /\ UNCHANGED reg /\ NoStore

DeleteVersion(w) ==
    LET p == Version(task[w].file, task[w].target)
    IN  \/ FindOr(w, <<"DELVERSION", "find">>, <<"DELVERSION", "owner">>, "NOT_FOUND")
        \/ OwnerOr(w, <<"DELVERSION", "owner">>, <<"DELVERSION", "remove">>)
        \/ /\ Answer(w, <<"DELVERSION", "remove">>, "SUCCESS", "SUCCESS")
           /\ p \in DOMAIN link
           /\ Unlink({p})
           /\ UNCHANGED <<meta, reg>>
        \/ /\ Answer(w, <<"DELVERSION", "remove">>, "ERROR", "VERSION_NOT_FOUND")
           /\ p \notin DOMAIN link
           /\ UNCHANGED reg /\ NoShared

\* LIST, VERSION, HISTORY and AUDIT only read, and audit nothing.
Show(w) ==
    LET there == FindFileMetadata(meta, task[w].file) # NoSlot
    IN  /\ Answer(w, <<task[w].op, "show">>,
                  IF task[w].op \in {"LIST", "AUDIT"} \/ there
                  THEN "SUCCESS" ELSE "FILE_NOT_FOUND", "none")
        /\ UNCHANGED reg /\ NoShared

-----------------------------------------------------------------------------
(* The worker's loop, the clock and a crash of the whole server.           *)
Entry(op) ==
    CASE op = "UPLOAD" -> <<op, "check">>
      [] op = "UNLOCK" -> <<op, "release">>
      [] op \in {"LIST", "VERSION", "HISTORY", "AUDIT"} -> <<op, "show">>
      [] OTHER -> <<op, "find">>

\* What is on the task queue is open: any request may come next.
ReceiveTask(w) ==
    /\ pc[w] = idle
    /\ left > 0
    /\ \E t \in Requests :
          /\ PerFileSerial => Serving(t.file) = {}
          /\ task' = [task EXCEPT ![w] = t]
          /\ pc' = [pc EXCEPT ![w] = Entry(t.op)]
    /\ left' = left - 1
    /\ UNCHANGED <<reg, reply, now, restarts>> /\ NoShared

SendResponse(w) ==
    /\ pc[w] = respond
    /\ pc' = [pc EXCEPT ![w] = idle]
    /\ task' = [task EXCEPT ![w] = NoTask]
    /\ reg' = [reg EXCEPT ![w] = NoReg]
    /\ reply' = [reply EXCEPT ![w] = NoReply]
    /\ UNCHANGED <<now, left, restarts>> /\ NoShared

ProcessTask(w) ==
    \/ Upload(w) \/ Download(w) \/ Delete(w) \/ Edit(w) \/ Save(w) \/ Unlock(w)
    \/ Rollback(w) \/ DeleteVersion(w) \/ Show(w)
    \/ Backup(w) \/ Cleanup(w) \/ Store(w) \/ Restore(w) \/ Load(w) \/ Erase(w)

WorkerStep(w) == ReceiveTask(w) \/ ProcessTask(w) \/ SendResponse(w)

Tick ==
    /\ now < MaxTime
    /\ now' = now + 1
    /\ UNCHANGED <<poolVars, left, restarts>> /\ NoShared

\* The server is gone and started again: init_metadata empties the table,
\* the workers are new processes, and the storage directory is as it was.
Restart ==
    /\ restarts > 0
    /\ restarts' = restarts - 1
    /\ meta' = InitMetadata
    /\ pc' = [w \in Worker |-> idle]
    /\ task' = [w \in Worker |-> NoTask]
    /\ reg' = [w \in Worker |-> NoReg]
    /\ reply' = [w \in Worker |-> NoReply]
    /\ fd' = [w \in Worker |-> Closed]
    /\ UNCHANGED <<link, vdirs, now, left>>
    /\ Reclaim(bytes)

\* A second server is started by mistake: it attaches the table of the one that
\* runs and empties it, before it finds the port taken.  The workers go on with
\* what they were doing.
StartTwice ==
    /\ restarts > 0
    /\ restarts' = restarts - 1
    /\ meta' = InitMetadata
    /\ UNCHANGED <<pc, task, reg, reply, diskVars, now, left>>

\* The bounded run is over: every task is answered.
Finished == left = 0 /\ Busy = {} /\ UNCHANGED vars

Init ==
    /\ meta = InitMetadata
    /\ DiskInit
    /\ pc = [w \in Worker |-> idle]
    /\ task = [w \in Worker |-> NoTask]
    /\ reg = [w \in Worker |-> NoReg]
    /\ reply = [w \in Worker |-> NoReply]
    /\ now = 0
    /\ left = MaxTasks
    /\ restarts = MaxRestarts

Next == (\E w \in Worker : WorkerStep(w)) \/ Tick \/ Restart \/ StartTwice \/ Finished

Spec == Init /\ [][Next]_vars
=============================================================================
