--------------------------- MODULE WorkerPoolProofs ---------------------------
(***************************************************************************)
(* The worker pool keeps its type invariant and the soundness of the       *)
(* metadata table, for any number of workers, slots, files and users.  The *)
(* inductive invariant is TypeOK /\ TableSound: TypeOK needs TableSound    *)
(* for nothing, but add_file_metadata keeps the table sound only when its  *)
(* slots are well typed, and WorkerOK, part of TypeOK, is what makes every *)
(* use of a pointer or a descriptor well typed.                            *)
(*                                                                         *)
(* From the same invariant the pool implements EditLock, step by step.     *)
(***************************************************************************)
EXTENDS PoolProperties, SharedStateProofs

IInv == TypeOK /\ TableSound

\* What a step of worker w leaves behind in the table and on the disk.
SharedOK(w) == meta' \in Table /\ Sound(meta') /\ DiskTypeOK' /\ OthersKeep(w)

\* Control points that need nothing of the registers and descriptors.
Plain == {c \in Routine \X Stage : /\ c # idle
                                   /\ c[2] \notin FollowsPointer
                                   /\ c \notin ReadsSource
                                   /\ c \notin WritesTarget}

\* The general form of a step of process_task: it moves one worker from one
\* control point to another, and what it does on the way is well typed.
LEMMA StepKeeps ==
    ASSUME IInv, NEW w \in Worker, NEW from, NEW to \in Routine \X Stage,
           Goto(w, from, to), from # idle, to # idle, SharedOK(w),
           reg' \in [Worker -> RegisterSet], \A v \in Worker \ {w} : reg'[v] = reg[v],
           reply' \in [Worker -> ReplySet],
           to[2] \in FollowsPointer => reg'[w].ptr # NoSlot,
           to \in ReadsSource => fd'[w].src # NoInode,
           to \in WritesTarget => fd'[w].dst # NoInode
    PROVE  IInv'
<1>1. /\ pc' \in [Worker -> Routine \X Stage]
      /\ pc'[w] = to
      /\ \A v \in Worker \ {w} : pc'[v] = pc[v]
    BY DEF IInv, TypeOK, Goto
<1>2. WorkerOK(w)'
    BY <1>1 DEF IInv, TypeOK, WorkerOK, Goto
<1>3. ASSUME NEW v \in Worker \ {w} PROVE WorkerOK(v)'
    <2>1. WorkerOK(v)
        BY DEF IInv, TypeOK
    <2>2. pc'[v] = pc[v] /\ task'[v] = task[v] /\ reg'[v] = reg[v] /\ fd'[v] = fd[v]
        BY <1>1 DEF Goto, SharedOK, OthersKeep
    <2> QED
        BY <2>1, <2>2 DEF WorkerOK
<1>4. \A v \in Worker : WorkerOK(v)'
    BY <1>2, <1>3
<1> QED
    BY <1>1, <1>4 DEF IInv, TypeOK, TableSound, SharedOK, Table, Goto

\* Steps that set the registers.
LEMMA RegistersType ==
    ASSUME IInv, NEW w \in Worker, NEW r \in RegisterSet, Registers(w, r)
    PROVE  /\ reg' \in [Worker -> RegisterSet]
           /\ reg'[w] = r
           /\ \A v \in Worker \ {w} : reg'[v] = reg[v]
           /\ reply' \in [Worker -> ReplySet]
BY DEF IInv, TypeOK, Registers

\* A step that sets the registers on the way to a plain control point.
LEMMA RegistersStep ==
    ASSUME IInv, NEW w \in Worker, NEW from, NEW to \in Plain, NEW r \in RegisterSet,
           Goto(w, from, to), from # idle, SharedOK(w), Registers(w, r)
    PROVE  IInv'
BY RegistersType, StepKeeps DEF Plain

\* Steps that leave the registers alone.
LEMMA PlainStep ==
    ASSUME IInv, NEW w \in Worker, NEW from, NEW to \in Plain,
           Goto(w, from, to), from # idle, SharedOK(w), UNCHANGED <<reg, reply>>
    PROVE  IInv'
<1>1. /\ reg' \in [Worker -> RegisterSet]
      /\ \A v \in Worker \ {w} : reg'[v] = reg[v]
      /\ reply' \in [Worker -> ReplySet]
    BY DEF IInv, TypeOK
<1> QED
    BY <1>1, StepKeeps DEF Plain

\* Answers.
LEMMA RespondIsPlain == respond \in Plain /\ respond # idle
BY DEF respond, idle, Plain, Routine, Stage, Operations, FollowsPointer, ReadsSource, WritesTarget

\* An answer, whatever it does to the registers of the worker that gives it.
LEMMA AnswerKeeps ==
    ASSUME IInv, NEW w \in Worker, NEW from, NEW status, NEW audit,
           [status |-> status, audit |-> audit] \in ReplySet,
           Answer(w, from, status, audit), from # idle, SharedOK(w),
           reg' \in [Worker -> RegisterSet], \A v \in Worker \ {w} : reg'[v] = reg[v]
    PROVE  IInv'
<1>1. reply' \in [Worker -> ReplySet]
    BY DEF IInv, TypeOK, Answer
<1>2. Goto(w, from, respond)
    BY DEF Answer
<1> QED
    BY <1>1, <1>2, RespondIsPlain, StepKeeps DEF Plain

\* An answer that leaves the registers alone.
LEMMA AnswerStep ==
    ASSUME IInv, NEW w \in Worker, NEW from, NEW status, NEW audit,
           [status |-> status, audit |-> audit] \in ReplySet,
           Answer(w, from, status, audit), from # idle, SharedOK(w), UNCHANGED reg
    PROVE  IInv'
<1>1. reg' \in [Worker -> RegisterSet] /\ \A v \in Worker \ {w} : reg'[v] = reg[v]
    BY DEF IInv, TypeOK
<1> QED
    BY <1>1, AnswerKeeps

\* The answers the code gives.
LEMMA ReplyType ==
    /\ NoReply \in ReplySet
    /\ \A s \in {"SUCCESS", "ERROR", "FILE_NOT_FOUND", "PERMISSION_DENIED", "FILE_LOCKED"},
          a \in {"none", "SUCCESS", "ERROR", "NOT_FOUND", "VERSION_NOT_FOUND", "DENIED", "LOCKED",
                "LOCK_ACQUIRED", "NOT_LOCK_HOLDER", "UNLOCKED", "FAILED"} :
         [status |-> s, audit |-> a] \in ReplySet
BY DEF ReplySet, NoReply

\* What the table and the disk are after a step that leaves one of them alone.
LEMMA SharedUnchanged == ASSUME IInv, NEW w \in Worker, NoShared PROVE SharedOK(w)
BY DEF IInv, TypeOK, TableSound, NoShared, diskVars, SharedOK, Table, DiskTypeOK, OthersKeep

\* A step that changes the table only.
LEMMA DiskUnchanged ==
    ASSUME IInv, NEW w \in Worker, NoStore, meta' \in Table, Sound(meta')
    PROVE  SharedOK(w)
BY DEF IInv, TypeOK, NoStore, diskVars, SharedOK, DiskTypeOK, OthersKeep

\* A step that changes the disk only.
LEMMA TableUnchanged ==
    ASSUME IInv, NEW w \in Worker, UNCHANGED meta, DiskTypeOK', OthersKeep(w)
    PROVE  SharedOK(w)
BY DEF IInv, TypeOK, TableSound, SharedOK, Table

\* The registers a routine starts from, and the task of a worker at work.
LEMMA NoRegType == NoReg \in RegisterSet /\ NoReg.size = 0
BY MetadataAssumption, EmptySeq DEF NoReg, RegisterSet, NoSlot

\* A worker that is not idle has a task, with a file, a user and data.
LEMMA TaskType ==
    ASSUME IInv, NEW w \in Worker, pc[w] # idle
    PROVE  /\ task[w] \in Task
           /\ task[w].file \in File /\ task[w].user \in User
           /\ task[w].data \in Seq(Nat) /\ Len(task[w].data) \in Nat
           /\ task[w].target \in Nat
           /\ task[w].op \in Operations
<1>1. task[w] \in Task
    BY DEF IInv, TypeOK, WorkerOK
<1>2. task[w].data \in Seq(Nat)
    <2>1. Data \subseteq Seq(Nat)
        <3> SUFFICES ASSUME NEW s \in Data PROVE s \in Seq(Nat)
            OBVIOUS
        <3> QED
            BY WorkerPoolAssumption, SeqMonotonic
    <2> QED
        BY <1>1, <2>1, EmptySeq DEF Task
<1>3. task[w].target \in Nat
    <2>1. task[w].target \in Targets \cup {0}
        BY <1>1 DEF Task
    <2>2. Targets \cup {0} \subseteq Nat
        BY WorkerPoolAssumption
    <2> QED
        BY <2>1, <2>2, Zenon
<1>4. Len(task[w].data) \in Nat
    BY <1>2, LenProperties
<1> QED
    BY <1>1, <1>2, <1>3, <1>4 DEF Task

\* The plain control points the code goes to.
LEMMA PlainPoints ==
    /\ \A s \in {"dir", "mkdir", "open"} : <<"backup", s>> \in Plain
    /\ \A s \in {"list", "remove"} : <<"cleanup", s>> \in Plain
    /\ \A r \in {"store", "restore", "load"} : <<r, "open">> \in Plain
    /\ \A s \in {"file", "versions", "dir"} : <<"erase", s>> \in Plain
    /\ \A op \in Operations, s \in {"check", "locker", "find", "add", "undone", "unreadable",
            "forget", "acquire", "update", "release", "failed", "remove", "show"} :
         <<op, s>> \in Plain
<1>1. /\ \A s \in {"dir", "mkdir", "open"} : <<"backup", s>> \in Plain
      /\ \A s \in {"list", "remove"} : <<"cleanup", s>> \in Plain
    BY DEF Plain, idle, Routine, Stage, FollowsPointer, ReadsSource, WritesTarget
<1>2. /\ \A r \in {"store", "restore", "load"} : <<r, "open">> \in Plain
      /\ \A s \in {"file", "versions", "dir"} : <<"erase", s>> \in Plain
    BY DEF Plain, idle, Routine, Stage, FollowsPointer, ReadsSource, WritesTarget
<1>3. ASSUME NEW op \in Operations,
             NEW s \in {"check", "locker", "find", "add", "undone", "unreadable",
               "forget", "acquire", "update", "release", "failed", "remove", "show"}
      PROVE  <<op, s>> \in Plain
    <2>1. op \in Routine /\ op \notin {"main", "load", "store", "backup", "restore"}
        BY DEF Routine, Operations
    <2>2. s \in Stage /\ s \notin FollowsPointer
        BY DEF Stage, FollowsPointer
    <2>3. <<op, s>> # idle /\ <<op, s>> \notin ReadsSource /\ <<op, s>> \notin WritesTarget
        BY <2>1 DEF idle, ReadsSource, WritesTarget
    <2> QED
        BY <2>1, <2>2, <2>3 DEF Plain
<1> QED
    BY <1>1, <1>2, <1>3

-----------------------------------------------------------------------------
(* file_manager.c                                                          *)

\* The control points of copy_file.
LEMMA CopyFrom ==
    ASSUME NEW w, NEW r, NEW dst, NEW done, NEW failed, Copy(w, r, dst, done, failed)
    PROVE  pc[w] \in {<<r, "create">>, <<r, "read">>, <<r, "write">>}
BY DEF Copy, Goto

\* copy_file, from whichever caller
LEMMA CopyKeeps ==
    ASSUME IInv, NEW w \in Worker, NEW r \in {"backup", "restore"}, NEW dst \in Path,
           NEW done \in Plain, NEW failed \in Plain, Copy(w, r, dst, done, failed)
    PROVE  IInv'
<1>1. /\ reg[w] \in RegisterSet
      /\ DiskTypeOK /\ WorkerOK(w) /\ UNCHANGED meta
      /\ reg \in [Worker -> RegisterSet]
      /\ reply \in [Worker -> ReplySet]
    BY DEF IInv, TypeOK, Copy
<1>2. \A s \in {"create", "read", "write"} :
        /\ <<r, s>> \in (Routine \X Stage) \cap ReadsSource
        /\ <<r, s>> # idle /\ <<r, s>>[2] \notin FollowsPointer
        /\ s # "create" <=> <<r, s>> \in WritesTarget
    BY DEF Routine, Stage, ReadsSource, WritesTarget, FollowsPointer, idle
<1>3. CASE pc[w] = <<r, "create">>
    <2>1. fd[w].src # NoInode
        BY <1>1, <1>2, <1>3 DEF WorkerOK
    <2>2. CASE Goto(w, <<r, "create">>, <<r, "read">>) /\ OpenWrite(w, dst) /\ UNCHANGED <<reg, reply>>
        <3>1. SharedOK(w) /\ fd'[w].dst # NoInode /\ fd'[w].src # NoInode
            BY <1>1, <2>1, <2>2, OpenWriteType, TableUnchanged
        <3> QED
            BY <1>1, <1>2, <2>2, <3>1, StepKeeps
    <2>3. CASE Goto(w, <<r, "create">>, failed) /\ Close(w) /\ Registers(w, NoReg)
        <3>1. SharedOK(w)
            BY <1>1, <2>3, CloseType, TableUnchanged
        <3> QED
            BY <1>2, <2>3, <3>1, NoRegType, RegistersStep
    <2> QED
        BY <1>3, <2>2, <2>3 DEF Copy, Goto
<1>4. CASE pc[w] = <<r, "read">>
    <2>1. fd[w].src \in Inode /\ fd[w].dst # NoInode
        BY <1>1, <1>2, <1>4 DEF WorkerOK, DiskTypeOK
    <2> DEFINE src == bytes[fd[w].src]
               chunk == SubSeq(src, reg[w].off + 1, Len(src))
    <2>2. CASE Goto(w, <<r, "read">>, <<r, "write">>) /\ NoStore
                /\ Registers(w, [reg[w] EXCEPT !.buf = chunk])
        <3>1. src \in Seq(Nat)
            BY <1>1, <2>1 DEF DiskTypeOK
        <3>2. chunk \in Seq(Nat)
            <4>1. Len(src) \in Nat /\ reg[w].off + 1 \in Nat \ {0}
                BY <1>1, <3>1, LenProperties DEF RegisterSet
            <4> QED
                BY <3>1, <4>1, PartType
        <3>3. [reg[w] EXCEPT !.buf = chunk] \in RegisterSet
            BY <1>1, <3>2 DEF RegisterSet
        <3>4. SharedOK(w) /\ fd' = fd
            BY <1>1, <2>2, DiskUnchanged DEF IInv, TypeOK, TableSound, Table, NoStore, diskVars
        <3> QED
            BY <1>2, <2>1, <2>2, <3>3, <3>4, NoInodeIsNone, RegistersType, StepKeeps
    <2>3. CASE Goto(w, <<r, "read">>, done) /\ Close(w)
                /\ Registers(w, [NoReg EXCEPT !.size = reg[w].size])
        <3>1. SharedOK(w)
            BY <1>1, <2>3, CloseType, TableUnchanged
        <3>2. [NoReg EXCEPT !.size = reg[w].size] \in RegisterSet
            BY <1>1, NoRegType DEF RegisterSet
        <3> QED
            BY <1>2, <2>3, <3>1, <3>2, RegistersStep
    <2> QED
        BY <1>4, <2>2, <2>3 DEF Copy, Goto
<1>5. CASE pc[w] = <<r, "write">>
    <2>1. fd[w].src # NoInode /\ fd[w].dst # NoInode
        BY <1>1, <1>2, <1>5 DEF WorkerOK
    <2>2. reg[w].off \in Nat /\ reg[w].buf \in Seq(Nat) /\ Len(reg[w].buf) \in Nat
        BY <1>1, LenProperties DEF RegisterSet
    <2>3. CASE Goto(w, <<r, "write">>, <<r, "read">>) /\ Write(w, reg[w].off, reg[w].buf)
                /\ Registers(w, [reg[w] EXCEPT !.off = @ + Len(reg[w].buf), !.buf = << >>])
        <3>1. SharedOK(w) /\ fd' = fd
            BY <1>1, <2>1, <2>2, <2>3, WriteType, TableUnchanged DEF OthersKeep
        <3>2. [reg[w] EXCEPT !.off = @ + Len(reg[w].buf), !.buf = << >>] \in RegisterSet
            <4>1. reg[w].off + Len(reg[w].buf) \in Nat
                BY <2>2
            <4>2. << >> \in Seq(Nat)
                BY EmptySeq
            <4> QED
                BY <1>1, <4>1, <4>2 DEF RegisterSet
        <3>3. Goto(w, <<r, "write">>, <<r, "read">>) /\ fd'[w].src # NoInode /\ fd'[w].dst # NoInode
            BY <2>1, <2>3, <3>1
        <3>4. /\ reg' \in [Worker -> RegisterSet]
              /\ \A v \in Worker \ {w} : reg'[v] = reg[v]
              /\ reply' \in [Worker -> ReplySet]
            BY <2>3, <3>2, RegistersType
        <3> QED
            BY <1>2, <3>1, <3>3, <3>4, StepKeeps
    <2>4. CASE /\ Goto(w, <<r, "write">>, failed) /\ Registers(w, NoReg)
               /\ \E k \in 0 .. Len(reg[w].buf) - 1 :
                     WriteAndClose(w, reg[w].off, SubSeq(reg[w].buf, 1, k))
        <3>1. PICK k \in 0 .. Len(reg[w].buf) - 1 :
                     WriteAndClose(w, reg[w].off, SubSeq(reg[w].buf, 1, k))
            BY <2>4
        <3>2. SubSeq(reg[w].buf, 1, k) \in Seq(Nat)
            BY <2>2, <3>1, PartType
        <3>3. SharedOK(w)
            BY <1>1, <2>1, <2>2, <3>1, <3>2, WriteAndCloseType, TableUnchanged
        <3> QED
            BY <1>2, <2>4, <3>3, NoRegType, RegistersStep
    <2> QED
        BY <1>5, <2>3, <2>4 DEF Copy, Goto
<1> QED
    BY <1>3, <1>4, <1>5, CopyFrom

\* Where save_version, save_file and remove_file_from_storage return to.
LEMMA AfterIsPlain ==
    ASSUME NEW w \in Worker
    PROVE  AfterBackup(w) \in Plain /\ AfterStore(w) \in Plain /\ AfterErase(w) \in Plain
BY PlainPoints DEF AfterBackup, AfterStore, AfterErase, Operations

\* The paths the code builds.
LEMMA PathType ==
    ASSUME NEW f \in File, NEW n \in Nat
    PROVE  Live(f) \in Path /\ Version(f, n) \in Path
BY DEF Live, Version, Path

\* The pointer is used only where it names a slot.
LEMMA PointerType ==
    ASSUME IInv, NEW w \in Worker, pc[w][2] \in FollowsPointer
    PROVE  reg[w].ptr \in Slot /\ Pointed(w) \in FileMetadata
<1>1. reg[w].ptr # NoSlot
    BY DEF IInv, TypeOK, WorkerOK
<1>2. reg[w].ptr \in Slot \cup {NoSlot}
    BY DEF IInv, TypeOK, RegisterSet
<1>3. reg[w].ptr \in Slot
    BY <1>1, <1>2
<1> QED
    BY <1>3 DEF IInv, TypeOK, Pointed

\* save_version
LEMMA BackupKeeps == ASSUME IInv, NEW w \in Worker, Backup(w) PROVE IInv'
<1> DEFINE f == task[w].file
           cp == Copy(w, "backup", Version(f, reg[w].ver), <<"cleanup", "list">>, AfterBackup(w))
<1>1. reg[w] \in RegisterSet /\ DiskTypeOK
    BY DEF IInv, TypeOK
<1>2. cp \/ pc[w] \in {<<"backup", s>> : s \in {"version", "dir", "mkdir", "open"}}
    BY DEF Backup, Goto
<1>3. f \in File
    <2>1. pc[w] # idle
        BY <1>2, CopyFrom DEF idle
    <2> QED
        BY <2>1, TaskType
<1>4. CASE cp
    <2>1. reg[w].ver \in Nat
        BY <1>1 DEF RegisterSet
    <2>2. <<"cleanup", "list">> \in Plain /\ Version(f, reg[w].ver) \in Path
        BY <1>3, <2>1, PlainPoints, PathType
    <2> QED
        BY <1>4, <2>2, AfterIsPlain, CopyKeeps
<1>5. CASE ~ cp /\ pc[w] = <<"backup", "version">>
    <2>1. /\ Goto(w, <<"backup", "version">>, <<"backup", "dir">>)
          /\ Registers(w, [NoReg EXCEPT !.ver = Pointed(w).version])
          /\ NoShared
        BY <1>5 DEF Backup, Goto
    <2>2. pc[w][2] \in FollowsPointer
        BY <1>5 DEF FollowsPointer
    <2>3. Pointed(w).version \in Nat
        BY <2>2, PointerType DEF FileMetadata
    <2>4. [NoReg EXCEPT !.ver = Pointed(w).version] \in RegisterSet
        BY <2>3, NoRegType DEF RegisterSet
    <2>5. <<"backup", "version">> # idle
        BY DEF idle
    <2> QED
        BY <2>1, <2>4, <2>5, PlainPoints, SharedUnchanged, RegistersStep
<1>6. CASE ~ cp /\ pc[w] = <<"backup", "dir">>
    <2>1. /\ \E s \in {"open", "mkdir"} : Goto(w, <<"backup", "dir">>, <<"backup", s>>)
          /\ UNCHANGED <<reg, reply>> /\ NoShared
        BY <1>6 DEF Backup, Goto
    <2>2. <<"backup", "dir">> # idle
        BY DEF idle
    <2> QED
        BY <2>1, <2>2, PlainPoints, SharedUnchanged, PlainStep
<1>7. CASE ~ cp /\ pc[w] = <<"backup", "mkdir">>
    <2>1. <<"backup", "mkdir">> # idle
        BY DEF idle
    <2>2. CASE /\ Goto(w, <<"backup", "mkdir">>, <<"backup", "open">>)
               /\ MakeDir(f) /\ UNCHANGED <<meta, reg, reply>>
        <3>1. SharedOK(w)
            BY <1>1, <1>3, <2>2, DirectoryType, TableUnchanged DEF OthersKeep
        <3> QED
            BY <2>1, <2>2, <3>1, PlainPoints, PlainStep
    <2>3. CASE /\ Goto(w, <<"backup", "mkdir">>, AfterBackup(w))
               /\ Registers(w, NoReg) /\ NoShared
        BY <2>1, <2>3, AfterIsPlain, NoRegType, SharedUnchanged, RegistersStep
    <2> QED
        BY <1>7, <2>2, <2>3 DEF Backup, Goto
<1>8. CASE ~ cp /\ pc[w] = <<"backup", "open">>
    <2>1. <<"backup", "open">> # idle
        BY DEF idle
    <2>2. CASE /\ Goto(w, <<"backup", "open">>, <<"backup", "create">>)
               /\ OpenRead(w, Live(f)) /\ UNCHANGED <<meta, reg, reply>>
        <3>1. SharedOK(w) /\ fd'[w].src # NoInode
            BY <1>1, <2>2, OpenReadType, TableUnchanged
        <3>2. /\ <<"backup", "create">> \in Routine \X Stage
              /\ <<"backup", "create">> # idle
              /\ <<"backup", "create">>[2] \notin FollowsPointer
              /\ <<"backup", "create">> \notin WritesTarget
            BY DEF Routine, Stage, idle, FollowsPointer, WritesTarget
        <3> QED
            BY <2>1, <2>2, <3>1, <3>2, StepKeeps DEF IInv, TypeOK
    <2>3. CASE /\ Goto(w, <<"backup", "open">>, AfterBackup(w))
               /\ Registers(w, NoReg) /\ NoShared
        BY <2>1, <2>3, AfterIsPlain, NoRegType, SharedUnchanged, RegistersStep
    <2> QED
        BY <1>8, <2>2, <2>3 DEF Backup, Goto
<1> QED
    BY <1>2, <1>4, <1>5, <1>6, <1>7, <1>8

\* cleanup_old_versions
LEMMA CleanupKeeps == ASSUME IInv, NEW w \in Worker, Cleanup(w) PROVE IInv'
<1> DEFINE old == Oldest(Stored(task[w].file), MaxVersions)
<1>1. DiskTypeOK /\ UNCHANGED meta
    BY DEF IInv, TypeOK, Cleanup
<1>2. <<"cleanup", "list">> # idle /\ <<"cleanup", "remove">> # idle
    BY DEF idle
<1>3. CASE Goto(w, <<"cleanup", "list">>, AfterBackup(w)) /\ Registers(w, NoReg) /\ NoStore
    BY <1>1, <1>2, <1>3, AfterIsPlain, NoRegType, SharedUnchanged, RegistersStep
       DEF NoShared, NoStore
<1>4. CASE /\ Goto(w, <<"cleanup", "list">>, <<"cleanup", "remove">>)
           /\ Registers(w, [NoReg EXCEPT !.victims = old]) /\ NoStore
    <2>1. old \subseteq Nat
        BY <1>1, StoredType
    <2>2. [NoReg EXCEPT !.victims = old] \in RegisterSet
        BY <2>1, NoRegType DEF RegisterSet
    <2>3. SharedOK(w)
        BY <1>1, <1>4, SharedUnchanged DEF NoShared, NoStore
    <2> QED
        BY <1>2, <1>4, <2>2, <2>3, PlainPoints, RegistersStep
<1>5. CASE /\ Goto(w, <<"cleanup", "remove">>, AfterBackup(w))
           /\ Unlink({Version(task[w].file, n) : n \in reg[w].victims})
           /\ Registers(w, NoReg)
    <2>1. SharedOK(w)
        BY <1>1, <1>5, UnlinkType, TableUnchanged DEF OthersKeep
    <2> QED
        BY <1>2, <1>5, <2>1, AfterIsPlain, NoRegType, RegistersStep
<1> QED
    BY <1>3, <1>4, <1>5 DEF Cleanup

\* save_file
LEMMA StoreKeeps == ASSUME IInv, NEW w \in Worker, Store(w) PROVE IInv'
<1> DEFINE f == task[w].file
           d == task[w].data
<1>1. DiskTypeOK /\ WorkerOK(w) /\ UNCHANGED <<meta, reg>>
    BY DEF IInv, TypeOK, Store
<1>2. pc[w] \in {<<"store", "open">>, <<"store", "write">>}
    BY DEF Store, Answer, Goto
<1>3. pc[w] # idle
    BY <1>2 DEF idle
<1>4. f \in File /\ d \in Seq(Nat) /\ Len(d) \in Nat
    BY <1>3, TaskType
<1>5. CASE pc[w] = <<"store", "open">>
    <2>1. CASE /\ Goto(w, <<"store", "open">>, <<"store", "write">>)
               /\ OpenWrite(w, Live(f)) /\ UNCHANGED reply
        <3>1. Live(f) \in Path
            BY <1>4, PathType
        <3>2. SharedOK(w) /\ fd'[w].dst # NoInode
            BY <1>1, <2>1, <3>1, OpenWriteType, TableUnchanged
        <3>3. /\ <<"store", "write">> \in Routine \X Stage
              /\ <<"store", "write">> # idle
              /\ <<"store", "write">>[2] \notin FollowsPointer
              /\ <<"store", "write">> \notin ReadsSource
            BY DEF Routine, Stage, idle, FollowsPointer, ReadsSource
        <3> QED
            BY <1>1, <1>3, <1>5, <2>1, <3>2, <3>3, StepKeeps DEF IInv, TypeOK
    <2>2. CASE Answer(w, <<"store", "open">>, "ERROR", "ERROR") /\ NoStore
        BY <1>1, <1>3, <1>5, <2>2, SharedUnchanged, AnswerStep, ReplyType
           DEF NoShared, NoStore
    <2> QED
        BY <1>5, <2>1, <2>2 DEF Store, Answer, Goto
<1>6. CASE pc[w] = <<"store", "write">>
    <2>1. fd[w].dst # NoInode
        BY <1>1, <1>6 DEF WorkerOK, WritesTarget
    <2>2. CASE /\ Goto(w, <<"store", "write">>, AfterStore(w))
               /\ WriteAndClose(w, 0, d) /\ UNCHANGED reply
        <3>1. SharedOK(w)
            BY <1>1, <1>4, <2>1, <2>2, WriteAndCloseType, TableUnchanged
        <3> QED
            BY <1>1, <1>3, <1>6, <2>2, <3>1, AfterIsPlain, PlainStep
    <2>3. CASE /\ Answer(w, <<"store", "write">>, "ERROR", "ERROR")
               /\ \E k \in 0 .. Len(d) - 1 : WriteAndClose(w, 0, SubSeq(d, 1, k))
        <3>1. PICK k \in 0 .. Len(d) - 1 : WriteAndClose(w, 0, SubSeq(d, 1, k))
            BY <2>3
        <3>2. SubSeq(d, 1, k) \in Seq(Nat)
            BY <1>4, <3>1, PartType
        <3>3. SharedOK(w)
            BY <1>1, <2>1, <3>1, <3>2, WriteAndCloseType, TableUnchanged
        <3> QED
            BY <1>1, <1>3, <1>6, <2>3, <3>3, AnswerStep, ReplyType
    <2> QED
        BY <1>6, <2>2, <2>3 DEF Store, Answer, Goto
<1> QED
    BY <1>2, <1>5, <1>6

\* restore_version
LEMMA RestoreKeeps == ASSUME IInv, NEW w \in Worker, Restore(w) PROVE IInv'
<1> DEFINE src == Version(task[w].file, task[w].target)
           cp == Copy(w, "restore", Live(task[w].file), <<"ROLLBACK", "update">>,
                      <<"ROLLBACK", "failed">>)
<1>1. DiskTypeOK
    BY DEF IInv, TypeOK
<1>2. <<"restore", "open">> # idle
    BY DEF idle
<1>3. <<"ROLLBACK", "update">> \in Plain /\ <<"ROLLBACK", "failed">> \in Plain
    BY PlainPoints DEF Operations
<1>4. CASE cp
    <2>1. pc[w] # idle
        BY <1>4, CopyFrom DEF idle
    <2>2. Live(task[w].file) \in Path
        BY <2>1, TaskType, PathType
    <2> QED
        BY <1>3, <1>4, <2>2, CopyKeeps
<1>5. CASE /\ Goto(w, <<"restore", "open">>, <<"restore", "create">>)
           /\ OpenRead(w, src)
           /\ Registers(w, [NoReg EXCEPT !.size = Len(Contents(src))])
           /\ UNCHANGED meta
    <2>1. SharedOK(w) /\ fd'[w].src # NoInode
        BY <1>1, <1>5, OpenReadType, TableUnchanged
    <2>2. Len(Contents(src)) \in Nat
        <3>1. link[src] \in Inode
            BY <1>1, <1>5 DEF DiskTypeOK, OpenRead
        <3>2. Contents(src) \in Seq(Nat)
            BY <1>1, <3>1 DEF DiskTypeOK, Contents
        <3> QED
            BY <3>2, LenProperties
    <2>3. [NoReg EXCEPT !.size = Len(Contents(src))] \in RegisterSet
        BY <2>2, NoRegType DEF RegisterSet
    <2>4. /\ <<"restore", "create">> \in Routine \X Stage
          /\ <<"restore", "create">> # idle
          /\ <<"restore", "create">>[2] \notin FollowsPointer
          /\ <<"restore", "create">> \notin WritesTarget
        BY DEF Routine, Stage, idle, FollowsPointer, WritesTarget
    <2> QED
        BY <1>2, <1>5, <2>1, <2>3, <2>4, RegistersType, StepKeeps
<1>6. CASE /\ Goto(w, <<"restore", "open">>, <<"ROLLBACK", "failed">>)
           /\ UNCHANGED <<reg, reply>> /\ NoShared
    BY <1>2, <1>3, <1>6, SharedUnchanged, PlainStep
<1> QED
    BY <1>4, <1>5, <1>6 DEF Restore

\* read_file
LEMMA LoadKeeps == ASSUME IInv, NEW w \in Worker, Load(w) PROVE IInv'
<1> DEFINE f == task[w].file
<1>1. DiskTypeOK /\ WorkerOK(w) /\ UNCHANGED meta
    BY DEF IInv, TypeOK, Load
<1>2. <<"load", "open">> # idle /\ <<"load", "read">> # idle
    BY DEF idle
<1>3. CASE /\ Goto(w, <<"load", "open">>, <<"load", "read">>)
           /\ OpenRead(w, Live(f)) /\ UNCHANGED <<reg, reply>>
    <2>1. SharedOK(w) /\ fd'[w].src # NoInode
        BY <1>1, <1>3, OpenReadType, TableUnchanged
    <2>2. /\ <<"load", "read">> \in Routine \X Stage
          /\ <<"load", "read">>[2] \notin FollowsPointer
          /\ <<"load", "read">> \notin WritesTarget
        BY DEF Routine, Stage, FollowsPointer, WritesTarget
    <2> QED
        BY <1>2, <1>3, <2>1, <2>2, StepKeeps DEF IInv, TypeOK
<1>4. CASE /\ Goto(w, <<"load", "open">>, <<task[w].op, "unreadable">>)
           /\ UNCHANGED <<reg, reply>> /\ NoStore
    <2>1. pc[w] # idle
        BY <1>2, <1>4 DEF Goto
    <2>2. <<task[w].op, "unreadable">> \in Plain
        BY <2>1, TaskType, PlainPoints
    <2> QED
        BY <1>1, <1>2, <1>4, <2>2, SharedUnchanged, PlainStep DEF NoShared, NoStore
<1>5. CASE /\ Answer(w, <<"load", "read">>, "SUCCESS",
                     IF task[w].op = "EDIT" THEN "LOCK_ACQUIRED" ELSE "SUCCESS")
           /\ reg' = [reg EXCEPT ![w] = [NoReg EXCEPT !.buf = bytes[fd[w].src]]]
           /\ Close(w)
    <2>1. fd[w].src \in Inode
        BY <1>1, <1>5 DEF Answer, Goto, WorkerOK, ReadsSource, DiskTypeOK
    <2>2. bytes[fd[w].src] \in Seq(Nat)
        BY <1>1, <2>1 DEF DiskTypeOK
    <2>3. [NoReg EXCEPT !.buf = bytes[fd[w].src]] \in RegisterSet
        BY <2>2, NoRegType DEF RegisterSet
    <2>4. reg' \in [Worker -> RegisterSet] /\ \A v \in Worker \ {w} : reg'[v] = reg[v]
        BY <1>5, <2>3 DEF IInv, TypeOK
    <2>5. SharedOK(w)
        BY <1>1, <1>5, CloseType, TableUnchanged
    <2>6. [status |-> "SUCCESS",
           audit |-> IF task[w].op = "EDIT" THEN "LOCK_ACQUIRED" ELSE "SUCCESS"] \in ReplySet
        BY DEF ReplySet
    <2> QED
        BY <1>2, <1>5, <2>4, <2>5, <2>6, AnswerKeeps
<1> QED
    BY <1>3, <1>4, <1>5 DEF Load

\* remove_file_from_storage
LEMMA EraseKeeps == ASSUME IInv, NEW w \in Worker, Erase(w) PROVE IInv'
<1> DEFINE f == task[w].file
<1>1. DiskTypeOK /\ UNCHANGED <<meta, reg>>
    BY DEF IInv, TypeOK, Erase
<1>2. \A s \in {"file", "versions", "dir"} : <<"erase", s>> # idle
    BY DEF idle
<1>3. CASE \E s \in {"file", "versions"}, to \in {"versions", "dir"},
              P \in {{Live(f)}, {Version(f, n) : n \in Stored(f)}} :
              Goto(w, <<"erase", s>>, <<"erase", to>>) /\ Unlink(P) /\ UNCHANGED reply
    <2>1. SharedOK(w)
        BY <1>1, <1>3, UnlinkType, TableUnchanged DEF OthersKeep
    <2> QED
        BY <1>1, <1>2, <1>3, <2>1, PlainPoints, PlainStep
<1>4. CASE Answer(w, <<"erase", "file">>, "ERROR", "ERROR") /\ NoStore
    BY <1>1, <1>2, <1>4, SharedUnchanged, AnswerStep, ReplyType
           DEF NoShared, NoStore
<1>5. CASE Goto(w, <<"erase", "dir">>, AfterErase(w)) /\ RemoveDir(f) /\ UNCHANGED reply
    <2>1. pc[w] # idle
        BY <1>2, <1>5 DEF Goto
    <2>2. SharedOK(w)
        BY <1>1, <1>5, <2>1, TaskType, DirectoryType, TableUnchanged DEF OthersKeep
    <2> QED
        BY <1>1, <1>2, <1>5, <2>2, AfterIsPlain, PlainStep
<1> QED
    BY <1>3, <1>4, <1>5 DEF Erase

-----------------------------------------------------------------------------
(* The tests process_task makes before it changes anything.                *)

\* The control points where a worker follows its pointer.
PointerPoint(c) ==
    /\ c \in Routine \X Stage /\ c # idle
    /\ c \notin ReadsSource /\ c \notin WritesTarget

\* Which control points those are.
LEMMA PointerPoints ==
    /\ \A op \in Operations, s \in FollowsPointer : PointerPoint(<<op, s>>)
    /\ PointerPoint(<<"backup", "version">>)
BY DEF PointerPoint, idle, Routine, Stage, Operations, FollowsPointer, ReadsSource, WritesTarget

\* A step that sets the pointer on the way to a use of it.
LEMMA PointerSet ==
    ASSUME IInv, NEW w \in Worker, NEW from, from # idle, NEW to, PointerPoint(to),
           NEW r \in RegisterSet, r.ptr # NoSlot,
           Goto(w, from, to), SharedOK(w), Registers(w, r)
    PROVE  IInv'
<1>1. /\ reg' \in [Worker -> RegisterSet]
      /\ reg'[w].ptr # NoSlot
      /\ \A v \in Worker \ {w} : reg'[v] = reg[v]
      /\ reply' \in [Worker -> ReplySet]
    BY RegistersType
<1>2. to \in Routine \X Stage /\ to # idle /\ to \notin ReadsSource /\ to \notin WritesTarget
    BY DEF PointerPoint
<1> QED
    BY <1>1, <1>2, StepKeeps

\* find_file_metadata, and the test of the pointer it returns.
LEMMA FindOrKeeps ==
    ASSUME IInv, NEW w \in Worker, NEW from, from # idle, NEW to, PointerPoint(to),
           NEW audit \in {"NOT_FOUND", "none"}, FindOr(w, from, to, audit)
    PROVE  IInv'
<1> DEFINE i == FindFileMetadata(meta, task[w].file)
<1>1. SharedOK(w)
    BY SharedUnchanged DEF FindOr
<1>2. CASE Goto(w, from, to) /\ i # NoSlot /\ Registers(w, [NoReg EXCEPT !.ptr = i])
    <2>1. i \in Slot \cup {NoSlot}
        BY FindIsNamed
    <2>2. [NoReg EXCEPT !.ptr = i] \in RegisterSet /\ [NoReg EXCEPT !.ptr = i].ptr # NoSlot
        BY <1>2, <2>1, NoRegType DEF RegisterSet
    <2> HIDE DEF i
    <2> DEFINE r == [NoReg EXCEPT !.ptr = i]
    <2>3. Goto(w, from, to) /\ Registers(w, r)
        BY <1>2
    <2> HIDE DEF r
    <2> QED
        BY <1>1, <2>2, <2>3, PointerSet DEF r
<1>3. CASE Answer(w, from, "FILE_NOT_FOUND", audit) /\ UNCHANGED reg
    BY <1>1, <1>3, ReplyType, AnswerStep
<1> QED
    BY <1>2, <1>3 DEF FindOr

\* A step from one use of the pointer to the next.
LEMMA PointerStep ==
    ASSUME IInv, NEW w \in Worker, NEW from, from # idle, from[2] \in FollowsPointer,
           NEW to, PointerPoint(to), Goto(w, from, to), UNCHANGED <<reg, reply>>, NoShared
    PROVE  IInv'
<1>1. reg'[w].ptr # NoSlot
    BY DEF IInv, TypeOK, WorkerOK, Goto
<1>2. SharedOK(w)
    BY SharedUnchanged
<1> QED
    BY <1>1, <1>2, StepKeeps DEF IInv, TypeOK, PointerPoint

\* The ownership test.
LEMMA OwnerOrKeeps ==
    ASSUME IInv, NEW w \in Worker, NEW from, from # idle, from[2] \in FollowsPointer,
           NEW to, PointerPoint(to) \/ to \in Plain, OwnerOr(w, from, to)
    PROVE  IInv'
<1>1. SharedOK(w) /\ NoShared
    BY SharedUnchanged DEF OwnerOr
<1>2. CASE Goto(w, from, to) /\ UNCHANGED <<reg, reply>>
    BY <1>1, <1>2, PointerStep, PlainStep
<1>3. CASE Answer(w, from, "PERMISSION_DENIED", "DENIED") /\ UNCHANGED reg
    BY <1>1, <1>3, ReplyType, AnswerStep
<1> QED
    BY <1>2, <1>3 DEF OwnerOr

\* The lock test of DELETE and ROLLBACK.
LEMMA UnlockedOrKeeps ==
    ASSUME IInv, NEW w \in Worker, NEW op \in Operations,
           NEW to, PointerPoint(to) \/ to \in Plain,
           NEW audit \in {"LOCKED", "none"}, UnlockedOr(w, op, to, audit)
    PROVE  IInv'
<1>1. SharedOK(w) /\ NoShared
    BY SharedUnchanged DEF UnlockedOr
<1>2. \A s \in {"unlocked", "holder"} :
          /\ <<op, s>> # idle
          /\ <<op, s>>[2] \in FollowsPointer
          /\ PointerPoint(<<op, s>>)
    BY PointerPoints DEF FollowsPointer, PointerPoint
<1>3. CASE \E s \in {"unlocked", "holder"} : Goto(w, <<op, s>>, to) /\ UNCHANGED <<reg, reply>>
    BY <1>1, <1>2, <1>3, PointerStep, PlainStep
<1>4. CASE Goto(w, <<op, "unlocked">>, <<op, "holder">>) /\ UNCHANGED <<reg, reply>>
    BY <1>1, <1>2, <1>4, PointerStep
<1>5. CASE Answer(w, <<op, "holder">>, "FILE_LOCKED", audit) /\ UNCHANGED reg
    BY <1>1, <1>2, <1>5, ReplyType, AnswerStep
<1> QED
    BY <1>3, <1>4, <1>5 DEF UnlockedOr

-----------------------------------------------------------------------------
(* process_task                                                            *)

\* The entry of a process_task case and its answers differ from idle.
LEMMA NotIdle == \A op \in Operations, s \in Stage : <<op, s>> # idle
BY DEF idle, Operations

\* An answer that changes neither the table nor the disk.
LEMMA QuietAnswer ==
    ASSUME IInv, NEW w \in Worker, NEW from, from # idle, NEW status, NEW audit,
           [status |-> status, audit |-> audit] \in ReplySet,
           Answer(w, from, status, audit), UNCHANGED reg, NoShared
    PROVE  IInv'
BY SharedUnchanged, AnswerStep

\* The table is well typed and sound, and time is a number.
LEMMA TableType == IInv => meta \in Table /\ Sound(meta) /\ now \in Nat
BY DEF IInv, TypeOK, TableSound, Table

\* OP_UPLOAD
LEMMA UploadKeeps == ASSUME IInv, NEW w \in Worker, Upload(w) PROVE IInv'
<1> DEFINE f == task[w].file
           u == task[w].user
           i == FindFileMetadata(meta, f)
<1>1. \A s \in Stage : <<"UPLOAD", s>> # idle
    BY NotIdle DEF Operations
<1>2. pc[w] # idle
    BY <1>1 DEF Upload, OwnerOr, Answer, Goto, Stage
<1>3. f \in File /\ u \in User /\ Len(task[w].data) \in Nat
    BY <1>2, TaskType
<1>4. /\ \A s \in {"locker", "find", "add", "undone"} : <<"UPLOAD", s>> \in Plain
      /\ <<"store", "open">> \in Plain /\ <<"erase", "file">> \in Plain
      /\ \A s \in {"owner", "holder"} : PointerPoint(<<"UPLOAD", s>>)
      /\ PointerPoint(<<"backup", "version">>)
    BY PlainPoints, PointerPoints DEF Operations, FollowsPointer
<1>5. [NoReg EXCEPT !.ptr = i] \in RegisterSet /\ [NoReg EXCEPT !.ptr = i].ptr = i
    BY FindIsNamed, NoRegType DEF RegisterSet
<1>6. CASE /\ Goto(w, <<"UPLOAD", "check">>,
                   IF EditLocked(meta, f, now) THEN <<"UPLOAD", "locker">>
                                               ELSE <<"UPLOAD", "find">>)
           /\ meta' = CheckEditLock(meta, f, now)
           /\ UNCHANGED <<reg, reply>> /\ NoStore
    <2>1. SharedOK(w)
        BY <1>6, TableType, CheckSound, DiskUnchanged
    <2> QED
        BY <1>2, <1>4, <1>6, <2>1, PlainStep DEF Goto
<1>7. CASE /\ \E s \in {"locker", "find"} :
                 Goto(w, <<"UPLOAD", s>>,
                      IF i = NoSlot
                      THEN IF s = "locker" THEN <<"UPLOAD", "find">> ELSE <<"store", "open">>
                      ELSE IF s = "locker" THEN <<"UPLOAD", "holder">> ELSE <<"UPLOAD", "owner">>)
           /\ Registers(w, [NoReg EXCEPT !.ptr = i])
           /\ NoShared
    <2>1. SharedOK(w)
        BY <1>7, SharedUnchanged
    <2>2. CASE i = NoSlot
        BY <1>2, <1>4, <1>5, <1>7, <2>1, <2>2, RegistersStep DEF Goto
    <2>3. CASE i # NoSlot
        <3>1. PICK s \in {"holder", "owner"} : Goto(w, pc[w], <<"UPLOAD", s>>)
            BY <1>7, <2>3 DEF Goto
        <3> QED
            BY <1>2, <1>4, <1>5, <1>7, <2>1, <2>3, <3>1, PointerSet
    <2> QED
        BY <2>2, <2>3
<1>8. CASE /\ Goto(w, <<"UPLOAD", "holder">>, <<"UPLOAD", "find">>)
           /\ Registers(w, NoReg) /\ NoShared
    BY <1>2, <1>4, <1>8, NoRegType, SharedUnchanged, RegistersStep DEF Goto
<1>9. CASE \/ Answer(w, <<"UPLOAD", "holder">>, "FILE_LOCKED", "LOCKED") /\ UNCHANGED reg /\ NoShared
           \/ Answer(w, <<"UPLOAD", "undone">>, "ERROR", "ERROR") /\ UNCHANGED reg /\ NoShared
    BY <1>1, <1>9, ReplyType, QuietAnswer DEF Stage
<1>10. CASE OwnerOr(w, <<"UPLOAD", "owner">>, <<"backup", "version">>)
    <2>1. <<"UPLOAD", "owner">>[2] \in FollowsPointer
        BY DEF FollowsPointer
    <2> QED
        BY <1>1, <1>4, <1>10, <2>1, OwnerOrKeeps DEF Stage
<1>11. CASE /\ Answer(w, <<"UPLOAD", "add">>, "SUCCESS", "SUCCESS")
            /\ HasRoomFor(meta, f)
            /\ meta' = AddFileMetadata(meta, f, u, Len(task[w].data))
            /\ UNCHANGED reg /\ NoStore
    <2>1. SharedOK(w)
        BY <1>3, <1>11, TableType, AddSound, DiskUnchanged
    <2> QED
        BY <1>1, <1>11, <2>1, ReplyType, AnswerStep DEF Stage
<1>12. CASE /\ Goto(w, <<"UPLOAD", "add">>, <<"erase", "file">>)
            /\ UNCHANGED <<reg, reply>> /\ NoShared
    BY <1>2, <1>4, <1>12, SharedUnchanged, PlainStep DEF Goto
<1> QED
    BY <1>6, <1>7, <1>8, <1>9, <1>10, <1>11, <1>12 DEF Upload

\* OP_DOWNLOAD
LEMMA DownloadKeeps == ASSUME IInv, NEW w \in Worker, Download(w) PROVE IInv'
<1>1. \A s \in Stage : <<"DOWNLOAD", s>> # idle
    BY NotIdle DEF Operations
<1>2. CASE Goto(w, <<"DOWNLOAD", "find">>, <<"load", "open">>) /\ UNCHANGED <<reg, reply>> /\ NoShared
    BY <1>1, <1>2, PlainPoints, SharedUnchanged, PlainStep DEF Stage
<1>3. CASE \/ Answer(w, <<"DOWNLOAD", "find">>, "FILE_NOT_FOUND", "NOT_FOUND") /\ UNCHANGED reg /\ NoShared
           \/ Answer(w, <<"DOWNLOAD", "unreadable">>, "ERROR", "ERROR") /\ UNCHANGED reg /\ NoShared
    BY <1>1, <1>3, ReplyType, QuietAnswer DEF Stage
<1> QED
    BY <1>2, <1>3 DEF Download

\* OP_DELETE
LEMMA DeleteKeeps == ASSUME IInv, NEW w \in Worker, Delete(w) PROVE IInv'
<1> DEFINE f == task[w].file
           there == FindFileMetadata(meta, f) # NoSlot
<1>1. \A s \in Stage : <<"DELETE", s>> # idle
    BY NotIdle DEF Operations
<1>2. /\ \A s \in {"owner", "unlocked"} : /\ PointerPoint(<<"DELETE", s>>)
                                          /\ <<"DELETE", s>>[2] \in FollowsPointer
      /\ <<"erase", "file">> \in Plain
    BY PlainPoints, PointerPoints DEF Operations, FollowsPointer
<1>3. CASE FindOr(w, <<"DELETE", "find">>, <<"DELETE", "owner">>, "NOT_FOUND")
    BY <1>1, <1>2, <1>3, FindOrKeeps DEF Stage
<1>4. CASE OwnerOr(w, <<"DELETE", "owner">>, <<"DELETE", "unlocked">>)
    BY <1>1, <1>2, <1>4, OwnerOrKeeps DEF Stage
<1>5. CASE UnlockedOr(w, "DELETE", <<"erase", "file">>, "LOCKED")
    BY <1>2, <1>5, UnlockedOrKeeps DEF Operations
<1>6. CASE /\ Answer(w, <<"DELETE", "forget">>, IF there THEN "SUCCESS" ELSE "ERROR",
                                                IF there THEN "SUCCESS" ELSE "ERROR")
           /\ meta' = RemoveFileMetadata(meta, f)
           /\ UNCHANGED reg /\ NoStore
    <2>1. SharedOK(w)
        BY <1>6, TableType, RemoveSound, DiskUnchanged
    <2> QED
        BY <1>1, <1>6, <2>1, ReplyType, AnswerStep DEF Stage
<1> QED
    BY <1>3, <1>4, <1>5, <1>6 DEF Delete

\* OP_EDIT
LEMMA EditKeeps == ASSUME IInv, NEW w \in Worker, Edit(w) PROVE IInv'
<1> DEFINE f == task[w].file
           u == task[w].user
<1>1. \A s \in Stage : <<"EDIT", s>> # idle
    BY NotIdle DEF Operations
<1>2. /\ PointerPoint(<<"EDIT", "owner">>) /\ <<"EDIT", "owner">>[2] \in FollowsPointer
      /\ \A s \in {"acquire", "check"} : <<"EDIT", s>> \in Plain
      /\ <<"load", "open">> \in Plain
    BY PlainPoints, PointerPoints DEF Operations, FollowsPointer
<1>3. CASE FindOr(w, <<"EDIT", "find">>, <<"EDIT", "owner">>, "NOT_FOUND")
    BY <1>1, <1>2, <1>3, FindOrKeeps DEF Stage
<1>4. CASE OwnerOr(w, <<"EDIT", "owner">>, <<"EDIT", "acquire">>)
    BY <1>1, <1>2, <1>4, OwnerOrKeeps DEF Stage
<1>5. CASE /\ \/ \E to \in {<<"load", "open">>, <<"EDIT", "check">>} :
                    Goto(w, <<"EDIT", "acquire">>, to) /\ Registers(w, NoReg)
              \/ Answer(w, <<"EDIT", "acquire">>, "FILE_NOT_FOUND", "NOT_FOUND") /\ UNCHANGED reg
           /\ meta' = AcquireEditLock(meta, f, u, now)
           /\ NoStore
    <2>1. u \in User
        BY <1>1, <1>5, TaskType DEF Goto, Answer, Stage
    <2>2. SharedOK(w)
        BY <1>5, <2>1, TableType, AcquireSound, DiskUnchanged
    <2>3. CASE \E to \in {<<"load", "open">>, <<"EDIT", "check">>} :
                    Goto(w, <<"EDIT", "acquire">>, to) /\ Registers(w, NoReg)
        BY <1>1, <1>2, <2>2, <2>3, NoRegType, RegistersStep DEF Stage
    <2>4. CASE Answer(w, <<"EDIT", "acquire">>, "FILE_NOT_FOUND", "NOT_FOUND") /\ UNCHANGED reg
        BY <1>1, <2>2, <2>4, ReplyType, AnswerStep DEF Stage
    <2> QED
        BY <1>5, <2>3, <2>4
<1>6. CASE /\ Answer(w, <<"EDIT", "check">>, "FILE_LOCKED", "LOCKED")
           /\ meta' = CheckEditLock(meta, f, now)
           /\ UNCHANGED reg /\ NoStore
    <2>1. SharedOK(w)
        BY <1>6, TableType, CheckSound, DiskUnchanged
    <2> QED
        BY <1>1, <1>6, <2>1, ReplyType, AnswerStep DEF Stage
<1>7. CASE /\ Answer(w, <<"EDIT", "unreadable">>, "ERROR", "ERROR")
           /\ meta' = ReleaseEditLock(meta, f, u)
           /\ UNCHANGED reg /\ NoStore
    <2>1. SharedOK(w)
        BY <1>7, TableType, ReleaseSound, DiskUnchanged
    <2> QED
        BY <1>1, <1>7, <2>1, ReplyType, AnswerStep DEF Stage
<1> QED
    BY <1>3, <1>4, <1>5, <1>6, <1>7 DEF Edit

\* OP_SAVE
LEMMA SaveKeeps == ASSUME IInv, NEW w \in Worker, Save(w) PROVE IInv'
<1> DEFINE f == task[w].file
           u == task[w].user
<1>1. \A s \in Stage : <<"SAVE", s>> # idle
    BY NotIdle DEF Operations
<1>2. /\ PointerPoint(<<"SAVE", "holder">>) /\ <<"SAVE", "holder">>[2] \in FollowsPointer
      /\ PointerPoint(<<"backup", "version">>)
      /\ <<"SAVE", "release">> \in Plain
    BY PlainPoints, PointerPoints DEF Operations, FollowsPointer
<1>3. CASE FindOr(w, <<"SAVE", "find">>, <<"SAVE", "holder">>, "none")
    BY <1>1, <1>2, <1>3, FindOrKeeps DEF Stage
<1>4. CASE /\ Answer(w, <<"SAVE", "holder">>, "PERMISSION_DENIED", "NOT_LOCK_HOLDER")
           /\ UNCHANGED reg /\ NoShared
    BY <1>1, <1>4, ReplyType, QuietAnswer DEF Stage
<1>5. CASE /\ Goto(w, <<"SAVE", "holder">>, <<"backup", "version">>)
           /\ UNCHANGED <<reg, reply>> /\ NoShared
    BY <1>1, <1>2, <1>5, PointerStep DEF Stage
<1>6. CASE /\ \/ Goto(w, <<"SAVE", "update">>, <<"SAVE", "release">>) /\ UNCHANGED reply
              \/ Answer(w, <<"SAVE", "update">>, "ERROR", "ERROR")
           /\ meta' = UpdateFileMetadata(meta, f, Len(task[w].data))
           /\ UNCHANGED reg /\ NoStore
    <2>1. Len(task[w].data) \in Nat
        BY <1>1, <1>6, TaskType DEF Goto, Answer, Stage
    <2>2. SharedOK(w)
        BY <1>6, <2>1, TableType, UpdateSound, DiskUnchanged
    <2> QED
        BY <1>1, <1>2, <1>6, <2>2, ReplyType, AnswerStep, PlainStep DEF Stage
<1>7. CASE /\ Answer(w, <<"SAVE", "release">>, "SUCCESS", "SUCCESS")
           /\ meta' = ReleaseEditLock(meta, f, u)
           /\ UNCHANGED reg /\ NoStore
    <2>1. SharedOK(w)
        BY <1>7, TableType, ReleaseSound, DiskUnchanged
    <2> QED
        BY <1>1, <1>7, <2>1, ReplyType, AnswerStep DEF Stage
<1> QED
    BY <1>3, <1>4, <1>5, <1>6, <1>7 DEF Save

\* OP_UNLOCK
LEMMA UnlockKeeps == ASSUME IInv, NEW w \in Worker, Unlock(w) PROVE IInv'
<1> DEFINE f == task[w].file
           u == task[w].user
           got == ReleaseResult(meta, f, u)
           status == CASE got = "absent"   -> "FILE_NOT_FOUND"
                       [] got = "held"     -> "PERMISSION_DENIED"
                       [] got = "released" -> "SUCCESS"
           audit == IF got = "released" THEN "UNLOCKED" ELSE "FAILED"
<1>1. got \in {"absent", "held", "released"}
    BY DEF ReleaseResult
<1>2. [status |-> status, audit |-> audit] \in ReplySet
    BY <1>1, ReplyType
<1>3. SharedOK(w)
    BY TableType, ReleaseSound, DiskUnchanged DEF Unlock
<1>4. <<"UNLOCK", "release">> # idle
    BY DEF idle
<1> QED
    BY <1>2, <1>3, <1>4, AnswerStep DEF Unlock

\* OP_ROLLBACK
LEMMA RollbackKeeps == ASSUME IInv, NEW w \in Worker, Rollback(w) PROVE IInv'
<1>1. \A s \in Stage : <<"ROLLBACK", s>> # idle
    BY NotIdle DEF Operations
<1>2. /\ \A s \in {"owner", "unlocked"} : /\ PointerPoint(<<"ROLLBACK", s>>)
                                          /\ <<"ROLLBACK", s>>[2] \in FollowsPointer
      /\ PointerPoint(<<"backup", "version">>)
    BY PointerPoints DEF Operations, FollowsPointer
<1>3. CASE FindOr(w, <<"ROLLBACK", "find">>, <<"ROLLBACK", "owner">>, "NOT_FOUND")
    BY <1>1, <1>2, <1>3, FindOrKeeps DEF Stage
<1>4. CASE OwnerOr(w, <<"ROLLBACK", "owner">>, <<"ROLLBACK", "unlocked">>)
    BY <1>1, <1>2, <1>4, OwnerOrKeeps DEF Stage
<1>5. CASE UnlockedOr(w, "ROLLBACK", <<"backup", "version">>, "none")
    BY <1>2, <1>5, UnlockedOrKeeps DEF Operations
<1>6. CASE /\ Answer(w, <<"ROLLBACK", "failed">>, "ERROR", "VERSION_NOT_FOUND")
           /\ UNCHANGED reg /\ NoShared
    BY <1>1, <1>6, ReplyType, QuietAnswer DEF Stage
<1>7. CASE /\ Answer(w, <<"ROLLBACK", "update">>, "SUCCESS", "SUCCESS")
           /\ meta' = UpdateFileMetadata(meta, task[w].file, reg[w].size)
           /\ UNCHANGED reg /\ NoStore
    <2>1. reg[w].size \in Nat
        BY DEF IInv, TypeOK, RegisterSet
    <2>2. SharedOK(w)
        BY <1>7, <2>1, TableType, UpdateSound, DiskUnchanged
    <2> QED
        BY <1>1, <1>7, <2>2, ReplyType, AnswerStep DEF Stage
<1> QED
    BY <1>3, <1>4, <1>5, <1>6, <1>7 DEF Rollback

\* OP_DELVERSION
LEMMA DeleteVersionKeeps == ASSUME IInv, NEW w \in Worker, DeleteVersion(w) PROVE IInv'
<1> DEFINE p == Version(task[w].file, task[w].target)
<1>1. \A s \in Stage : <<"DELVERSION", s>> # idle
    BY NotIdle DEF Operations
<1>2. /\ PointerPoint(<<"DELVERSION", "owner">>) /\ <<"DELVERSION", "owner">>[2] \in FollowsPointer
      /\ <<"DELVERSION", "remove">> \in Plain
    BY PlainPoints, PointerPoints DEF Operations, FollowsPointer
<1>3. CASE FindOr(w, <<"DELVERSION", "find">>, <<"DELVERSION", "owner">>, "NOT_FOUND")
    BY <1>1, <1>2, <1>3, FindOrKeeps DEF Stage
<1>4. CASE OwnerOr(w, <<"DELVERSION", "owner">>, <<"DELVERSION", "remove">>)
    BY <1>1, <1>2, <1>4, OwnerOrKeeps DEF Stage
<1>5. CASE /\ Answer(w, <<"DELVERSION", "remove">>, "SUCCESS", "SUCCESS")
           /\ Unlink({p}) /\ UNCHANGED <<meta, reg>>
    <2>1. SharedOK(w)
        BY <1>5, UnlinkType, TableUnchanged DEF IInv, TypeOK, OthersKeep
    <2> QED
        BY <1>1, <1>5, <2>1, ReplyType, AnswerStep DEF Stage
<1>6. CASE /\ Answer(w, <<"DELVERSION", "remove">>, "ERROR", "VERSION_NOT_FOUND")
           /\ UNCHANGED reg /\ NoShared
    BY <1>1, <1>6, ReplyType, QuietAnswer DEF Stage
<1> QED
    BY <1>3, <1>4, <1>5, <1>6 DEF DeleteVersion

\* OP_LIST, OP_VERSION, OP_HISTORY and OP_AUDIT
LEMMA ShowKeeps == ASSUME IInv, NEW w \in Worker, Show(w) PROVE IInv'
<1> DEFINE status == IF task[w].op \in {"LIST", "AUDIT"} \/ FindFileMetadata(meta, task[w].file) # NoSlot
                     THEN "SUCCESS" ELSE "FILE_NOT_FOUND"
<1>1. Answer(w, <<task[w].op, "show">>, status, "none") /\ UNCHANGED reg /\ NoShared
    BY DEF Show
<1>2. <<task[w].op, "show">> # idle
    BY DEF idle
<1>3. [status |-> status, audit |-> "none"] \in ReplySet
    BY ReplyType
<1> QED
    BY <1>1, <1>2, <1>3, QuietAnswer

\* Any step of process_task.
LEMMA ProcessTaskKeeps == ASSUME IInv, NEW w \in Worker, ProcessTask(w) PROVE IInv'
BY UploadKeeps, DownloadKeeps, DeleteKeeps, EditKeeps, SaveKeeps, UnlockKeeps, RollbackKeeps,
   DeleteVersionKeeps, ShowKeeps, BackupKeeps, CleanupKeeps, StoreKeeps, RestoreKeeps,
   LoadKeeps, EraseKeeps
   DEF ProcessTask

-----------------------------------------------------------------------------
(* The worker's loop, the clock and a crash.                               *)

\* Every case starts without a pointer or a descriptor.
LEMMA EntryIsPlain == ASSUME NEW op \in Operations PROVE Entry(op) \in Plain
<1>1. Entry(op) \in {<<op, s>> : s \in {"check", "release", "show", "find"}}
    BY DEF Entry
<1> QED
    BY <1>1, PlainPoints

\* receive_task
LEMMA ReceiveTaskKeeps == ASSUME IInv, NEW w \in Worker, ReceiveTask(w) PROVE IInv'
<1>1. PICK t \in Requests : /\ task' = [task EXCEPT ![w] = t]
                            /\ pc' = [pc EXCEPT ![w] = Entry(t.op)]
    BY DEF ReceiveTask
<1>2. t \in Task /\ t.op \in Operations
    BY <1>1, WorkerPoolAssumption DEF Requests, Task
<1>3. t # NoTask
    BY <1>2 DEF NoTask, Operations
<1>4. Entry(t.op) \in Plain
    BY <1>2, EntryIsPlain
<1>5. UNCHANGED <<reg, reply, now, restarts, meta, diskVars>> /\ left \in Nat /\ left' \in Nat
    BY DEF ReceiveTask, NoShared, IInv, TypeOK
<1>6. /\ pc' \in [Worker -> Routine \X Stage] /\ task' \in [Worker -> Task \cup {NoTask}]
      /\ pc'[w] = Entry(t.op) /\ task'[w] = t
      /\ \A v \in Worker \ {w} : pc'[v] = pc[v] /\ task'[v] = task[v]
    BY <1>1, <1>2, <1>4 DEF IInv, TypeOK, Plain
<1>7. WorkerOK(w)'
    BY <1>3, <1>4, <1>6 DEF WorkerOK, Plain
<1>8. ASSUME NEW v \in Worker \ {w} PROVE WorkerOK(v)'
    BY <1>5, <1>6 DEF IInv, TypeOK, WorkerOK, diskVars
<1>9. \A v \in Worker : WorkerOK(v)'
    BY <1>7, <1>8
<1> QED
    BY <1>5, <1>6, <1>9 DEF IInv, TypeOK, TableSound, DiskTypeOK, diskVars

\* send_response
LEMMA SendResponseKeeps == ASSUME IInv, NEW w \in Worker, SendResponse(w) PROVE IInv'
<1>1. UNCHANGED <<now, left, restarts, meta, diskVars>>
    BY DEF SendResponse, NoShared
<1>2. idle \in Routine \X Stage /\ idle[2] \notin FollowsPointer
      /\ idle \notin ReadsSource /\ idle \notin WritesTarget
    BY DEF idle, Routine, Stage, FollowsPointer, ReadsSource, WritesTarget
<1>3. /\ pc' \in [Worker -> Routine \X Stage] /\ task' \in [Worker -> Task \cup {NoTask}]
      /\ reg' \in [Worker -> RegisterSet] /\ reply' \in [Worker -> ReplySet]
      /\ pc'[w] = idle /\ task'[w] = NoTask
      /\ \A v \in Worker \ {w} : pc'[v] = pc[v] /\ task'[v] = task[v] /\ reg'[v] = reg[v]
    BY <1>2, NoRegType, ReplyType DEF IInv, TypeOK, SendResponse
<1>4. WorkerOK(w)'
    BY <1>2, <1>3 DEF WorkerOK
<1>5. ASSUME NEW v \in Worker \ {w} PROVE WorkerOK(v)'
    BY <1>1, <1>3 DEF IInv, TypeOK, WorkerOK, diskVars
<1>6. \A v \in Worker : WorkerOK(v)'
    BY <1>4, <1>5
<1> QED
    BY <1>1, <1>3, <1>6 DEF IInv, TypeOK, TableSound, DiskTypeOK, diskVars

\* Workers that have just been forked.
LEMMA ForkedWorkers ==
    ASSUME pc' = [w \in Worker |-> idle], task' = [w \in Worker |-> NoTask],
           reg' = [w \in Worker |-> NoReg], reply' = [w \in Worker |-> NoReply]
    PROVE  /\ pc' \in [Worker -> Routine \X Stage] /\ task' \in [Worker -> Task \cup {NoTask}]
           /\ reg' \in [Worker -> RegisterSet] /\ reply' \in [Worker -> ReplySet]
           /\ \A w \in Worker : WorkerOK(w)'
<1>1. idle \in Routine \X Stage /\ idle[2] \notin FollowsPointer
      /\ idle \notin ReadsSource /\ idle \notin WritesTarget
    BY DEF idle, Routine, Stage, FollowsPointer, ReadsSource, WritesTarget
<1> QED
    BY <1>1, NoRegType, ReplyType DEF WorkerOK

\* A crash of the server and its restart on the storage directory it left.
LEMMA RestartKeeps == ASSUME IInv, Restart PROVE IInv'
<1>1. meta' \in Table /\ Sound(meta')
    BY InitMetadataSound DEF Restart
<1>2. DiskTypeOK'
    <2>1. bytes' \in [Inode -> Seq(Nat)]
        BY ReclaimType DEF Restart, IInv, TypeOK, DiskTypeOK
    <2> QED
        BY <2>1 DEF Restart, IInv, TypeOK, DiskTypeOK, Closed
<1>3. restarts' \in Nat /\ UNCHANGED <<now, left>>
    BY DEF Restart, IInv, TypeOK
<1> QED
    BY <1>1, <1>2, <1>3, ForkedWorkers DEF Restart, IInv, TypeOK, TableSound, Table

\* A second server empties the table under the workers: what their pointers
\* point to is free, and they point to it all the same.
LEMMA StartTwiceKeeps == ASSUME IInv, StartTwice PROVE IInv'
<1>1. meta' \in Table /\ Sound(meta')
    BY InitMetadataSound DEF StartTwice
<1>2. restarts' \in Nat /\ UNCHANGED <<diskVars, poolVars, now, left>>
    BY DEF StartTwice, IInv, TypeOK, poolVars
<1> QED
    BY <1>1, <1>2 DEF IInv, TypeOK, TableSound, Table, DiskTypeOK, WorkerOK, poolVars, diskVars

\* The server as it starts for the first time.
LEMMA InitKeeps == Init => IInv
<1> SUFFICES ASSUME Init PROVE IInv
    OBVIOUS
<1>1. meta \in Table /\ Sound(meta)
    BY InitMetadataSound DEF Init
<1>2. DiskTypeOK
    BY InitDiskType DEF Init
<1>3. idle \in Routine \X Stage /\ idle[2] \notin FollowsPointer
      /\ idle \notin ReadsSource /\ idle \notin WritesTarget
    BY DEF idle, Routine, Stage, FollowsPointer, ReadsSource, WritesTarget
<1>4. /\ pc \in [Worker -> Routine \X Stage] /\ task \in [Worker -> Task \cup {NoTask}]
      /\ reg \in [Worker -> RegisterSet] /\ reply \in [Worker -> ReplySet]
      /\ \A w \in Worker : WorkerOK(w)
    BY <1>3, NoRegType, ReplyType DEF Init, WorkerOK
<1>5. now \in Nat /\ left \in Nat /\ restarts \in Nat
    BY WorkerPoolAssumption DEF Init
<1> QED
    BY <1>1, <1>2, <1>4, <1>5 DEF IInv, TypeOK, TableSound, Table

-----------------------------------------------------------------------------
\* Every step of the pool, of whichever worker, keeps the inductive invariant.
LEMMA NextKeeps == IInv /\ [Next]_vars => IInv'
<1> SUFFICES ASSUME IInv, [Next]_vars PROVE IInv'
    OBVIOUS
<1>1. CASE \E w \in Worker : WorkerStep(w)
    BY <1>1, ReceiveTaskKeeps, ProcessTaskKeeps, SendResponseKeeps DEF WorkerStep
<1>2. CASE Tick
    <2>1. now' \in Nat /\ UNCHANGED <<meta, diskVars, poolVars, left, restarts>>
        BY <1>2 DEF Tick, NoShared, IInv, TypeOK
    <2> QED
        BY <2>1 DEF IInv, TypeOK, TableSound, DiskTypeOK, WorkerOK, poolVars, diskVars
<1>3. CASE Restart
    BY <1>3, RestartKeeps
<1>4. CASE StartTwice
    BY <1>4, StartTwiceKeeps
<1>5. CASE UNCHANGED vars
    BY <1>5 DEF vars, IInv, TypeOK, TableSound, DiskTypeOK, WorkerOK, poolVars, diskVars
<1> QED
    BY <1>1, <1>2, <1>3, <1>4, <1>5 DEF Next, Finished

\* TypeOK and TableSound together hold in every reachable state: the inductive
\* invariant both theorems below rest on.
THEOREM Inductive == Spec => []IInv
BY InitKeeps, NextKeeps, PTL DEF Spec

\* However many workers interleave, crash and restart, every variable keeps
\* its type, and no worker follows a null pointer into the table or uses a
\* descriptor it has not opened (worker.c after find_file_metadata,
\* file_manager.c after open).
THEOREM TypeCorrect == Spec => []TypeOK
<1>1. IInv => TypeOK
    BY DEF IInv
<1> QED
    BY <1>1, Inductive, PTL

\* However many workers add, delete and lock files concurrently, the shared
\* table never has two entries for one file, and no free slot is locked
\* (add_file_metadata and remove_file_metadata in metadata.c).
THEOREM TableStaysSound == Spec => []TableSound
<1>1. IInv => TableSound
    BY DEF IInv
<1> QED
    BY <1>1, Inductive, PTL

-----------------------------------------------------------------------------
(* The refinement: the pool implements EditLock.  Whatever the workers     *)
(* interleave, and although the lock of a file lives in a slot that is     *)
(* released and given to other files, a lock is granted only when it is    *)
(* free or its time is up, and ends only by its holder, by its time, with  *)
(* its file or with the server.                                            *)

\* From table m to table n the lock of f changes and no other: u holds it, or
\* nobody, since t.
LockSetTo(m, n, f, u, t) ==
    /\ HolderIn(n) = [HolderIn(m) EXCEPT ![f] = u]
    /\ SinceIn(n) = [SinceIn(m) EXCEPT ![f] = t]

\* Nothing a client can tell of the locks changes.
SameLocks(m, n) == FilesIn(n) = FilesIn(m) /\ HolderIn(n) = HolderIn(m) /\ SinceIn(n) = SinceIn(m)

\* The ways a request of user u at time t may change the lock of f.
Granted(m, n, f, u, t) ==
    /\ f \in FilesIn(m) /\ FilesIn(n) = FilesIn(m)
    /\ HolderIn(m)[f] = NoUser \/ t - SinceIn(m)[f] > LockTimeout
    /\ LockSetTo(m, n, f, u, t)
GivenBack(m, n, f, u) ==
    /\ HolderIn(m)[f] = u /\ FilesIn(n) = FilesIn(m)
    /\ LockSetTo(m, n, f, NoUser, 0)
RunOut(m, n, f, t) ==
    /\ HolderIn(m)[f] # NoUser /\ t - SinceIn(m)[f] > LockTimeout
    /\ FilesIn(n) = FilesIn(m)
    /\ LockSetTo(m, n, f, NoUser, 0)
Added(m, n, f) ==
    /\ f \notin FilesIn(m) /\ FilesIn(n) = FilesIn(m) \cup {f}
    /\ HolderIn(n) = HolderIn(m) /\ SinceIn(n) = SinceIn(m)
Removed(m, n, f) ==
    /\ f \in FilesIn(m) /\ FilesIn(n) = FilesIn(m) \ {f}
    /\ LockSetTo(m, n, f, NoUser, 0)

LockStep(m, n, f, u, t) ==
    \/ SameLocks(m, n) \/ Granted(m, n, f, u, t) \/ GivenBack(m, n, f, u)
    \/ RunOut(m, n, f, t) \/ Added(m, n, f) \/ Removed(m, n, f)

Time(s) == IF s.lockedBy # NoUser THEN s.lockedAt ELSE 0

-----------------------------------------------------------------------------
(* What an operator on the table does to the lock of each file.            *)

\* A file is found where its name is in use, and another file elsewhere.
LEMMA FoundApart ==
    ASSUME NEW m, NEW f, NEW g, f # g,
           FindFileMetadata(m, f) # NoSlot
    PROVE  FindFileMetadata(m, g) # FindFileMetadata(m, f)
BY FindIsNamed

\* Where a file is found depends on the names in use only.
LEMMA FindSame ==
    ASSUME NEW m, NEW n, NEW f, Named(n, f) = Named(m, f)
    PROVE  FindFileMetadata(n, f) = FindFileMetadata(m, f)
BY DEF FindFileMetadata

\* The lock's holder and its time are functions on the files.
LEMMA LockMaps ==
    ASSUME NEW m
    PROVE  /\ HolderIn(m) = [g \in File |-> HolderIn(m)[g]]
           /\ SinceIn(m) = [g \in File |-> SinceIn(m)[g]]
BY DEF HolderIn, SinceIn

\* Two functions on the files that differ at one file only.
LEMMA DifferAtOne ==
    ASSUME NEW h, NEW k, h = [g \in File |-> h[g]], k = [g \in File |-> k[g]],
           NEW f \in File, NEW v, k[f] = v, \A g \in File : g # f => k[g] = h[g]
    PROVE  k = [h EXCEPT ![f] = v]
OBVIOUS

\* Two tables whose locks differ at one file only.
LEMMA LocksDifferAtOne ==
    ASSUME NEW m, NEW n, NEW f \in File, NEW u, NEW t,
           HolderIn(n)[f] = u, SinceIn(n)[f] = t,
           \A g \in File : g # f => HolderIn(n)[g] = HolderIn(m)[g] /\ SinceIn(n)[g] = SinceIn(m)[g]
    PROVE  LockSetTo(m, n, f, u, t)
<1>1. HolderIn(n) = [HolderIn(m) EXCEPT ![f] = u]
    <2>1. HolderIn(n) = [g \in File |-> HolderIn(n)[g]] /\ HolderIn(m) = [g \in File |-> HolderIn(m)[g]]
        BY LockMaps
    <2> QED
        BY <2>1, DifferAtOne
<1>2. SinceIn(n) = [SinceIn(m) EXCEPT ![f] = t]
    <2>1. SinceIn(n) = [g \in File |-> SinceIn(n)[g]] /\ SinceIn(m) = [g \in File |-> SinceIn(m)[g]]
        BY LockMaps
    <2> QED
        BY <2>1, DifferAtOne
<1> QED
    BY <1>1, <1>2 DEF LockSetTo

\* The holder of a file that is found, and since when, stand in its slot.
LEMMA HolderInSlot ==
    ASSUME NEW m, NEW f \in File
    PROVE  HolderIn(m)[f] = IF f \in FilesIn(m) THEN m[FindFileMetadata(m, f)].lockedBy ELSE NoUser
BY DEF HolderIn

\* The time of a lock somebody holds stands there too.
LEMMA SinceInSlot ==
    ASSUME NEW m, NEW f \in File
    PROVE  SinceIn(m)[f] = IF HolderIn(m)[f] # NoUser THEN m[FindFileMetadata(m, f)].lockedAt ELSE 0
BY DEF SinceIn

\* A file that is found with the same entry as before has the same lock.
LEMMA LockKept ==
    ASSUME NEW m, NEW n, NEW f \in File, f \in FilesIn(n) <=> f \in FilesIn(m),
           f \in FilesIn(m) => n[FindFileMetadata(n, f)] = m[FindFileMetadata(m, f)]
    PROVE  HolderIn(n)[f] = HolderIn(m)[f] /\ SinceIn(n)[f] = SinceIn(m)[f]
<1>1. HolderIn(n)[f] = HolderIn(m)[f]
    <2>1. /\ HolderIn(m)[f] = IF f \in FilesIn(m) THEN m[FindFileMetadata(m, f)].lockedBy ELSE NoUser
          /\ HolderIn(n)[f] = IF f \in FilesIn(n) THEN n[FindFileMetadata(n, f)].lockedBy ELSE NoUser
        BY HolderInSlot, Zenon
    <2> QED
        BY <2>1, Zenon
<1>2. SinceIn(n)[f] = SinceIn(m)[f]
    <2>1. /\ SinceIn(m)[f] = IF HolderIn(m)[f] # NoUser THEN m[FindFileMetadata(m, f)].lockedAt ELSE 0
          /\ SinceIn(n)[f] = IF HolderIn(n)[f] # NoUser THEN n[FindFileMetadata(n, f)].lockedAt ELSE 0
        BY SinceInSlot, Zenon
    <2>2. HolderIn(m)[f] # NoUser => f \in FilesIn(m)
        BY HolderInSlot, Zenon
    <2> QED
        BY <1>1, <2>1, <2>2, Zenon
<1> QED
    BY <1>1, <1>2

\* A file whose entry is s has the lock of s.
LEMMA LockSet ==
    ASSUME NEW n, NEW f \in File, f \in FilesIn(n), NEW s, n[FindFileMetadata(n, f)] = s
    PROVE  /\ HolderIn(n)[f] = s.lockedBy
           /\ SinceIn(n)[f] = Time(s)
<1>1. HolderIn(n)[f] = IF f \in FilesIn(n) THEN n[FindFileMetadata(n, f)].lockedBy ELSE NoUser
    BY HolderInSlot, Zenon
<1>2. SinceIn(n)[f] = IF HolderIn(n)[f] # NoUser THEN n[FindFileMetadata(n, f)].lockedAt ELSE 0
    BY SinceInSlot, Zenon
<1> QED
    BY <1>1, <1>2, Zenon DEF Time

\* The lock of one entry in use is set: that of its file changes, and nothing
\* else does.
LEMMA SetLockEffect ==
    ASSUME NEW m \in Table, NEW f \in File, f \in FilesIn(m), NEW s,
           s.active, s.file = f, NEW n,
           n[FindFileMetadata(m, f)] = s,
           \A j \in Slot : j # FindFileMetadata(m, f) => n[j] = m[j]
    PROVE  /\ FilesIn(n) = FilesIn(m)
           /\ LockSetTo(m, n, f, s.lockedBy, Time(s))
<1> DEFINE i == FindFileMetadata(m, f)
<1>1. i \in Slot /\ i # NoSlot /\ m[i].active /\ m[i].file = f
    BY FindIsNamed DEF FilesIn
<1>2. n[i] = s /\ \A j \in Slot : j # i => n[j] = m[j]
    OBVIOUS
<1>3. \A g : Named(n, g) = Named(m, g)
    BY <1>1, <1>2 DEF Named
<1>4. \A g : FindFileMetadata(n, g) = FindFileMetadata(m, g)
    BY <1>3, FindSame
<1>5. FilesIn(n) = FilesIn(m)
    BY <1>4 DEF FilesIn
<1>6. ASSUME NEW g \in File, g # f, g \in FilesIn(m)
      PROVE  n[FindFileMetadata(n, g)] = m[FindFileMetadata(m, g)]
    <2>1. FindFileMetadata(m, g) \in Slot /\ FindFileMetadata(m, g) # i
        BY <1>1, <1>6, FindIsNamed DEF FilesIn
    <2> QED
        BY <1>2, <1>4, <2>1
<1>7. n[FindFileMetadata(n, f)] = s
    BY <1>2, <1>4
<1>8. ASSUME NEW g \in File, g # f
      PROVE  HolderIn(n)[g] = HolderIn(m)[g] /\ SinceIn(n)[g] = SinceIn(m)[g]
    <2>1. g \in FilesIn(n) <=> g \in FilesIn(m)
        BY <1>5, Zenon
    <2>2. g \in FilesIn(m) => n[FindFileMetadata(n, g)] = m[FindFileMetadata(m, g)]
        BY <1>6, <1>8, Zenon
    <2> QED
        BY <2>1, <2>2, LockKept
<1>9. HolderIn(n)[f] = s.lockedBy /\ SinceIn(n)[f] = Time(s)
    <2>1. f \in FilesIn(n)
        BY <1>5
    <2> QED
        BY <2>1, <1>7, LockSet
<1>10. LockSetTo(m, n, f, s.lockedBy, Time(s))
    BY <1>8, <1>9, LocksDifferAtOne
<1> QED
    BY <1>5, <1>10

\* A file is found exactly when it is not in no slot.
LEMMA FoundOrNot ==
    ASSUME NEW m \in Table, NEW f \in File
    PROVE  /\ FindFileMetadata(m, f) = NoSlot <=> f \notin FilesIn(m)
           /\ Named(m, f) = {} <=> f \notin FilesIn(m)
           /\ f \in FilesIn(m) => /\ FindFileMetadata(m, f) \in Slot
                                  /\ m[FindFileMetadata(m, f)] \in FileMetadata
                                  /\ m[FindFileMetadata(m, f)].active
                                  /\ m[FindFileMetadata(m, f)].file = f
BY FindIsNamed DEF FilesIn, Table

\* The same of the table with that entry replaced.
LEMMA EntrySet ==
    ASSUME NEW m \in Table, NEW f \in File, f \in FilesIn(m), NEW s, s.active, s.file = f
    PROVE  /\ FilesIn([m EXCEPT ![FindFileMetadata(m, f)] = s]) = FilesIn(m)
           /\ LockSetTo(m, [m EXCEPT ![FindFileMetadata(m, f)] = s], f, s.lockedBy, Time(s))
<1> DEFINE i == FindFileMetadata(m, f)
           n == [m EXCEPT ![i] = s]
<1>1. i \in Slot
    BY FoundOrNot
<1>2. n[i] = s /\ \A j \in Slot : j # i => n[j] = m[j]
    BY <1>1 DEF Table
<1> HIDE DEF n
<1>3. FilesIn(n) = FilesIn(m) /\ LockSetTo(m, n, f, s.lockedBy, Time(s))
    BY <1>2, SetLockEffect
<1> QED
    BY <1>3 DEF n

\* Setting a lock to what it is changes nothing.
LEMMA SetToSame ==
    ASSUME NEW m, NEW n, NEW f, LockSetTo(m, n, f, HolderIn(m)[f], SinceIn(m)[f]),
           FilesIn(n) = FilesIn(m)
    PROVE  SameLocks(m, n)
<1>1. /\ HolderIn(m) = [g \in File |-> HolderIn(m)[g]]
      /\ SinceIn(m) = [g \in File |-> SinceIn(m)[g]]
    BY LockMaps
<1> QED
    BY <1>1 DEF LockSetTo, SameLocks

\* update_file_metadata leaves every lock alone.
LEMMA UpdateEffect ==
    ASSUME NEW m \in Table, NEW f \in File, NEW size
    PROVE  SameLocks(m, UpdateFileMetadata(m, f, size))
<1>1. CASE f \notin FilesIn(m)
    BY <1>1, FoundOrNot DEF UpdateFileMetadata, SameLocks
<1>2. CASE f \in FilesIn(m)
    <2> DEFINE i == FindFileMetadata(m, f)
               s == [m[i] EXCEPT !.version = m[i].version + 1, !.size = size]
    <2>1. i \in Slot /\ i # NoSlot /\ m[i] \in FileMetadata /\ m[i].active /\ m[i].file = f
        BY <1>2, FoundOrNot
    <2>2. s.active /\ s.file = f /\ s.lockedBy = m[i].lockedBy /\ s.lockedAt = m[i].lockedAt
        BY <2>1 DEF FileMetadata
    <2>3. UpdateFileMetadata(m, f, size) = [m EXCEPT ![i] = s]
        BY <2>1 DEF UpdateFileMetadata, Table
    <2>4. s.lockedBy = HolderIn(m)[f] /\ Time(s) = SinceIn(m)[f]
        <3>1. HolderIn(m)[f] = m[i].lockedBy /\ SinceIn(m)[f] = Time(m[i])
            BY <1>2, LockSet
        <3> QED
            BY <2>2, <3>1 DEF Time
    <2> HIDE DEF s
    <2>5. /\ FilesIn([m EXCEPT ![i] = s]) = FilesIn(m)
          /\ LockSetTo(m, [m EXCEPT ![i] = s], f, s.lockedBy, Time(s))
        BY <1>2, <2>2, EntrySet
    <2> QED
        BY <2>3, <2>4, <2>5, SetToSame
<1> QED
    BY <1>1, <1>2

\* acquire_edit_lock grants a lock that is free or stale, or changes nothing.
LEMMA AcquireEffect ==
    ASSUME NEW m \in Table, NEW f \in File, NEW u \in User, NEW t
    PROVE  \/ SameLocks(m, AcquireEditLock(m, f, u, t))
           \/ Granted(m, AcquireEditLock(m, f, u, t), f, u, t)
<1> DEFINE i == FindFileMetadata(m, f)
           s == [m[i] EXCEPT !.lockedBy = u, !.lockedAt = t]
<1>1. CASE f \notin FilesIn(m) \/ Fresh(m[i], t)
    <2>1. AcquireEditLock(m, f, u, t) = m
        BY <1>1, FoundOrNot DEF AcquireEditLock
    <2> QED
        BY <2>1 DEF SameLocks
<1>2. CASE f \in FilesIn(m) /\ ~ Fresh(m[i], t)
    <2>1. i \in Slot /\ i # NoSlot /\ m[i] \in FileMetadata /\ m[i].active /\ m[i].file = f
        BY <1>2, FoundOrNot DEF FilesIn
    <2>2. s.active /\ s.file = f /\ s.lockedBy = u /\ s.lockedAt = t
        BY <2>1 DEF FileMetadata
    <2>3. AcquireEditLock(m, f, u, t) = [m EXCEPT ![i] = s]
        BY <1>2, <2>1 DEF AcquireEditLock, Table
    <2>4. Time(s) = t
        BY <2>2, SyncTypesAssumption DEF Time
    <2>5. HolderIn(m)[f] = NoUser \/ t - SinceIn(m)[f] > LockTimeout
        <3>1. HolderIn(m)[f] = m[i].lockedBy /\ SinceIn(m)[f] = Time(m[i])
            BY <1>2, LockSet
        <3> QED
            BY <1>2, <3>1 DEF Time, Fresh, Stale
    <2> HIDE DEF s
    <2>6. /\ FilesIn([m EXCEPT ![i] = s]) = FilesIn(m)
          /\ LockSetTo(m, [m EXCEPT ![i] = s], f, s.lockedBy, Time(s))
        BY <1>2, <2>2, EntrySet
    <2> QED
        BY <1>2, <2>2, <2>3, <2>4, <2>5, <2>6 DEF Granted
<1> QED
    BY <1>1, <1>2

\* release_edit_lock gives back a lock of the user who asks, or changes nothing.
LEMMA ReleaseEffect ==
    ASSUME NEW m \in Table, NEW f \in File, NEW u \in User
    PROVE  \/ SameLocks(m, ReleaseEditLock(m, f, u))
           \/ GivenBack(m, ReleaseEditLock(m, f, u), f, u)
<1> DEFINE i == FindFileMetadata(m, f)
           s == [m[i] EXCEPT !.lockedBy = NoUser, !.lockedAt = 0]
<1>1. CASE f \notin FilesIn(m) \/ m[i].lockedBy # u
    <2>1. ReleaseEditLock(m, f, u) = m
        BY <1>1, FoundOrNot DEF ReleaseEditLock
    <2> QED
        BY <2>1 DEF SameLocks
<1>2. CASE f \in FilesIn(m) /\ m[i].lockedBy = u
    <2>1. i \in Slot /\ i # NoSlot /\ m[i] \in FileMetadata /\ m[i].active /\ m[i].file = f
        BY <1>2, FoundOrNot DEF FilesIn
    <2>2. s.active /\ s.file = f /\ s.lockedBy = NoUser /\ Time(s) = 0
        BY <2>1 DEF FileMetadata, Time
    <2>3. ReleaseEditLock(m, f, u) = [m EXCEPT ![i] = s]
        BY <1>2, <2>1 DEF ReleaseEditLock, Table
    <2>4. HolderIn(m)[f] = u
        BY <1>2, LockSet
    <2> HIDE DEF s
    <2>5. /\ FilesIn([m EXCEPT ![i] = s]) = FilesIn(m)
          /\ LockSetTo(m, [m EXCEPT ![i] = s], f, s.lockedBy, Time(s))
        BY <1>2, <2>2, EntrySet
    <2> QED
        BY <2>2, <2>3, <2>4, <2>5 DEF GivenBack
<1> QED
    BY <1>1, <1>2

\* check_edit_lock clears a lock whose time is up, or changes nothing.
LEMMA CheckEffect ==
    ASSUME NEW m \in Table, NEW f \in File, NEW t
    PROVE  \/ SameLocks(m, CheckEditLock(m, f, t))
           \/ RunOut(m, CheckEditLock(m, f, t), f, t)
<1> DEFINE i == FindFileMetadata(m, f)
           s == [m[i] EXCEPT !.lockedBy = NoUser]
<1>1. CASE f \notin FilesIn(m) \/ ~ Stale(m[i], t)
    <2>1. CheckEditLock(m, f, t) = m
        BY <1>1, FoundOrNot DEF CheckEditLock
    <2> QED
        BY <2>1 DEF SameLocks
<1>2. CASE f \in FilesIn(m) /\ Stale(m[i], t)
    <2>1. i \in Slot /\ i # NoSlot /\ m[i] \in FileMetadata /\ m[i].active /\ m[i].file = f
        BY <1>2, FoundOrNot DEF FilesIn
    <2>2. s.active /\ s.file = f /\ s.lockedBy = NoUser /\ Time(s) = 0
        BY <2>1 DEF FileMetadata, Time
    <2>3. CheckEditLock(m, f, t) = [m EXCEPT ![i] = s]
        BY <1>2, <2>1 DEF CheckEditLock, Table
    <2>4. HolderIn(m)[f] # NoUser /\ t - SinceIn(m)[f] > LockTimeout
        <3>1. HolderIn(m)[f] = m[i].lockedBy /\ SinceIn(m)[f] = Time(m[i])
            BY <1>2, LockSet
        <3> QED
            BY <1>2, <3>1 DEF Time, Stale
    <2> HIDE DEF s
    <2>5. /\ FilesIn([m EXCEPT ![i] = s]) = FilesIn(m)
          /\ LockSetTo(m, [m EXCEPT ![i] = s], f, s.lockedBy, Time(s))
        BY <1>2, <2>2, EntrySet
    <2> QED
        BY <2>2, <2>3, <2>4, <2>5 DEF RunOut
<1> QED
    BY <1>1, <1>2

\* add_file_metadata: a file that appears is not locked, though the slot it
\* takes may have been used before.
LEMMA AddEffect ==
    ASSUME NEW m \in Table, NEW f \in File, NEW u, NEW size, HasRoomFor(m, f)
    PROVE  \/ SameLocks(m, AddFileMetadata(m, f, u, size))
           \/ Added(m, AddFileMetadata(m, f, u, size), f)
<1>1. CASE f \in FilesIn(m)
    <2>1. AddFileMetadata(m, f, u, size) = UpdateFileMetadata(m, f, size)
        BY <1>1, FoundOrNot DEF AddFileMetadata
    <2> QED
        BY <2>1, UpdateEffect
<1>2. CASE f \notin FilesIn(m)
    <2> DEFINE i == First(Vacant(m))
               s == [m[i] EXCEPT !.file = f, !.owner = u, !.version = 1, !.size = size,
                                 !.active = TRUE, !.lockedBy = NoUser]
               n == AddFileMetadata(m, f, u, size)
    <2>1. Named(m, f) = {}
        BY <1>2, FoundOrNot
    <2>2. i \in Slot /\ ~ m[i].active
        BY <2>1, FirstIsLeast DEF HasRoomFor, Vacant
    <2>3. m[i] \in FileMetadata
        BY <2>2 DEF Table
    <2>4. s.file = f /\ s.active /\ s.lockedBy = NoUser /\ Time(s) = 0
        BY <2>3 DEF FileMetadata, Time
    <2>5. n = [m EXCEPT ![i] = s]
        BY <2>1, <2>2 DEF AddFileMetadata, Table
    <2> HIDE DEF s, n
    <2>6. n[i] = s /\ \A j \in Slot : j # i => n[j] = m[j]
        BY <2>2, <2>5 DEF Table
    <2> HIDE DEF i
    <2>7. Named(n, f) = {i} /\ \A g \in File \ {f} : Named(n, g) = Named(m, g)
        BY <2>1, <2>2, <2>4, <2>6 DEF Named
    <2>8. FindFileMetadata(n, f) = i /\ i # NoSlot
        <3>1. First({i}) = i
            BY <2>2, FirstIsLeast
        <3> QED
            BY <2>2, <2>7, <3>1, MetadataAssumption DEF FindFileMetadata, Slot, NoSlot
    <2>9. \A g \in File \ {f} : FindFileMetadata(n, g) = FindFileMetadata(m, g)
        BY <2>7, FindSame
    <2>10. FilesIn(n) = FilesIn(m) \cup {f}
        BY <2>8, <2>9 DEF FilesIn
    <2>11. HolderIn(n)[f] = NoUser /\ SinceIn(n)[f] = 0
        <3>1. f \in FilesIn(n) /\ n[FindFileMetadata(n, f)] = s
            BY <2>6, <2>8, <2>10
        <3> QED
            BY <2>4, <3>1, LockSet
    <2>12. HolderIn(m)[f] = NoUser /\ SinceIn(m)[f] = 0
        BY <1>2, HolderInSlot, SinceInSlot
    <2>13. ASSUME NEW g \in File, g # f
           PROVE  HolderIn(n)[g] = HolderIn(m)[g] /\ SinceIn(n)[g] = SinceIn(m)[g]
        <3>1. g \in FilesIn(n) <=> g \in FilesIn(m)
            BY <2>10, <2>13
        <3>2. ASSUME g \in FilesIn(m)
              PROVE  n[FindFileMetadata(n, g)] = m[FindFileMetadata(m, g)]
            <4>1. FindFileMetadata(m, g) \in Slot /\ FindFileMetadata(m, g) # i
                BY <2>2, <3>2, FoundOrNot
            <4> QED
                BY <2>6, <2>9, <2>13, <4>1
        <3> QED
            BY <3>1, <3>2, LockKept
    <2>14. LockSetTo(m, n, f, HolderIn(m)[f], SinceIn(m)[f])
        BY <2>11, <2>12, <2>13, LocksDifferAtOne
    <2>15. HolderIn(n) = HolderIn(m) /\ SinceIn(n) = SinceIn(m)
        BY <2>14, LockMaps DEF LockSetTo
    <2>16. Added(m, n, f)
        BY <1>2, <2>10, <2>15 DEF Added
    <2> QED
        BY <2>16 DEF n
<1> QED
    BY <1>1, <1>2

\* remove_file_metadata: the file's lock goes with it, and as no file has two
\* entries the file is gone.
LEMMA RemoveEffect ==
    ASSUME NEW m \in Table, Sound(m), NEW f \in File
    PROVE  \/ SameLocks(m, RemoveFileMetadata(m, f))
           \/ Removed(m, RemoveFileMetadata(m, f), f)
<1>1. CASE f \notin FilesIn(m)
    <2>1. RemoveFileMetadata(m, f) = m
        BY <1>1, FoundOrNot DEF RemoveFileMetadata
    <2> QED
        BY <2>1 DEF SameLocks
<1>2. CASE f \in FilesIn(m)
    <2> DEFINE i == FindFileMetadata(m, f)
               s == [m[i] EXCEPT !.active = FALSE, !.lockedBy = NoUser]
               n == RemoveFileMetadata(m, f)
    <2>1. /\ i \in Slot /\ m[i] \in FileMetadata /\ m[i].active /\ m[i].file = f
          /\ Named(m, f) # {}
        BY <1>2, FoundOrNot
    <2>2. ~ s.active
        BY <2>1 DEF FileMetadata
    <2>3. n = [m EXCEPT ![i] = s]
        BY <2>1 DEF RemoveFileMetadata, Table
    <2> HIDE DEF s, n
    <2>4. n[i] = s /\ \A j \in Slot : j # i => n[j] = m[j]
        BY <2>1, <2>3 DEF Table
    <2>5. \A g \in File \ {f} : FindFileMetadata(n, g) = FindFileMetadata(m, g)
        <3>1. \A g \in File \ {f} : Named(n, g) = Named(m, g)
            BY <2>1, <2>2, <2>4 DEF Named
        <3> QED
            BY <3>1, FindSame
    <2>6. FindFileMetadata(n, f) = NoSlot
        <3>1. Named(n, f) = {}
            BY <2>1, <2>2, <2>4 DEF Named, Sound, UniqueNames
        <3> QED
            BY <3>1, FindIsNamed
    <2>7. FilesIn(n) = FilesIn(m) \ {f}
        BY <2>5, <2>6 DEF FilesIn
    <2>8. HolderIn(n)[f] = NoUser /\ SinceIn(n)[f] = 0
        BY <2>7, HolderInSlot, SinceInSlot
    <2>9. ASSUME NEW g \in File, g # f
          PROVE  HolderIn(n)[g] = HolderIn(m)[g] /\ SinceIn(n)[g] = SinceIn(m)[g]
        <3>1. g \in FilesIn(n) <=> g \in FilesIn(m)
            BY <2>7, <2>9
        <3>2. ASSUME g \in FilesIn(m)
              PROVE  n[FindFileMetadata(n, g)] = m[FindFileMetadata(m, g)]
            <4>1. FindFileMetadata(m, g) \in Slot /\ FindFileMetadata(m, g) # i
                BY <2>1, <2>9, <3>2, FoundOrNot
            <4> QED
                BY <2>4, <2>5, <2>9, <4>1
        <3> QED
            BY <3>1, <3>2, LockKept
    <2>10. LockSetTo(m, n, f, NoUser, 0)
        BY <2>8, <2>9, LocksDifferAtOne
    <2>11. Removed(m, n, f)
        BY <1>2, <2>7, <2>10 DEF Removed
    <2> QED
        BY <2>11 DEF n
<1> QED
    BY <1>1, <1>2

-----------------------------------------------------------------------------
(* What a step of the pool does to the table.                              *)

\* The table after a step of a worker: as it was, or changed by one function
\* of metadata.c called for the file of its task.
TableStep(f, u) ==
    \/ meta' = meta
    \/ meta' = CheckEditLock(meta, f, now)
    \/ meta' = AcquireEditLock(meta, f, u, now)
    \/ meta' = ReleaseEditLock(meta, f, u)
    \/ meta' = RemoveFileMetadata(meta, f)
    \/ \E size : meta' = UpdateFileMetadata(meta, f, size)
    \/ \E size : HasRoomFor(meta, f) /\ meta' = AddFileMetadata(meta, f, u, size)

OwnTableStep(w) == TableStep(task[w].file, task[w].user) /\ UNCHANGED <<task, now>> /\ pc[w] # idle

\* The table operators do to the locks what a request may do.
LEMMA TableStepLocks ==
    ASSUME IInv, NEW f \in File, NEW u \in User, TableStep(f, u)
    PROVE  LockStep(meta, meta', f, u, now)
<1>1. meta \in Table /\ Sound(meta)
    BY DEF IInv, TypeOK, TableSound, Table
<1>2. CASE meta' = meta
    BY <1>2 DEF LockStep, SameLocks
<1>3. CASE meta' = CheckEditLock(meta, f, now)
    BY <1>1, <1>3, CheckEffect DEF LockStep
<1>4. CASE meta' = AcquireEditLock(meta, f, u, now)
    BY <1>1, <1>4, AcquireEffect DEF LockStep
<1>5. CASE meta' = ReleaseEditLock(meta, f, u)
    BY <1>1, <1>5, ReleaseEffect DEF LockStep
<1>6. CASE meta' = RemoveFileMetadata(meta, f)
    BY <1>1, <1>6, RemoveEffect DEF LockStep
<1>7. ASSUME NEW size, meta' = UpdateFileMetadata(meta, f, size)
      PROVE  LockStep(meta, meta', f, u, now)
    BY <1>1, <1>7, UpdateEffect DEF LockStep
<1>8. ASSUME NEW size, HasRoomFor(meta, f), meta' = AddFileMetadata(meta, f, u, size)
      PROVE  LockStep(meta, meta', f, u, now)
    BY <1>1, <1>8, AddEffect DEF LockStep
<1> QED
    BY <1>2, <1>3, <1>4, <1>5, <1>6, <1>7, <1>8 DEF TableStep

\* The routines of file_manager.c leave the table alone.
LEMMA RoutinesTable ==
    ASSUME NEW w \in Worker,
           Backup(w) \/ Cleanup(w) \/ Store(w) \/ Restore(w) \/ Load(w) \/ Erase(w)
    PROVE  OwnTableStep(w)
<1>1. ASSUME NEW r \in {"backup", "restore"}, NEW dst, NEW done, NEW failed,
             Copy(w, r, dst, done, failed)
      PROVE  OwnTableStep(w)
    BY <1>1 DEF Copy, OwnTableStep, TableStep, Goto, idle
<1>2. CASE Backup(w)
    BY <1>1, <1>2 DEF Backup, OwnTableStep, TableStep, Goto, NoShared, idle
<1>3. CASE Cleanup(w)
    BY <1>3 DEF Cleanup, OwnTableStep, TableStep, Goto, idle
<1>4. CASE Store(w)
    BY <1>4 DEF Store, OwnTableStep, TableStep, Answer, Goto, idle
<1>5. CASE Restore(w)
    BY <1>1, <1>5 DEF Restore, OwnTableStep, TableStep, Goto, NoShared, idle
<1>6. CASE Load(w)
    BY <1>6 DEF Load, OwnTableStep, TableStep, Answer, Goto, idle
<1>7. CASE Erase(w)
    BY <1>7 DEF Erase, OwnTableStep, TableStep, Answer, Goto, idle
<1> QED
    BY <1>2, <1>3, <1>4, <1>5, <1>6, <1>7

\* The tests before a case changes anything only read the table.
LEMMA TestsTable ==
    ASSUME NEW w \in Worker, NEW op, op # "main", NEW s, NEW to, NEW audit,
           \/ FindOr(w, <<op, s>>, to, audit) \/ OwnerOr(w, <<op, s>>, to)
           \/ UnlockedOr(w, op, to, audit)
    PROVE  OwnTableStep(w)
<1>1. CASE FindOr(w, <<op, s>>, to, audit)
    BY <1>1 DEF FindOr, OwnTableStep, TableStep, Answer, Goto, NoShared, idle
<1>2. CASE OwnerOr(w, <<op, s>>, to)
    BY <1>2 DEF OwnerOr, OwnTableStep, TableStep, Answer, Goto, NoShared, idle
<1>3. CASE UnlockedOr(w, op, to, audit)
    BY <1>3 DEF UnlockedOr, OwnTableStep, TableStep, Answer, Goto, NoShared, idle
<1> QED
    BY <1>1, <1>2, <1>3

\* Every step of process_task calls at most one function of metadata.c that
\* changes the table, for the file and the user of the worker's own task.
LEMMA ProcessTaskTable == ASSUME NEW w \in Worker, ProcessTask(w) PROVE OwnTableStep(w)
<1>1. CASE Upload(w)
    BY <1>1, TestsTable DEF Upload, OwnTableStep, TableStep, Answer, Goto, NoShared, idle
<1>2. CASE Download(w)
    BY <1>2 DEF Download, OwnTableStep, TableStep, Answer, Goto, NoShared, idle
<1>3. CASE Delete(w)
    BY <1>3, TestsTable DEF Delete, OwnTableStep, TableStep, Answer, Goto, NoShared, idle
<1>4. CASE Edit(w)
    BY <1>4, TestsTable DEF Edit, OwnTableStep, TableStep, Answer, Goto, NoShared, idle
<1>5. CASE Save(w)
    BY <1>5, TestsTable DEF Save, OwnTableStep, TableStep, Answer, Goto, NoShared, idle
<1>6. CASE Unlock(w)
    BY <1>6 DEF Unlock, OwnTableStep, TableStep, Answer, Goto, NoShared, idle
<1>7. CASE Rollback(w)
    BY <1>7, TestsTable DEF Rollback, OwnTableStep, TableStep, Answer, Goto, NoShared, idle
<1>8. CASE DeleteVersion(w)
    BY <1>8, TestsTable DEF DeleteVersion, OwnTableStep, TableStep, Answer, Goto, NoShared, idle
<1>9. CASE Show(w)
    BY <1>9 DEF Show, OwnTableStep, TableStep, Answer, Goto, NoShared, idle
<1> QED
    BY <1>1, <1>2, <1>3, <1>4, <1>5, <1>6, <1>7, <1>8, <1>9, RoutinesTable DEF ProcessTask

-----------------------------------------------------------------------------
(* The refinement.                                                         *)

\* The empty table holds no file and no lock.
LEMMA EmptyTable ==
    /\ FilesIn(InitMetadata) = {}
    /\ HolderIn(InitMetadata) = [f \in File |-> NoUser]
    /\ SinceIn(InitMetadata) = [f \in File |-> 0]
<1>1. \A f : Named(InitMetadata, f) = {}
    BY DEF Named, InitMetadata, EmptySlot
<1>2. FilesIn(InitMetadata) = {}
    BY <1>1, FindIsNamed DEF FilesIn
<1>3. \A f \in File : HolderIn(InitMetadata)[f] = NoUser /\ SinceIn(InitMetadata)[f] = 0
    BY <1>2, HolderInSlot, SinceInSlot
<1> QED
    BY <1>2, <1>3, LockMaps

\* The pool starts where the promise starts.
LEMMA PoolInit == Init => Lock!Init
<1> SUFFICES ASSUME Init PROVE Lock!Init
    OBVIOUS
<1>1. [w \in Worker |-> task[w].user] = [w \in Worker |-> NoUser]
    BY DEF Init, NoTask
<1>2. /\ FilesIn(meta) = {}
      /\ HolderIn(meta) = [f \in File |-> NoUser]
      /\ SinceIn(meta) = [f \in File |-> 0]
    BY EmptyTable DEF Init
<1> QED
    BY <1>1, <1>2 DEF Init, Lock!Init

\* A step of process_task grants, gives back, ends or moves no lock but as
\* the promise says.
LEMMA ProcessTaskRefines ==
    ASSUME IInv, NEW w \in Worker, ProcessTask(w)
    PROVE  Lock!Next \/ UNCHANGED Lock!vars
<1>1. OwnTableStep(w)
    BY ProcessTaskTable
<1>2. task[w].file \in File /\ task[w].user \in User /\ task[w].user # NoUser
    BY <1>1, TaskType, SyncTypesAssumption DEF OwnTableStep
<1>3. UNCHANGED <<task, now>>
    BY <1>1 DEF OwnTableStep
<1> DEFINE f == task[w].file
           u == task[w].user
<1>4. LockStep(meta, meta', f, u, now)
    BY <1>1, <1>2, TableStepLocks DEF OwnTableStep
<1>5. /\ [v \in Worker |-> task'[v].user] = [v \in Worker |-> task[v].user]
      /\ [v \in Worker |-> task[v].user][w] = u
    BY <1>3
<1> HIDE DEF f, u
<1>6. CASE SameLocks(meta, meta')
    BY <1>3, <1>5, <1>6 DEF SameLocks, Lock!vars
<1>7. CASE Granted(meta, meta', f, u, now)
    <2>1. Lock!Grant(w, f)
        BY <1>2, <1>3, <1>5, <1>7 DEF Granted, LockSetTo, Lock!Grant, Lock!SetLock, Lock!Expired, u
    <2> QED
        BY <1>2, <2>1 DEF Lock!Next, f
<1>8. CASE GivenBack(meta, meta', f, u)
    <2>1. Lock!GiveBack(w, f)
        BY <1>2, <1>3, <1>5, <1>8 DEF GivenBack, LockSetTo, Lock!GiveBack, Lock!SetLock, u
    <2> QED
        BY <1>2, <2>1 DEF Lock!Next, f
<1>9. CASE RunOut(meta, meta', f, now)
    <2>1. Lock!Expire(f)
        BY <1>3, <1>5, <1>9 DEF RunOut, LockSetTo, Lock!Expire, Lock!SetLock, Lock!Expired
    <2> QED
        BY <1>2, <2>1 DEF Lock!Next, f
<1>10. CASE Added(meta, meta', f)
    <2>1. Lock!Appear(f)
        BY <1>3, <1>5, <1>10 DEF Added, Lock!Appear
    <2> QED
        BY <1>2, <2>1 DEF Lock!Next, f
<1>11. CASE Removed(meta, meta', f)
    <2>1. Lock!Vanish(f)
        BY <1>3, <1>5, <1>11 DEF Removed, LockSetTo, Lock!Vanish, Lock!SetLock
    <2> QED
        BY <1>2, <2>1 DEF Lock!Next, f
<1> QED
    BY <1>4, <1>6, <1>7, <1>8, <1>9, <1>10, <1>11 DEF LockStep

\* A worker acts for nobody until it takes a task, and for nobody after it has
\* answered.
LEMMA LoopRefines ==
    ASSUME IInv, NEW w \in Worker, ReceiveTask(w) \/ SendResponse(w)
    PROVE  Lock!Next
<1> DEFINE asks == [v \in Worker |-> task[v].user]
<1>1. task \in [Worker -> Task \cup {NoTask}] /\ (task[w] = NoTask <=> pc[w] = idle)
    BY DEF IInv, TypeOK, WorkerOK
<1>2. UNCHANGED <<meta, now>>
    BY DEF ReceiveTask, SendResponse, NoShared
<1>3. CASE ReceiveTask(w)
    <2>1. PICK t \in Requests : task' = [task EXCEPT ![w] = t]
        BY <1>3 DEF ReceiveTask
    <2>2. t.user \in User
        BY <2>1 DEF Requests
    <2>3. asks[w] = NoUser
        BY <1>1, <1>3 DEF ReceiveTask, NoTask
    <2>4. asks' = [asks EXCEPT ![w] = t.user]
        BY <1>1, <2>1
    <2>5. Lock!Begin(w)
        BY <1>2, <2>2, <2>3, <2>4 DEF Lock!Begin
    <2> QED
        BY <2>5 DEF Lock!Next
<1>4. CASE SendResponse(w)
    <2>1. pc[w] # idle /\ task' = [task EXCEPT ![w] = NoTask]
        BY <1>4 DEF SendResponse, respond, idle
    <2>2. asks[w] # NoUser
        BY <2>1, TaskType, SyncTypesAssumption
    <2>3. asks' = [asks EXCEPT ![w] = NoUser]
        BY <1>1, <2>1 DEF NoTask
    <2>4. Lock!End(w)
        BY <1>2, <2>2, <2>3 DEF Lock!End
    <2> QED
        BY <2>4 DEF Lock!Next
<1> QED
    BY <1>3, <1>4

\* Every step of the pool is a step of the promise or none.
LEMMA PoolStep == IInv /\ [Next]_vars => [Lock!Next]_(Lock!vars)
<1> SUFFICES ASSUME IInv, [Next]_vars PROVE [Lock!Next]_(Lock!vars)
    OBVIOUS
<1>1. ASSUME NEW w \in Worker, WorkerStep(w)
      PROVE  [Lock!Next]_(Lock!vars)
    BY <1>1, ProcessTaskRefines, LoopRefines DEF WorkerStep
<1>2. CASE Tick
    <2>1. now' = now + 1 /\ UNCHANGED <<meta, task>>
        BY <1>2 DEF Tick, poolVars, NoShared
    <2>2. Lock!Tick
        BY <2>1 DEF Lock!Tick
    <2> QED
        BY <2>2 DEF Lock!Next
<1>3. CASE Restart
    <2>1. meta' = InitMetadata /\ task' = [w \in Worker |-> NoTask] /\ now' = now
        BY <1>3 DEF Restart
    <2>2. [w \in Worker |-> task'[w].user] = [w \in Worker |-> NoUser]
        BY <2>1 DEF NoTask
    <2>3. /\ FilesIn(meta') = {}
          /\ HolderIn(meta') = [f \in File |-> NoUser]
          /\ SinceIn(meta') = [f \in File |-> 0]
        BY <2>1, EmptyTable
    <2>4. Lock!Restart
        BY <2>1, <2>2, <2>3 DEF Lock!Restart
    <2> QED
        BY <2>4 DEF Lock!Next
<1>4. CASE StartTwice
    <2>1. meta' = InitMetadata /\ task' = task /\ now' = now
        BY <1>4 DEF StartTwice
    <2>2. [w \in Worker |-> task'[w].user] = [w \in Worker |-> task[w].user]
        BY <2>1
    <2>3. /\ FilesIn(meta') = {}
          /\ HolderIn(meta') = [f \in File |-> NoUser]
          /\ SinceIn(meta') = [f \in File |-> 0]
        BY <2>1, EmptyTable
    <2>4. Lock!Restart
        BY <2>1, <2>2, <2>3 DEF Lock!Restart
    <2> QED
        BY <2>4 DEF Lock!Next
<1>5. CASE UNCHANGED vars
    BY <1>5 DEF vars, poolVars, Lock!vars
<1> QED
    BY <1>1, <1>2, <1>3, <1>4, <1>5 DEF Next, Finished

\* For any number of workers, files, users and slots, however requests
\* interleave and the server restarts: acquire_edit_lock (metadata.c) grants a
\* file's lock only when nobody holds it or its holder's time is up, and until
\* then only its holder, the file's removal or a new server end it.
THEOREM PoolImplementsEditLock == Spec => ImplementsEditLock
BY PoolInit, PoolStep, Inductive, PTL DEF Spec, ImplementsEditLock, Lock!Spec
=============================================================================
