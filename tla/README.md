# Verification of the file synchronization server

TLA+ models of the server in `src/` (C, System V IPC, pre-forked workers), the
TLC runs that check them on small instances, and TLAPS proofs of what holds for
every instance. File and line references are relative to the repository root;
`worker.c` stands for `src/src/worker.c` and so on.

## 1. The system

| Component | State | Operations | Interacts with |
|---|---|---|---|
| Client threads (`server.c`) | socket, authenticated user, one request at a time | receive a request, `check_permission`, `send_task`, wait in `receive_response`, forward the answer | task queue, response queue, authentication |
| Worker pool (`worker.c`) | the task in hand, local variables, descriptors | `receive_task`, twelve cases of `process_task`, `send_response` | queues, metadata table, storage, audit pipe |
| Metadata table (`metadata.c`) | array of `MAX_FILES` slots in shared memory: name, owner, version, size, active flag, edit lock and its time | add, update, remove, find, acquire/release/check edit lock; listings | one System V semaphore around every function |
| Storage (`file_manager.c`) | `storage/<name>` and `storage/.versions/<name>/vN` | save, read, remove, save/restore/delete version, rotate old versions | POSIX file system, `fcntl` locks around single reads and writes |
| Queues and shared memory (`ipc.c`) | two bounded message queues and a segment that outlive the process | create, send, receive, remove | all processes |
| Semaphore (`sync.c`) | one binary semaphore with `SEM_UNDO` | lock, unlock | workers |
| Authentication (`auth.c`) | `users.dat` and its cache | load, authenticate, register, `check_permission` | client threads |
| Audit (`ipc.c`, `server.c`) | named pipe, `audit.log` | write an entry, logger thread, read the log | workers |
| Startup and shutdown (`server.c`) | worker pids, IPC identifiers | create everything, fork, tear down on a signal | everything |
| Client (`client.c`) | terminal | commands | TCP |

What is hard here:

* **Interleaving.** Four workers share the table and the disk. Each function of
  `metadata.c` is atomic, but a case of `process_task` is a sequence of them
  with system calls between, and it keeps using a pointer into the table after
  the semaphore is released: the slot may by then belong to another file.
* **The file system is not transactional.** `open(O_TRUNC)` empties a file before
  the `fcntl` lock is taken; `copy_file` takes no lock at all; removing a file
  and forgetting it in the table are two steps; every open and write can fail.
* **Time.** Edit locks grow stale after `LOCK_TIMEOUT_SECS`; EDIT and UPLOAD
  notice, DELETE, ROLLBACK and SAVE do not.
* **Crashes.** The table is emptied at every start; storage, queues and
  `users.dat` survive.

What makes each part correct: one table entry per file; a lock that is granted
to one user and ends only by that user, its timeout or the file's removal; table
and disk that agree once the workers are done with a file; a history that stays
within its limit and holds what was overwritten; only owners and admins changing
a file; whole files for readers; an audit entry for every operation; an answer
for every request; one account per name and role. `PROJECT.json` lists each
hazard at its line with the property that covers it, or why none does.

## 2. Modules

| Module | What it is |
|---|---|
| `SyncTypes` | files, users with roles, workers, and the assumptions on them |
| `Metadata` | the table: one operator per function of `metadata.c`, from table to table, and `Sound`, what every table must satisfy |
| `FileStore` | the storage directory as paths, inodes and descriptors: one operator per system call `file_manager.c` makes |
| `WorkerPool` | the workers: `process_task` and the routines of `file_manager.c` as steps over the two modules above; the clock; a crash with restart; a second server that empties the table |
| `EditLock` | abstract specification of the edit lock, with no table, disk or request types |
| `PoolProperties` | the properties of the pool, and the refinement mapping to `EditLock` |
| `RequestFlow` | client threads, request ids, both bounded queues, the loop of a worker, the orderly end of the server, crashes and starts |
| `CallReturn` | abstract specification of a call: performed at most once, answered once, to who asked |
| `FlowProperties` | the properties of the queues, and the refinement mapping to `CallReturn` |
| `Semaphore` | the semaphore with what the kernel undoes at an exit, interrupted waits, removal, second initialization |
| `Registration` | signing in and up over the array all client threads share |
| `MCWorkerPool`, `MCRequestFlow`, `MCSemaphore`, `MCRegistration` | values for TLC |
| `SharedStateProofs` (table and disk), `WorkerPoolProofs`, `HistoryProofs`, `SerialProofs`, `ContentsProofs`, `FlowProofs`, `SemaphoreProofs`, `RegistrationProofs` | the theorems |

The models meet at three seams. `WorkerPool` takes any task at any time and
performs it over an atomic table; `RequestFlow` says which tasks reach a worker
and where its answer goes, with `process_task` as one step; `Semaphore` says
when the table's functions are atomic: as long as `slips = 0`. Once a wait was
interrupted, the semaphore removed under a worker or set to 1 again while one
was inside, two workers may be in the table at once, and nothing `WorkerPool`
says is claimed.

### How the model corresponds to the code

A worker's control point is `<<routine, step>>`: the routine is a case of
`process_task` or one of `backup` (`save_version`), `cleanup`
(`cleanup_old_versions`), `store` (`save_file`), `restore` (`restore_version`),
`load` (`read_file`), `erase` (`remove_file_from_storage`). One step is

* one semaphore section, that is, one function of `metadata.c`, applied as one
  operator of `Metadata` (`meta' = AddFileMetadata(meta, ...)`);
* one system call on storage, as one operator of `FileStore`;
* one read through a table pointer outside the semaphore (`fm->version`,
  `fmeta->owner_id`, and each of the two reads of `locked_by_user_id` in the
  lock test of DELETE and ROLLBACK: the build does not optimise, so they are two).

| Variable | Code |
|---|---|
| `meta` | the `FileMetadata` array in shared memory |
| `link`, `bytes`, `vdirs` | directory entries, contents of inodes, `.versions/<name>` directories |
| `fd` | descriptors of each worker (`src_fd`, `dst_fd`, `fd`) |
| `pc`, `task`, `reg` | program counter, `TaskMessage`, locals (pointer, version, buffer, offset, size, victims of the clean-up) |
| `reply` | status of the `ResponseMessage` and the result given to `write_audit_entry` |
| `now` | `time(NULL)` |
| `left`, `restarts` | bounds only |

A pointer is a slot number, so using it after the slot was reused reads another
file's entry, as in the code. A descriptor names an inode, so a file unlinked or
truncated by one worker while another has it open behaves as on POSIX.

**RequestFlow.** `at` is where `handle_client` is (`recv`, `send` in
`send_task`, `wait` in `receive_response`), `job` where `worker_main` is
(`receive`, `work`, `reply`). A message carries the request's id, as in the
code, and the request's number, which the code does not have: it only serves to
say whose answer it was. `counter` is `request_counter`, with its wrap at
99999. `server` goes from `up` to `stopping` (`server_signal_handler` has begun,
waits in `waitpid`), `leaving` (the queues are removed) and `down`. `cut` are the
workers whose queue ids name queues that are gone: `msgrcv` in progress gives
EIDRM and the worker leaves; a later call gives EINVAL and it loops until it is
told to stop. `told` is `worker_running = 0`.

**Semaphore.** `sem` is the value, `adj` the kernel's `semadj` of each process,
`at` where the worker is with respect to a function of `metadata.c`. `SETVAL`
clears every `semadj`; the undo at an exit never takes the value below zero;
`sem_lock` returns `void`, so EINTR, EIDRM and EINVAL all lead into the section.
`slips` counts the ways into the section that do not take the semaphore:
interrupted waits, calls on a removed semaphore, and workers a start finds
inside.

**Registration.** One step is a line read, a line parsed into an entry, a load
and store of `user_count` (`*count` is incremented at `-O0` by a load and a
store), an entry compared, the copy of the entry, a line appended, an entry
cached. An index past the end of the array ends the behaviour in `lost`: what
the build then does is not defined.

A line is its id and the fields `strtok_r` finds in what `fprintf` wrote
(`auth.c:245`, `auth.c:40-63`). Nothing keeps colons out of names and passwords,
so the fields are the `Pieces` of the name, then those of the password, then the
role: the password `p:0` of a user gives the password `p` and the role 0, and
what follows is ignored; a name of colons only gives no field, and the line,
left with too few, overwrites part of an entry and is not counted
(`Complete`, `Parsed`). The array, which `register_user` fills from its
arguments and not from the file, has the name and password as they were sent.
The results of `fprintf` and `fflush` are ignored, so `AppendLine` may go on
without a line.

`lone` in a call says that no other call was under way since it began, `wrote`
that its line is in the file, `clean` which lines calls that were alone wrote and
for which request, `tries` how many sign-ups came as far as their line; all four
are history.

### Abstractions

* Names are model values; contents are short sequences of blocks. A write that
  fails leaves a proper prefix. Empty uploads do not occur: `read_local_file`
  (`client.c:88`) refuses them.
* `fcntl` locks surround exactly one `read` or one `write`, so the locked call is
  one step and the locks need no state. A file fits one `read` (`MAX_FILE_SIZE`
  equals the copy buffer).
* Three sweeps are one step: `readdir` of a version directory, the removal of
  the victims of the clean-up, the removal of all versions. `stat` followed by
  `open` of the same file is one step.
* Only `lock_acquired_at` is kept of the times; the other time stamps are
  displayed and never tested. The name of the lock's holder is only displayed.
* SAVE's test for guests is dead code (`check_permission` refuses them first)
  and is left out.
* Failures of `fcntl`, of `read`, of `remove` of an existing file and of
  `send_response` are not modelled; failures of `open` for writing and of
  `write` are, under `DiskMayFail`.
* The task queue is open: any request a role permits may come next. That covers
  every client and also tasks left in the queue by a server that crashed.
* `Restart` is a crash of the whole server at any point, and the start after it;
  `StartTwice` a second server that empties the table beside a running one. Its
  `memset` takes no semaphore; that it meets a worker in the middle of a
  table function is not modelled.
* LIST, VERSION, HISTORY and AUDIT change nothing and audit nothing; what they
  show is not modelled, their status is.
* `RequestFlow`: contents of requests and answers are left out. Queues hold
  `QueueRoom` messages; the kernel's default of 16384 bytes is three of them
  (`TaskMessage` and `ResponseMessage` are a little over 4 KB). A
  worker gets one SIGTERM. The handler of the server interrupts whichever
  thread is running and does not return, so client threads go on beside it. A
  write to a client that is gone kills the server by SIGPIPE: that is a `Crash`.
  `ProcessTask` leaves open whether the operation audits, so a worker without a
  logger may or may not die of it. `StartTwice` stands for a whole second
  server that ends at `bind`; the workers it forks before that, and what they
  may take from the queues in that short time, are left out.
* `Semaphore`: what is done inside a section is left out. `Crash` kills the
  server only; workers are killed by `Die`.
* `Registration`: names, passwords and fields are model values with what there
  is between their colons (`Pieces`) and the number they begin with (`atoi`); the
  comparison with `admin` ignores case, the model has one spelling. A line is in
  the file whole or not at all: it is at most 88 bytes, written by one `write`.
  It begins with an id, so none is empty or a comment, and nothing is truncated:
  the client reads names and passwords with `scanf("%31s")`, so they are not
  empty, have no blanks and fit their fields, and a line fits `fgets`. Two threads
  inside one entry may also mix its fields, which is finer than a step here;
  nothing is claimed of calls that overlap but where they write.

## 3. Runs

`tlc -config <run>.cfg <module>`: `MCRequestFlow` for `flow`, `MCSemaphore` for
`section`, `MCRegistration` for `accounts` and `registered_twice`,
`MCWorkerPool` for all others.

| Run | Instance | Shows |
|---|---|---|
| `race` | 2 workers, 2 files, 2 users, 2 slots, 4 requests of 7 kinds, lock timeout within reach, requests overlap freely | `TypeOK`, `TableSound`, `HistoryBounded`, `ImplementsEditLock` |
| `serial` | 2 workers, 2 files, 2 users, **1 slot**, 2 contents, 10 kinds of requests, none overlapping another for the same file | `TableMatchesDisk`, `HistoryBehindCurrent`, `DownloadWhole`, `NothingOverwrittenUnsaved` |
| `crash` | 1 worker, a user and an admin, disk failures, clock past the timeout, 1 more start of a server (after a crash, or by mistake beside it), 9 kinds of requests | `TypeOK`, `ActiveOnDisk`, `EditLockExcludesWrites`, `OwnersOnlyModify` |
| `flow` | 2 client threads, two servers in turn with 2 workers and 1, ids 100 and 101, queues of 1 message, 3 requests, 1 mishap (a worker or the server killed, or a server started twice) | `FlowTypeOK`, `IdsTellApart`, `NothingElseLoses`, `ImplementsCallReturn`, `EveryRequestAnswered`, `ShutdownEnds` |
| `section` | 3 workers and 1 of a later server, 3 sections, 1 signal each, 2 mishaps | `LockTypeOK`, `ExclusiveUpToSlips`, `NeverLost`, `WaitsEnd` |
| `accounts` | 2 threads, 3 calls of 7 kinds (one name in two roles, passwords with and without a colon, a name of colons, `admin`), lines that are lost, an array of 2 entries, one line in the file as shipped | `AccountsTypeOK`, `AloneIsRight`, `DuplicatesNeedOverlap`, `OverrunNeedsOverlap` |
| `lost_update`, `torn`, `first_uploads`, `rollback`, `restart_backup`, `registered_twice` | the least instance that shows it | a sentence of the repository's README the code does not keep (section 4) |

In `race` and `serial` users of one role, files and workers are interchangeable
and are declared symmetric, in `accounts` threads. Those runs check invariants and safety properties
only (`ImplementsEditLock` is `Init /\ [][Next]_v` of `EditLock`), for which
symmetry is sound; `flow` and `section`, which check liveness, declare none.

Why the bounds are enough to be interesting. Every race in this code is between
two workers. Four requests suffice for create, lock, and two that collide, and
for the longest chains: create, overwrite (backup), overwrite (rotation, as
`MaxVersions` is 1), roll back. Two files over one slot make the table full and
the undo of UPLOAD happen; two slots let a stale pointer see another file's
entry. One tick of the clock passes the timeout where `LockTimeout` is 0, two
where it is 1. Six inodes are more than these instances ever use at once;
that an open for writing may fail is `DiskMayFail`, not a full disk.

In `flow`, three requests over two ids make the counter wrap while the first
request is still on its way, queues of one message are full as soon as two
threads and two workers are busy, and one mishap suffices for every way a
message is lost: a worker that holds it dies, the queues are removed by a second
server, the server dies and its successor finds its messages. In `section`,
three workers are one inside, one waiting and one to be admitted wrongly; two
mishaps combine a crash with workers that live on and a kill inside the section.
In `accounts`, one line and two sign-ups fill the array of two and go past it,
and three calls are two that overlap and one alone after them, with whatever
they left: an array out of step with the file, a line that was lost, one that
does not count, or an account read back as another.

Two of the runs state an assumption on the environment as a constant:
`PerFileSerial` says that clients do not overlap requests for one file. Nothing
in the server enforces it, and the violation runs `lost_update`, `torn` and
`first_uploads` show three of the properties failing without it. The passing
runs then say that, within their bounds, nothing else breaks them.

**Fairness.** `WorkerPool` and `Registration` have safety properties only.
`RequestFlow` assumes weak fairness of what a process does by itself:
`SendTask` and `ReceiveResponse` of each client thread, the steps of each worker,
delivery of each signal, and the two last steps of the handler; `Semaphore`
that of `sem_lock` and `sem_unlock` of each worker. The kernel schedules every
runnable process, and none of these calls waits for anything but the queue or
semaphore its guard names. Weak fairness is enough although a thread's turn at a
queue or the semaphore can be taken by another, because requests and sections are
bounded in a behaviour; the kernel serves waiting processes in order, so this
is no more than it does. Nothing makes a client ask or leave, a process die or a
server start.

**Deadlock.** `flow`, `section` and `accounts` switch the check off: the system
really stops there, when the requests, sections or calls of the behaviour are
used up, when a thread waits for an answer that is lost, or when the array was
overrun. What must not stop is said by the liveness properties.
`EveryRequestAnswered` names the ways a request is left without an answer: its
message is lost with a worker or a queue, no worker is left to serve the queue,
the response queue is full of answers to a previous server's clients, or the
server ends. `ShutdownEnds` names the one way the handler hangs: a signal between
the test of `worker_running` and the call that blocks.

## 4. What the documentation says and the code does not do

| Run | Documentation | Code |
|---|---|---|
| `lost_update` | README.md:11, "Prevents the "Lost Update" problem" | UPLOAD tests the lock at `worker.c:72` and writes at `worker.c:108`; an EDIT granted in between is overwritten |
| `torn` | README.md:149, "Concurrent Disk I/O Corruption: Prevented" | `open(O_TRUNC)` at `file_manager.c:91` comes before the lock at 97; a reader gets an empty file |
| `first_uploads` | README.md:13, "only owners or admins can modify" | ownership is tested at `worker.c:86`, the entry made at `worker.c:119`; two first uploads pass each other |
| `rollback` | README.md:12, "`ROLLBACK` to any previous version" | the backup at `worker.c:512` rotates out the oldest version, which may be the target |
| `restart_backup` | README.md:12, "Automatically backs up files on every overwrite" | the table is emptied at `server.c:374`, so the first upload of a stored file skips the backup |
| `registered_twice` | README.md:16, "duplicate user checking"; `auth.c:181`, "Checks for duplicate usernames" | `auth.c:245` prints a password with its colons and `auth.c:40-63` splits the line at them: `ann`, a user with the password `p:0`, is read back with role 0, and a second sign-up of `ann` as a user is accepted |

Three more sentences have no run. `auth.c:183` says that `register_user`
"Uses flock() for thread-safe file access": the lock is taken after the search
for a duplicate and released before the array is written, so sign-ups that
overlap can register one name or one id twice. Together with colons this is
where duplicates come from: `DuplicatesNeedOverlap` says that there is no other
way within the reach of the array. `auth.c:185` says that 0 is returned on
success and -1 on an error of file I/O: a sign-up whose `fprintf` or `fflush`
fails returns 0, and the next `load_users` does not find it. README.md:14 says
that the logger is there "to persistently record every system operation":
a ROLLBACK refused because of an edit lock (`worker.c:502-509`), a SAVE of an
absent file (`worker.c:369`), LIST, VERSION, HISTORY and AUDIT leave no entry.

## 5. Proofs

`tlapm <module>.tla` for each of the eight proof modules. The only assumptions
are those on constants, named in the modules that declare them: files and users
are distinct from the null values, every user has a role, there are finitely
many workers and threads, `MaxFiles`, `MaxVersions`, `MaxUsers`, `QueueRoom` and
the number of servers are positive, contents are non-empty sequences without the
value of a hole, the crews of different servers are disjoint, the first
request id is positive and not above the last, and in `users.dat` as shipped no
id exceeds its line number. `TextAssumption` says of texts that a piece between
colons has no colon (it is its own only piece), that a role is printed as
one piece `atoi` reads back, and that the empty text has no pieces.

**The pool** (`WorkerPoolProofs`, resting on `SharedStateProofs`).

* `TypeCorrect`: `Spec => []TypeOK`. Beyond types, no worker ever follows a null
  pointer or reads or writes through a descriptor that is not open.
* `TableStaysSound`: `Spec => []TableSound`. However the workers interleave and
  the server restarts, no file has two entries and no free slot is locked.

Both follow from `Inductive`: `Spec => []IInv`, where `IInv` is their
conjunction. They need each other: the add, remove and lock operators keep the
table sound only on well-typed tables, and that a registered pointer is a slot
needs the find operator on a well-typed table. The argument has three layers.
`SharedStateProofs` shows that each operator on the table takes well-typed,
sound tables to well-typed, sound tables (`AddSound` is the one that matters: a
new entry is made only when no active slot has the name), and that each system
call keeps the disk well-typed. `WorkerPoolProofs` then shows,
for each routine and each of its steps, that the step keeps the shared state by
one of these lemmas, touches no other worker's variables, and leaves its own
worker at a control point whose demands (pointer set, descriptor open) it has
just met; `StepKeeps` states that shape once.

**The pool implements the edit lock** (the second part of `WorkerPoolProofs`):
`PoolImplementsEditLock`, `Spec => ImplementsEditLock`. The mapping takes a table
to its files, the holder of each and the time it got the lock (`FilesIn`,
`HolderIn`, `SinceIn`). A first layer of lemmas says what each operator of
`Metadata` does to these three: acquiring changes the holder of one file and
only when it is free, its own or out of time; releasing and the clearing of a
stale lock change it to nobody; adding and removing change the set of files and
take the lock with them; updating changes none. Soundness of the table, from
`IInv`, is what makes "the entry of a file" mean one entry. The second layer goes
through `process_task`: each step is at most one such operator, applied to the
worker's own file and user, hence a step of `EditLock` or a stutter.

**The history stays bounded** (`HistoryProofs`): `BackupsStayBounded`,
`~DiskMayFail => (Spec => []HistoryBounded)`, with clients that overlap as they
like. Counting alone is not inductive: that the workers between a backup and
their clean-up are as many as the backups in excess does not survive a clean-up
that another worker's backup overtakes. The invariant (`FewBackups`) speaks of
sets instead: take away from a file's backups those that are about to be removed
by *any* set of workers that have listed the directory, and what is left is
bounded by the limit, the workers still to clean up and those a crash stopped.
The theorem is about a disk whose writes succeed, and so is the run: a backup
whose write fails half way leaves its file behind without a clean-up
(`save_version` returns before it), so every failure may add one and no bound
holds.

**When requests for one file do not overlap** (`SerialProofs`), that is, under
`PerFileSerial`, for any number of workers, files and users, also with failing
writes, crashes and a second server:

* `OwnersAlone`: `Spec => OwnersOnlyModify`;
* `LockExcludes`: `Spec => EditLockExcludesWrites`;
* `EntriesOnDisk`: `Spec => []ActiveOnDisk`.

In the code each test is several steps before the write it allows, the four
cases that write make four different tests of the lock, and SAVE does not ask
for the owner at all. The invariant, `SerialInv`, says what a worker past a test
may still rely on: its pointer is the file's entry, if there is one (`KnownAt`);
the entry's owner is the user or the user is an admin (`Entitled`, from the
owner test on); nobody else holds the lock (`NotBarred`, from the lock test on:
for UPLOAD because `check_edit_lock` clears a lock whose time is up); an upload
undone is of a file that is not in the table. Three more parts carry it:
whoever holds a lock may change the file (`HoldersMayEdit`, which is why SAVE
need not ask); no two paths share an inode and a worker writes only to inodes
of its own file (`Confined`); a file in the table is on disk unless a removal
is half done (`Kept`). Each step of `process_task` leaves the table's entries
(`TableFrame`) and the files (`ProcessTaskEffect`) of all other names as they
are, which is proved without `PerFileSerial`; that no other worker has the
file in hand (`Apart`) is where the clients' waiting for each other comes in.
A second server's empty table falsifies nothing: there is no entry left to be
entitled to. The invariant was checked by TLC on the instance of `crash` with
two workers before it was proved. `first_uploads` and `lost_update` show that
without `PerFileSerial` the first two fail.

**What is in the files** (`ContentsProofs`), when moreover no write fails and the
server does not start again: under `PerFileSerial /\ ~DiskMayFail /\
MaxRestarts = 0`, for any number of workers, files, slots, versions and
contents,

* `TableAgrees`: `Spec => []TableMatchesDisk`;
* `HistoryIsBehind`: `Spec => []HistoryBehindCurrent`;
* `DownloadsWhole`: `Spec => []DownloadWhole`;
* `OverwritesAreSaved`: `Spec /\ [](FreeInodes # {}) => NothingOverwrittenUnsaved`.

These are the conditions of the run `serial`. Without the first, `torn` hands out
an empty file; a write that fails leaves a truncated file under an entry that
keeps its size; a start empties the table and leaves the files.
`OverwritesAreSaved` needs room on the disk too, which the run always has: on a full disk the backup cannot be created, `save_version`'s result is
ignored, and the live file, which needs no new inode, is emptied all the same.

Between requests a file is `Settled`: in the table exactly when it is on disk,
with the size the table says, its backups whole and numbered below its version,
or equal to it with the current contents, as a failed rollback leaves them. That
is not kept by the steps of a request, which change the disk and the table one
after the other. The invariant, `ContentsInv`, says of every control point how
far the request has come: in a copy, that the one block read is the whole source
and that the target is still empty or already equal to it (`Copying`, which also
says which inodes the descriptors name); after a store or a restore, that the
disk has the new contents and the backups none above the version (`Older`), so
that the table's next change settles the file; in a removal, what is gone
already. It rests on a file fitting one `read`, so that a copy is of one block, and
on `SerialInv` with its lemma that no step touches another file.
For the fourth theorem `SavedInv` follows the way to the overwrite: the version
directory is there when the backup is created, the copy has become the latest
version when the clean-up begins (`HasCopy`), and the clean-up's victims do not
include it, because the numbering just proved puts it above all others. Only two
steps empty a file (`EmptiedAtOpen`), and both come after that.

**Requests** (`FlowProofs`).

* `FlowTypeCorrect`, `IdsStayApart`: `Spec => []IdsTellApart`. The inductive
  invariant is `FlowTypeOK /\ AllKnown /\ LaterUnborn`: every message of this
  server less than a cycle old, wherever it is, carries the id one gets by
  counting back from `counter` as many requests as came after it (`IdOf`), so
  two such messages with one id are of one request; and the workers of later
  starts hold nothing.
* `FlowImplementsCalls`: `Spec => ImplementsCallReturn`. It needs `Separate`: the
  number of a request is in one place only, on one queue, in one worker or in
  one thread about to send it, and is not yet among `performed` while it is a
  task. With it each action is a step of `CallReturn` or a stutter, for any
  number of threads, workers, servers, ids and mishaps.
* `OnlyEndsLose`: `Spec => []NothingElseLoses`. One message per waiting thread
  is not enough where ids collide: two threads may wait for one id and one
  message carry it. The invariant is that the waiting threads can be matched,
  one to one, with messages on the way that carry their ids (`Matched`); the
  worker's steps move a message and keep its partner, and a thread that takes
  the answer another was matched with leaves its own to that one.

**The semaphore** (`SemaphoreProofs`). `LockTypeCorrect` and `SectionsExclude`:
`Spec => []ExclusiveUpToSlips`, so with no slip at most one worker is in the
table. The invariant counts, and is inductive with the type invariant: the undo
of an exit gives at most what the section had taken. `SemaphoreNeverLost`:
`Spec => []NeverLost`, so the value is never zero with nobody left to give it
back, from `Balanced`: the value, and one for each worker whose undo count is one
(`Givers`), less all that the exits of the others would take away, is at least
one. What they would take away is counted as the set `Owed` of pairs <<worker,
unit>>: a cardinality takes the place of a sum over workers, about which the
provers could say nothing.

**Accounts** (`RegistrationProofs`). All four properties of `accounts`, from one
invariant, `RInv`. It says how far a call that is alone has come (`Tracks`):
while it reads, the array up to `user_count` has the accounts of the lines read
so far, in their order and without those that do not count (`Mirrored`: entry
number k is the k-th line that counts), whatever earlier calls left further on;
while it searches, the array is all of the file that counts and fits and nothing
it has passed matches; while it looks for an id, all it has passed are smaller.
`OthersIdle` says that who is alone is: a call that begins takes that away from
all others, so their interference need not be considered; `LostTogether` that an
overrun had an overlap. `CleanIsNew` keeps, for each line such a call wrote,
that no account before it had its id, or was read with the name and role that
were *asked for*; that these are also the ones the new line is read with needs
a name and password without colons (`WrittenIsRead`), and `registered_twice`
shows that it does. Nothing is proved of lines being there: a line may be lost
at any sign-up, and `AloneIsRight` speaks of the file as it is.

Model-checked and not proved: the liveness properties `EveryRequestAnswered`,
`ShutdownEnds` and `WaitsEnd`. Liveness under fairness and `ENABLED` are beyond
this prover; so is what needs induction over data (sums over sets of workers,
contents computed by recursion), which no theorem here needs. The sentences of
section 4 are refuted by TLC and there is nothing of them to prove. Every
invariant and every other action property a passing run checks is a theorem,
under the hypotheses given with it.

## 6. Not modelled

* `client.c`: terminal and socket I/O. It sends one request and waits for the
  answer, which is what a client thread of `RequestFlow` assumes.
* A logger thread that ends before its server because its log file cannot be
  opened (`server.c`, audit logger): only a logger that ends with its server.
* A child between `fork` and the installation of its own signal handler, which
  would run the server's handler (a hazard in the list).
* Failures of `shmget`, `fork`, `malloc`, `msgget` and `pthread_create`; text of
  listings and messages; `HELP`.
* A `users.dat` edited by hand: comments, empty lines, lines too long for
  `fgets`, ids that are not numbers; a line written in part.
* The results of sign-ins and sign-ups that overlap: the code promises nothing.

## 7. What could come next

1. A step of `WorkerPool` that dies: one worker's death with a half-written file.
2. A ghost of what clients sent, for an end-to-end statement of the history.
3. What is left of `ContentsInv` when writes fail: which files and backups are
   then still whole.
