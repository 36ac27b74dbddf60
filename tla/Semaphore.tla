------------------------------- MODULE Semaphore -------------------------------
(***************************************************************************)
(* The System V semaphore the workers take around every access to the      *)
(* table: its value, what the kernel will undo for each process (SEM_UNDO) *)
(* and the ways into the critical section that do not take it: sem_lock    *)
(* returns nothing, so a wait that a signal interrupted and a semaphore    *)
(* that was removed are taken for success; and a server that starts sets   *)
(* the value to 1, whoever is inside.                                      *)
(***************************************************************************)
EXTENDS Integers, FiniteSets

CONSTANTS
    Worker,         \* worker processes, of all the servers of a behaviour
    Servers,        \* bound: how many times the server is started
    Crew,           \* the workers each of them forks
    MaxSections,    \* bound: critical sections in a behaviour
    MaxSignals,     \* bound: signals a worker gets (Ctrl+C sends two)
    MaxMishaps      \* bound: workers or servers killed, servers started twice

ASSUME SemaphoreAssumption ==
    /\ IsFiniteSet(Worker)
    /\ Servers \in Nat \ {0}
    /\ Crew \in [1 .. Servers -> SUBSET Worker]
    /\ \A g, h \in 1 .. Servers : g # h => Crew[g] \cap Crew[h] = {}
    /\ MaxSections \in Nat /\ MaxSignals \in Nat /\ MaxMishaps \in Nat

VARIABLES
    server,     \* "up", "stopping" or "down"
    start,      \* which start of the server this is
    second,     \* a second server was started by mistake and is about to leave
    exists,     \* whether there is a semaphore under SEM_KEY
    sem,        \* its value
    adj,        \* what the exit of each process will add to the value
    cut,        \* processes whose semid is that of a semaphore removed since
    at,         \* "unborn", "out", "lock" (in sem_lock), "in" or "gone"
    told,       \* signals the worker has got
    sections,   \* critical sections still to come
    mishaps,    \* mishaps still to come
    slips       \* entries without the semaphore so far (history)

serverVars == <<server, start, second>>
vars == <<serverVars, exists, sem, adj, cut, at, told, sections, mishaps, slips>>

Alive(w) == at[w] \in {"out", "lock", "in"}
Inside   == {w \in Worker : at[w] = "in"}

-----------------------------------------------------------------------------
(* sync.c                                                                  *)

\* The flag SEM_UNDO: each semop notes its opposite; two mutants forget it in
\* one of the two calls.
UndoInLockOnly(op)   == IF op = -1 THEN 1 ELSE 0
UndoInUnlockOnly(op) == IF op = 1 THEN -1 ELSE 0
Undo(op)             == 0 - op

Semop(w, op) ==
    /\ sem' = sem + op
    /\ adj' = [adj EXCEPT ![w] = @ + Undo(op)]

\* A function of metadata.c is called.
BeginSection(w) ==
    /\ at[w] = "out" /\ sections > 0
    /\ at' = [at EXCEPT ![w] = "lock"]
    /\ sections' = sections - 1
    /\ UNCHANGED <<serverVars, exists, sem, adj, cut, told, mishaps, slips>>

\* What semop(-1) waits for.
Free == sem > 0

\* sem_lock, which also returns when semop fails: the semaphore is gone.
SemLock(w) ==
    /\ at[w] = "lock"
    /\ at' = [at EXCEPT ![w] = "in"]
    /\ \/ /\ w \notin cut /\ Free
          /\ Semop(w, -1)
          /\ UNCHANGED slips
       \/ /\ w \in cut
          /\ slips' = slips + 1
          /\ UNCHANGED <<sem, adj>>
    /\ UNCHANGED <<serverVars, exists, cut, told, sections, mishaps>>

\* sem_unlock, on whichever way out of the section.
SemUnlock(w) ==
    /\ at[w] = "in"
    /\ at' = [at EXCEPT ![w] = "out"]
    /\ IF w \in cut THEN UNCHANGED <<sem, adj>> ELSE Semop(w, 1)
    /\ UNCHANGED <<serverVars, exists, cut, told, sections, mishaps, slips>>

\* worker_signal_handler.  semop fails with EINTR in a worker that waits for
\* the semaphore, and sem_lock returns.
Signal(w) ==
    /\ Alive(w) /\ told[w] < MaxSignals
    /\ told' = [told EXCEPT ![w] = @ + 1]
    /\ \/ UNCHANGED <<at, slips>>
       \/ /\ at[w] = "lock" /\ w \notin cut /\ ~ Free
          /\ at' = [at EXCEPT ![w] = "in"]
          /\ slips' = slips + 1
    /\ UNCHANGED <<serverVars, exists, sem, adj, cut, sections, mishaps>>

\* The exit of a process: the kernel adds what there is to undo, and never
\* takes the value below 0.
ExitOf(w) ==
    /\ at' = [at EXCEPT ![w] = "gone"]
    /\ sem' = IF sem + adj[w] < 0 THEN 0 ELSE sem + adj[w]
    /\ adj' = [adj EXCEPT ![w] = 0]

\* The end of worker_main.
Exit(w) ==
    /\ at[w] = "out" /\ told[w] > 0
    /\ ExitOf(w)
    /\ UNCHANGED <<serverVars, exists, cut, told, sections, mishaps, slips>>

Mishap == mishaps > 0 /\ mishaps' = mishaps - 1

\* A worker is killed, also inside the section.
Die(w) ==
    /\ Alive(w) /\ Mishap
    /\ ExitOf(w)
    /\ UNCHANGED <<serverVars, exists, cut, told, sections, slips>>

-----------------------------------------------------------------------------
(* server.c                                                                *)

\* create_semaphore: SETVAL sets the value to 1 and clears what the kernel
\* would undo.  Whoever is inside is there without the semaphore from now on.
CreateSemaphore ==
    /\ exists' = TRUE
    /\ sem' = 1
    /\ adj' = [w \in Worker |-> 0]
    /\ slips' = slips + Cardinality(Inside)

\* cleanup_semaphore: the waits of all processes fail (EIDRM), and so does
\* every later call (EINVAL).
CleanupSemaphore ==
    /\ exists' = FALSE
    /\ sem' = 0
    /\ adj' = [w \in Worker |-> 0]
    /\ cut' = cut \cup {w \in Worker : Alive(w)}

\* main: the workers are forked after the semaphore was created.
StartServer ==
    /\ server = "down" /\ start < Servers
    /\ server' = "up" /\ start' = start + 1
    /\ CreateSemaphore
    /\ at' = [w \in Worker |-> IF w \in Crew[start + 1] THEN "out" ELSE at[w]]
    /\ UNCHANGED <<second, cut, told, sections, mishaps>>

\* server_signal_handler begins, and ends when the workers have.
StopServer ==
    /\ server = "up"
    /\ server' = "stopping"
    /\ UNCHANGED <<start, second, exists, sem, adj, cut, at, told, sections, mishaps, slips>>

CleanUp ==
    /\ server = "stopping"
    /\ \A w \in Crew[start] : at[w] = "gone"
    /\ server' = "down"
    /\ CleanupSemaphore
    /\ UNCHANGED <<start, second, at, told, sections, mishaps, slips>>

\* The server's process is killed; its workers go on.
Crash ==
    /\ server # "down" /\ Mishap
    /\ server' = "down"
    /\ UNCHANGED <<start, second, exists, sem, adj, cut, at, told, sections, slips>>

\* A second server is started by mistake: it initializes the semaphore that is
\* there, finds the port taken, and its handler removes the semaphore.
StartTwice ==
    /\ server = "up" /\ ~ second /\ Mishap
    /\ second' = TRUE
    /\ CreateSemaphore
    /\ UNCHANGED <<server, start, cut, at, told, sections>>

LeaveTwice ==
    /\ second
    /\ second' = FALSE
    /\ CleanupSemaphore
    /\ UNCHANGED <<server, start, at, told, sections, mishaps, slips>>

-----------------------------------------------------------------------------
Init ==
    /\ server = "up" /\ start = 1 /\ second = FALSE
    /\ exists = TRUE /\ sem = 1 /\ adj = [w \in Worker |-> 0]
    /\ cut = {} /\ slips = 0
    /\ at = [w \in Worker |-> IF w \in Crew[1] THEN "out" ELSE "unborn"]
    /\ told = [w \in Worker |-> 0]
    /\ sections = MaxSections /\ mishaps = MaxMishaps

Next ==
    \/ \E w \in Worker : \/ BeginSection(w) \/ SemLock(w) \/ SemUnlock(w)
                         \/ Signal(w) \/ Exit(w) \/ Die(w)
    \/ StartServer \/ StopServer \/ CleanUp \/ Crash \/ StartTwice \/ LeaveTwice

\* A worker that can take the semaphore does, and nothing a section does blocks.
\* Since sections are bounded, nobody is overtaken for ever; the kernel serves
\* those who wait in the order they came.
Fairness == \A w \in Worker : WF_vars(SemLock(w)) /\ WF_vars(SemUnlock(w))

Spec == Init /\ [][Next]_vars /\ Fairness

-----------------------------------------------------------------------------
(* Properties.                                                             *)

\* The type invariant.  The exit of a process raises the value at most while
\* it is inside, and of the semaphore there is.
LockTypeOK ==
    /\ server \in {"up", "stopping", "down"} /\ start \in 1 .. Servers
    /\ second \in BOOLEAN /\ exists \in BOOLEAN
    /\ sem \in Nat
    /\ adj \in [Worker -> Int]
    /\ cut \in SUBSET Worker
    /\ at \in [Worker -> {"unborn", "out", "lock", "in", "gone"}]
    /\ told \in [Worker -> 0 .. MaxSignals]
    /\ sections \in 0 .. MaxSections /\ mishaps \in 0 .. MaxMishaps
    /\ slips \in Nat
    /\ \A w \in Worker : adj[w] <= IF at[w] = "in" /\ w \notin cut THEN 1 ELSE 0

\* At most one worker is in a critical section, but for one more after each
\* wait that was interrupted, each call on a semaphore that was removed, and
\* each worker a start of a server found inside; killing workers, wherever
\* they are, admits nobody.
ExclusiveUpToSlips == sem + Cardinality(Inside) <= 1 + slips

\* The semaphore never gets lost: nobody inside, and it can be taken, whoever
\* was killed or interrupted and however often the server was started.
NeverLost == exists /\ sem = 0 => Inside # {}

\* Every wait for the semaphore comes to an end.
WaitsEnd == \A w \in Worker : at[w] = "lock" ~> at[w] # "lock"
=============================================================================
