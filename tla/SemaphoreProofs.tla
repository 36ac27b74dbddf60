---------------------------- MODULE SemaphoreProofs ----------------------------
(***************************************************************************)
(* For any number of workers, servers, sections, signals and kills: the    *)
(* critical section has at most one worker inside, but for one more after  *)
(* each entry that did not take the semaphore.                             *)
(*                                                                         *)
(* The bound is inductive together with one fact about SEM_UNDO: a process *)
(* that is not inside has nothing to give back when it ends.               *)
(*                                                                         *)
(* And the semaphore is never lost: its value and all there is to undo add *)
(* up to one at least.  The sum is stated with two sets, the processes     *)
(* that give one back at their exit, and one pair for each unit another    *)
(* process takes away at its own.                                          *)
(***************************************************************************)
EXTENDS Semaphore, FiniteSetTheorems, TLAPS

IInv == LockTypeOK /\ ExclusiveUpToSlips

\* There are finitely many workers inside, and how many is a number.
LEMMA InsideFinite == IsFiniteSet(Inside) /\ Cardinality(Inside) \in Nat
BY SemaphoreAssumption, FS_Subset, FS_CardinalityType DEF Inside

\* A worker enters: one more is inside.
LEMMA Enters ==
    ASSUME LockTypeOK, NEW w \in Worker, at[w] = "lock", at' = [at EXCEPT ![w] = "in"]
    PROVE  Cardinality(Inside') = Cardinality(Inside) + 1
<1>1. Inside' = Inside \cup {w} /\ w \notin Inside
    BY DEF LockTypeOK, Inside
<1> QED
    BY <1>1, InsideFinite, FS_AddElement

\* A worker leaves: one fewer is inside.
LEMMA Leaves ==
    ASSUME LockTypeOK, NEW w \in Worker, NEW to \in {"out", "gone"},
           at[w] = "in", at' = [at EXCEPT ![w] = to]
    PROVE  Cardinality(Inside') = Cardinality(Inside) - 1
<1>1. Inside' = Inside \ {w} /\ w \in Inside
    BY DEF LockTypeOK, Inside
<1> QED
    BY <1>1, InsideFinite, FS_RemoveElement

\* Steps between two places outside change nobody's being inside.
LEMMA StaysOut ==
    ASSUME LockTypeOK, NEW w \in Worker, NEW to \in {"out", "lock", "gone"},
           at[w] # "in", at' = [at EXCEPT ![w] = to]
    PROVE  Inside' = Inside
BY DEF LockTypeOK, Inside

\* sem_lock: the value goes down when the worker enters, or the entry is
\* counted among the slips.
LEMMA SemLockKeeps ==
    ASSUME IInv, NEW w \in Worker, SemLock(w)
    PROVE  IInv'
<1>1. LockTypeOK'
    BY DEF IInv, LockTypeOK, SemLock, Semop, Undo, Free, serverVars
<1>2. Cardinality(Inside') = Cardinality(Inside) + 1
    BY Enters DEF IInv, SemLock
<1>3. \/ sem' = sem - 1 /\ slips' = slips
      \/ sem' = sem /\ slips' = slips + 1
    BY DEF SemLock, Semop
<1>4. ExclusiveUpToSlips'
    BY <1>2, <1>3, InsideFinite DEF IInv, LockTypeOK, ExclusiveUpToSlips
<1> QED
    BY <1>1, <1>4 DEF IInv

\* sem_unlock: the value goes up by one when one leaves.
LEMMA SemUnlockKeeps ==
    ASSUME IInv, NEW w \in Worker, SemUnlock(w)
    PROVE  IInv'
<1>1. LockTypeOK'
    BY DEF IInv, LockTypeOK, SemUnlock, Semop, Undo, serverVars
<1>2. Cardinality(Inside') = Cardinality(Inside) - 1
    BY Leaves DEF IInv, SemUnlock
<1>3. slips' = slips /\ sem' \in {sem, sem + 1}
    BY DEF SemUnlock, Semop
<1>4. ExclusiveUpToSlips'
    BY <1>2, <1>3, InsideFinite DEF IInv, LockTypeOK, ExclusiveUpToSlips
<1> QED
    BY <1>1, <1>4 DEF IInv

\* A wait that a signal interrupts is counted among the slips.
LEMMA SignalKeeps ==
    ASSUME IInv, NEW w \in Worker, Signal(w)
    PROVE  IInv'
<1>1. LockTypeOK'
    <2>1. told' \in [Worker -> 0 .. MaxSignals]
        BY SemaphoreAssumption DEF IInv, LockTypeOK, Signal
    <2>2. /\ at' \in [Worker -> {"unborn", "out", "lock", "in", "gone"}]
          /\ \A v \in Worker : (adj[v] <= IF at[v] = "in" /\ v \notin cut THEN 1 ELSE 0)'
        BY DEF IInv, LockTypeOK, Signal
    <2> QED
        BY <2>1, <2>2 DEF IInv, LockTypeOK, Signal, serverVars
<1>2. CASE UNCHANGED <<at, slips>>
    <2>1. Inside' = Inside
        BY <1>2 DEF Inside
    <2> QED
        BY <1>1, <1>2, <2>1 DEF IInv, ExclusiveUpToSlips, Signal
<1>3. CASE at[w] = "lock" /\ at' = [at EXCEPT ![w] = "in"] /\ slips' = slips + 1
    <2>1. Cardinality(Inside') = Cardinality(Inside) + 1
        BY <1>3, Enters DEF IInv
    <2> QED
        BY <1>1, <1>3, <2>1, InsideFinite DEF IInv, LockTypeOK, ExclusiveUpToSlips, Signal
<1> QED
    BY <1>2, <1>3 DEF Signal

\* The exit of a process gives back at most what it took when it entered.
LEMMA ExitKeeps ==
    ASSUME IInv, NEW w \in Worker, ExitOf(w), Alive(w), mishaps' \in 0 .. MaxMishaps,
           UNCHANGED <<serverVars, exists, cut, told, sections, slips>>
    PROVE  IInv'
<1>1. sem \in Nat /\ adj[w] \in Int /\ slips \in Nat
    BY DEF IInv, LockTypeOK
<1>2. sem' \in Nat
    BY <1>1 DEF ExitOf
<1>3. LockTypeOK'
    BY <1>2 DEF IInv, LockTypeOK, ExitOf, serverVars
<1>4. CASE at[w] = "in"
    <2>1. Cardinality(Inside') = Cardinality(Inside) - 1
        BY <1>4, Leaves DEF IInv, ExitOf
    <2>2. adj[w] <= 1
        BY <1>4 DEF IInv, LockTypeOK
    <2>3. Cardinality(Inside) >= 1
        BY <2>1, InsideFinite, <1>4, FS_EmptySet DEF Inside
    <2>4. ExclusiveUpToSlips'
        BY <1>1, <2>1, <2>2, <2>3, InsideFinite DEF IInv, ExclusiveUpToSlips, ExitOf
    <2> QED
        BY <1>3, <2>4 DEF IInv
<1>5. CASE at[w] # "in"
    <2>1. Inside' = Inside
        BY <1>5, StaysOut DEF IInv, ExitOf
    <2>2. adj[w] <= 0
        BY <1>5 DEF IInv, LockTypeOK
    <2>3. sem' <= sem \/ sem' = 0
        BY <1>1, <2>2 DEF ExitOf
    <2>4. ExclusiveUpToSlips'
        BY <1>1, <1>2, <2>1, <2>3, InsideFinite DEF IInv, ExclusiveUpToSlips
    <2> QED
        BY <1>3, <2>4 DEF IInv
<1> QED
    BY <1>4, <1>5

\* create_semaphore: whoever is inside has slipped in, as seen from now.
LEMMA CreateKeeps ==
    ASSUME IInv, CreateSemaphore, Cardinality(Inside') <= Cardinality(Inside),
           Cardinality(Inside') \in Nat
    PROVE  sem' \in Nat /\ slips' \in Nat /\ ExclusiveUpToSlips'
BY InsideFinite DEF IInv, LockTypeOK, ExclusiveUpToSlips, CreateSemaphore

\* A start of the server.
LEMMA StartServerKeeps ==
    ASSUME IInv, StartServer
    PROVE  IInv'
<1>1. start' \in 1 .. Servers
    BY SemaphoreAssumption DEF IInv, LockTypeOK, StartServer
<1>2. at' \in [Worker -> {"unborn", "out", "lock", "in", "gone"}]
    BY DEF IInv, LockTypeOK, StartServer
<1>3. Inside' \in SUBSET Inside
    BY DEF IInv, LockTypeOK, StartServer, Inside
<1>4. Cardinality(Inside') <= Cardinality(Inside) /\ Cardinality(Inside') \in Nat
    BY <1>3, InsideFinite, FS_Subset, FS_CardinalityType
<1>5. sem' \in Nat /\ slips' \in Nat /\ ExclusiveUpToSlips'
    BY <1>4, CreateKeeps DEF StartServer
<1>6. LockTypeOK'
    BY <1>1, <1>2, <1>5 DEF IInv, LockTypeOK, StartServer, CreateSemaphore
<1> QED
    BY <1>5, <1>6 DEF IInv

\* A start by mistake, with the workers of the first server at work.
LEMMA StartTwiceKeeps ==
    ASSUME IInv, StartTwice
    PROVE  IInv'
<1>1. Inside' = Inside /\ mishaps' \in 0 .. MaxMishaps
    BY SemaphoreAssumption DEF IInv, LockTypeOK, StartTwice, Mishap, Inside
<1>2. sem' \in Nat /\ slips' \in Nat /\ ExclusiveUpToSlips'
    BY <1>1, InsideFinite, CreateKeeps DEF StartTwice
<1>3. LockTypeOK'
    BY <1>1, <1>2 DEF IInv, LockTypeOK, StartTwice, CreateSemaphore
<1> QED
    BY <1>2, <1>3 DEF IInv

\* The semaphore is removed by the handler of either server.
LEMMA CleanupKeeps ==
    ASSUME IInv, CleanupSemaphore, server' \in {"up", "stopping", "down"}, second' \in BOOLEAN,
           UNCHANGED <<start, at, told, sections, mishaps, slips>>
    PROVE  IInv'
<1>1. Inside' = Inside
    BY DEF Inside
<1>2. LockTypeOK'
    <2>1. cut' \in SUBSET Worker /\ sem' = 0 /\ exists' \in BOOLEAN
        BY DEF IInv, LockTypeOK, CleanupSemaphore
    <2>2. /\ adj' \in [Worker -> Int]
          /\ \A w \in Worker : (adj[w] <= IF at[w] = "in" /\ w \notin cut THEN 1 ELSE 0)'
        BY DEF CleanupSemaphore
    <2> QED
        BY <2>1, <2>2 DEF IInv, LockTypeOK
<1>3. ExclusiveUpToSlips'
    BY <1>1, InsideFinite DEF IInv, LockTypeOK, ExclusiveUpToSlips, CleanupSemaphore
<1> QED
    BY <1>2, <1>3 DEF IInv

\* The invariant holds at the first start.
LEMMA InitIInv == Init => IInv
<1> SUFFICES ASSUME Init PROVE IInv
    OBVIOUS
<1>1. LockTypeOK
    <2>1. 1 \in 1 .. Servers /\ MaxSections \in 0 .. MaxSections
          /\ MaxMishaps \in 0 .. MaxMishaps /\ 0 \in 0 .. MaxSignals
        BY SemaphoreAssumption
    <2>2. /\ adj \in [Worker -> Int] /\ told \in [Worker -> 0 .. MaxSignals]
          /\ at \in [Worker -> {"unborn", "out", "lock", "in", "gone"}]
          /\ \A w \in Worker : adj[w] <= IF at[w] = "in" /\ w \notin cut THEN 1 ELSE 0
        BY <2>1 DEF Init
    <2> QED
        BY <2>1, <2>2 DEF Init, LockTypeOK
<1>2. Inside = {}
    BY DEF Init, Inside
<1>3. ExclusiveUpToSlips
    BY <1>2, FS_EmptySet DEF Init, ExclusiveUpToSlips
<1> QED
    BY <1>1, <1>3 DEF IInv

\* Every step keeps it.
LEMMA StepKeeps == IInv /\ [Next]_vars => IInv'
<1> SUFFICES ASSUME IInv, [Next]_vars PROVE IInv'
    OBVIOUS
<1>1. ASSUME NEW w \in Worker, BeginSection(w)
      PROVE  IInv'
    <2>1. LockTypeOK'
        BY <1>1, SemaphoreAssumption DEF IInv, LockTypeOK, BeginSection, serverVars
    <2>2. Inside' = Inside
        BY <1>1, StaysOut DEF IInv, BeginSection
    <2> QED
        BY <1>1, <2>1, <2>2 DEF IInv, ExclusiveUpToSlips, BeginSection
<1>2. ASSUME NEW w \in Worker, Exit(w)
      PROVE  IInv'
    BY <1>2, ExitKeeps DEF Exit, Alive, IInv, LockTypeOK
<1>3. ASSUME NEW w \in Worker, Die(w)
      PROVE  IInv'
    <2>1. mishaps' \in 0 .. MaxMishaps
        BY <1>3, SemaphoreAssumption DEF Die, Mishap, IInv, LockTypeOK
    <2> QED
        BY <1>3, <2>1, ExitKeeps DEF Die
<1>4. CASE StopServer \/ Crash
    <2>1. Inside' = Inside /\ UNCHANGED <<sem, slips>>
        BY <1>4 DEF StopServer, Crash, Inside
    <2>2. LockTypeOK'
        BY <1>4, SemaphoreAssumption DEF IInv, LockTypeOK, StopServer, Crash, Mishap
    <2> QED
        BY <2>1, <2>2 DEF IInv, ExclusiveUpToSlips
<1>5. CASE CleanUp \/ LeaveTwice
    BY <1>5, CleanupKeeps DEF CleanUp, LeaveTwice, IInv, LockTypeOK
<1>6. CASE UNCHANGED vars
    BY <1>6 DEF vars, serverVars, IInv, LockTypeOK, ExclusiveUpToSlips, Inside
<1> QED
    BY <1>1, <1>2, <1>3, <1>4, <1>5, <1>6, SemLockKeeps, SemUnlockKeeps, SignalKeeps,
       StartServerKeeps, StartTwiceKeeps DEF Next

\* IInv is invariant.
LEMMA IInvHolds == Spec => []IInv
BY InitIInv, StepKeeps, PTL DEF Spec

\* SEM_UNDO is balanced: nothing is given back at an exit that was not taken
\* by the process and is not given back already.
THEOREM LockTypeCorrect == Spec => []LockTypeOK
<1>1. IInv => LockTypeOK
    BY DEF IInv
<1> QED
    BY <1>1, IInvHolds, PTL

\* The critical sections of metadata.c exclude each other, but for one more
\* worker after each entry that did not take the semaphore; a worker killed
\* inside, at whatever point, lets in one other and no more.
THEOREM SectionsExclude == Spec => []ExclusiveUpToSlips
<1>1. IInv => ExclusiveUpToSlips
    BY DEF IInv
<1> QED
    BY <1>1, IInvHolds, PTL
-----------------------------------------------------------------------------
(* The semaphore is never lost.                                            *)

\* The processes whose exit gives back the one unit they took.
Givers == {w \in Worker : adj[w] = 1}

\* What exits take away: process w one unit for each of the pairs <<w, k>>.
Owed == UNION {{w} \X (1 .. 0 - adj[w]) : w \in Worker}

\* The value and all that exits will add to it are one together at least.
Balanced ==
    /\ IsFiniteSet(Owed)
    /\ exists => sem + Cardinality(Givers) - Cardinality(Owed) >= 1

\* The pairs one by one.
LEMMA OwedPairs ==
    \A w, k : <<w, k>> \in Owed <=> w \in Worker /\ k \in 1 .. 0 - adj[w]
BY DEF Owed

LEMMA OwedElements ==
    \A p \in Owed : p = <<p[1], p[2]>>
BY DEF Owed

\* The same two facts of the next state.
LEMMA OwedPairsNext ==
    \A w, k : <<w, k>> \in Owed' <=> w \in Worker /\ k \in 1 .. 0 - adj'[w]
BY DEF Owed

LEMMA OwedElementsNext ==
    \A p \in Owed' : p = <<p[1], p[2]>>
BY DEF Owed

\* There are finitely many givers, now and next.
LEMMA GiversFinite ==
    /\ IsFiniteSet(Givers) /\ Cardinality(Givers) \in Nat
    /\ IsFiniteSet(Givers') /\ Cardinality(Givers') \in Nat
<1>1. \A S \in SUBSET Worker : IsFiniteSet(S) /\ Cardinality(S) \in Nat
    BY SemaphoreAssumption, FS_Subset, FS_CardinalityType
<1>2. Givers \in SUBSET Worker /\ Givers' \in SUBSET Worker
    BY DEF Givers
<1> QED
    BY <1>1, <1>2

\* An interval from 1 has as many elements as its end says.
LEMMA UpTo ==
    ASSUME NEW n \in Nat
    PROVE  IsFiniteSet(1 .. n) /\ Cardinality(1 .. n) = n
BY FS_Interval

\* A worker takes one unit: it owes one fewer, or is a giver from now on.
LEMMA TakesOne ==
    ASSUME LockTypeOK, IsFiniteSet(Owed), NEW w \in Worker, adj[w] <= 0,
           adj' = [adj EXCEPT ![w] = adj[w] + 1]
    PROVE  /\ IsFiniteSet(Owed')
           /\ Cardinality(Givers') - Cardinality(Owed')
                = Cardinality(Givers) - Cardinality(Owed) + 1
<1>1. /\ adj \in [Worker -> Int] /\ adj[w] \in Int /\ adj'[w] = adj[w] + 1
      /\ \A v \in Worker : v # w => adj'[v] = adj[v]
    BY DEF LockTypeOK
<1>2. Cardinality(Owed) \in Nat
    BY FS_CardinalityType
<1>3. CASE adj[w] = 0
    <2>1. Givers' = Givers \cup {w} /\ w \notin Givers
        BY <1>1, <1>3 DEF Givers
    <2>2. \A v \in Worker : 1 .. 0 - adj'[v] = 1 .. 0 - adj[v]
        BY <1>1, <1>3
    <2>3. Owed' = Owed
        BY <2>2 DEF Owed
    <2>4. Cardinality(Givers') = Cardinality(Givers) + 1
        BY <2>1, GiversFinite, FS_AddElement
    <2> QED
        BY <1>2, <2>3, <2>4, GiversFinite
<1>4. CASE adj[w] < 0
    <2> DEFINE p == <<w, 0 - adj[w]>>
    <2>1. Givers' = Givers
        BY <1>1, <1>4 DEF Givers
    <2>2. p \in Owed
        BY <1>1, <1>4, OwedPairs
    <2>3. \A v, k : <<v, k>> \in Owed' <=> <<v, k>> \in Owed /\ <<v, k>> # p
        <3> SUFFICES ASSUME NEW v, NEW k
                     PROVE  <<v, k>> \in Owed' <=> <<v, k>> \in Owed /\ <<v, k>> # p
            OBVIOUS
        <3>1. CASE v # w
            BY <1>1, <3>1, OwedPairs, OwedPairsNext
        <3>2. CASE v = w
            <4>1. k \in 1 .. 0 - adj'[w] <=> k \in 1 .. 0 - adj[w] /\ k # 0 - adj[w]
                BY <1>1, <1>4
            <4> QED
                BY <3>2, <4>1, OwedPairs, OwedPairsNext
        <3> QED
            BY <3>1, <3>2
    <2>4. Owed' = Owed \ {p}
        BY <2>3, OwedElements, OwedElementsNext
    <2>5. IsFiniteSet(Owed') /\ Cardinality(Owed') = Cardinality(Owed) - 1
        BY <2>2, <2>4, FS_RemoveElement
    <2> QED
        BY <1>2, <2>1, <2>5, GiversFinite
<1> QED
    BY <1>1, <1>3, <1>4

\* A worker gives one unit: it is no giver any more, or owes one more.
LEMMA GivesOne ==
    ASSUME LockTypeOK, IsFiniteSet(Owed), NEW w \in Worker, adj[w] <= 1,
           adj' = [adj EXCEPT ![w] = adj[w] - 1]
    PROVE  /\ IsFiniteSet(Owed')
           /\ Cardinality(Givers') - Cardinality(Owed')
                = Cardinality(Givers) - Cardinality(Owed) - 1
<1>1. /\ adj \in [Worker -> Int] /\ adj[w] \in Int /\ adj'[w] = adj[w] - 1
      /\ \A v \in Worker : v # w => adj'[v] = adj[v]
    BY DEF LockTypeOK
<1>2. Cardinality(Owed) \in Nat
    BY FS_CardinalityType
<1>3. CASE adj[w] = 1
    <2>1. Givers' = Givers \ {w} /\ w \in Givers
        BY <1>1, <1>3 DEF Givers
    <2>2. \A v \in Worker : 1 .. 0 - adj'[v] = 1 .. 0 - adj[v]
        BY <1>1, <1>3
    <2>3. Owed' = Owed
        BY <2>2 DEF Owed
    <2>4. Cardinality(Givers') = Cardinality(Givers) - 1
        BY <2>1, GiversFinite, FS_RemoveElement
    <2> QED
        BY <1>2, <2>3, <2>4, GiversFinite
<1>4. CASE adj[w] <= 0
    <2> DEFINE p == <<w, 1 - adj[w]>>
    <2>1. Givers' = Givers
        BY <1>1, <1>4 DEF Givers
    <2>2. p \notin Owed
        BY <1>1, <1>4, OwedPairs
    <2>3. \A v, k : <<v, k>> \in Owed' <=> <<v, k>> \in Owed \/ <<v, k>> = p
        <3> SUFFICES ASSUME NEW v, NEW k
                     PROVE  <<v, k>> \in Owed' <=> <<v, k>> \in Owed \/ <<v, k>> = p
            OBVIOUS
        <3>1. CASE v # w
            BY <1>1, <3>1, OwedPairs, OwedPairsNext
        <3>2. CASE v = w
            <4>1. k \in 1 .. 0 - adj'[w] <=> k \in 1 .. 0 - adj[w] \/ k = 1 - adj[w]
                BY <1>1, <1>4
            <4> QED
                BY <3>2, <4>1, OwedPairs, OwedPairsNext
        <3> QED
            BY <3>1, <3>2
    <2>4. Owed' = Owed \cup {p}
        BY <2>3, OwedElements, OwedElementsNext
    <2>5. IsFiniteSet(Owed') /\ Cardinality(Owed') = Cardinality(Owed) + 1
        BY <2>2, <2>4, FS_AddElement
    <2> QED
        BY <1>2, <2>1, <2>5, GiversFinite
<1> QED
    BY <1>1, <1>3, <1>4

\* An exit settles what the process owes: all of its pairs, as many as it takes
\* away from the value.
LEMMA Settles ==
    ASSUME LockTypeOK, IsFiniteSet(Owed), NEW w \in Worker, adj[w] <= 0,
           adj' = [adj EXCEPT ![w] = 0]
    PROVE  /\ IsFiniteSet(Owed') /\ Givers' = Givers
           /\ Cardinality(Owed') = Cardinality(Owed) + adj[w]
<1> DEFINE n == 0 - adj[w]
           own == {w} \X (1 .. n)
           f == [k \in 1 .. n |-> <<w, k>>]
<1>1. /\ adj \in [Worker -> Int] /\ adj[w] \in Int /\ n \in Nat /\ adj'[w] = 0
      /\ \A v \in Worker : v # w => adj'[v] = adj[v]
    BY DEF LockTypeOK
<1>2. Givers' = Givers
    BY <1>1 DEF Givers
<1>3. own \subseteq Owed
    BY DEF Owed
<1>4. IsFiniteSet(own) /\ Cardinality(own) = n
    <2>1. IsFiniteSet(1 .. n) /\ Cardinality(1 .. n) = n
        BY <1>1, UpTo
    <2>2. f \in Bijection(1 .. n, own)
        BY DEF Bijection, Injection, Surjection, IsInjective
    <2>3. ExistsBijection(1 .. n, own)
        BY <2>2 DEF ExistsBijection
    <2> HIDE DEF own, n
    <2> QED
        BY <2>1, <2>3, FS_Bijection
<1>5. \A v, k : <<v, k>> \in Owed' <=> <<v, k>> \in Owed /\ v # w
    <2> SUFFICES ASSUME NEW v, NEW k
                 PROVE  <<v, k>> \in Owed' <=> <<v, k>> \in Owed /\ v # w
        OBVIOUS
    <2>1. CASE v # w
        BY <1>1, <2>1, OwedPairs, OwedPairsNext
    <2>2. CASE v = w
        <3>1. k \notin 1 .. 0 - adj'[w]
            BY <1>1
        <3> QED
            BY <2>2, <3>1, OwedPairsNext
    <2> QED
        BY <2>1, <2>2
<1>6. Owed' = Owed \ own
    <2>1. \A p \in Owed : p \in own <=> p[1] = w
        BY OwedElements, OwedPairs
    <2> QED
        BY <1>5, <2>1, OwedElements, OwedElementsNext
<1>7. /\ IsFiniteSet(Owed') /\ Cardinality(Owed) \in Nat
      /\ Cardinality(Owed') = Cardinality(Owed) - Cardinality(Owed \cap own)
    BY <1>6, FS_Difference, FS_CardinalityType
<1>8. Owed \cap own = own
    BY <1>3
<1>9. Cardinality(Owed') = Cardinality(Owed) - n
    BY <1>4, <1>7, <1>8
<1> QED
    BY <1>1, <1>2, <1>7, <1>9

\* A semop moves one unit between the value and the undo of the process.
LEMMA SemopBalances ==
    ASSUME LockTypeOK, Balanced, NEW w \in Worker, exists' = exists,
           \/ Semop(w, -1) /\ adj[w] <= 0
           \/ Semop(w, 1)
    PROVE  Balanced'
<1>1. /\ sem \in Nat /\ adj[w] \in Int /\ adj[w] <= 1
      /\ Cardinality(Owed) \in Nat /\ Cardinality(Givers) \in Nat
    BY GiversFinite, FS_CardinalityType DEF Balanced, LockTypeOK
<1>2. CASE Semop(w, -1) /\ adj[w] <= 0
    <2>1. sem' = sem - 1 /\ adj' = [adj EXCEPT ![w] = adj[w] + 1]
        <3>1. sem + (-1) = sem - 1 /\ adj[w] + Undo(-1) = adj[w] + 1
            BY <1>1 DEF Undo
        <3> QED
            BY <1>2, <3>1 DEF Semop
    <2>2. /\ IsFiniteSet(Owed')
          /\ Cardinality(Givers') - Cardinality(Owed')
                = Cardinality(Givers) - Cardinality(Owed) + 1
        BY <1>2, <2>1, TakesOne DEF Balanced
    <2>3. Cardinality(Owed') \in Nat /\ Cardinality(Givers') \in Nat
        BY <2>2, GiversFinite, FS_CardinalityType
    <2>4. exists' => sem + Cardinality(Givers) - Cardinality(Owed) >= 1
        BY DEF Balanced
    <2>5. sem' + Cardinality(Givers') - Cardinality(Owed')
                = sem + Cardinality(Givers) - Cardinality(Owed)
        <3>1. \A s, g, o, gg, oo \in Int : gg - oo = g - o + 1 =>
                                               s - 1 + gg - oo = s + g - o
            OBVIOUS
        <3> QED
            BY <1>1, <2>1, <2>2, <2>3, <3>1
    <2> QED
        BY <2>2, <2>4, <2>5 DEF Balanced
<1>3. CASE Semop(w, 1)
    <2>1. sem' = sem + 1 /\ adj' = [adj EXCEPT ![w] = adj[w] - 1]
        <3>1. sem + (1) = sem + 1 /\ adj[w] + Undo(1) = adj[w] - 1
            BY <1>1 DEF Undo
        <3> QED
            BY <1>3, <3>1 DEF Semop
    <2>2. /\ IsFiniteSet(Owed')
          /\ Cardinality(Givers') - Cardinality(Owed')
                = Cardinality(Givers) - Cardinality(Owed) - 1
        BY <1>1, <2>1, GivesOne DEF Balanced
    <2>3. Cardinality(Owed') \in Nat /\ Cardinality(Givers') \in Nat
        BY <2>2, GiversFinite, FS_CardinalityType
    <2>4. exists' => sem + Cardinality(Givers) - Cardinality(Owed) >= 1
        BY DEF Balanced
    <2>5. sem' + Cardinality(Givers') - Cardinality(Owed')
                = sem + Cardinality(Givers) - Cardinality(Owed)
        BY <1>1, <2>1, <2>2, <2>3
    <2> QED
        BY <2>2, <2>4, <2>5 DEF Balanced
<1> QED
    BY <1>2, <1>3

\* The exit of a process moves all its undo into the value, and more where the
\* value would have gone below 0.
LEMMA ExitBalances ==
    ASSUME LockTypeOK, Balanced, NEW w \in Worker, exists' = exists, ExitOf(w)
    PROVE  Balanced'
<1>1. /\ sem \in Nat /\ adj[w] \in Int /\ adj[w] <= 1
      /\ Cardinality(Owed) \in Nat /\ Cardinality(Givers) \in Nat
      /\ sem' \in Nat /\ sem' >= sem + adj[w]
    BY GiversFinite, FS_CardinalityType DEF Balanced, LockTypeOK, ExitOf
<1>2. CASE adj[w] = 1
    <2>1. adj' = [adj EXCEPT ![w] = adj[w] - 1]
        BY <1>2 DEF ExitOf
    <2>2. /\ IsFiniteSet(Owed')
          /\ Cardinality(Givers') - Cardinality(Owed')
                = Cardinality(Givers) - Cardinality(Owed) - 1
        BY <1>1, <2>1, GivesOne DEF Balanced
    <2>3. Cardinality(Owed') \in Nat /\ Cardinality(Givers') \in Nat
        BY <2>2, GiversFinite, FS_CardinalityType
    <2> QED
        BY <1>1, <1>2, <2>2, <2>3 DEF Balanced
<1>3. CASE adj[w] <= 0
    <2>1. /\ IsFiniteSet(Owed') /\ Givers' = Givers
          /\ Cardinality(Owed') = Cardinality(Owed) + adj[w]
        BY <1>3, Settles DEF Balanced, ExitOf
    <2> QED
        BY <1>1, <2>1 DEF Balanced
<1> QED
    BY <1>1, <1>2, <1>3

\* With nothing to undo there are neither givers nor debts.
LEMMA NothingToUndo ==
    ASSUME adj' = [w \in Worker |-> 0]
    PROVE  /\ Givers' = {} /\ Owed' = {}
           /\ Cardinality(Givers') = 0 /\ Cardinality(Owed') = 0 /\ IsFiniteSet(Owed')
<1>1. Givers' = {}
    BY DEF Givers
<1>2. Owed' = {}
    <2>1. \A v, k : <<v, k>> \notin Owed'
        <3>1. \A w \in Worker : 1 .. 0 - adj'[w] = {}
            OBVIOUS
        <3> QED
            BY <3>1, OwedPairsNext
    <2> QED
        BY <2>1, OwedElementsNext
<1> QED
    BY <1>1, <1>2, FS_EmptySet

\* Each step keeps the balance.
LEMMA StepBalances ==
    ASSUME LockTypeOK, Balanced, [Next]_vars
    PROVE  Balanced'
<1>1. ASSUME UNCHANGED <<exists, sem, adj>>
      PROVE  Balanced'
    BY <1>1 DEF Balanced, Givers, Owed
<1>2. ASSUME NEW w \in Worker,
             BeginSection(w) \/ SemLock(w) \/ SemUnlock(w) \/ Signal(w)
      PROVE  Balanced'
    <2>1. CASE BeginSection(w) \/ Signal(w)
        BY <1>1, <2>1 DEF BeginSection, Signal
    <2>2. CASE SemLock(w)
        <3>1. adj[w] <= 0
            BY <2>2 DEF SemLock, LockTypeOK
        <3> QED
            BY <1>1, <2>2, <3>1, SemopBalances DEF SemLock
    <2>3. CASE SemUnlock(w)
        BY <1>1, <2>3, SemopBalances DEF SemUnlock
    <2> QED
        BY <1>2, <2>1, <2>2, <2>3
<1>3. ASSUME NEW w \in Worker, Exit(w) \/ Die(w)
      PROVE  Balanced'
    BY <1>3, ExitBalances DEF Exit, Die
<1>4. ASSUME CreateSemaphore
      PROVE  Balanced'
    <2>1. adj' = [w \in Worker |-> 0] /\ sem' = 1
        BY <1>4 DEF CreateSemaphore
    <2> QED
        BY <2>1, NothingToUndo DEF Balanced
<1>5. ASSUME CleanupSemaphore
      PROVE  Balanced'
    <2>1. adj' = [w \in Worker |-> 0] /\ exists' = FALSE
        BY <1>5 DEF CleanupSemaphore
    <2> QED
        BY <2>1, NothingToUndo DEF Balanced
<1>6. CASE StopServer \/ Crash \/ UNCHANGED vars
    BY <1>1, <1>6 DEF StopServer, Crash, vars
<1>7. CASE StartServer \/ StartTwice
    BY <1>4, <1>7 DEF StartServer, StartTwice
<1>8. CASE CleanUp \/ LeaveTwice
    BY <1>5, <1>8 DEF CleanUp, LeaveTwice
<1> QED
    BY <1>2, <1>3, <1>6, <1>7, <1>8 DEF Next

\* The balance is even at the first start.
LEMMA InitBalances == Init => Balanced
<1> SUFFICES ASSUME Init PROVE Balanced
    OBVIOUS
<1>1. Givers = {}
    BY DEF Init, Givers
<1>2. Owed = {}
    <2>1. \A v, k : <<v, k>> \notin Owed
        <3>1. \A w \in Worker : 1 .. 0 - adj[w] = {}
            BY DEF Init
        <3> QED
            BY <3>1, OwedPairs
    <2> QED
        BY <2>1, OwedElements
<1> QED
    BY <1>1, <1>2, FS_EmptySet DEF Init, Balanced

\* The semaphore that no exit gives back and nobody inside will give back does
\* not exist: whoever is killed, interrupted or found inside by a start of a
\* server, at whatever point, the section does not stay shut.
THEOREM SemaphoreNeverLost == Spec => []NeverLost
<1>1. LockTypeOK /\ Balanced => NeverLost
    <2> SUFFICES ASSUME LockTypeOK, Balanced, exists, sem = 0
                 PROVE  Inside # {}
        BY DEF NeverLost
    <2>1. Cardinality(Givers) # 0
        BY GiversFinite, FS_CardinalityType DEF Balanced
    <2>2. PICK w \in Worker : adj[w] = 1
        BY <2>1, FS_EmptySet DEF Givers
    <2> QED
        BY <2>2 DEF LockTypeOK, Inside
<1>2. IInv => LockTypeOK
    BY DEF IInv
<1>3. LockTypeOK /\ Balanced /\ [Next]_vars => Balanced'
    BY StepBalances
<1>4. Spec => [](LockTypeOK /\ Balanced)
    BY <1>2, <1>3, IInvHolds, InitBalances, PTL DEF Spec
<1> QED
    BY <1>1, <1>4, PTL

=============================================================================
