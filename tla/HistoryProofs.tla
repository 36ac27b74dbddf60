----------------------------- MODULE HistoryProofs -----------------------------
(***************************************************************************)
(* MAX_VERSIONS under every interleaving.  cleanup_old_versions lists the  *)
(* directory and then removes what it has listed; in between, other        *)
(* workers add backups and remove others, so the number of files alone is  *)
(* not an inductive bound.  The invariant says what the directory would    *)
(* hold if any set S of the workers about to remove had done so: no more   *)
(* than the limit and one for each of the others that have added a backup. *)
(***************************************************************************)
EXTENDS WorkerPoolProofs

SavingPoints == {<<"backup", "read">>, <<"backup", "write">>,
                 <<"cleanup", "list">>, <<"cleanup", "remove">>}
removing == <<"cleanup", "remove">>

\* The workers about to remove old backups of f, and what a set of them has
\* listed.
Removing(f)  == {w \in Saving(f) : pc[w] = removing}
Condemned(S) == UNION {reg[w].victims : w \in S}

BoundedFor(f) ==
    \A S \in SUBSET Removing(f) :
        Cardinality(Stored(f) \ Condemned(S))
            <= MaxVersions + Cardinality(Saving(f) \ S) + Abandoned

FewBackups ==
    /\ IsFiniteSet(DOMAIN link)
    /\ restarts <= MaxRestarts
    /\ \A f \in File : BoundedFor(f)

-----------------------------------------------------------------------------
(* What a directory listing returns, and what is left of it.               *)

\* The versions found among the paths D.
LEMMA VersionsAmong ==
    ASSUME NEW D \in SUBSET Path, NEW f
    PROVE  \A n : n \in {p[2] - 1 : p \in {q \in D : q[1] = f /\ q[2] > 0}}
                    <=> n \in Nat /\ Version(f, n) \in D
<1> DEFINE listed == {p[2] - 1 : p \in {q \in D : q[1] = f /\ q[2] > 0}}
<1>1. \A p \in D : p[2] \in Nat /\ p = <<p[1], p[2]>>
    BY DEF Path
<1>2. ASSUME NEW n \in listed PROVE n \in Nat /\ Version(f, n) \in D
    <2>1. PICK p \in D : p[1] = f /\ p[2] > 0 /\ n = p[2] - 1
        OBVIOUS
    <2>2. n \in Nat /\ n + 1 = p[2]
        BY <1>1, <2>1
    <2>3. p = <<f, n + 1>>
        BY <1>1, <2>1, <2>2
    <2> QED
        BY <2>1, <2>2, <2>3 DEF Version
<1>3. ASSUME NEW n \in Nat, Version(f, n) \in D PROVE n \in listed
    <2>1. Version(f, n)[1] = f /\ Version(f, n)[2] = n + 1 /\ n + 1 > 0 /\ n = (n + 1) - 1
        BY DEF Version
    <2> QED
        BY <1>3, <2>1
<1> QED
    BY <1>2, <1>3

\* The versions listed are those whose path exists, before a step and after it.
LEMMA StoredSet ==
    ASSUME DiskTypeOK, NEW f
    PROVE  \A n : n \in Stored(f) <=> n \in Nat /\ Version(f, n) \in DOMAIN link
BY VersionsAmong DEF Stored, DiskTypeOK
LEMMA StoredSetNext ==
    ASSUME DiskTypeOK', NEW f
    PROVE  \A n : n \in Stored(f)' <=> n \in Nat /\ Version(f, n) \in DOMAIN link'
BY VersionsAmong DEF Stored, DiskTypeOK

\* They are finitely many when the disk holds finitely many files.
LEMMA StoredFinite ==
    ASSUME DiskTypeOK, IsFiniteSet(DOMAIN link), NEW f
    PROVE  IsFiniteSet(Stored(f))
<1> DEFINE path == [n \in Stored(f) |-> Version(f, n)]
<1>1. path \in [Stored(f) -> DOMAIN link]
    BY StoredSet
<1>2. \A m, n \in Stored(f) : path[m] = path[n] => m = n
    <2> SUFFICES ASSUME NEW m \in Stored(f), NEW n \in Stored(f), path[m] = path[n]
                 PROVE  m = n
        OBVIOUS
    <2>1. m \in Nat /\ n \in Nat /\ m + 1 = n + 1
        BY StoredSet DEF Version
    <2> QED
        BY <2>1
<1> HIDE DEF path
<1>3. path \in Injection(Stored(f), DOMAIN link)
    BY <1>1, <1>2 DEF Injection, IsInjective
<1> QED
    BY <1>3, FS_Injection

\* The sizes of finite sets are numbers, and a part is no larger.
LEMMA SizeOfPart ==
    ASSUME NEW T, IsFiniteSet(T), NEW S \in SUBSET T
    PROVE  /\ IsFiniteSet(S)
           /\ Cardinality(S) \in Nat /\ Cardinality(T) \in Nat
           /\ Cardinality(S) <= Cardinality(T)
BY FS_Subset, FS_CardinalityType

\* cleanup_old_versions leaves at most keep of the versions it has listed.
LEMMA OldestLeaves ==
    ASSUME NEW S \in SUBSET Nat, IsFiniteSet(S), NEW keep \in Nat
    PROVE  Cardinality(S \ Oldest(S, keep)) <= keep
<1> DEFINE T == S \ Oldest(S, keep)
           above(n) == {k \in S : k > n}
<1>1. T \in SUBSET S /\ IsFiniteSet(T) /\ Cardinality(T) \in Nat
    BY SizeOfPart
<1>2. \A n \in S : Cardinality(above(n)) \in Nat
    BY SizeOfPart
<1>3. \A n \in T : Cardinality(above(n)) < keep
    BY <1>2 DEF Oldest
<1>4. CASE T = {}
    BY <1>4, FS_EmptySet
<1>5. CASE T # {}
    <2>1. PICK m \in T : \A k \in T : m <= k
        BY <1>1, <1>5, LeastExists
    <2>2. T \ {m} \subseteq above(m)
        <3> SUFFICES ASSUME NEW k \in T \ {m} PROVE k \in S /\ k > m
            OBVIOUS
        <3>1. k \in Nat /\ m \in Nat /\ m <= k
            BY <1>1, <2>1
        <3> QED
            BY <3>1
    <2>3. /\ IsFiniteSet(above(m)) /\ Cardinality(above(m)) \in Nat
          /\ Cardinality(T \ {m}) <= Cardinality(above(m))
        <3>1. above(m) \in SUBSET S
            OBVIOUS
        <3>2. IsFiniteSet(above(m)) /\ T \ {m} \in SUBSET above(m)
            BY <2>2, <3>1, SizeOfPart
        <3> HIDE DEF T, above
        <3> QED
            BY <3>2, SizeOfPart
    <2>4. Cardinality(T \ {m}) = Cardinality(T) - 1
        BY <1>1, <2>1, FS_RemoveElement
    <2>5. Cardinality(above(m)) < keep
        BY <1>3, <2>1
    <2> HIDE DEF T, above
    <2>6. Cardinality(T) <= keep
        BY <1>1, <2>3, <2>4, <2>5
    <2> QED
        BY <2>6 DEF T
<1> QED
    BY <1>4, <1>5

-----------------------------------------------------------------------------
(* What a step may do to the directory.                                    *)

Others(w) == \A v \in Worker \ {w} : pc'[v] = pc[v] /\ task'[v] = task[v] /\ reg'[v] = reg[v]

\* No backup appears.
NothingAdded == /\ IsFiniteSet(DOMAIN link')
                /\ \A f \in File : Stored(f)' \subseteq Stored(f)

\* Paths that go, or that stay, add no backup.
LEMMA FewerPaths ==
    ASSUME DiskTypeOK, DiskTypeOK', IsFiniteSet(DOMAIN link), DOMAIN link' \subseteq DOMAIN link
    PROVE  NothingAdded
BY StoredSet, FS_Subset DEF NothingAdded, Stored

\* Of the system calls only open(O_CREAT) makes a path.
LEMMA CallsAddNothing ==
    ASSUME DiskTypeOK, DiskTypeOK', IsFiniteSet(DOMAIN link),
           \/ UNCHANGED link
           \/ \E w \in Worker : \E p : OpenRead(w, p)
           \/ \E w \in Worker : \E off, d : Write(w, off, d) \/ WriteAndClose(w, off, d)
           \/ \E w \in Worker : Close(w)
           \/ \E P : Unlink(P)
           \/ \E f : MakeDir(f) \/ RemoveDir(f)
    PROVE  NothingAdded
<1>1. DOMAIN link' \subseteq DOMAIN link
    BY DEF OpenRead, Write, WriteAndClose, Close, Unlink, MakeDir, RemoveDir, Restrict
<1> QED
    BY <1>1, FewerPaths

\* open for writing makes the path it is given.
LEMMA OpenWriteAdds ==
    ASSUME IsFiniteSet(DOMAIN link), NEW w \in Worker, NEW p, OpenWrite(w, p)
    PROVE  DOMAIN link' = DOMAIN link \cup {p} /\ IsFiniteSet(DOMAIN link')
BY FS_AddElement DEF OpenWrite, Linked

\* Writing the live file adds no backup.
LEMMA LiveIsNoBackup ==
    ASSUME DiskTypeOK, DiskTypeOK', IsFiniteSet(DOMAIN link), NEW w \in Worker, NEW g,
           OpenWrite(w, Live(g))
    PROVE  NothingAdded
<1>1. \A f, n : n \in Nat => Version(f, n) # Live(g)
    BY DEF Version, Live
<1> QED
    <2>1. DOMAIN link' = DOMAIN link \cup {Live(g)} /\ IsFiniteSet(DOMAIN link')
        BY OpenWriteAdds
    <2>2. \A f, n : n \in Stored(f)' => n \in Stored(f)
        BY <1>1, <2>1, StoredSet, StoredSetNext
    <2> QED
        BY <2>1, <2>2 DEF NothingAdded

\* Writing a backup adds that one.
LEMMA BackupAddsOne ==
    ASSUME DiskTypeOK, DiskTypeOK', IsFiniteSet(DOMAIN link), NEW w \in Worker,
           NEW g \in File, NEW n \in Nat, OpenWrite(w, Version(g, n))
    PROVE  /\ Stored(g)' \subseteq Stored(g) \cup {n}
           /\ \A f \in File \ {g} : Stored(f)' \subseteq Stored(f)
<1>1. \A f, m : m \in Nat /\ Version(f, m) = Version(g, n) => f = g /\ m = n
    BY DEF Version
<1>2. DOMAIN link' = DOMAIN link \cup {Version(g, n)}
    BY OpenWriteAdds
<1>3. \A f, m : m \in Stored(f)' => m \in Stored(f) \/ (f = g /\ m = n)
    BY <1>1, <1>2, StoredSet, StoredSetNext
<1> QED
    BY <1>3

-----------------------------------------------------------------------------
(* Steps that neither add a backup nor end a clean-up.                     *)

\* Workers that save are workers, and finitely many.
LEMMA SavingFinite ==
    ASSUME NEW f
    PROVE  /\ Saving(f) \in SUBSET Worker /\ IsFiniteSet(Saving(f))
           /\ Removing(f) \subseteq Saving(f)
           /\ \A S : IsFiniteSet(Saving(f) \ S) /\ Cardinality(Saving(f) \ S) \in Nat
<1>1. Saving(f) \in SUBSET Worker
    BY DEF Saving, Serving, Busy
<1>2. IsFiniteSet(Worker)
    BY SyncTypesAssumption
<1>3. \A S : Saving(f) \ S \in SUBSET Worker
    BY <1>1
<1> QED
    BY <1>1, <1>2, <1>3, SizeOfPart DEF Removing

\* What crashes have left behind is a number.
LEMMA AbandonedType ==
    ASSUME IInv, restarts <= MaxRestarts
    PROVE  Abandoned \in Nat
<1>1. Cardinality(Worker) \in Nat /\ MaxRestarts - restarts \in Nat
    BY SyncTypesAssumption, WorkerPoolAssumption, FS_CardinalityType DEF IInv, TypeOK
<1>2. \A a, b \in Nat : a * b \in Nat
    OBVIOUS
<1> QED
    BY <1>1, <1>2 DEF Abandoned

\* A file's bound survives when its backups do not grow, nobody joins or leaves
\* those who save it, and nobody changes what is listed.
LEMMA ShrinkingKeeps ==
    ASSUME IInv, FewBackups, NEW f \in File, Stored(f)' \subseteq Stored(f),
           Saving(f)' = Saving(f), Removing(f)' = Removing(f),
           \A v \in Removing(f) : reg'[v] = reg[v], restarts' = restarts
    PROVE  BoundedFor(f)'
<1> SUFFICES ASSUME NEW S \in SUBSET Removing(f)
             PROVE  Cardinality(Stored(f)' \ Condemned(S)')
                      <= MaxVersions + Cardinality(Saving(f) \ S) + Abandoned
    BY DEF BoundedFor, Abandoned
<1>1. Condemned(S)' = Condemned(S)
    BY DEF Condemned
<1>2. IsFiniteSet(Stored(f) \ Condemned(S))
    BY StoredFinite, FS_Difference DEF FewBackups, IInv, TypeOK
<1>3. Stored(f)' \ Condemned(S)' \in SUBSET (Stored(f) \ Condemned(S))
    BY <1>1
<1>4. /\ Cardinality(Stored(f)' \ Condemned(S)') \in Nat
      /\ Cardinality(Stored(f) \ Condemned(S)) \in Nat
      /\ Cardinality(Stored(f)' \ Condemned(S)') <= Cardinality(Stored(f) \ Condemned(S))
    BY <1>2, <1>3, SizeOfPart
<1>5. Cardinality(Stored(f) \ Condemned(S))
        <= MaxVersions + Cardinality(Saving(f) \ S) + Abandoned
    BY DEF FewBackups, BoundedFor
<1>6. Cardinality(Saving(f) \ S) \in Nat /\ Abandoned \in Nat /\ MaxVersions \in Nat
    BY SavingFinite, AbandonedType, WorkerPoolAssumption DEF FewBackups
<1> QED
    BY <1>4, <1>5, <1>6

\* A step of w outside the part of save_version that may exceed the limit, or
\* inside it and not in cleanup_old_versions' removal.
Quietly(w) ==
    /\ Others(w)
    /\ pc[w] # removing /\ pc'[w] # removing
    /\ pc[w] \in SavingPoints <=> pc'[w] \in SavingPoints
    /\ pc[w] \in SavingPoints => task'[w] = task[w]

\* Such a step keeps the bound.
LEMMA QuietStep ==
    ASSUME IInv, FewBackups, NEW w \in Worker, Quietly(w), NothingAdded, restarts' = restarts
    PROVE  FewBackups'
<1> SUFFICES ASSUME NEW f \in File PROVE BoundedFor(f)'
    BY DEF FewBackups, NothingAdded
<1>1. \A v \in Worker : v \in Saving(f)' <=> v \in Saving(f)
    <2> SUFFICES ASSUME NEW v \in Worker PROVE v \in Saving(f)' <=> v \in Saving(f)
        OBVIOUS
    <2>1. CASE v = w
        BY <2>1 DEF Quietly, Saving, Serving, Busy, SavingPoints
    <2>2. CASE v # w
        BY <2>2 DEF Quietly, Others, Saving, Serving, Busy
    <2> QED
        BY <2>1, <2>2
<1>2. Saving(f)' = Saving(f)
    BY <1>1 DEF Saving, Serving, Busy
<1>3. w \notin Removing(f) /\ w \notin Removing(f)'
    BY DEF Quietly, Removing
<1>4. \A v \in Worker \ {w} : pc'[v] = pc[v] /\ reg'[v] = reg[v]
    BY DEF Quietly, Others
<1>5. Removing(f)' = Removing(f) /\ \A v \in Removing(f) : v \in Worker \ {w}
    BY <1>2, <1>3, <1>4, SavingFinite DEF Removing
<1> QED
    BY <1>2, <1>4, <1>5, ShrinkingKeeps DEF NothingAdded

-----------------------------------------------------------------------------
(* The steps of save_version that count.                                   *)

\* A step of a worker for one file leaves the bounds of the others alone.
LEMMA OtherFiles ==
    ASSUME IInv, FewBackups, NEW w \in Worker, Others(w), task'[w] = task[w],
           NEW f \in File, f # task[w].file, Stored(f)' \subseteq Stored(f), restarts' = restarts
    PROVE  BoundedFor(f)'
<1>1. w \notin Saving(f) /\ w \notin Saving(f)'
    BY DEF Saving, Serving
<1>2. \A v \in Worker \ {w} : v \in Saving(f)' <=> v \in Saving(f)
    BY DEF Others, Saving, Serving, Busy
<1>3. Saving(f)' = Saving(f)
    BY <1>1, <1>2 DEF Saving, Serving, Busy
<1>4. \A v \in Saving(f) : v \in Worker \ {w}
    BY <1>1, SavingFinite
<1>5. Removing(f)' = Removing(f) /\ \A v \in Removing(f) : reg'[v] = reg[v]
    BY <1>3, <1>4 DEF Removing, Others
<1> QED
    BY <1>3, <1>5, ShrinkingKeeps

\* Who saves the file of w's own task is the same but for w.
LEMMA OwnFile ==
    ASSUME IInv, NEW w \in Worker, pc[w] # idle, Others(w), task'[w] = task[w]
    PROVE  LET f == task[w].file
           IN  /\ f \in File
               /\ w \in Saving(f) <=> pc[w] \in SavingPoints
               /\ w \in Saving(f)' <=> pc'[w] \in SavingPoints
               /\ \A v \in Worker \ {w} : v \in Saving(f)' <=> v \in Saving(f)
               /\ Removing(f)' \ {w} = Removing(f) \ {w}
               /\ \A v \in Removing(f) \ {w} : reg'[v] = reg[v]
<1> DEFINE f == task[w].file
<1>1. f \in File /\ task[w] # NoTask
    BY TaskType DEF IInv, TypeOK, WorkerOK
<1>2. /\ w \in Saving(f) <=> pc[w] \in SavingPoints
      /\ w \in Saving(f)' <=> pc'[w] \in SavingPoints
    BY <1>1 DEF Saving, Serving, Busy, SavingPoints
<1>3. \A v \in Worker \ {w} : v \in Saving(f)' <=> v \in Saving(f)
    BY DEF Others, Saving, Serving, Busy
<1>4. Saving(f) \in SUBSET Worker /\ Saving(f)' \in SUBSET Worker
    BY DEF Saving, Serving, Busy
<1>5. Removing(f)' \ {w} = Removing(f) \ {w}
    BY <1>3, <1>4 DEF Removing, Others
<1>6. \A v \in Removing(f) \ {w} : reg'[v] = reg[v]
    BY <1>4 DEF Removing, Others
<1> QED
    BY <1>1, <1>2, <1>3, <1>5, <1>6

\* One more element makes a set at most one larger.
LEMMA AtMostOneMore ==
    ASSUME NEW T, IsFiniteSet(T), NEW x
    PROVE  /\ Cardinality(T) \in Nat /\ IsFiniteSet(T \cup {x})
           /\ Cardinality(T \cup {x}) <= Cardinality(T) + 1
<1>1. Cardinality(T) \in Nat
    BY FS_CardinalityType
<1>2. /\ IsFiniteSet(T \cup {x})
      /\ Cardinality(T \cup {x}) = IF x \in T THEN Cardinality(T) ELSE Cardinality(T) + 1
    BY FS_AddElement
<1> QED
    BY <1>1, <1>2

\* copy_file creates the backup: one more backup, and one more worker to clean up.
LEMMA CreateStep ==
    ASSUME IInv, FewBackups, NEW w \in Worker, Others(w), task'[w] = task[w],
           pc[w] = <<"backup", "create">>, pc'[w] = <<"backup", "read">>,
           IsFiniteSet(DOMAIN link'), NEW n,
           Stored(task[w].file)' \subseteq Stored(task[w].file) \cup {n},
           \A f \in File \ {task[w].file} : Stored(f)' \subseteq Stored(f),
           restarts' = restarts
    PROVE  FewBackups'
<1> DEFINE g == task[w].file
<1>1. /\ pc[w] # idle /\ pc[w] \notin SavingPoints /\ pc'[w] \in SavingPoints
      /\ pc[w] # removing /\ pc'[w] # removing
    BY DEF idle, SavingPoints, removing
<1>2. /\ g \in File /\ w \notin Saving(g) /\ w \in Saving(g)'
      /\ \A v \in Worker \ {w} : v \in Saving(g)' <=> v \in Saving(g)
      /\ Removing(g)' \ {w} = Removing(g) \ {w}
      /\ \A v \in Removing(g) \ {w} : reg'[v] = reg[v]
    BY <1>1, OwnFile
<1>3. w \notin Removing(g) /\ w \notin Removing(g)'
    BY <1>1 DEF Removing
<1>4. Saving(g)' = Saving(g) \cup {w}
    BY <1>2, SavingFinite DEF Saving, Serving, Busy
<1>5. ASSUME NEW S \in SUBSET Removing(g)'
      PROVE  Cardinality(Stored(g)' \ Condemned(S)')
                <= MaxVersions + Cardinality(Saving(g)' \ S) + Abandoned'
    <2>1. S \in SUBSET Removing(g) /\ w \notin S /\ Condemned(S)' = Condemned(S)
        BY <1>2, <1>3 DEF Condemned
    <2>2. Cardinality(Stored(g) \ Condemned(S)) <= MaxVersions + Cardinality(Saving(g) \ S) + Abandoned
        BY <1>2, <2>1 DEF FewBackups, BoundedFor
    <2>3. IsFiniteSet(Stored(g) \ Condemned(S))
        BY StoredFinite, FS_Difference DEF FewBackups, IInv, TypeOK
    <2>4. /\ Cardinality(Stored(g) \ Condemned(S)) \in Nat
          /\ IsFiniteSet((Stored(g) \ Condemned(S)) \cup {n})
          /\ Cardinality((Stored(g) \ Condemned(S)) \cup {n}) <= Cardinality(Stored(g) \ Condemned(S)) + 1
        BY <2>3, AtMostOneMore
    <2>5. Stored(g)' \ Condemned(S)' \in SUBSET ((Stored(g) \ Condemned(S)) \cup {n})
        BY <2>1
    <2>6. /\ Cardinality(Stored(g)' \ Condemned(S)') \in Nat
          /\ Cardinality((Stored(g) \ Condemned(S)) \cup {n}) \in Nat
          /\ Cardinality(Stored(g)' \ Condemned(S)') <= Cardinality((Stored(g) \ Condemned(S)) \cup {n})
        BY <2>4, <2>5, SizeOfPart
    <2>7. /\ Cardinality(Saving(g) \ S) \in Nat
          /\ Cardinality(Saving(g)' \ S) = Cardinality(Saving(g) \ S) + 1
        <3>1. Saving(g)' \ S = (Saving(g) \ S) \cup {w}
            BY <1>4, <2>1
        <3>2. w \notin Saving(g) \ S /\ IsFiniteSet(Saving(g) \ S) /\ Cardinality(Saving(g) \ S) \in Nat
            BY <1>2, SavingFinite
        <3> QED
            BY <3>1, <3>2, FS_AddElement
    <2>8. Abandoned \in Nat /\ Abandoned' = Abandoned /\ MaxVersions \in Nat
        BY AbandonedType, WorkerPoolAssumption DEF FewBackups, Abandoned
    <2> QED
        BY <2>2, <2>4, <2>6, <2>7, <2>8
<1>6. BoundedFor(g)'
    BY <1>5 DEF BoundedFor
<1>7. \A f \in File \ {g} : BoundedFor(f)'
    BY OtherFiles
<1> QED
    BY <1>2, <1>6, <1>7 DEF FewBackups

\* A file with no more backups than the limit needs nothing else.
LEMMA WithinLimit ==
    ASSUME NEW g, IsFiniteSet(Stored(g)'), Cardinality(Stored(g)') <= MaxVersions,
           Abandoned' \in Nat
    PROVE  BoundedFor(g)'
<1> SUFFICES ASSUME NEW S \in SUBSET Removing(g)'
             PROVE  Cardinality(Stored(g)' \ Condemned(S)')
                      <= MaxVersions + Cardinality(Saving(g)' \ S) + Abandoned'
    BY DEF BoundedFor
<1>1. /\ Cardinality(Stored(g)' \ Condemned(S)') \in Nat /\ Cardinality(Stored(g)') \in Nat
      /\ Cardinality(Stored(g)' \ Condemned(S)') <= Cardinality(Stored(g)')
    BY SizeOfPart
<1>2. Saving(g)' \ S \in SUBSET Worker /\ IsFiniteSet(Worker)
    BY SyncTypesAssumption DEF Saving, Serving, Busy
<1>3. Cardinality(Saving(g)' \ S) \in Nat /\ MaxVersions \in Nat
    BY <1>2, SizeOfPart, WorkerPoolAssumption
<1> QED
    BY <1>1, <1>3

\* The listing: what is kept is within the limit, whatever others add later.
LEMMA ListStep ==
    ASSUME IInv, FewBackups, NEW w \in Worker, Others(w), task'[w] = task[w],
           pc[w] = <<"cleanup", "list">>, UNCHANGED link, restarts' = restarts,
           \/ /\ Oldest(Stored(task[w].file), MaxVersions) = {}
              /\ pc'[w] \notin SavingPoints
           \/ /\ pc'[w] = removing
              /\ reg'[w].victims = Oldest(Stored(task[w].file), MaxVersions)
    PROVE  FewBackups'
<1> DEFINE g   == task[w].file
           old == Oldest(Stored(g), MaxVersions)
<1>1. pc[w] # idle /\ pc[w] # removing /\ pc[w] \in SavingPoints /\ removing \in SavingPoints
    BY DEF idle, SavingPoints, removing
<1>2. /\ g \in File /\ w \in Saving(g)
      /\ w \in Saving(g)' <=> pc'[w] \in SavingPoints
      /\ \A v \in Worker \ {w} : v \in Saving(g)' <=> v \in Saving(g)
      /\ Removing(g)' \ {w} = Removing(g) \ {w}
      /\ \A v \in Removing(g) \ {w} : reg'[v] = reg[v]
    BY <1>1, OwnFile
<1>3. \A f : Stored(f)' = Stored(f)
    BY DEF Stored
<1>4. IsFiniteSet(Stored(g)) /\ Stored(g) \in SUBSET Nat
    BY StoredFinite, StoredType DEF FewBackups, IInv, TypeOK
<1>5. Cardinality(Stored(g) \ old) <= MaxVersions
    BY <1>4, OldestLeaves, WorkerPoolAssumption
<1>6. Abandoned' = Abandoned /\ Abandoned \in Nat /\ MaxVersions \in Nat
    BY AbandonedType, WorkerPoolAssumption DEF FewBackups, Abandoned
<1>7. BoundedFor(g)'
    <2>1. CASE old = {}
        <3>1. Stored(g) \ old = Stored(g)
            BY <2>1
        <3> QED
            BY <1>3, <1>4, <1>5, <1>6, <3>1, WithinLimit
    <2>2. CASE pc'[w] = removing /\ reg'[w].victims = old
        <3> SUFFICES ASSUME NEW S \in SUBSET Removing(g)'
                     PROVE  Cardinality(Stored(g) \ Condemned(S)')
                              <= MaxVersions + Cardinality(Saving(g)' \ S) + Abandoned
            BY <1>3, <1>6 DEF BoundedFor
        <3>1. Saving(g)' = Saving(g)
            BY <1>1, <1>2, <2>2, SavingFinite DEF Saving, Serving, Busy
        <3>2. Cardinality(Saving(g)' \ S) \in Nat
            BY <3>1, SavingFinite
        <3>3. CASE w \in S
            <4>1. Stored(g) \ Condemned(S)' \in SUBSET (Stored(g) \ old)
                BY <2>2, <3>3 DEF Condemned
            <4>2. IsFiniteSet(Stored(g) \ old)
                BY <1>4, FS_Difference
            <4>3. /\ Cardinality(Stored(g) \ Condemned(S)') \in Nat
                  /\ Cardinality(Stored(g) \ old) \in Nat
                  /\ Cardinality(Stored(g) \ Condemned(S)') <= Cardinality(Stored(g) \ old)
                BY <4>1, <4>2, SizeOfPart
            <4> QED
                BY <1>5, <1>6, <3>2, <4>3
        <3>4. CASE w \notin S
            <4>1. S \in SUBSET Removing(g) /\ Condemned(S)' = Condemned(S)
                BY <1>2, <3>4 DEF Condemned
            <4> QED
                BY <1>2, <3>1, <4>1 DEF FewBackups, BoundedFor
        <3> QED
            BY <3>3, <3>4
    <2> QED
        BY <2>1, <2>2
<1>8. \A f \in File \ {g} : BoundedFor(f)'
    BY <1>3, OtherFiles
<1> QED
    BY <1>2, <1>7, <1>8 DEF FewBackups

\* The removal: the invariant has already counted it.
LEMMA RemoveStep ==
    ASSUME IInv, FewBackups, NEW w \in Worker, Others(w), task'[w] = task[w],
           pc[w] = removing, pc'[w] \notin SavingPoints, NothingAdded,
           Stored(task[w].file)' \subseteq Stored(task[w].file) \ reg[w].victims,
           restarts' = restarts
    PROVE  FewBackups'
<1> DEFINE g == task[w].file
<1>1. /\ pc[w] # idle /\ pc[w] \in SavingPoints /\ pc'[w] # removing
    BY DEF idle, SavingPoints, removing
<1>2. /\ g \in File /\ w \in Saving(g) /\ w \notin Saving(g)'
      /\ \A v \in Worker \ {w} : v \in Saving(g)' <=> v \in Saving(g)
      /\ Removing(g)' \ {w} = Removing(g) \ {w}
      /\ \A v \in Removing(g) \ {w} : reg'[v] = reg[v]
    BY <1>1, OwnFile
<1>3. w \in Removing(g) /\ w \notin Removing(g)'
    BY <1>1, <1>2 DEF Removing
<1>4. Saving(g)' = Saving(g) \ {w}
    BY <1>2, SavingFinite DEF Saving, Serving, Busy
<1>5. Abandoned' = Abandoned
    BY DEF Abandoned
<1>6. ASSUME NEW S \in SUBSET Removing(g)'
      PROVE  Cardinality(Stored(g)' \ Condemned(S)')
                <= MaxVersions + Cardinality(Saving(g)' \ S) + Abandoned
    <2> DEFINE R == S \cup {w}
    <2>1. R \in SUBSET Removing(g) /\ w \notin S
        BY <1>2, <1>3
    <2>2. Cardinality(Stored(g) \ Condemned(R)) <= MaxVersions + Cardinality(Saving(g) \ R) + Abandoned
        BY <1>2, <2>1 DEF FewBackups, BoundedFor
    <2>3. IsFiniteSet(Stored(g) \ Condemned(R))
        BY StoredFinite, FS_Difference DEF FewBackups, IInv, TypeOK
    <2>4. Condemned(R) = Condemned(S)' \cup reg[w].victims
        BY <1>2, <2>1 DEF Condemned
    <2>5. Stored(g)' \ Condemned(S)' \in SUBSET (Stored(g) \ Condemned(R))
        BY <2>4
    <2>6. /\ Cardinality(Stored(g)' \ Condemned(S)') \in Nat
          /\ Cardinality(Stored(g) \ Condemned(R)) \in Nat
          /\ Cardinality(Stored(g)' \ Condemned(S)') <= Cardinality(Stored(g) \ Condemned(R))
        BY <2>3, <2>5, SizeOfPart
    <2>7. Cardinality(Saving(g)' \ S) = Cardinality(Saving(g) \ R)
        <3>1. Saving(g)' \ S = Saving(g) \ R
            BY <1>4
        <3> QED
            BY <3>1
    <2>8. Cardinality(Saving(g) \ R) \in Nat
        BY SavingFinite
    <2>9. Abandoned \in Nat /\ MaxVersions \in Nat
        BY AbandonedType, WorkerPoolAssumption DEF FewBackups
    <2> HIDE DEF R
    <2> QED
        BY <2>2, <2>6, <2>7, <2>8, <2>9
<1>7. BoundedFor(g)'
    BY <1>5, <1>6 DEF BoundedFor
<1>8. \A f \in File \ {g} : BoundedFor(f)'
    BY OtherFiles DEF NothingAdded
<1> QED
    BY <1>2, <1>7, <1>8 DEF FewBackups, NothingAdded

-----------------------------------------------------------------------------
(* process_task                                                            *)

\* A step of w between two points outside SavingPoints, changing at most its
\* own registers, under which no path appears.
Elsewhere(w) ==
    /\ \E from, to : Goto(w, from, to) /\ from \notin SavingPoints /\ to \notin SavingPoints
    /\ UNCHANGED reg \/ \E r : reg' = [reg EXCEPT ![w] = r]
    /\ UNCHANGED link \/ \E P : Unlink(P)

\* Whose points are outside.
LEMMA PointsOutside ==
    /\ \A op \in Operations \cup {"store", "restore", "load", "erase"}, s \in Stage :
          <<op, s>> \notin SavingPoints
    /\ \A s \in {"version", "dir", "mkdir", "open", "create"} : <<"backup", s>> \notin SavingPoints
    /\ \A op, s : s \in {"show", "unreadable", "owner", "holder"} => <<op, s>> \notin SavingPoints
    /\ idle \notin SavingPoints /\ respond \notin SavingPoints
    /\ removing \in SavingPoints
BY DEF Operations, SavingPoints, idle, respond, removing

\* A step elsewhere keeps the bound.
LEMMA ElsewhereKeeps ==
    ASSUME IInv, IInv', FewBackups, NEW w \in Worker, Elsewhere(w)
    PROVE  FewBackups'
<1>1. Others(w)
    <2>1. \A v \in Worker \ {w} : pc'[v] = pc[v] /\ task'[v] = task[v]
        BY DEF Elsewhere, Goto, IInv, TypeOK
    <2>2. \A v \in Worker \ {w} : reg'[v] = reg[v]
        BY DEF Elsewhere, IInv, TypeOK
    <2> QED
        BY <2>1, <2>2 DEF Others
<1>2. Quietly(w) /\ restarts' = restarts
    BY <1>1, PointsOutside DEF Elsewhere, Goto, Quietly, IInv, TypeOK
<1>3. NothingAdded
    BY CallsAddNothing DEF Elsewhere, FewBackups, IInv, TypeOK
<1> QED
    BY <1>2, <1>3, QuietStep

\* The tests before a change.
LEMMA TestsElsewhere ==
    ASSUME NEW w \in Worker, NEW from, NEW to, from \notin SavingPoints, to \notin SavingPoints,
           NEW audit
    PROVE  /\ FindOr(w, from, to, audit) => Elsewhere(w)
           /\ OwnerOr(w, from, to) => Elsewhere(w)
           /\ \A op \in Operations : UnlockedOr(w, op, to, audit) => Elsewhere(w)
<1>1. respond \notin SavingPoints
    BY PointsOutside
<1>2. FindOr(w, from, to, audit) => Elsewhere(w)
    BY <1>1 DEF FindOr, Elsewhere, Answer, Registers, NoShared, diskVars
<1>3. OwnerOr(w, from, to) => Elsewhere(w)
    BY <1>1 DEF OwnerOr, Elsewhere, Answer, NoShared, diskVars
<1>4. ASSUME NEW op \in Operations, UnlockedOr(w, op, to, audit) PROVE Elsewhere(w)
    <2>1. <<op, "unlocked">> \notin SavingPoints /\ <<op, "holder">> \notin SavingPoints
        BY PointsOutside DEF Stage
    <2>2. \E a, b : Goto(w, a, b) /\ a \notin SavingPoints /\ b \notin SavingPoints
        BY <1>1, <1>4, <2>1 DEF UnlockedOr, Answer
    <2> QED
        BY <1>4, <2>2 DEF UnlockedOr, Elsewhere, NoShared, diskVars
<1> QED
    BY <1>2, <1>3, <1>4

\* The cases of process_task themselves neither back up nor clean up.
LEMMA CasesElsewhere ==
    ASSUME NEW w \in Worker,
           \/ Upload(w) \/ Download(w) \/ Delete(w) \/ Edit(w) \/ Save(w) \/ Unlock(w)
           \/ Rollback(w) \/ DeleteVersion(w) \/ Show(w)
    PROVE  Elsewhere(w)
<1> USE DEF NoShared, NoStore, diskVars
<1>1. /\ \A op \in Operations, s \in Stage : <<op, s>> \notin SavingPoints
      /\ respond \notin SavingPoints /\ <<task[w].op, "show">> \notin SavingPoints
      /\ <<"backup", "version">> \notin SavingPoints /\ <<"store", "open">> \notin SavingPoints
      /\ <<"load", "open">> \notin SavingPoints /\ <<"erase", "file">> \notin SavingPoints
    BY PointsOutside DEF Stage
<1>2. CASE Upload(w)
    <2>1. \A s \in Stage : <<"UPLOAD", s>> \notin SavingPoints
        BY <1>1 DEF Operations
    <2>2. CASE OwnerOr(w, <<"UPLOAD", "owner">>, <<"backup", "version">>)
        BY <1>1, <2>1, <2>2, TestsElsewhere DEF Stage
    <2>3. CASE ~ OwnerOr(w, <<"UPLOAD", "owner">>, <<"backup", "version">>)
        <3>1. \E from, to : Goto(w, from, to) /\ from \notin SavingPoints /\ to \notin SavingPoints
            BY <1>1, <1>2, <2>1, <2>3 DEF Upload, Answer, Stage
        <3> QED
            BY <1>2, <2>3, <3>1 DEF Upload, Elsewhere, Registers
    <2> QED
        BY <2>2, <2>3
<1>3. CASE Download(w)
    <2>1. \A s \in Stage : <<"DOWNLOAD", s>> \notin SavingPoints
        BY <1>1 DEF Operations
    <2> QED
        BY <1>1, <1>3, <2>1 DEF Download, Elsewhere, Answer, Stage
<1>4. CASE Delete(w)
    <2>1. \A s \in Stage : <<"DELETE", s>> \notin SavingPoints
        BY <1>1 DEF Operations
    <2>2. CASE \/ FindOr(w, <<"DELETE", "find">>, <<"DELETE", "owner">>, "NOT_FOUND")
               \/ OwnerOr(w, <<"DELETE", "owner">>, <<"DELETE", "unlocked">>)
               \/ UnlockedOr(w, "DELETE", <<"erase", "file">>, "LOCKED")
        BY <1>1, <2>1, <2>2, TestsElsewhere DEF Stage, Operations
    <2>3. CASE \E a, b : Answer(w, <<"DELETE", "forget">>, a, b) /\ UNCHANGED reg /\ NoStore
        BY <1>1, <2>1, <2>3 DEF Elsewhere, Answer, Stage
    <2> QED
        BY <1>4, <2>2, <2>3 DEF Delete
<1>5. CASE Edit(w)
    <2>1. \A s \in Stage : <<"EDIT", s>> \notin SavingPoints
        BY <1>1 DEF Operations
    <2>2. CASE \/ FindOr(w, <<"EDIT", "find">>, <<"EDIT", "owner">>, "NOT_FOUND")
               \/ OwnerOr(w, <<"EDIT", "owner">>, <<"EDIT", "acquire">>)
        BY <1>1, <2>1, <2>2, TestsElsewhere DEF Stage
    <2>3. CASE ~ (\/ FindOr(w, <<"EDIT", "find">>, <<"EDIT", "owner">>, "NOT_FOUND")
                  \/ OwnerOr(w, <<"EDIT", "owner">>, <<"EDIT", "acquire">>))
        <3>1. \E from, to : Goto(w, from, to) /\ from \notin SavingPoints /\ to \notin SavingPoints
            BY <1>1, <1>5, <2>1, <2>3 DEF Edit, Answer, Stage
        <3> QED
            BY <1>5, <2>3, <3>1 DEF Edit, Elsewhere, Registers
    <2> QED
        BY <2>2, <2>3
<1>6. CASE Save(w)
    <2>1. \A s \in Stage : <<"SAVE", s>> \notin SavingPoints
        BY <1>1 DEF Operations
    <2>2. CASE FindOr(w, <<"SAVE", "find">>, <<"SAVE", "holder">>, "none")
        BY <1>1, <2>1, <2>2, TestsElsewhere DEF Stage
    <2>3. CASE ~ FindOr(w, <<"SAVE", "find">>, <<"SAVE", "holder">>, "none")
        <3>1. \E from, to : Goto(w, from, to) /\ from \notin SavingPoints /\ to \notin SavingPoints
            BY <1>1, <1>6, <2>1, <2>3 DEF Save, Answer, Stage
        <3> QED
            BY <1>6, <2>3, <3>1 DEF Save, Elsewhere
    <2> QED
        BY <2>2, <2>3
<1>7. CASE Unlock(w)
    <2>1. <<"UNLOCK", "release">> \notin SavingPoints
        BY <1>1 DEF Operations, Stage
    <2> QED
        BY <1>1, <1>7, <2>1 DEF Unlock, Elsewhere, Answer
<1>8. CASE Rollback(w)
    <2>1. \A s \in Stage : <<"ROLLBACK", s>> \notin SavingPoints
        BY <1>1 DEF Operations
    <2>2. CASE \/ FindOr(w, <<"ROLLBACK", "find">>, <<"ROLLBACK", "owner">>, "NOT_FOUND")
               \/ OwnerOr(w, <<"ROLLBACK", "owner">>, <<"ROLLBACK", "unlocked">>)
               \/ UnlockedOr(w, "ROLLBACK", <<"backup", "version">>, "none")
        BY <1>1, <2>1, <2>2, TestsElsewhere DEF Stage, Operations
    <2>3. CASE \E s \in {"failed", "update"} : \E a, b :
                  Answer(w, <<"ROLLBACK", s>>, a, b) /\ UNCHANGED reg /\ NoStore
        BY <1>1, <2>1, <2>3 DEF Elsewhere, Answer, Stage
    <2> QED
        BY <1>8, <2>2, <2>3 DEF Rollback
<1>9. CASE DeleteVersion(w)
    <2>1. \A s \in Stage : <<"DELVERSION", s>> \notin SavingPoints
        BY <1>1 DEF Operations
    <2>2. CASE \/ FindOr(w, <<"DELVERSION", "find">>, <<"DELVERSION", "owner">>, "NOT_FOUND")
               \/ OwnerOr(w, <<"DELVERSION", "owner">>, <<"DELVERSION", "remove">>)
        BY <1>1, <2>1, <2>2, TestsElsewhere DEF Stage
    <2>3. CASE \E a, b : /\ Answer(w, <<"DELVERSION", "remove">>, a, b) /\ UNCHANGED reg
                         /\ UNCHANGED link \/ \E P : Unlink(P)
        BY <1>1, <2>1, <2>3 DEF Elsewhere, Answer, Stage
    <2> QED
        BY <1>9, <2>2, <2>3 DEF DeleteVersion
<1>10. CASE Show(w)
    BY <1>1, <1>10 DEF Show, Elsewhere, Answer
<1> QED
    BY <1>2, <1>3, <1>4, <1>5, <1>6, <1>7, <1>8, <1>9, <1>10

-----------------------------------------------------------------------------
(* file_manager.c                                                          *)

\* What a routine of file_manager.c does to the registers and to the others.
LEMMA RoutineOthers ==
    ASSUME IInv, NEW w \in Worker, NEW from, NEW to, Goto(w, from, to),
           UNCHANGED reg \/ \E r : Registers(w, r)
    PROVE  Others(w) /\ task'[w] = task[w] /\ restarts' = restarts /\ pc[w] = from /\ pc'[w] = to
BY DEF IInv, TypeOK, Goto, Registers, Others

\* A move outside the saving points, with whatever system call but O_CREAT.
LEMMA MoveKeeps ==
    ASSUME IInv, IInv', FewBackups, NEW w \in Worker, NEW from, NEW to, Goto(w, from, to),
           UNCHANGED reg \/ \E r : Registers(w, r), NothingAdded,
           from # removing, to # removing, from \in SavingPoints <=> to \in SavingPoints
    PROVE  FewBackups'
<1>1. Others(w) /\ task'[w] = task[w] /\ restarts' = restarts /\ pc[w] = from /\ pc'[w] = to
    BY RoutineOthers
<1> QED
    BY <1>1, QuietStep DEF Quietly

\* Where save_version, save_file and remove_file_from_storage return to.
LEMMA ReturnsOutside ==
    ASSUME NEW w
    PROVE  AfterBackup(w) \notin SavingPoints /\ AfterStore(w) \notin SavingPoints
                                             /\ AfterErase(w) \notin SavingPoints
BY DEF AfterBackup, AfterStore, AfterErase, SavingPoints

\* copy_file: a backup is created only by its first step, and fails before it
\* has read everything only when the disk does.
LEMMA CopyBounds ==
    ASSUME IInv, IInv', FewBackups, ~ DiskMayFail, NEW w \in Worker,
           NEW r \in {"backup", "restore"}, NEW done, NEW failed, failed \notin SavingPoints,
           IF r = "backup" THEN done = <<"cleanup", "list">> ELSE done \notin SavingPoints,
           NEW dst, IF r = "backup" THEN \E n \in Nat : dst = Version(task[w].file, n)
                                    ELSE dst = Live(task[w].file),
           Copy(w, r, dst, done, failed)
    PROVE  FewBackups'
<1>1. /\ <<r, "create">> \notin SavingPoints
      /\ <<r, "read">> \in SavingPoints <=> r = "backup"
      /\ <<r, "write">> \in SavingPoints <=> r = "backup"
      /\ done \in SavingPoints <=> r = "backup"
      /\ \A s \in {"create", "read", "write"} : <<r, s>> # removing /\ <<r, s>> # idle
      /\ done # removing /\ failed # removing
    BY DEF SavingPoints, removing, idle
<1>2. DiskTypeOK /\ DiskTypeOK' /\ IsFiniteSet(DOMAIN link)
    BY DEF IInv, TypeOK, FewBackups
<1>3. CASE /\ Goto(w, <<r, "create">>, <<r, "read">>)
           /\ OpenWrite(w, dst)
           /\ UNCHANGED <<reg, reply>>
    <2>1. CASE r = "backup"
        <3>1. PICK n \in Nat : dst = Version(task[w].file, n)
            BY <2>1
        <3>2. task[w].file \in File
            BY <1>1, <1>3, TaskType DEF Goto
        <3>3. /\ Others(w) /\ task'[w] = task[w] /\ restarts' = restarts
              /\ pc[w] = <<"backup", "create">> /\ pc'[w] = <<"backup", "read">>
            BY <1>3, <2>1, RoutineOthers
        <3>4. /\ Stored(task[w].file)' \subseteq Stored(task[w].file) \cup {n}
              /\ \A f \in File \ {task[w].file} : Stored(f)' \subseteq Stored(f)
            <4>1. PICK g \in File : g = task[w].file
                BY <3>2
            <4>2. /\ Stored(g)' \subseteq Stored(g) \cup {n}
                  /\ \A f \in File \ {g} : Stored(f)' \subseteq Stored(f)
                BY <1>2, <1>3, <3>1, <4>1, BackupAddsOne
            <4> QED
                BY <3>3, <4>1, <4>2
        <3>5. IsFiniteSet(DOMAIN link')
            BY <1>2, <1>3, OpenWriteAdds
        <3> QED
            BY <3>3, <3>4, <3>5, CreateStep
    <2>2. CASE r # "backup"
        <3>1. NothingAdded
            BY <1>2, <1>3, <2>2, LiveIsNoBackup
        <3> QED
            BY <1>1, <1>3, <2>2, <3>1, MoveKeeps
    <2> QED
        BY <2>1, <2>2
<1>4. CASE Goto(w, <<r, "create">>, failed) /\ Close(w) /\ Registers(w, NoReg)
    <2>1. NothingAdded
        BY <1>2, <1>4, CallsAddNothing
    <2> QED
        BY <1>1, <1>4, <2>1, MoveKeeps
<1>5. CASE \E b : /\ Goto(w, <<r, "read">>, <<r, "write">>)
                  /\ Registers(w, b) /\ NoStore
    <2>1. NothingAdded
        BY <1>2, <1>5, CallsAddNothing DEF NoStore, diskVars
    <2> QED
        BY <1>1, <1>5, <2>1, MoveKeeps
<1>6. CASE \E b : Goto(w, <<r, "read">>, done) /\ Close(w) /\ Registers(w, b)
    <2>1. NothingAdded
        BY <1>2, <1>6, CallsAddNothing
    <2> QED
        BY <1>1, <1>6, <2>1, MoveKeeps
<1>7. CASE \E b, off, d : /\ Goto(w, <<r, "write">>, <<r, "read">>)
                          /\ Write(w, off, d) /\ Registers(w, b)
    <2>1. NothingAdded
        BY <1>2, <1>7, CallsAddNothing
    <2> QED
        BY <1>1, <1>7, <2>1, MoveKeeps
<1> QED
    BY <1>3, <1>4, <1>5, <1>6, <1>7 DEF Copy

\* save_version
LEMMA BackupBounds ==
    ASSUME IInv, IInv', FewBackups, ~ DiskMayFail, NEW w \in Worker, Backup(w)
    PROVE  FewBackups'
<1> DEFINE f == task[w].file
           cp == Copy(w, "backup", Version(f, reg[w].ver), <<"cleanup", "list">>, AfterBackup(w))
<1>1. /\ \A s \in {"version", "dir", "mkdir", "open", "create"} :
             <<"backup", s>> \notin SavingPoints /\ <<"backup", s>> # removing
      /\ AfterBackup(w) \notin SavingPoints /\ AfterBackup(w) # removing
    BY PointsOutside, ReturnsOutside
<1>2. DiskTypeOK /\ DiskTypeOK' /\ IsFiniteSet(DOMAIN link)
    BY DEF IInv, TypeOK, FewBackups
<1>3. CASE cp
    <2>1. reg[w].ver \in Nat
        BY DEF IInv, TypeOK, RegisterSet
    <2> QED
        BY <1>1, <1>3, <2>1, CopyBounds
<1>4. CASE \E s, t \in {"version", "dir", "mkdir", "open", "create"} :
                /\ Goto(w, <<"backup", s>>, <<"backup", t>>) \/ Goto(w, <<"backup", s>>, AfterBackup(w))
                /\ UNCHANGED reg \/ \E r : Registers(w, r)
                /\ NoStore \/ MakeDir(f) \/ OpenRead(w, Live(f))
    <2>1. NothingAdded
        BY <1>2, <1>4, CallsAddNothing DEF NoStore, diskVars
    <2> QED
        BY <1>1, <1>4, <2>1, MoveKeeps
<1> QED
    BY <1>3, <1>4 DEF Backup, NoShared, NoStore

\* cleanup_old_versions
LEMMA CleanupBounds ==
    ASSUME IInv, IInv', FewBackups, NEW w \in Worker, Cleanup(w)
    PROVE  FewBackups'
<1> DEFINE f == task[w].file
           old == Oldest(Stored(f), MaxVersions)
<1>1. AfterBackup(w) \notin SavingPoints
    BY ReturnsOutside
<1>2. DiskTypeOK /\ DiskTypeOK' /\ IsFiniteSet(DOMAIN link)
    BY DEF IInv, TypeOK, FewBackups
<1>3. CASE /\ Goto(w, <<"cleanup", "list">>, AfterBackup(w)) /\ old = {}
           /\ Registers(w, NoReg) /\ NoStore
    <2>1. /\ Others(w) /\ task'[w] = task[w] /\ restarts' = restarts
          /\ pc[w] = <<"cleanup", "list">> /\ pc'[w] = AfterBackup(w)
        BY <1>3, RoutineOthers
    <2> QED
        BY <1>1, <1>3, <2>1, ListStep DEF NoStore, diskVars
<1>4. CASE /\ Goto(w, <<"cleanup", "list">>, <<"cleanup", "remove">>)
           /\ Registers(w, [NoReg EXCEPT !.victims = old]) /\ NoStore
    <2>1. /\ Others(w) /\ task'[w] = task[w] /\ restarts' = restarts
          /\ pc[w] = <<"cleanup", "list">> /\ pc'[w] = removing
        BY <1>4, RoutineOthers DEF removing
    <2>2. reg'[w].victims = old
        BY <1>4 DEF Registers, IInv, TypeOK, NoReg
    <2> QED
        BY <1>4, <2>1, <2>2, ListStep DEF NoStore, diskVars
<1>5. CASE /\ Goto(w, <<"cleanup", "remove">>, AfterBackup(w))
           /\ Unlink({Version(f, n) : n \in reg[w].victims})
           /\ Registers(w, NoReg)
    <2>1. /\ Others(w) /\ task'[w] = task[w] /\ restarts' = restarts
          /\ pc[w] = removing /\ pc'[w] = AfterBackup(w)
        BY <1>5, RoutineOthers DEF removing
    <2>2. NothingAdded
        BY <1>2, <1>5, CallsAddNothing
    <2>3. pc[w] # idle
        BY <2>1 DEF removing, idle
    <2>4. Stored(f)' \subseteq Stored(f) \ reg[w].victims
        <3>1. DOMAIN link' = DOMAIN link \ {Version(f, n) : n \in reg[w].victims}
            BY <1>5 DEF Unlink, Restrict
        <3>2. \A n : n \in Stored(task[w].file)' => n \in Nat /\ Version(task[w].file, n) \in DOMAIN link'
            BY <1>2, <2>1, StoredSetNext
        <3> QED
            BY <1>2, <3>1, <3>2, StoredSet
    <2> QED
        BY <1>1, <2>1, <2>2, <2>4, RemoveStep
<1> QED
    BY <1>3, <1>4, <1>5 DEF Cleanup

\* save_file, restore_version, read_file and remove_file_from_storage add no
\* backup.
LEMMA FilesBounds ==
    ASSUME IInv, IInv', FewBackups, ~ DiskMayFail, NEW w \in Worker,
           Store(w) \/ Restore(w) \/ Load(w) \/ Erase(w)
    PROVE  FewBackups'
<1>1. /\ \A r \in {"store", "restore", "load", "erase", "ROLLBACK"}, s \in Stage :
             <<r, s>> \notin SavingPoints /\ <<r, s>> # removing
      /\ \A op : <<op, "unreadable">> \notin SavingPoints /\ <<op, "unreadable">> # removing
      /\ AfterStore(w) \notin SavingPoints /\ AfterStore(w) # removing
      /\ AfterErase(w) \notin SavingPoints /\ AfterErase(w) # removing
      /\ respond \notin SavingPoints /\ respond # removing
    BY PointsOutside, ReturnsOutside DEF Operations
<1>2. DiskTypeOK /\ DiskTypeOK' /\ IsFiniteSet(DOMAIN link)
    BY DEF IInv, TypeOK, FewBackups
<1>3. CASE Store(w)
    <2>1. NothingAdded
        BY <1>2, <1>3, LiveIsNoBackup, CallsAddNothing DEF Store, NoStore, diskVars
    <2>2. PICK from, to : /\ Goto(w, from, to) /\ from \notin SavingPoints
                          /\ to \notin SavingPoints /\ from # removing /\ to # removing
        BY <1>1, <1>3 DEF Store, Answer, Stage
    <2> QED
        BY <1>3, <2>1, <2>2, MoveKeeps DEF Store
<1>4. CASE Restore(w)
    <2> DEFINE cp == Copy(w, "restore", Live(task[w].file), <<"ROLLBACK", "update">>,
                          <<"ROLLBACK", "failed">>)
    <2>1. CASE cp
        BY <1>1, <2>1, CopyBounds DEF Stage
    <2>2. CASE ~ cp
        <3>1. NothingAdded
            BY <1>2, <1>4, <2>2, CallsAddNothing DEF Restore, NoShared, diskVars
        <3>2. PICK from, to : /\ Goto(w, from, to) /\ from \notin SavingPoints
                              /\ to \notin SavingPoints /\ from # removing /\ to # removing
            <4>1. \A r \in {"restore", "ROLLBACK"}, t \in {"open", "create", "failed"} :
                      <<r, t>> \notin SavingPoints /\ <<r, t>> # removing
                BY <1>1 DEF Stage
            <4> QED
                BY <1>4, <2>2, <4>1 DEF Restore
        <3> QED
            BY <1>4, <2>2, <3>1, <3>2, MoveKeeps DEF Restore
    <2> QED
        BY <2>1, <2>2
<1>5. CASE Load(w)
    <2>1. NothingAdded
        BY <1>2, <1>5, CallsAddNothing DEF Load, NoStore, diskVars
    <2>2. PICK from, to : /\ Goto(w, from, to) /\ from \notin SavingPoints
                          /\ to \notin SavingPoints /\ from # removing /\ to # removing
        <3>1. \A t \in {"open", "read"} : <<"load", t>> \notin SavingPoints /\ <<"load", t>> # removing
            BY <1>1 DEF Stage
        <3> QED
            BY <1>1, <1>5, <3>1 DEF Load, Answer
    <2>3. Others(w) /\ task'[w] = task[w] /\ restarts' = restarts /\ pc[w] = from /\ pc'[w] = to
        <3>1. UNCHANGED reg \/ \E r : reg' = [reg EXCEPT ![w] = r]
            BY <1>5 DEF Load
        <3> QED
            BY <2>2, <3>1 DEF Goto, Others, IInv, TypeOK
    <2> QED
        BY <2>1, <2>2, <2>3, QuietStep DEF Quietly
<1>6. CASE Erase(w)
    <2>1. NothingAdded
        BY <1>2, <1>6, CallsAddNothing DEF Erase, NoStore, diskVars
    <2>2. PICK from, to : /\ Goto(w, from, to) /\ from \notin SavingPoints
                          /\ to \notin SavingPoints /\ from # removing /\ to # removing
        BY <1>1, <1>6 DEF Erase, Answer, Stage
    <2> QED
        BY <1>6, <2>1, <2>2, MoveKeeps DEF Erase
<1> QED
    BY <1>3, <1>4, <1>5, <1>6

\* Any step of process_task.
LEMMA ProcessTaskBounds ==
    ASSUME IInv, IInv', FewBackups, ~ DiskMayFail, NEW w \in Worker, ProcessTask(w)
    PROVE  FewBackups'
BY CasesElsewhere, ElsewhereKeeps, BackupBounds, CleanupBounds, FilesBounds DEF ProcessTask

-----------------------------------------------------------------------------
(* The worker's loop, a crash, and the theorem.                            *)

\* receive_task and send_response
LEMMA LoopBounds ==
    ASSUME IInv, IInv', FewBackups, NEW w \in Worker, ReceiveTask(w) \/ SendResponse(w)
    PROVE  FewBackups'
<1>1. NothingAdded /\ restarts' = restarts
    <2>1. UNCHANGED link /\ restarts' = restarts
        BY DEF ReceiveTask, SendResponse, NoShared, diskVars
    <2> QED
        BY <2>1, CallsAddNothing DEF IInv, TypeOK, FewBackups
<1>2. Quietly(w)
    <2>1. CASE ReceiveTask(w)
        <3>1. PICK t \in Requests : /\ task' = [task EXCEPT ![w] = t]
                                    /\ pc' = [pc EXCEPT ![w] = Entry(t.op)]
            BY <2>1 DEF ReceiveTask
        <3>2. t.op \in Operations
            BY <3>1, WorkerPoolAssumption DEF Requests
        <3>3. Entry(t.op) \in {<<t.op, s>> : s \in {"check", "release", "show", "find"}}
            BY DEF Entry
        <3>4. Entry(t.op) \notin SavingPoints /\ idle \notin SavingPoints /\ removing \in SavingPoints
            BY <3>2, <3>3, PointsOutside DEF Stage
        <3>5. pc[w] = idle /\ pc'[w] = Entry(t.op)
            BY <2>1, <3>1 DEF ReceiveTask, IInv, TypeOK
        <3>6. Others(w)
            BY <2>1, <3>1 DEF ReceiveTask, Others, IInv, TypeOK
        <3> QED
            BY <3>4, <3>5, <3>6 DEF Quietly
    <2>2. CASE SendResponse(w)
        <3>1. pc[w] = respond /\ pc'[w] = idle
            BY <2>2 DEF SendResponse, IInv, TypeOK
        <3>2. Others(w)
            BY <2>2 DEF SendResponse, Others, IInv, TypeOK
        <3> QED
            BY <3>1, <3>2, PointsOutside DEF Quietly
    <2> QED
        BY <2>1, <2>2
<1> QED
    BY <1>1, <1>2, QuietStep

\* A crash: the workers that were saving are gone and their backups stay.
LEMMA RestartBounds ==
    ASSUME IInv, IInv', FewBackups, Restart
    PROVE  FewBackups'
<1>1. UNCHANGED link /\ restarts' = restarts - 1 /\ restarts \in Nat /\ restarts' \in Nat
    BY DEF Restart, IInv, TypeOK
<1> SUFFICES ASSUME NEW f \in File PROVE BoundedFor(f)'
    BY <1>1, WorkerPoolAssumption DEF FewBackups
<1>2. Saving(f)' = {} /\ Removing(f)' = {}
    BY DEF Restart, Saving, Serving, Busy, Removing
<1>3. Stored(f)' = Stored(f)
    BY <1>1 DEF Stored
<1>4. Cardinality(Stored(f) \ {}) <= MaxVersions + Cardinality(Saving(f) \ {}) + Abandoned
    <2>1. Condemned({}) = {} /\ {} \in SUBSET Removing(f)
        BY DEF Condemned
    <2> QED
        BY <2>1 DEF FewBackups, BoundedFor
<1>5. Abandoned' = Abandoned + Cardinality(Worker) /\ Abandoned \in Nat
    <2>1. Cardinality(Worker) \in Nat /\ MaxRestarts \in Nat
        BY SyncTypesAssumption, WorkerPoolAssumption, FS_CardinalityType
    <2>2. \A c, m, r \in Nat : c * (m - (r - 1)) = c * (m - r) + c
        OBVIOUS
    <2> QED
        BY <1>1, <2>1, <2>2, AbandonedType DEF Abandoned, FewBackups
<1>6. Cardinality(Saving(f)) <= Cardinality(Worker) /\ Cardinality(Saving(f)) \in Nat
        /\ Cardinality(Worker) \in Nat
    BY SavingFinite, SizeOfPart, SyncTypesAssumption
<1>7. IsFiniteSet(Stored(f)) /\ Cardinality(Stored(f)) \in Nat
    BY StoredFinite, FS_CardinalityType DEF FewBackups, IInv, TypeOK
<1>8. Cardinality(Stored(f)) <= MaxVersions + 0 + Abandoned'
    BY <1>4, <1>5, <1>6, <1>7, WorkerPoolAssumption
<1>9. \A S \in SUBSET {} : Condemned(S)' = {} /\ Cardinality({} \ S) = 0
    BY FS_EmptySet DEF Condemned
<1> QED
    BY <1>2, <1>3, <1>8, <1>9 DEF BoundedFor

\* What the bound is about, when neither the directory nor a worker moves.
LEMMA SameBackups ==
    ASSUME UNCHANGED <<link, pc, task, reg>>
    PROVE  \A f : /\ Stored(f)' = Stored(f) /\ Saving(f)' = Saving(f)
                  /\ Removing(f)' = Removing(f)
                  /\ \A S : Condemned(S)' = Condemned(S)
<1>1. \A f : Stored(f)' = Stored(f)
    BY DEF Stored
<1>2. \A f : Saving(f)' = Saving(f)
    BY DEF Saving, Serving, Busy
<1>3. \A f : Removing(f)' = Removing(f)
    BY <1>2 DEF Removing
<1>4. \A S : Condemned(S)' = Condemned(S)
    BY DEF Condemned
<1> QED
    BY <1>1, <1>2, <1>3, <1>4

\* Another server empties the table, not the directory.
LEMMA StartTwiceBounds ==
    ASSUME IInv, IInv', FewBackups, StartTwice
    PROVE  FewBackups'
<1>1. UNCHANGED <<link, pc, task, reg>> /\ restarts' = restarts - 1
          /\ restarts \in Nat /\ restarts' \in Nat
    BY DEF StartTwice, diskVars, IInv, TypeOK
<1>2. restarts' <= MaxRestarts
    BY <1>1, WorkerPoolAssumption DEF FewBackups
<1>3. Abandoned \in Nat /\ Abandoned' \in Nat /\ Abandoned <= Abandoned'
    <2>1. Cardinality(Worker) \in Nat /\ MaxRestarts \in Nat
        BY SyncTypesAssumption, WorkerPoolAssumption, FS_CardinalityType
    <2>2. \A c, m, r \in Nat : c * (m - (r - 1)) = c * (m - r) + c
        OBVIOUS
    <2> QED
        BY <1>1, <2>1, <2>2, AbandonedType DEF Abandoned, FewBackups
<1> SUFFICES ASSUME NEW f \in File, NEW S \in SUBSET Removing(f)
             PROVE  Cardinality(Stored(f) \ Condemned(S))
                      <= MaxVersions + Cardinality(Saving(f) \ S) + Abandoned'
    BY <1>1, <1>2, SameBackups DEF FewBackups, BoundedFor
<1>4. Cardinality(Stored(f) \ Condemned(S)) <= MaxVersions + Cardinality(Saving(f) \ S) + Abandoned
    BY DEF FewBackups, BoundedFor
<1>5. IsFiniteSet(Stored(f) \ Condemned(S))
    BY StoredFinite, FS_Difference DEF FewBackups, IInv, TypeOK
<1>6. Cardinality(Stored(f) \ Condemned(S)) \in Nat /\ Cardinality(Saving(f) \ S) \in Nat
    BY <1>5, SavingFinite, FS_CardinalityType
<1> QED
    BY <1>3, <1>4, <1>6, WorkerPoolAssumption

\* An empty directory.
LEMMA InitBounds == Init => FewBackups
<1> SUFFICES ASSUME Init PROVE FewBackups
    OBVIOUS
<1>1. DOMAIN link = {} /\ restarts = MaxRestarts
    BY DEF Init, DiskInit
<1>2. \A f : Stored(f) = {} /\ Saving(f) = {} /\ Removing(f) = {}
    BY <1>1 DEF Stored, Saving, Serving, Busy, Removing, Init
<1>3. Abandoned = 0
    <2>1. Cardinality(Worker) \in Nat /\ MaxRestarts \in Nat
        BY SyncTypesAssumption, WorkerPoolAssumption, FS_CardinalityType
    <2>2. \A c, m \in Nat : c * (m - m) = 0
        OBVIOUS
    <2> QED
        BY <1>1, <2>1, <2>2 DEF Abandoned
<1>4. \A T : {} \ T = {}
    OBVIOUS
<1>5. Cardinality({}) = 0 /\ IsFiniteSet({}) /\ MaxVersions \in Nat
    BY FS_EmptySet, WorkerPoolAssumption
<1>6. \A f : BoundedFor(f)
    BY <1>2, <1>3, <1>4, <1>5 DEF BoundedFor
<1> QED
    BY <1>1, <1>5, <1>6, WorkerPoolAssumption DEF FewBackups

\* Every step keeps the bound while the disk does not fail.
LEMMA NextBounds ==
    ASSUME ~ DiskMayFail
    PROVE  IInv /\ FewBackups /\ [Next]_vars => FewBackups'
<1> SUFFICES ASSUME IInv, FewBackups, [Next]_vars PROVE FewBackups'
    OBVIOUS
<1>1. IInv'
    BY NextKeeps
<1>2. CASE \E w \in Worker : WorkerStep(w)
    BY <1>1, <1>2, LoopBounds, ProcessTaskBounds DEF WorkerStep
<1>3. CASE Restart
    BY <1>1, <1>3, RestartBounds
<1>4. CASE StartTwice
    BY <1>1, <1>4, StartTwiceBounds
<1>5. CASE Tick \/ UNCHANGED vars
    <2>1. UNCHANGED <<link, pc, task, reg, restarts>>
        BY <1>5 DEF Tick, NoShared, vars, poolVars, diskVars
    <2> QED
        BY <2>1, SameBackups DEF FewBackups, BoundedFor, Abandoned
<1> QED
    BY <1>2, <1>3, <1>4, <1>5 DEF Next, Finished

\* MAX_VERSIONS: unless a write fails, the backups of a file exceed the limit
\* by at most one for every worker between creating a backup and the end of
\* its cleanup_old_versions, and one for every worker a crash may have stopped
\* there, however backups, clean-ups, rollbacks and deletions interleave.
THEOREM BackupsStayBounded == ~ DiskMayFail => (Spec => []HistoryBounded)
<1> SUFFICES ASSUME ~ DiskMayFail PROVE Spec => []HistoryBounded
    OBVIOUS
<1>1. IInv /\ FewBackups /\ [Next]_vars => FewBackups'
    BY NextBounds
<1>2. FewBackups => HistoryBounded
    <2> SUFFICES ASSUME FewBackups, NEW f \in File
                 PROVE  Cardinality(Stored(f)) <= MaxVersions + Cardinality(Saving(f)) + Abandoned
        BY DEF HistoryBounded
    <2>1. Condemned({}) = {} /\ {} \in SUBSET Removing(f)
        BY DEF Condemned
    <2>2. Stored(f) \ {} = Stored(f) /\ Saving(f) \ {} = Saving(f)
        OBVIOUS
    <2> QED
        BY <2>1, <2>2 DEF FewBackups, BoundedFor
<1> QED
    BY <1>1, <1>2, InitBounds, Inductive, PTL DEF Spec
=============================================================================
