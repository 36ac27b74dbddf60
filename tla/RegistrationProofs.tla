-------------------------- MODULE RegistrationProofs --------------------------
(***************************************************************************)
(* Signing in and up, for any number of threads, texts, calls and lines,   *)
(* and any size of the array: a call that no other overlaps is answered as *)
(* users.dat is read, and wrong ids, duplicates of accounts without colons *)
(* and overruns need an overlap.                                           *)
(*                                                                         *)
(* The inductive invariant says how far a call that is alone has come:     *)
(* while it reads, the array holds the accounts of the lines read so far,  *)
(* in their order, whatever the calls before it left there; while it       *)
(* searches, the array is all of the file that counts and fits, and        *)
(* nothing it has passed matches.                                          *)
(***************************************************************************)
EXTENDS Registration, FiniteSetTheorems, SequenceTheorems, TLAPS

Step == {"idle", "check", "open", "read", "parse", "bump", "search", "copy", "ids",
         "append", "cache", "cacheFill", "cacheBump", "done", "lost"}

CallRecord ==
    [at: Step, req: Request, pos: Nat, entry: Account, seen: Index, i: Nat,
     next_id: Nat, result: Outcome, lone: BOOLEAN, wrote: BOOLEAN]

\* The call c is under way, and no other has been since it began.
Alone(c) == c.at \notin {"idle", "lost"} /\ c.lone

\* The array holds, in their order, the accounts of the first n lines.
Mirrored(n) ==
    /\ n \in 0 .. Len(file) /\ Counted(file, n) <= MaxUsers
    /\ \A k \in 1 .. n : Complete(file[k]) => users[Counted(file, k) - 1] = Read(file[k])
    /\ \A j \in 0 .. Counted(file, n) - 1 :
          \E k \in 1 .. n : Complete(file[k]) /\ Counted(file, k) = j + 1

\* After n lines, the array holds all of the file that fits.
AllRead(n) ==
    /\ Mirrored(n) /\ userCount = Counted(file, n)
    /\ n = Len(file) \/ userCount = MaxUsers

NoMatch(r, n) == \A k \in 0 .. n - 1 : ~ Matches(r, users[k])

\* The search for a free id has passed the first n entries.
IdsBelow(c, n) == \A k \in 0 .. n - 1 : users[k].id < c.next_id

\* The lines but the one call c wrote, if it did.
Others(c) == IF c.wrote THEN Len(file) - 1 ELSE Len(file)

\* No account had the name and role of call c before it wrote its line.
NameWasFree(c) == \A k \in Loaded(file, Others(c)) : ~ SameAccount(c.req, Read(file[k]))

\* The answer of call c, as AloneIsRight has it.
RightAnswer(c) ==
    LET r    == c.req
        hits == {k \in Loaded(file, Len(file)) : SameLogin(r, Read(file[k]))}
        old  == Loaded(file, Others(c))
    IN  \/ c.result = "error"
        \/ /\ r.kind # "signup"
           /\ IF hits = {} THEN c.result = "denied"
              ELSE /\ c.result = "ok"
                   /\ \E k \in hits : /\ \A j \in hits : k <= j
                                      /\ c.entry = Read(file[k])
        \/ /\ r.kind = "signup"
           /\ c.result = "exists" <=>
                 r.name = Admin \/ \E k \in old : SameAccount(r, Read(file[k]))

\* How far a call that is alone has come.
Tracks(c) ==
    /\ c.at \in {"check", "open"} => c.pos = 0
    /\ c.at \notin {"check", "done"} /\ c.req.kind = "signup" => c.req.name # Admin
    /\ c.at \notin {"cache", "cacheFill", "cacheBump", "done"} => ~ c.wrote
    /\ c.at = "read" => userCount = Counted(file, c.pos) /\ Mirrored(c.pos)
    /\ c.at = "parse" => /\ c.pos \in 1 .. Len(file) /\ userCount < MaxUsers
                         /\ userCount = Counted(file, c.pos - 1) /\ Mirrored(c.pos - 1)
    /\ c.at = "bump" => /\ userCount + 1 = Counted(file, c.pos) /\ c.seen = userCount
                        /\ Mirrored(c.pos)
    /\ c.at \in {"search", "copy", "ids", "append"} => AllRead(c.pos)
    /\ c.at = "search" => c.i \in 0 .. userCount /\ NoMatch(c.req, c.i)
    /\ c.at = "copy" => /\ c.req.kind # "signup"
                        /\ c.i \in 0 .. userCount - 1 /\ NoMatch(c.req, c.i)
                        /\ Matches(c.req, users[c.i])
    /\ c.at \in {"ids", "append"} => c.req.kind = "signup" /\ NoMatch(c.req, userCount)
    /\ c.at = "ids" => c.i \in 0 .. userCount /\ IdsBelow(c, c.i)
    /\ c.at = "append" => IdsBelow(c, userCount)
    /\ c.at \in {"cache", "cacheFill", "cacheBump"} =>
          c.req.kind = "signup" /\ NameWasFree(c)
    /\ c.at = "cacheFill" => userCount < MaxUsers
    /\ c.at = "done" => RightAnswer(c)

\* No id runs ahead of the lines shipped and the sign-ups since.
Top == Len(FirstUsers) + tries
IdsBounded ==
    /\ \A k \in DOMAIN file : file[k].id <= Top
    /\ \A k \in Index : users[k].id <= Top
    /\ \A t \in Thread : call[t].entry.id <= Top /\ call[t].next_id <= Top + 1

\* A sign-up that was alone wrote what it was asked to, and when it did no
\* account had its id, or the name and role it was asked for.
CleanIsNew ==
    \A w \in clean :
        /\ w.line \in DOMAIN file /\ w.req \in Request
        /\ file[w.line].fields = Fields(w.req)
        /\ \A k \in Loaded(file, w.line - 1) :
              file[k].id # file[w.line].id /\ ~ SameAccount(w.req, Read(file[k]))

Typed ==
    /\ file \in Seq(Line) /\ users \in [Index -> Account] /\ userCount \in Nat
    /\ call \in [Thread -> CallRecord] /\ calls \in 0 .. MaxCalls /\ tries \in Nat
    /\ \A t \in Thread : call[t].pos \in 0 .. Len(file)
    /\ \A t \in Thread : At(t, "parse") => call[t].pos # 0
    /\ \A t \in Thread : At(t, "copy") => call[t].i \in Index

\* Who is alone is; once undefined, nothing is defined any more.
OthersIdle ==
    \A t, v \in Thread : Alone(call[t]) /\ v # t => At(v, "idle")
LostTogether ==
    \A t \in Thread : At(t, "lost") =>
        (\A v \in Thread : At(v, "lost")) /\ \E v \in Thread : ~ call[v].lone

RInv ==
    /\ Typed /\ IdsBounded /\ OthersIdle /\ LostTogether /\ CleanIsNew
    /\ \A t \in Thread : Alone(call[t]) => Tracks(call[t])

-----------------------------------------------------------------------------
(* Lines and what is read of them.                                         *)

\* Counting lines goes up with them, and past every line that counts.
LEMMA Counting ==
    ASSUME NEW f, NEW m \in Nat, NEW n \in Nat, m <= n
    PROVE  /\ Counted(f, m) \in Nat /\ Counted(f, n) \in Nat
           /\ Counted(f, m) <= Counted(f, n)
           /\ m < n /\ Complete(f[n]) => Counted(f, m) < Counted(f, n)
<1> DEFINE S(k) == {j \in 1 .. k : Complete(f[j])}
<1>1. IsFiniteSet(S(m)) /\ IsFiniteSet(S(n))
    <2>1. IsFiniteSet(1 .. m) /\ IsFiniteSet(1 .. n)
        BY FS_Interval
    <2>2. S(m) \in SUBSET (1 .. m) /\ S(n) \in SUBSET (1 .. n)
        OBVIOUS
    <2> HIDE DEF S
    <2> QED
        BY <2>1, <2>2, FS_Subset
<1>2. S(m) \in SUBSET S(n)
    OBVIOUS
<1>3. Cardinality(S(m)) <= Cardinality(S(n)) /\ (Cardinality(S(m)) = Cardinality(S(n)) => S(m) = S(n))
    <2> HIDE DEF S
    <2> QED
        BY <1>1, <1>2, FS_Subset
<1>4. m < n /\ Complete(f[n]) => n \in S(n) /\ n \notin S(m)
    OBVIOUS
<1>5. Cardinality(S(m)) \in Nat /\ Cardinality(S(n)) \in Nat
    BY <1>1, FS_CardinalityType
<1>6. Counted(f, m) = Cardinality(S(m)) /\ Counted(f, n) = Cardinality(S(n))
    BY DEF Counted
<1> HIDE DEF S
<1> QED
    BY <1>3, <1>4, <1>5, <1>6

\* One line more.
LEMMA CountNext ==
    ASSUME NEW f, NEW n \in Nat
    PROVE  /\ Counted(f, 0) = 0
           /\ Counted(f, n + 1) = IF Complete(f[n + 1]) THEN Counted(f, n) + 1 ELSE Counted(f, n)
<1> DEFINE S(k) == {j \in 1 .. k : Complete(f[j])}
<1>1. IsFiniteSet(S(n)) /\ n + 1 \notin S(n)
    <2>1. IsFiniteSet(1 .. n)
        BY FS_Interval
    <2>2. S(n) \in SUBSET (1 .. n) /\ n + 1 \notin S(n)
        OBVIOUS
    <2> HIDE DEF S
    <2> QED
        BY <2>1, <2>2, FS_Subset
<1>2. S(n + 1) = IF Complete(f[n + 1]) THEN S(n) \cup {n + 1} ELSE S(n)
    OBVIOUS
<1>3. S(0) = {}
    OBVIOUS
<1>4. Counted(f, 0) = Cardinality(S(0)) /\ Counted(f, n) = Cardinality(S(n))
      /\ Counted(f, n + 1) = Cardinality(S(n + 1))
    BY DEF Counted
<1>5. Cardinality(S(n) \cup {n + 1}) = Cardinality(S(n)) + 1
    <2> HIDE DEF S
    <2> QED
        BY <1>1, FS_AddElement
<1>6. Cardinality({}) = 0
    BY FS_EmptySet
<1> HIDE DEF S
<1> QED
    BY <1>2, <1>3, <1>4, <1>5, <1>6

\* What the first n lines are read as does not depend on those after them.
LEMMA FirstLines ==
    ASSUME NEW f, NEW g, NEW n \in Nat, \A k \in 1 .. n : g[k] = f[k]
    PROVE  Loaded(g, n) = Loaded(f, n)
<1>1. ASSUME NEW m \in 1 .. n PROVE Counted(g, m) = Counted(f, m)
    <2>1. {k \in 1 .. m : Complete(g[k])} = {k \in 1 .. m : Complete(f[k])}
        OBVIOUS
    <2> QED
        BY <2>1 DEF Counted
<1> QED
    BY <1>1 DEF Loaded

\* An entry a line was parsed into is an account, with the line's id; one that
\* counts leaves nothing of what was there.
LEMMA ParsedType ==
    ASSUME NEW l \in Line, NEW a \in Account
    PROVE  /\ Parsed(l, a) \in Account /\ Parsed(l, a).id = l.id
           /\ Complete(l) => Parsed(l, a) = Read(l)
<1>1. /\ Len(l.fields) \in Nat /\ l.id \in Nat
      /\ \A k \in 1 .. Len(l.fields) : l.fields[k] \in Text /\ atoi[l.fields[k]] \in Int
    BY TextAssumption, LenProperties, ElementOfSeq DEF Line
<1>2. Parsed(l, a) \in Account /\ Parsed(l, a).id = l.id
    BY <1>1 DEF Parsed, Account
<1>3. Complete(l) => Parsed(l, a) = Read(l)
    BY <1>1 DEF Parsed, Read, Complete
<1> QED
    BY <1>2, <1>3

\* Every line has an id.
LEMMA LineId ==
    ASSUME NEW f \in Seq(Line), NEW k \in DOMAIN f
    PROVE  f[k] \in Line /\ f[k].id \in Nat
<1>1. f[k] \in Line
    BY LenProperties, ElementOfSeq
<1> QED
    BY <1>1 DEF Line

\* What is written for a request is texts; without colons, it is read as what
\* was asked for.
LEMMA WrittenIsRead ==
    ASSUME NEW r \in Request, NEW l \in Line, l.fields = Fields(r)
    PROVE  /\ Fields(r) \in Seq(Text)
           /\ Plain(r) => Read(l).name = r.name /\ Read(l).role = r.role
<1>1. /\ r.name \in Text /\ r.password \in Text /\ r.role \in Role
      /\ Pieces[r.name] \in Seq(Text) /\ Pieces[r.password] \in Seq(Text)
      /\ Decimal[r.role] \in Text /\ atoi[Decimal[r.role]] = r.role
    BY TextAssumption DEF Request
<1>2. Fields(r) \in Seq(Text)
    BY <1>1 DEF Fields
<1>3. ASSUME Plain(r) PROVE Read(l).name = r.name /\ Read(l).role = r.role
    <2>1. Fields(r) = <<r.name>> \o <<r.password>> \o <<Decimal[r.role]>>
        BY <1>3 DEF Plain, Fields
    <2>2. Fields(r) = <<r.name, r.password>> \o <<Decimal[r.role]>>
        BY <2>1
    <2>3. Len(l.fields) = 3 /\ l.fields[1] = r.name /\ l.fields[3] = Decimal[r.role]
        BY <2>2
    <2> QED
        BY <1>1, <2>3 DEF Read, Parsed
<1> QED
    BY <1>2, <1>3

-----------------------------------------------------------------------------
(* The general form of a step.                                             *)

\* Thread t goes on with its call, which is c from now on.
Moves(t, c) ==
    /\ call' = [call EXCEPT ![t] = c]
    /\ c \in CallRecord /\ c.at # "lost" /\ (c.at # "idle" => c.lone = call[t].lone)
    /\ call[t].at \notin {"idle", "lost"}

\* An empty entry is an account.
LEMMA NothingType == Nothing \in Account /\ Nothing.id = 0
BY TextAssumption DEF Nothing, Account

\* A thread between calls has the fields of a call.
LEMMA IdleType ==
    /\ Idle \in CallRecord /\ Idle.at = "idle" /\ Idle.pos = 0 /\ Idle.next_id = 0
    /\ Idle.entry.id = 0 /\ ~ Idle.wrote
<1>1. (CHOOSE r \in Requests : TRUE) \in Request
    BY RegistrationAssumption
<1>2. 0 \in Index
    BY RegistrationAssumption DEF Index
<1> QED
    BY <1>1, <1>2, NothingType DEF Idle, CallRecord, Step, Outcome

\* What the fields of a call are, step by step.
LEMMA CallType ==
    ASSUME RInv, NEW t \in Thread
    PROVE  /\ call[t] \in CallRecord
           /\ call[t].pos \in 0 .. Len(file) /\ Len(file) \in Nat
           /\ call[t].at = "copy" => call[t].i \in Index
           /\ call[t].at = "parse" => call[t].pos # 0
           /\ call[t].entry.id <= Top /\ call[t].next_id <= Top + 1 /\ Top \in Nat
           /\ MaxUsers \in Nat \ {0}
BY RegistrationAssumption, LenProperties DEF RInv, Typed, IdsBounded, At, Top

\* A step of one thread, which may write a line of the file, an entry of the
\* array and the count.
LEMMA OwnStep ==
    ASSUME RInv, NEW t \in Thread, NEW c, Moves(t, c),
           file' \in Seq(Line), Len(file') >= Len(file), users' \in [Index -> Account],
           userCount' \in Nat, calls' = calls, tries' \in Nat, tries' >= tries,
           c.pos \in 0 .. Len(file'), c.at = "copy" => c.i \in Index,
           c.at = "parse" => c.pos # 0,
           c.entry.id <= Top', c.next_id <= Top' + 1,
           \A k \in DOMAIN file' : file'[k].id <= Top',
           \A k \in Index : users'[k].id <= Top',
           CleanIsNew', Alone(c) => Tracks(c)'
    PROVE  RInv'
<1>1. /\ call'[t] = c /\ \A v \in Thread : v # t => call'[v] = call[v]
      /\ call' \in [Thread -> CallRecord]
    BY DEF RInv, Typed, Moves
<1>2. \A v \in Thread : Alone(call'[v]) => Alone(call[v])
    BY <1>1 DEF Moves, Alone
<1>3. /\ Len(file) \in Nat /\ Len(file') \in Nat
      /\ Top \in Nat /\ Top' \in Nat /\ Top' >= Top
      /\ \A v \in Thread : call[v].pos \in Nat /\ call[v].entry.id \in Nat /\ call[v].next_id \in Nat
    <2>1. Len(file) \in Nat /\ Len(file') \in Nat
        BY LenProperties DEF RInv, Typed
    <2>2. Len(FirstUsers) \in Nat /\ tries \in Nat
        BY LenProperties, RegistrationAssumption DEF RInv, Typed
    <2>3. Top \in Nat /\ Top' \in Nat /\ Top' >= Top
        BY <2>2 DEF Top
    <2>4. \A v \in Thread : /\ call[v].pos \in Nat /\ call[v].entry.id \in Nat
                            /\ call[v].next_id \in Nat
        BY DEF RInv, Typed, CallRecord, Account
    <2> QED
        BY <2>1, <2>3, <2>4
<1>4. \A v \in Thread : ~ At(v, "lost")
    BY DEF RInv, LostTogether, At, Moves
<1>5. \A v \in Thread : ~ At(v, "lost")'
    BY <1>1, <1>4 DEF Moves, At
<1>6. Typed'
    <2>1. ASSUME NEW v \in Thread PROVE call'[v].pos \in 0 .. Len(file')
        <3>1. CASE v = t
            BY <1>1, <3>1
        <3>2. CASE v # t
            <4>1. call[v].pos \in 0 .. Len(file) /\ call'[v].pos = call[v].pos
                BY <1>1, <3>2 DEF RInv, Typed
            <4> QED
                BY <4>1, <1>3
        <3> QED
            BY <3>1, <3>2
    <2>2. \A v \in Thread : /\ call'[v].at = "copy" => call'[v].i \in Index
                            /\ call'[v].at = "parse" => call'[v].pos # 0
        BY <1>1 DEF RInv, Typed, At
    <2> QED
        BY <1>1, <2>1, <2>2 DEF RInv, Typed, At
<1>7. IdsBounded'
    <2>1. ASSUME NEW v \in Thread
          PROVE  call'[v].entry.id <= Top' /\ call'[v].next_id <= Top' + 1
        <3>1. call[v].entry.id <= Top /\ call[v].next_id <= Top + 1
            BY DEF RInv, IdsBounded
        <3>2. call[v].entry.id <= Top' /\ call[v].next_id <= Top' + 1
            <4> HIDE DEF Top
            <4> QED
                BY <1>3, <3>1
        <3>3. v # t => call'[v] = call[v]
            BY <1>1
        <3> QED
            BY <1>1, <3>2, <3>3
    <2> QED
        BY <2>1 DEF IdsBounded
<1>8. OthersIdle'
    <2>1. ASSUME NEW u \in Thread, NEW v \in Thread, Alone(call'[u]), v # u
          PROVE  call'[v].at = "idle"
        <3>1. Alone(call[u]) /\ call[v].at = "idle"
            BY <1>2, <2>1 DEF RInv, OthersIdle, At
        <3> QED
            BY <1>1, <3>1 DEF Moves
    <2> QED
        BY <2>1 DEF OthersIdle, Alone, At
<1>9. LostTogether'
    BY <1>5 DEF LostTogether
<1>10. ASSUME NEW v \in Thread, Alone(call'[v]) PROVE Tracks(call[v])'
    <2>1. CASE v = t
        BY <1>1, <1>10, <2>1
    <2>2. CASE v # t
        <3>1. Alone(call[v])
            BY <1>1, <1>10, <2>2
        <3>2. At(t, "idle")
            BY <2>2, <3>1 DEF RInv, OthersIdle
        <3> QED
            BY <3>2 DEF At, Moves
    <2> QED
        BY <2>1, <2>2
<1> QED
    BY <1>6, <1>7, <1>8, <1>9, <1>10 DEF RInv, Alone

\* A step that changes nothing that is shared but, perhaps, the count.
LEMMA QuietStep ==
    ASSUME RInv, NEW t \in Thread, NEW c, Moves(t, c),
           UNCHANGED <<file, users, calls, tries, clean>>, userCount' \in Nat,
           c.pos \in 0 .. Len(file), c.at = "copy" => c.i \in Index,
           c.at = "parse" => c.pos # 0,
           c.entry.id <= Top, c.next_id <= Top + 1,
           Alone(c) => Tracks(c)'
    PROVE  RInv'
<1>1. /\ file' \in Seq(Line) /\ Len(file') >= Len(file) /\ users' \in [Index -> Account]
      /\ tries' \in Nat /\ tries' >= tries /\ Top' = Top
      /\ \A k \in DOMAIN file' : file'[k].id <= Top'
      /\ \A k \in Index : users'[k].id <= Top'
    BY LenProperties DEF RInv, Typed, IdsBounded, Top
<1>2. CleanIsNew'
    BY DEF RInv, CleanIsNew
<1> QED
    BY <1>1, <1>2, OwnStep

\* A step that changes nothing that is shared.
LEMMA StillStep ==
    ASSUME RInv, NEW t \in Thread, NEW c, Moves(t, c),
           UNCHANGED <<file, users, userCount, calls, tries, clean>>,
           c.pos \in 0 .. Len(file), c.at = "copy" => c.i \in Index,
           c.at = "parse" => c.pos # 0,
           c.entry.id <= Top, c.next_id <= Top + 1,
           Alone(c) => Tracks(c)
    PROVE  RInv'
<1>1. userCount' \in Nat
    BY DEF RInv, Typed
<1>2. Alone(c) => Tracks(c)'
    BY DEF Tracks, Mirrored, AllRead, NoMatch, IdsBelow, NameWasFree, Others, RightAnswer
<1> QED
    BY <1>1, <1>2, QuietStep

\* All of call c but where it is and what it returns is as in call d.
Agrees(c, d) ==
    /\ c.req = d.req /\ c.pos = d.pos /\ c.entry = d.entry /\ c.seen = d.seen
    /\ c.i = d.i /\ c.next_id = d.next_id /\ c.lone = d.lone /\ c.wrote = d.wrote

\* Go only changes where the call is.
LEMMA Goes ==
    ASSUME RInv, NEW t \in Thread, NEW s \in Step \ {"idle", "lost"}, Go(t, s),
           call[t].at \notin {"idle", "lost"}
    PROVE  \E c : Moves(t, c) /\ Agrees(c, call[t]) /\ c.at = s
<1> DEFINE c == [call[t] EXCEPT !.at = s]
<1>1. call[t] \in CallRecord
    BY CallType
<1>2. c \in CallRecord /\ c.at = s /\ Agrees(c, call[t])
    BY <1>1 DEF CallRecord, Agrees
<1>3. call' = [call EXCEPT ![t] = c]
    BY DEF Go
<1> QED
    BY <1>2, <1>3 DEF Moves, Agrees

\* Return only changes where the call is and what it returns.
LEMMA Returns ==
    ASSUME RInv, NEW t \in Thread, NEW r \in Outcome, Return(t, r),
           call[t].at \notin {"idle", "lost"}
    PROVE  \E c : Moves(t, c) /\ Agrees(c, call[t]) /\ c.at = "done" /\ c.result = r
<1> DEFINE c == [call[t] EXCEPT !.at = "done", !.result = r]
<1>1. call[t] \in CallRecord
    BY CallType
<1>2. c \in CallRecord /\ c.at = "done" /\ c.result = r /\ Agrees(c, call[t])
    BY <1>1 DEF CallRecord, Agrees, Step
<1>3. call' = [call EXCEPT ![t] = c]
    BY DEF Return
<1> QED
    BY <1>2, <1>3 DEF Moves, Agrees

-----------------------------------------------------------------------------
(* What the array and the file have in common.                             *)

\* When all of the file that fits is in the array, an account a call can know
\* of is an entry, and the other way round, in the order of the lines.
LEMMA ArrayIsFile ==
    ASSUME RInv, NEW n, AllRead(n)
    PROVE  /\ \A k \in Loaded(file, Len(file)) :
                 /\ k \in 1 .. Len(file) /\ Counted(file, k) - 1 \in 0 .. userCount - 1
                 /\ users[Counted(file, k) - 1] = Read(file[k])
           /\ \A j \in 0 .. userCount - 1 :
                 /\ j \in Index
                 /\ \E k \in Loaded(file, Len(file)) :
                       Counted(file, k) = j + 1 /\ users[j] = Read(file[k])
<1>1. /\ Len(file) \in Nat /\ MaxUsers \in Nat /\ n \in 0 .. Len(file)
      /\ userCount = Counted(file, n) /\ Counted(file, n) <= MaxUsers
    BY RegistrationAssumption, LenProperties DEF RInv, Typed, AllRead, Mirrored
<1>2. userCount \in Nat
    BY DEF RInv, Typed
<1>3. ASSUME NEW k \in Loaded(file, Len(file))
      PROVE  /\ k \in 1 .. Len(file) /\ Counted(file, k) - 1 \in 0 .. userCount - 1
             /\ users[Counted(file, k) - 1] = Read(file[k])
    <2>1. k \in 1 .. Len(file) /\ Complete(file[k]) /\ Counted(file, k) <= MaxUsers
        BY DEF Loaded
    <2>2. Counted(file, 0) = 0 /\ Counted(file, 0) < Counted(file, k) /\ Counted(file, k) \in Nat
        BY <1>1, <2>1, Counting, CountNext
    <2>3. k <= n
        <3> SUFFICES ASSUME n < k PROVE FALSE
            BY <1>1, <2>1
        <3>1. Counted(file, n) < Counted(file, k)
            BY <1>1, <2>1, Counting
        <3>2. n # Len(file)
            BY <1>1, <2>1
        <3>3. userCount = MaxUsers
            BY <3>2 DEF AllRead
        <3> QED
            BY <1>1, <2>1, <2>2, <3>1, <3>3
    <2>4. Counted(file, k) <= Counted(file, n)
        BY <1>1, <2>1, <2>3, Counting
    <2>5. k \in 1 .. n
        BY <1>1, <2>1, <2>3
    <2> QED
        BY <1>1, <1>2, <2>1, <2>2, <2>4, <2>5 DEF AllRead, Mirrored
<1>4. ASSUME NEW j \in 0 .. userCount - 1
      PROVE  /\ j \in Index
             /\ \E k \in Loaded(file, Len(file)) :
                   Counted(file, k) = j + 1 /\ users[j] = Read(file[k])
    <2>1. PICK k \in 1 .. n : Complete(file[k]) /\ Counted(file, k) = j + 1
        BY <1>1 DEF AllRead, Mirrored
    <2>2. k \in Loaded(file, Len(file)) /\ j \in Index
        BY <1>1, <1>2, <2>1 DEF Loaded, Index
    <2>3. users[j] = Read(file[k])
        <3>1. (j + 1) - 1 = j
            OBVIOUS
        <3> QED
            BY <2>1, <3>1 DEF AllRead, Mirrored
    <2> QED
        BY <2>1, <2>2, <2>3
<1> QED
    BY <1>3, <1>4

-----------------------------------------------------------------------------
(* The steps.                                                              *)

\* Nobody registers as admin.
LEMMA CheckNameKeeps ==
    ASSUME RInv, NEW t \in Thread, CheckName(t)
    PROVE  RInv'
<1>1. call[t].at = "check" /\ UNCHANGED <<file, users, userCount, calls, tries, clean>>
    BY DEF CheckName, At
<1>2. CASE SignsUp(t) /\ call[t].req.name = Admin
    <2>1. PICK c : Moves(t, c) /\ Agrees(c, call[t]) /\ c.at = "done" /\ c.result = "exists"
        BY <1>1, <1>2, Returns DEF CheckName, Outcome
    <2>2. RightAnswer(c)
        BY <1>2, <2>1 DEF RightAnswer, SignsUp, Agrees
    <2>3. Tracks(c)
        BY <2>1, <2>2 DEF Tracks
    <2> QED
        BY <1>1, <2>1, <2>3, CallType, StillStep DEF Agrees
<1>3. CASE ~ (SignsUp(t) /\ call[t].req.name = Admin)
    <2>1. PICK c : Moves(t, c) /\ Agrees(c, call[t]) /\ c.at = "open"
        BY <1>1, <1>3, Goes DEF CheckName, Step
    <2>2. Alone(c) => Tracks(c)
        BY <1>1, <1>3, <2>1 DEF RInv, Tracks, SignsUp, Agrees, Alone
    <2> QED
        BY <1>1, <2>1, <2>2, CallType, StillStep DEF Agrees
<1> QED
    BY <1>2, <1>3

\* users.dat is opened, and the count starts from zero.
LEMMA OpenUsersKeeps ==
    ASSUME RInv, NEW t \in Thread, OpenUsers(t)
    PROVE  RInv'
<1>1. call[t].at = "open" /\ UNCHANGED <<file, users, calls, tries, clean>>
    BY DEF OpenUsers, At
<1>2. CASE Go(t, "read") /\ userCount' = 0
    <2>1. PICK c : Moves(t, c) /\ Agrees(c, call[t]) /\ c.at = "read"
        BY <1>1, <1>2, Goes DEF Step
    <2>2. ASSUME Alone(c) PROVE Tracks(c)'
        <3>1. c.pos = 0 /\ (c.req.kind = "signup" => c.req.name # Admin) /\ ~ c.wrote
            BY <1>1, <2>1, <2>2 DEF RInv, Tracks, Agrees, Alone
        <3>2. Mirrored(0)' /\ Counted(file, 0)' = 0
            BY <1>1, CallType, CountNext DEF Mirrored
        <3> QED
            BY <1>2, <2>1, <3>1, <3>2 DEF Tracks
    <2> QED
        BY <1>1, <1>2, <2>1, <2>2, CallType, QuietStep DEF Agrees
<1>3. CASE Return(t, "error") /\ UNCHANGED userCount
    <2>1. PICK c : Moves(t, c) /\ Agrees(c, call[t]) /\ c.at = "done" /\ c.result = "error"
        BY <1>1, <1>3, Returns DEF Outcome
    <2>2. RightAnswer(c)
        BY <2>1 DEF RightAnswer
    <2>3. Alone(c) => Tracks(c)
        BY <2>1, <2>2 DEF Tracks
    <2> QED
        BY <1>1, <1>3, <2>1, <2>3, CallType, StillStep DEF Agrees
<1> QED
    BY <1>2, <1>3 DEF OpenUsers, CountReset

\* The head of the loop: a call that is alone has read as many lines as there
\* are entries.
LEMMA ReadLineKeeps ==
    ASSUME RInv, NEW t \in Thread, ReadLine(t)
    PROVE  RInv'
<1>1. call[t].at = "read" /\ UNCHANGED <<file, users, userCount, calls, tries, clean>>
    BY DEF ReadLine, At
<1>2. /\ call[t] \in CallRecord /\ call[t].pos \in 0 .. Len(file) /\ Len(file) \in Nat
      /\ call[t].entry.id <= Top /\ call[t].next_id <= Top + 1 /\ Top \in Nat
      /\ MaxUsers \in Nat \ {0}
    BY CallType
<1>3. CASE call[t].pos < Len(file) /\ HasRoom(userCount)
    <2>1. PICK c : c = [call[t] EXCEPT !.at = "parse", !.pos = @ + 1]
        OBVIOUS
    <2>2. call[t].pos + 1 \in 1 .. Len(file)
        BY <1>2, <1>3
    <2>4. /\ c.at = "parse" /\ c.pos = call[t].pos + 1 /\ c.entry = call[t].entry
          /\ c.req = call[t].req /\ c.lone = call[t].lone /\ c.next_id = call[t].next_id
          /\ c.i = call[t].i /\ c.wrote = call[t].wrote
        BY <1>2, <2>1 DEF CallRecord
    <2>10. c \in CallRecord
        <3>1. call[t].pos + 1 \in Nat /\ "parse" \in Step
            BY <2>2, <1>2 DEF Step
        <3> HIDE DEF Step
        <3> QED
            BY <1>2, <2>1, <3>1 DEF CallRecord
    <2>5. call' = [call EXCEPT ![t] = c]
        BY <1>3, <2>1 DEF ReadLine
    <2>6. Moves(t, c)
        BY <1>1, <2>4, <2>10, <2>5 DEF Moves
    <2>7. ASSUME Alone(c) PROVE Tracks(c)
        <3>1. /\ userCount = Counted(file, call[t].pos) /\ Mirrored(call[t].pos)
              /\ call[t].req.kind = "signup" => call[t].req.name # Admin
              /\ ~ call[t].wrote
            BY <1>1, <2>4, <2>7 DEF RInv, Tracks, Alone
        <3>2. c.pos - 1 = call[t].pos
            BY <1>2, <2>4
        <3> QED
            BY <1>3, <2>2, <2>4, <3>1, <3>2 DEF Tracks, HasRoom
    <2>8. c.pos \in 0 .. Len(file) /\ c.pos # 0
        BY <1>2, <2>2, <2>4
    <2> QED
        BY <1>1, <1>2, <2>4, <2>6, <2>7, <2>8, StillStep
<1>4. CASE ~ (call[t].pos < Len(file) /\ HasRoom(userCount))
    <2>1. PICK c : c = [call[t] EXCEPT !.at = "search", !.i = 0]
        OBVIOUS
    <2>2. /\ c.at = "search" /\ c.i = 0 /\ c.pos = call[t].pos /\ c.entry = call[t].entry
          /\ c.req = call[t].req /\ c.lone = call[t].lone /\ c.next_id = call[t].next_id
          /\ c.wrote = call[t].wrote /\ c \in CallRecord
        BY <1>2, <2>1 DEF CallRecord, Step
    <2>3. call' = [call EXCEPT ![t] = c]
        BY <1>4, <2>1 DEF ReadLine
    <2>4. Moves(t, c)
        BY <1>1, <2>2, <2>3 DEF Moves
    <2>5. ASSUME Alone(c) PROVE Tracks(c)
        <3>1. /\ userCount = Counted(file, call[t].pos) /\ Mirrored(call[t].pos)
              /\ call[t].req.kind = "signup" => call[t].req.name # Admin
              /\ ~ call[t].wrote
            BY <1>1, <2>2, <2>5 DEF RInv, Tracks, Alone
        <3>4. userCount <= MaxUsers /\ userCount \in Nat
            BY <3>1 DEF Mirrored, RInv, Typed
        <3>2. AllRead(c.pos)
            BY <1>2, <1>4, <2>2, <3>1, <3>4 DEF AllRead, HasRoom
        <3>3. c.i \in 0 .. userCount /\ NoMatch(c.req, c.i)
            BY <1>2, <2>2, <3>4 DEF NoMatch
        <3> QED
            BY <2>2, <3>1, <3>2, <3>3 DEF Tracks
    <2> QED
        BY <1>1, <1>2, <2>2, <2>4, <2>5, StillStep
<1> QED
    BY <1>3, <1>4

\* A line is parsed into the entry at the count of the moment.  For a call that
\* is alone it is the next account, or none.
LEMMA ParseLineKeeps ==
    ASSUME RInv, NEW t \in Thread, ParseLine(t)
    PROVE  RInv'
<1>1. /\ call[t].at = "parse" /\ userCount \in Index
      /\ UNCHANGED <<file, userCount, calls, tries, clean>>
    BY DEF ParseLine, At
<1>2. /\ call[t] \in CallRecord /\ call[t].pos \in 1 .. Len(file) /\ Len(file) \in Nat
      /\ call[t].entry.id <= Top /\ call[t].next_id <= Top + 1 /\ Top \in Nat
    BY <1>1, CallType
<1>3. PICK l : l = file[call[t].pos]
    OBVIOUS
<1>4. l \in Line /\ l.id <= Top
    BY <1>2, <1>3, LenProperties, ElementOfSeq DEF RInv, Typed, IdsBounded
<1>5. /\ users \in [Index -> Account] /\ users[userCount] \in Account
      /\ \A k \in Index : users[k].id <= Top
    BY <1>1 DEF RInv, Typed, IdsBounded
<1>6. PICK a \in Account : /\ a = Parsed(l, users[userCount]) /\ a.id = l.id
                           /\ Complete(l) => a = Read(l)
    BY <1>4, <1>5, ParsedType
<1>7. users' = [users EXCEPT ![userCount] = a]
    BY <1>3, <1>6 DEF ParseLine
<1>8. /\ users' \in [Index -> Account] /\ users'[userCount] = a
      /\ \A k \in Index : k # userCount => users'[k] = users[k]
    BY <1>1, <1>5, <1>7
<1>9. \A k \in Index : users'[k].id <= Top'
    BY <1>1, <1>4, <1>5, <1>6, <1>8 DEF Top
<1>10. PICK s \in {"bump", "read"} : s = IF Complete(l) THEN "bump" ELSE "read"
    OBVIOUS
<1>11. PICK c : c = [call[t] EXCEPT !.at = s, !.seen = userCount]
    OBVIOUS
<1>12. /\ c.at = s /\ c.seen = userCount /\ c.req = call[t].req /\ c.pos = call[t].pos
       /\ c.entry = call[t].entry /\ c.next_id = call[t].next_id /\ c.lone = call[t].lone
       /\ c.wrote = call[t].wrote
    BY <1>2, <1>11 DEF CallRecord
<1>13. c \in CallRecord
    <2>1. s \in Step
        BY DEF Step
    <2> HIDE DEF Step
    <2> QED
        BY <1>1, <1>2, <1>11, <2>1 DEF CallRecord
<1>14. call' = [call EXCEPT ![t] = c]
    BY <1>3, <1>10, <1>11 DEF ParseLine
<1>15. Moves(t, c)
    BY <1>1, <1>12, <1>13, <1>14 DEF Moves
<1>16. ASSUME Alone(c) PROVE Tracks(c)'
    <2> DEFINE m == call[t].pos - 1
    <2>1. Alone(call[t]) /\ Tracks(call[t])
        BY <1>1, <1>12, <1>16 DEF RInv, Alone
    <2>2. /\ userCount < MaxUsers /\ userCount = Counted(file, m) /\ Mirrored(m)
          /\ c.req.kind = "signup" => c.req.name # Admin
          /\ ~ c.wrote
        BY <1>1, <1>12, <2>1 DEF Tracks
    <2>3. m \in Nat /\ m + 1 = c.pos /\ c.pos \in 1 .. Len(file) /\ MaxUsers \in Nat /\ userCount \in Nat
        <3>1. MaxUsers \in Nat /\ userCount \in Nat
            BY RegistrationAssumption DEF RInv, Typed
        <3> QED
            BY <1>2, <1>12, <3>1
    <2> HIDE DEF m
    <2>4. Counted(file, c.pos) = IF Complete(l) THEN userCount + 1 ELSE userCount
        BY <1>3, <1>12, <2>2, <2>3, CountNext
    <2>5. \A k \in 1 .. m : /\ Counted(file, k) \in Nat /\ Counted(file, k) <= userCount
                            /\ Complete(file[k]) => Counted(file, k) > 0
        <3>1. Counted(file, 0) = 0
            BY CountNext
        <3>2. \A k \in 1 .. m : k \in Nat /\ 0 < k /\ k <= m
            BY <2>3
        <3>3. \A k \in 1 .. m : /\ Counted(file, k) \in Nat
                                /\ Counted(file, k) <= Counted(file, m)
            BY <2>3, <3>2, Counting
        <3>4. \A k \in 1 .. m : Complete(file[k]) => Counted(file, 0) < Counted(file, k)
            BY <3>2, Counting
        <3> QED
            BY <2>2, <3>1, <3>3, <3>4
    <2>6. \A k \in 1 .. m : Complete(file[k]) => users'[Counted(file, k) - 1] = Read(file[k])
        <3> SUFFICES ASSUME NEW k \in 1 .. m, Complete(file[k])
                     PROVE  users'[Counted(file, k) - 1] = Read(file[k])
            OBVIOUS
        <3>1. Counted(file, k) - 1 \in Index /\ Counted(file, k) - 1 # userCount
            BY <2>2, <2>3, <2>5 DEF Index
        <3>2. users[Counted(file, k) - 1] = Read(file[k])
            BY <2>2 DEF Mirrored
        <3> QED
            BY <1>8, <3>1, <3>2
    <2>7. \A k \in 1 .. c.pos : Complete(file[k]) => users'[Counted(file, k) - 1] = Read(file[k])
        <3> SUFFICES ASSUME NEW k \in 1 .. c.pos, Complete(file[k])
                     PROVE  users'[Counted(file, k) - 1] = Read(file[k])
            OBVIOUS
        <3>1. CASE k = c.pos
            <4>1. Complete(l) /\ Counted(file, k) - 1 = userCount
                BY <1>3, <1>12, <2>3, <2>4, <3>1
            <4> QED
                BY <1>3, <1>6, <1>8, <1>12, <3>1, <4>1
        <3>2. CASE k # c.pos
            <4>1. k \in 1 .. m
                BY <2>3, <3>2
            <4> QED
                BY <2>6, <4>1
        <3> QED
            BY <3>1, <3>2
    <2>8. \A j \in 0 .. Counted(file, c.pos) - 1 :
             \E k \in 1 .. c.pos : Complete(file[k]) /\ Counted(file, k) = j + 1
        <3> SUFFICES ASSUME NEW j \in 0 .. Counted(file, c.pos) - 1
                     PROVE  \E k \in 1 .. c.pos : Complete(file[k]) /\ Counted(file, k) = j + 1
            OBVIOUS
        <3>1. CASE j = userCount
            <4>1. Complete(l) /\ Counted(file, c.pos) = j + 1 /\ c.pos \in 1 .. c.pos
                BY <2>3, <2>4, <3>1
            <4> QED
                BY <1>3, <1>12, <4>1
        <3>2. CASE j # userCount
            <4>1. j \in 0 .. Counted(file, m) - 1
                BY <2>2, <2>3, <2>4, <3>2
            <4>2. PICK k \in 1 .. m : Complete(file[k]) /\ Counted(file, k) = j + 1
                BY <2>2, <4>1 DEF Mirrored
            <4> QED
                BY <2>3, <4>2
        <3> QED
            BY <3>1, <3>2
    <2>9. Counted(file, c.pos) <= MaxUsers /\ c.pos \in 0 .. Len(file)
        BY <2>2, <2>3, <2>4
    <2>10. Mirrored(c.pos)'
        BY <1>1, <2>7, <2>8, <2>9 DEF Mirrored
    <2> QED
        BY <1>1, <1>10, <1>12, <2>2, <2>4, <2>10 DEF Tracks
<1>17. /\ file' \in Seq(Line) /\ Len(file') >= Len(file) /\ userCount' \in Nat
       /\ calls' = calls /\ tries' \in Nat /\ tries' >= tries /\ Top' = Top
       /\ \A k \in DOMAIN file' : file'[k].id <= Top'
    BY <1>1, <1>2 DEF RInv, Typed, IdsBounded, Top
<1>18. CleanIsNew'
    BY <1>1 DEF RInv, CleanIsNew
<1>19. c.pos \in 0 .. Len(file') /\ c.entry.id <= Top' /\ c.next_id <= Top' + 1 /\ c.pos # 0
    BY <1>1, <1>2, <1>12, <1>17
<1>20. c.at # "copy"
    BY <1>12
<1> QED
    BY <1>8, <1>9, <1>15, <1>16, <1>17, <1>18, <1>19, <1>20, OwnStep

\* The new account becomes an entry, at the count of the moment.
LEMMA CacheEntryKeeps ==
    ASSUME RInv, NEW t \in Thread, CacheEntry(t)
    PROVE  RInv'
<1>1. /\ call[t].at = "cacheFill" /\ userCount \in Index
      /\ UNCHANGED <<file, userCount, calls, tries, clean>>
      /\ users' = [users EXCEPT ![userCount] = call[t].entry]
    BY DEF CacheEntry, At
<1>2. /\ call[t] \in CallRecord /\ call[t].pos \in 0 .. Len(file) /\ Len(file) \in Nat
      /\ call[t].entry.id <= Top /\ call[t].next_id <= Top + 1 /\ Top \in Nat
    BY CallType
<1>3. /\ users' \in [Index -> Account]
      /\ \A k \in Index : users'[k].id <= Top'
    BY <1>1, <1>2 DEF RInv, Typed, IdsBounded, CallRecord, Top
<1>4. PICK c : c = [call[t] EXCEPT !.at = "cacheBump", !.seen = userCount]
    OBVIOUS
<1>5. /\ c.at = "cacheBump" /\ c.req = call[t].req /\ c.pos = call[t].pos
      /\ c.entry = call[t].entry /\ c.next_id = call[t].next_id /\ c.lone = call[t].lone
      /\ c.wrote = call[t].wrote
    BY <1>2, <1>4 DEF CallRecord
<1>6. c \in CallRecord
    <2>1. "cacheBump" \in Step
        BY DEF Step
    <2> HIDE DEF Step
    <2> QED
        BY <1>1, <1>2, <1>4, <2>1 DEF CallRecord
<1>7. call' = [call EXCEPT ![t] = c]
    BY <1>4 DEF CacheEntry
<1>8. Moves(t, c)
    BY <1>1, <1>5, <1>6, <1>7 DEF Moves
<1>9. ASSUME Alone(c) PROVE Tracks(c)'
    <2>1. Alone(call[t]) /\ Tracks(call[t])
        BY <1>1, <1>5, <1>9 DEF RInv, Alone
    <2>2. c.req.kind = "signup" /\ c.req.name # Admin /\ NameWasFree(c)
        BY <1>1, <1>5, <2>1 DEF Tracks, NameWasFree, Others
    <2>3. NameWasFree(c)'
        BY <1>1, <2>2 DEF NameWasFree, Others
    <2> QED
        BY <1>5, <2>2, <2>3 DEF Tracks
<1>10. /\ file' \in Seq(Line) /\ Len(file') >= Len(file) /\ userCount' \in Nat
       /\ calls' = calls /\ tries' \in Nat /\ tries' >= tries /\ Top' = Top
       /\ \A k \in DOMAIN file' : file'[k].id <= Top'
    BY <1>1, <1>2 DEF RInv, Typed, IdsBounded, Top
<1>11. CleanIsNew'
    BY <1>1 DEF RInv, CleanIsNew
<1>12. /\ c.pos \in 0 .. Len(file') /\ c.entry.id <= Top' /\ c.next_id <= Top' + 1
       /\ c.at # "copy" /\ c.at # "parse"
    BY <1>1, <1>2, <1>5, <1>10
<1> QED
    BY <1>3, <1>8, <1>9, <1>10, <1>11, <1>12, OwnStep

\* The count goes up; alone, by one.
LEMMA BumpKeeps ==
    ASSUME RInv, NEW t \in Thread, Bump(t)
    PROVE  RInv'
<1>1. /\ UNCHANGED <<file, users, calls, tries, clean>>
      /\ userCount' \in {userCount + 1, call[t].seen + 1}
    BY DEF Bump
<1>2. /\ call[t] \in CallRecord /\ userCount \in Nat /\ MaxUsers \in Nat /\ call[t].seen \in Index
      /\ call[t].pos \in 0 .. Len(file) /\ Len(file) \in Nat
    BY CallType DEF RInv, Typed, CallRecord
<1>3. userCount' \in Nat
    BY <1>1, <1>2 DEF Index
<1>4. CASE At(t, "bump") /\ Go(t, "read")
    <2>1. PICK c : Moves(t, c) /\ Agrees(c, call[t]) /\ c.at = "read"
        BY <1>4, Goes DEF At, Step
    <2>2. ASSUME Alone(c) PROVE Tracks(c)'
        <3>1. /\ userCount + 1 = Counted(file, c.pos) /\ call[t].seen = userCount
              /\ Mirrored(c.pos) /\ ~ c.wrote
              /\ c.req.kind = "signup" => c.req.name # Admin
            BY <1>4, <2>1, <2>2 DEF RInv, Tracks, Agrees, Alone, At
        <3>2. userCount' = Counted(file, c.pos)'
            BY <1>1, <1>2, <2>1, <3>1 DEF Agrees
        <3>3. Mirrored(c.pos)'
            BY <1>1, <3>1 DEF Mirrored
        <3> QED
            BY <2>1, <3>1, <3>2, <3>3 DEF Tracks
    <2> QED
        BY <1>1, <1>3, <2>1, <2>2, CallType, QuietStep DEF Agrees
<1>5. CASE At(t, "cacheBump") /\ Return(t, "ok")
    <2>1. PICK c : Moves(t, c) /\ Agrees(c, call[t]) /\ c.at = "done" /\ c.result = "ok"
        BY <1>5, Returns DEF At, Outcome
    <2>2. ASSUME Alone(c) PROVE Tracks(c)'
        <3>1. c.req.kind = "signup" /\ NameWasFree(c) /\ c.req.name # Admin
            BY <1>5, <2>1, <2>2 DEF RInv, Tracks, Agrees, Alone, At, NameWasFree, Others
        <3>2. RightAnswer(c)'
            BY <1>1, <2>1, <3>1 DEF RightAnswer, NameWasFree, Others
        <3> QED
            BY <2>1, <3>2 DEF Tracks
    <2> QED
        BY <1>1, <1>3, <2>1, <2>2, CallType, QuietStep DEF Agrees
<1> QED
    BY <1>4, <1>5 DEF Bump

\* An entry is compared with the request.
LEMMA CompareKeeps ==
    ASSUME RInv, NEW t \in Thread, Compare(t)
    PROVE  RInv'
<1>1. /\ call[t].at = "search" /\ call[t].i < userCount /\ call[t].i \in Index
      /\ UNCHANGED <<file, users, userCount, calls, tries, clean>>
    BY DEF Compare, At, More
<1>2. /\ call[t] \in CallRecord /\ call[t].pos \in 0 .. Len(file) /\ Len(file) \in Nat
      /\ call[t].entry.id <= Top /\ call[t].next_id <= Top + 1 /\ Top \in Nat
      /\ userCount \in Nat /\ call[t].i \in Nat
    BY CallType DEF RInv, Typed, CallRecord
<1>3. Alone(call[t]) =>
         /\ call[t].req.kind = "signup" => call[t].req.name # Admin
         /\ AllRead(call[t].pos) /\ NoMatch(call[t].req, call[t].i) /\ ~ call[t].wrote
    BY <1>1 DEF RInv, Tracks
<1>4. CASE ~ Matches(call[t].req, users[call[t].i])
    <2>1. PICK c : c = [call[t] EXCEPT !.i = @ + 1]
        OBVIOUS
    <2>2. /\ c.at = "search" /\ c.i = call[t].i + 1 /\ c.pos = call[t].pos
          /\ c.entry = call[t].entry /\ c.req = call[t].req /\ c.lone = call[t].lone
          /\ c.next_id = call[t].next_id /\ c.wrote = call[t].wrote
        BY <1>1, <1>2, <2>1 DEF CallRecord
    <2>3. c \in CallRecord
        <3>1. call[t].i + 1 \in Nat
            BY <1>2
        <3> HIDE DEF Step
        <3> QED
            BY <1>2, <2>1, <3>1 DEF CallRecord
    <2>4. call' = [call EXCEPT ![t] = c]
        BY <1>4, <2>1 DEF Compare
    <2>5. Moves(t, c)
        BY <1>1, <2>2, <2>3, <2>4 DEF Moves
    <2>6. ASSUME Alone(c) PROVE Tracks(c)
        <3>1. Alone(call[t])
            BY <1>1, <2>2, <2>6 DEF Alone
        <3>2. NoMatch(c.req, c.i) /\ c.i \in 0 .. userCount
            BY <1>1, <1>2, <1>3, <1>4, <2>2, <3>1 DEF NoMatch
        <3> QED
            BY <1>3, <2>2, <3>1, <3>2 DEF Tracks
    <2> QED
        BY <1>1, <1>2, <2>2, <2>5, <2>6, StillStep
<1>5. CASE Matches(call[t].req, users[call[t].i]) /\ SignsUp(t)
    <2>1. Return(t, "exists")
        BY <1>5 DEF Compare
    <2>2. PICK c : Moves(t, c) /\ Agrees(c, call[t]) /\ c.at = "done" /\ c.result = "exists"
        BY <1>1, <2>1, Returns DEF Outcome
    <2>3. ASSUME Alone(c) PROVE Tracks(c)
        <3>1. AllRead(call[t].pos) /\ ~ c.wrote
            BY <1>1, <1>3, <2>2, <2>3 DEF Alone, Agrees
        <3>2. call[t].i \in 0 .. userCount - 1
            BY <1>1, <1>2
        <3>3. PICK k \in Loaded(file, Len(file)) : users[call[t].i] = Read(file[k])
            BY <3>1, <3>2, ArrayIsFile
        <3>5. SameAccount(c.req, Read(file[k])) /\ c.req.kind = "signup"
            BY <1>5, <2>2, <3>3 DEF Matches, SignsUp, Agrees
        <3>4. RightAnswer(c)
            BY <2>2, <3>1, <3>3, <3>5 DEF RightAnswer, Others
        <3> QED
            BY <2>2, <3>4 DEF Tracks
    <2> QED
        BY <1>1, <1>2, <2>2, <2>3, StillStep DEF Agrees
<1>6. CASE Matches(call[t].req, users[call[t].i]) /\ ~ SignsUp(t)
    <2>1. Go(t, "copy")
        BY <1>6 DEF Compare
    <2>2. PICK c : Moves(t, c) /\ Agrees(c, call[t]) /\ c.at = "copy"
        BY <1>1, <2>1, Goes DEF Step
    <2>3. ASSUME Alone(c) PROVE Tracks(c)
        <3>1. AllRead(c.pos) /\ NoMatch(c.req, c.i) /\ ~ c.wrote
            BY <1>1, <1>3, <2>2, <2>3 DEF Alone, Agrees
        <3>2. Matches(c.req, users[c.i]) /\ c.req.kind # "signup" /\ c.i \in 0 .. userCount - 1
            BY <1>1, <1>2, <1>6, <2>2 DEF SignsUp, Agrees
        <3> QED
            BY <2>2, <3>1, <3>2 DEF Tracks
    <2> QED
        BY <1>1, <1>2, <2>2, <2>3, StillStep DEF Agrees
<1> QED
    BY <1>4, <1>5, <1>6

\* The entry that matched is copied.
LEMMA CopyUserKeeps ==
    ASSUME RInv, NEW t \in Thread, CopyUser(t)
    PROVE  RInv'
<1>1. call[t].at = "copy" /\ UNCHANGED <<file, users, userCount, calls, tries, clean>>
    BY DEF CopyUser, At
<1>2. /\ call[t] \in CallRecord /\ call[t].pos \in 0 .. Len(file) /\ Len(file) \in Nat
      /\ call[t].next_id <= Top + 1 /\ call[t].i \in Index
    BY <1>1, CallType
<1>3. PICK a \in Account : a = users[call[t].i] /\ a.id <= Top
    BY <1>2 DEF RInv, Typed, IdsBounded
<1>4. PICK c : c = [call[t] EXCEPT !.at = "done", !.result = "ok", !.entry = a]
    OBVIOUS
<1>5. /\ c.at = "done" /\ c.result = "ok" /\ c.entry = a /\ c.req = call[t].req
      /\ c.pos = call[t].pos /\ c.lone = call[t].lone /\ c.next_id = call[t].next_id
      /\ c.wrote = call[t].wrote
    BY <1>2, <1>4 DEF CallRecord
<1>6. c \in CallRecord
    <2>1. "done" \in Step /\ "ok" \in Outcome
        BY DEF Step, Outcome
    <2> HIDE DEF Step
    <2> QED
        BY <1>2, <1>4, <2>1 DEF CallRecord
<1>7. call' = [call EXCEPT ![t] = c]
    BY <1>3, <1>4 DEF CopyUser
<1>8. Moves(t, c)
    BY <1>1, <1>5, <1>6, <1>7 DEF Moves
<1>9. ASSUME Alone(c) PROVE Tracks(c)
    <2>1. /\ AllRead(call[t].pos) /\ call[t].req.kind # "signup" /\ call[t].i \in 0 .. userCount - 1
          /\ NoMatch(call[t].req, call[t].i) /\ Matches(call[t].req, users[call[t].i])
        BY <1>1, <1>5, <1>9 DEF RInv, Tracks, Alone
    <2>2. call[t].req.kind = "signin"
        BY <1>2, <2>1 DEF CallRecord, Request
    <2> DEFINE hits == {m \in Loaded(file, Len(file)) : SameLogin(c.req, Read(file[m]))}
    <2>3. PICK k \in Loaded(file, Len(file)) :
             Counted(file, k) = call[t].i + 1 /\ users[call[t].i] = Read(file[k])
        BY <2>1, ArrayIsFile
    <2>4. k \in hits /\ c.entry = Read(file[k])
        BY <1>3, <1>5, <2>1, <2>2, <2>3 DEF Matches
    <2>5. ASSUME NEW j \in hits PROVE k <= j
        <3>1. /\ Counted(file, j) - 1 \in 0 .. userCount - 1
              /\ users[Counted(file, j) - 1] = Read(file[j])
            BY <2>1, ArrayIsFile
        <3>2. Matches(call[t].req, users[Counted(file, j) - 1])
            BY <1>5, <2>2, <3>1 DEF Matches
        <3>3. Counted(file, j) - 1 \notin 0 .. call[t].i - 1
            BY <2>1, <3>2 DEF NoMatch
        <3>4. /\ call[t].i \in Nat /\ j \in Nat /\ k \in Nat /\ Complete(file[k])
              /\ Counted(file, j) \in Nat
            BY <1>2, <2>1, Counting DEF Index, Loaded
        <3>5. j < k => Counted(file, j) < Counted(file, k)
            BY <3>4, Counting
        <3>6. ~ (Counted(file, j) < call[t].i + 1)
            BY <3>1, <3>3, <3>4
        <3> QED
            BY <2>3, <3>4, <3>5, <3>6
    <2>6. RightAnswer(c)
        <3>1. hits # {} /\ \E m \in hits : (\A j \in hits : m <= j) /\ c.entry = Read(file[m])
            BY <2>4, <2>5
        <3> QED
            BY <1>5, <2>1, <3>1 DEF RightAnswer
    <2> QED
        BY <1>5, <2>6 DEF Tracks
<1> QED
    BY <1>1, <1>2, <1>3, <1>5, <1>8, <1>9, StillStep

\* The search has passed every entry.
LEMMA NotFoundKeeps ==
    ASSUME RInv, NEW t \in Thread, NotFound(t)
    PROVE  RInv'
<1>1. /\ call[t].at = "search" /\ ~ (call[t].i < userCount)
      /\ UNCHANGED <<file, users, userCount, calls, tries, clean>>
    BY DEF NotFound, At, More
<1>2. /\ call[t] \in CallRecord /\ call[t].pos \in 0 .. Len(file) /\ Len(file) \in Nat
      /\ call[t].entry.id <= Top /\ call[t].next_id <= Top + 1 /\ Top \in Nat
      /\ userCount \in Nat /\ call[t].i \in Nat
    BY CallType DEF RInv, Typed, CallRecord
<1>3. Alone(call[t]) =>
         /\ call[t].req.kind = "signup" => call[t].req.name # Admin
         /\ AllRead(call[t].pos) /\ NoMatch(call[t].req, userCount) /\ ~ call[t].wrote
    <2>1. Alone(call[t]) => call[t].i = userCount
        BY <1>1, <1>2 DEF RInv, Tracks
    <2> QED
        BY <1>1, <2>1 DEF RInv, Tracks
<1>4. CASE SignsUp(t)
    <2>1. PICK c : c = [call[t] EXCEPT !.at = "ids", !.i = 0, !.next_id = 1]
        OBVIOUS
    <2>2. /\ c.at = "ids" /\ c.i = 0 /\ c.next_id = 1 /\ c.pos = call[t].pos
          /\ c.entry = call[t].entry /\ c.req = call[t].req /\ c.lone = call[t].lone
          /\ c.wrote = call[t].wrote
        BY <1>2, <2>1 DEF CallRecord
    <2>3. c \in CallRecord
        <3>1. "ids" \in Step
            BY DEF Step
        <3> HIDE DEF Step
        <3> QED
            BY <1>2, <2>1, <3>1 DEF CallRecord
    <2>4. call' = [call EXCEPT ![t] = c]
        BY <1>4, <2>1 DEF NotFound
    <2>5. Moves(t, c)
        BY <1>1, <2>2, <2>3, <2>4 DEF Moves
    <2>6. ASSUME Alone(c) PROVE Tracks(c)
        <3>1. /\ AllRead(c.pos) /\ NoMatch(c.req, userCount)
              /\ c.req.kind = "signup" /\ c.req.name # Admin /\ ~ c.wrote
            BY <1>1, <1>3, <1>4, <2>2, <2>6 DEF Alone, SignsUp
        <3>2. c.i \in 0 .. userCount /\ IdsBelow(c, c.i)
            BY <1>2, <2>2 DEF IdsBelow
        <3> QED
            BY <2>2, <3>1, <3>2 DEF Tracks
    <2> QED
        BY <1>1, <1>2, <2>2, <2>5, <2>6, StillStep
<1>5. CASE ~ SignsUp(t)
    <2>1. Return(t, "denied")
        BY <1>5 DEF NotFound
    <2>2. PICK c : Moves(t, c) /\ Agrees(c, call[t]) /\ c.at = "done" /\ c.result = "denied"
        BY <1>1, <2>1, Returns DEF Outcome
    <2>3. ASSUME Alone(c) PROVE Tracks(c)
        <3>1. AllRead(c.pos) /\ NoMatch(c.req, userCount)
            BY <1>1, <1>3, <2>2, <2>3 DEF Alone, Agrees
        <3>2. c.req.kind = "signin"
            BY <1>2, <1>5, <2>2 DEF CallRecord, Request, SignsUp, Agrees
        <3>3. ASSUME NEW k \in Loaded(file, Len(file)), SameLogin(c.req, Read(file[k])) PROVE FALSE
            <4>1. /\ Counted(file, k) - 1 \in 0 .. userCount - 1
                  /\ users[Counted(file, k) - 1] = Read(file[k])
                BY <3>1, ArrayIsFile
            <4> QED
                BY <3>1, <3>2, <3>3, <4>1 DEF NoMatch, Matches
        <3>4. RightAnswer(c)
            BY <2>2, <3>2, <3>3 DEF RightAnswer
        <3> QED
            BY <2>2, <3>4 DEF Tracks
    <2> QED
        BY <1>1, <1>2, <2>2, <2>3, StillStep DEF Agrees
<1> QED
    BY <1>4, <1>5

\* The search for a free id passes an entry, or ends.
LEMMA NextIdKeeps ==
    ASSUME RInv, NEW t \in Thread, NextId(t)
    PROVE  RInv'
<1>1. call[t].at = "ids" /\ UNCHANGED <<file, users, userCount, calls, tries, clean>>
    BY DEF NextId, At
<1>2. /\ call[t] \in CallRecord /\ call[t].pos \in 0 .. Len(file) /\ Len(file) \in Nat
      /\ call[t].entry.id <= Top /\ call[t].next_id <= Top + 1 /\ Top \in Nat
      /\ userCount \in Nat /\ call[t].i \in Nat /\ call[t].next_id \in Nat
    BY CallType DEF RInv, Typed, CallRecord
<1>3. Alone(call[t]) =>
         /\ call[t].req.name # Admin /\ call[t].req.kind = "signup" /\ AllRead(call[t].pos)
         /\ ~ call[t].wrote
         /\ NoMatch(call[t].req, userCount) /\ call[t].i \in 0 .. userCount
         /\ IdsBelow(call[t], call[t].i)
    BY <1>1 DEF RInv, Tracks
<1>4. ASSUME More(t), call[t].i \in Index,
             call' = [call EXCEPT ![t].i = @ + 1,
                                  ![t].next_id = IdAfter(@, users[call[t].i])]
      PROVE  RInv'
    <2>1. PICK n : n = IdAfter(call[t].next_id, users[call[t].i])
        OBVIOUS
    <2>2. users[call[t].i].id \in Nat /\ users[call[t].i].id <= Top
        BY <1>4 DEF RInv, Typed, IdsBounded, Account
    <2>3. /\ n \in Nat /\ n <= Top + 1 /\ users[call[t].i].id < n
          /\ n >= call[t].next_id
        <3>1. PICK x \in Nat : x = call[t].next_id /\ x <= Top + 1
            BY <1>2
        <3>2. PICK y \in Nat : y = users[call[t].i].id /\ y <= Top
            BY <2>2
        <3>3. n = IF y >= x THEN y + 1 ELSE x
            BY <2>1, <3>1, <3>2 DEF IdAfter
        <3>4. PICK z \in Nat : z = Top
            BY <1>2
        <3>5. x <= z + 1 /\ y <= z
            BY <3>1, <3>2, <3>4
        <3>6. n \in Nat /\ n <= z + 1 /\ y < n /\ n >= x
            <4>1. CASE y >= x
                BY <3>3, <3>5, <4>1
            <4>2. CASE ~ (y >= x)
                BY <3>3, <3>5, <4>2
            <4> QED
                BY <4>1, <4>2
        <3> QED
            BY <3>1, <3>2, <3>4, <3>6
    <2>4. PICK c : c = [call[t] EXCEPT !.i = @ + 1, !.next_id = n]
        OBVIOUS
    <2>5. /\ c.at = "ids" /\ c.i = call[t].i + 1 /\ c.next_id = n /\ c.pos = call[t].pos
          /\ c.entry = call[t].entry /\ c.req = call[t].req /\ c.lone = call[t].lone
          /\ c.wrote = call[t].wrote
        BY <1>1, <1>2, <2>4 DEF CallRecord
    <2>6. c \in CallRecord
        <3>1. n \in Nat /\ call[t].i + 1 \in Nat
            BY <1>2, <2>3
        <3> QED
            BY <1>2, <2>4, <3>1 DEF CallRecord
    <2>7. call' = [call EXCEPT ![t] = c]
        BY <1>4, <2>1, <2>4
    <2>8. Moves(t, c)
        BY <1>1, <2>5, <2>6, <2>7 DEF Moves
    <2>9. ASSUME Alone(c) PROVE Tracks(c)
        <3>1. Alone(call[t])
            BY <1>1, <2>5, <2>9 DEF Alone
        <3>2. c.i \in 0 .. userCount
            BY <1>2, <1>4, <2>5 DEF More
        <3>3. AllRead(c.pos) /\ IdsBelow(call[t], call[t].i)
            BY <1>3, <2>5, <3>1
        <3>4. ASSUME NEW k \in 0 .. c.i - 1 PROVE users[k].id < c.next_id
            <4>1. k \in Index
                BY <1>2, <3>2, <3>3, CallType DEF AllRead, Mirrored, Index
            <4>4. users[k].id \in Nat
                BY <4>1 DEF RInv, Typed, Account
            <4>2. CASE k = call[t].i
                BY <2>3, <2>5, <4>2
            <4>3. CASE k # call[t].i
                <5>1. k \in 0 .. call[t].i - 1
                    BY <1>2, <2>5, <4>3
                <5>2. users[k].id < call[t].next_id
                    BY <3>3, <5>1 DEF IdsBelow
                <5> QED
                    BY <1>2, <2>3, <2>5, <4>4, <5>2
            <4> QED
                BY <4>2, <4>3
        <3>5. IdsBelow(c, c.i)
            BY <3>4 DEF IdsBelow
        <3> QED
            BY <1>3, <2>5, <3>1, <3>2, <3>5 DEF Tracks
    <2> QED
        BY <1>1, <1>2, <2>3, <2>5, <2>8, <2>9, StillStep
<1>5. ASSUME ~ More(t), Go(t, "append")
      PROVE  RInv'
    <2>1. PICK c : Moves(t, c) /\ Agrees(c, call[t]) /\ c.at = "append"
        BY <1>1, <1>5, Goes DEF Step
    <2>2. ASSUME Alone(c) PROVE Tracks(c)
        <3>1. Alone(call[t])
            BY <1>1, <2>1, <2>2 DEF Alone, Agrees
        <3>2. call[t].i = userCount
            BY <1>2, <1>3, <1>5, <3>1 DEF More
        <3>3. IdsBelow(c, userCount)
            BY <1>3, <2>1, <3>1, <3>2 DEF IdsBelow, Agrees
        <3> QED
            BY <1>3, <2>1, <3>1, <3>3 DEF Tracks, Agrees
    <2> QED
        BY <1>1, <1>2, <2>1, <2>2, StillStep DEF Agrees
<1> QED
    BY <1>4, <1>5 DEF NextId

\* There is room for the new entry in the array, or not.
LEMMA CacheKeeps ==
    ASSUME RInv, NEW t \in Thread, Cache(t)
    PROVE  RInv'
<1>1. call[t].at = "cache" /\ UNCHANGED <<file, users, userCount, calls, tries, clean>>
    BY DEF Cache, At
<1>2. Alone(call[t]) => /\ call[t].req.name # Admin /\ call[t].req.kind = "signup"
                        /\ NameWasFree(call[t])
    BY <1>1 DEF RInv, Tracks
<1>3. CASE HasRoom(userCount)
    <2>1. PICK c : Moves(t, c) /\ Agrees(c, call[t]) /\ c.at = "cacheFill"
        BY <1>1, <1>3, Goes DEF Step, Cache
    <2>2. Alone(c) => Tracks(c)
        BY <1>1, <1>2, <1>3, <2>1 DEF Tracks, Agrees, HasRoom, Alone, NameWasFree, Others
    <2> QED
        BY <1>1, <2>1, <2>2, CallType, StillStep DEF Agrees
<1>4. CASE ~ HasRoom(userCount)
    <2>1. PICK c : Moves(t, c) /\ Agrees(c, call[t]) /\ c.at = "done" /\ c.result = "ok"
        BY <1>1, <1>4, Returns DEF Outcome, Cache
    <2>2. ASSUME Alone(c) PROVE Tracks(c)
        <3>1. c.req.kind = "signup" /\ NameWasFree(c) /\ c.req.name # Admin
            BY <1>1, <1>2, <2>1, <2>2 DEF Agrees, Alone, NameWasFree, Others
        <3>2. RightAnswer(c)
            BY <2>1, <3>1 DEF RightAnswer, NameWasFree
        <3> QED
            BY <2>1, <3>2 DEF Tracks
    <2> QED
        BY <1>1, <2>1, <2>2, CallType, StillStep DEF Agrees
<1> QED
    BY <1>3, <1>4

\* A call that is alone and comes to its line has looked at all the lines it
\* can know of: none has its name and role, none its id.
LEMMA NewIsNew ==
    ASSUME RInv, NEW t \in Thread, call[t].at = "append", call[t].lone,
           NEW k \in Loaded(file, Len(file))
    PROVE  /\ k \in 1 .. Len(file) /\ file[k].id < call[t].next_id
           /\ ~ SameAccount(call[t].req, Read(file[k]))
           /\ call[t].req.kind = "signup" /\ call[t].req.name # Admin
<1>1. /\ AllRead(call[t].pos) /\ call[t].req.kind = "signup" /\ call[t].req.name # Admin
      /\ NoMatch(call[t].req, userCount) /\ IdsBelow(call[t], userCount)
    BY DEF RInv, Tracks, Alone
<1>2. /\ k \in 1 .. Len(file) /\ Counted(file, k) - 1 \in 0 .. userCount - 1
      /\ users[Counted(file, k) - 1] = Read(file[k])
    BY <1>1, ArrayIsFile
<1>3. ~ SameAccount(call[t].req, Read(file[k])) /\ Read(file[k]).id < call[t].next_id
    BY <1>1, <1>2 DEF NoMatch, Matches, IdsBelow
<1>4. Read(file[k]).id = file[k].id
    BY DEF Read, Parsed
<1> QED
    BY <1>1, <1>2, <1>3, <1>4

\* The entry for the array is made, and the line is written, or is not.
LEMMA LineIsMade ==
    ASSUME RInv, NEW t \in Thread, NEW w \in BOOLEAN, call[t].at = "append",
           NEW a, a = NewAccount(t),
           call' = [call EXCEPT ![t] = [call[t] EXCEPT !.at = "cache", !.entry = a,
                                                       !.wrote = w]],
           UNCHANGED <<users, userCount, calls>>, tries' = tries + 1,
           file' \in Seq(Line), Len(file') >= Len(file),
           \A k \in DOMAIN file' : file'[k].id <= Top',
           CleanIsNew',
           call[t].lone => Loaded(file', IF w THEN Len(file') - 1 ELSE Len(file'))
                               \subseteq Loaded(file, Len(file)),
           \A k \in 1 .. Len(file) : file'[k] = file[k]
    PROVE  RInv'
<1>1. /\ call[t] \in CallRecord /\ call[t].pos \in 0 .. Len(file) /\ Len(file) \in Nat
      /\ call[t].entry.id <= Top /\ call[t].next_id <= Top + 1 /\ Top \in Nat
      /\ call[t].next_id \in Nat /\ Len(file') \in Nat /\ tries \in Nat
    BY CallType, LenProperties DEF CallRecord, RInv, Typed
<1>2. /\ a \in Account /\ a.id = call[t].next_id
    <2>1. Role \subseteq Int
        BY TextAssumption
    <2> QED
        BY <1>1, <2>1 DEF NewAccount, Account, CallRecord, Request
<1>3. PICK c : c = [call[t] EXCEPT !.at = "cache", !.entry = a, !.wrote = w]
    OBVIOUS
<1>4. /\ c.at = "cache" /\ c.entry = a /\ c.pos = call[t].pos /\ c.req = call[t].req
      /\ c.lone = call[t].lone /\ c.next_id = call[t].next_id /\ c.wrote = w
    BY <1>1, <1>3 DEF CallRecord
<1>5. c \in CallRecord
    <2>1. "cache" \in Step
        BY DEF Step
    <2> HIDE DEF Step
    <2> QED
        BY <1>1, <1>2, <1>3, <2>1 DEF CallRecord
<1>6. call' = [call EXCEPT ![t] = c]
    BY <1>3
<1>7. Moves(t, c)
    BY <1>4, <1>5, <1>6 DEF Moves
<1>8. Top' = Top + 1
    BY <1>1, RegistrationAssumption, LenProperties DEF Top
<1>9. /\ users' \in [Index -> Account]
      /\ \A k \in Index : users'[k].id <= Top'
    BY <1>1, <1>8 DEF RInv, Typed, IdsBounded, Account
<1>10. ASSUME Alone(c) PROVE Tracks(c)'
    <2>1. c.req.kind = "signup" /\ c.req.name # Admin
        BY <1>4, <1>10 DEF RInv, Tracks, Alone
    <2>2. ASSUME NEW k \in Loaded(file', IF w THEN Len(file') - 1 ELSE Len(file'))
          PROVE  ~ SameAccount(c.req, Read(file'[k]))
        <3>1. k \in Loaded(file, Len(file))
            BY <1>4, <1>10, <2>2 DEF Alone
        <3> QED
            BY <1>4, <1>10, <3>1, NewIsNew DEF Alone
    <2>3. NameWasFree(c)'
        BY <1>4, <2>2 DEF NameWasFree, Others
    <2> QED
        BY <1>4, <2>1, <2>3 DEF Tracks
<1>11. /\ c.pos \in 0 .. Len(file') /\ c.entry.id <= Top' /\ c.next_id <= Top' + 1
       /\ userCount' \in Nat /\ calls' = calls /\ tries' \in Nat /\ tries' >= tries
       /\ c.at # "copy" /\ c.at # "parse"
    BY <1>1, <1>2, <1>4, <1>8 DEF RInv, Typed
<1> QED
    BY <1>7, <1>9, <1>10, <1>11, OwnStep

\* A line is written, or lost, or the file cannot be opened.
LEMMA AppendLineKeeps ==
    ASSUME RInv, NEW t \in Thread, AppendLine(t)
    PROVE  RInv'
<1>1. call[t].at = "append" /\ UNCHANGED <<users, userCount, calls>>
    BY DEF AppendLine, At
<1>2. /\ call[t] \in CallRecord /\ Len(file) \in Nat /\ Top \in Nat /\ tries \in Nat
      /\ call[t].next_id <= Top + 1 /\ call[t].next_id \in Nat
      /\ file \in Seq(Line) /\ call[t].req \in Request /\ call[t].lone \in BOOLEAN
    BY CallType DEF CallRecord, RInv, Typed
<1>3. ASSUME Return(t, "error"), UNCHANGED <<file, tries, clean>>
      PROVE  RInv'
    <2>1. PICK c : Moves(t, c) /\ Agrees(c, call[t]) /\ c.at = "done" /\ c.result = "error"
        BY <1>1, <1>3, Returns DEF Outcome
    <2>2. Alone(c) => Tracks(c)
        BY <2>1 DEF Tracks, RightAnswer
    <2> QED
        BY <1>1, <1>3, <2>1, <2>2, CallType, StillStep DEF Agrees
<1>4. ASSUME call' = [call EXCEPT ![t].at = "cache", ![t].entry = NewAccount(t)],
             tries' = tries + 1, UNCHANGED <<file, clean>>
      PROVE  RInv'
    <2>1. PICK a : a = NewAccount(t)
        OBVIOUS
    <2>2. PICK w \in BOOLEAN : w = call[t].wrote
        BY <1>2 DEF CallRecord
    <2>3. call' = [call EXCEPT ![t] = [call[t] EXCEPT !.at = "cache", !.entry = a, !.wrote = w]]
        <3>1. [call[t] EXCEPT !.at = "cache", !.entry = a, !.wrote = w]
                  = [call[t] EXCEPT !.at = "cache", !.entry = a]
            BY <1>2, <2>2 DEF CallRecord
        <3> QED
            BY <1>4, <2>1, <3>1
    <2>4. call[t].lone => ~ w
        BY <1>1, <2>2 DEF RInv, Tracks, Alone
    <2>5. /\ file' \in Seq(Line) /\ Len(file') >= Len(file)
          /\ \A k \in DOMAIN file' : file'[k].id <= Top'
        <3>1. Top' = Top + 1
            BY <1>4, <1>2, RegistrationAssumption, LenProperties DEF Top
        <3>2. \A k \in DOMAIN file : file[k].id \in Nat
            BY <1>2, LineId
        <3> QED
            BY <1>2, <1>4, <3>1, <3>2 DEF RInv, IdsBounded
    <2>6. CleanIsNew'
        BY <1>4 DEF RInv, CleanIsNew
    <2> QED
        BY <1>1, <1>4, <2>1, <2>3, <2>4, <2>5, <2>6, LineIsMade
<1>5. ASSUME file' = Append(file, [id |-> call[t].next_id, fields |-> Fields(call[t].req)]),
             clean' = IF call[t].lone
                      THEN clean \cup {[line |-> Len(file) + 1, req |-> call[t].req]}
                      ELSE clean,
             call' = [call EXCEPT ![t].at = "cache", ![t].entry = NewAccount(t),
                                  ![t].wrote = TRUE],
             tries' = tries + 1
      PROVE  RInv'
    <2>1. PICK a : a = NewAccount(t)
        OBVIOUS
    <2>2. call' = [call EXCEPT ![t] = [call[t] EXCEPT !.at = "cache", !.entry = a,
                                                      !.wrote = TRUE]]
        BY <1>5, <2>1
    <2>3. PICK r : r = call[t].req
        OBVIOUS
    <2>4. PICK l : l = [id |-> call[t].next_id, fields |-> Fields(r)]
        OBVIOUS
    <2>5. l \in Line /\ l.id = call[t].next_id /\ l.fields = Fields(r)
        <3>1. Fields(r) \in Seq(Text)
            <4>1. /\ r.name \in Text /\ r.password \in Text /\ r.role \in Role
                BY <1>2, <2>3 DEF Request
            <4>2. /\ Pieces[r.name] \in Seq(Text) /\ Pieces[r.password] \in Seq(Text)
                  /\ Decimal[r.role] \in Text
                BY <4>1, TextAssumption
            <4> QED
                BY <4>2 DEF Fields
        <3> QED
            BY <1>2, <2>4, <3>1 DEF Line
    <2>6. /\ file' \in Seq(Line) /\ Len(file') = Len(file) + 1
          /\ file'[Len(file) + 1] = l /\ \A k \in 1 .. Len(file) : file'[k] = file[k]
          /\ DOMAIN file = 1 .. Len(file) /\ DOMAIN file' = 1 .. Len(file) + 1
        <3>1. file' = Append(file, l)
            BY <1>5, <2>3, <2>4
        <3> QED
            BY <1>2, <2>5, <3>1, AppendProperties, LenProperties
    <2>7. \A k \in DOMAIN file' : file'[k].id <= Top'
        <3>1. Top' = Top + 1
            BY <1>5, <1>2, RegistrationAssumption, LenProperties DEF Top
        <3>2. \A k \in 1 .. Len(file) : file[k].id \in Nat /\ file[k].id <= Top
            BY <1>2, <2>6, LineId DEF RInv, IdsBounded
        <3> QED
            BY <1>2, <2>5, <2>6, <3>1, <3>2
    <2>8. \A n \in 0 .. Len(file) : Loaded(file', n) = Loaded(file, n)
        BY <1>2, <2>6, FirstLines
    <2>9. CleanIsNew'
        <3>1. ASSUME NEW v \in clean'
              PROVE  /\ v.line \in DOMAIN file' /\ v.req \in Request
                     /\ file'[v.line].fields = Fields(v.req)
                     /\ \A k \in Loaded(file', v.line - 1) :
                           /\ file'[k].id # file'[v.line].id
                           /\ ~ SameAccount(v.req, Read(file'[k]))
            <4>1. CASE v \in clean
                <5>1. /\ v.line \in 1 .. Len(file) /\ v.req \in Request
                      /\ file[v.line].fields = Fields(v.req)
                      /\ \A k \in Loaded(file, v.line - 1) :
                            file[k].id # file[v.line].id /\ ~ SameAccount(v.req, Read(file[k]))
                    BY <2>6, <4>1 DEF RInv, CleanIsNew
                <5>2. Loaded(file', v.line - 1) = Loaded(file, v.line - 1)
                    BY <1>2, <2>8, <5>1
                <5>3. \A k \in Loaded(file, v.line - 1) : k \in 1 .. Len(file)
                    BY <1>2, <5>1 DEF Loaded
                <5> QED
                    BY <1>2, <2>6, <5>1, <5>2, <5>3
            <4>2. CASE v \notin clean
                <5>1. call[t].lone /\ v = [line |-> Len(file) + 1, req |-> r]
                    BY <1>5, <2>3, <3>1, <4>2
                <5>2. v.line = Len(file) + 1 /\ v.req = r
                    BY <5>1
                <5>3. Loaded(file', v.line - 1) = Loaded(file, Len(file))
                    BY <1>2, <2>8, <5>2
                <5>4. ASSUME NEW k \in Loaded(file, Len(file))
                      PROVE  /\ file'[k] = file[k] /\ file[k].id # l.id
                             /\ ~ SameAccount(r, Read(file[k]))
                    <6>1. /\ k \in 1 .. Len(file) /\ file[k].id < call[t].next_id
                          /\ ~ SameAccount(r, Read(file[k]))
                        BY <1>1, <2>3, <5>1, NewIsNew
                    <6>2. file[k].id \in Nat
                        BY <1>2, <2>6, <6>1, LineId
                    <6> QED
                        BY <1>2, <2>5, <2>6, <6>1, <6>2
                <5> QED
                    BY <1>2, <2>3, <2>5, <2>6, <5>2, <5>3, <5>4
            <4> QED
                BY <4>1, <4>2
        <3> QED
            BY <3>1 DEF CleanIsNew, SameAccount, Read, Parsed, Loaded, Counted, Complete, Fields
    <2>10. Loaded(file', Len(file') - 1) \subseteq Loaded(file, Len(file))
        BY <1>2, <2>6, <2>8
    <2>11. /\ Len(file') >= Len(file) /\ TRUE \in BOOLEAN
           /\ Loaded(file', IF TRUE THEN Len(file') - 1 ELSE Len(file'))
                  \subseteq Loaded(file, Len(file))
        BY <1>2, <2>6, <2>10
    <2> HIDE DEF Top, CleanIsNew, Loaded
    <2> QED
        BY <1>1, <1>5, <2>1, <2>2, <2>6, <2>7, <2>9, <2>11, LineIsMade
<1> QED
    BY <1>3, <1>4, <1>5 DEF AppendLine

\* The reply is sent.
LEMMA FinishKeeps ==
    ASSUME RInv, NEW t \in Thread, Finish(t)
    PROVE  RInv'
<1>1. /\ call[t].at = "done" /\ UNCHANGED <<file, users, userCount, calls, tries, clean>>
      /\ call' = [call EXCEPT ![t] = Idle]
    BY DEF Finish, At
<1>2. PICK c \in CallRecord : /\ c = Idle /\ c.at = "idle" /\ c.pos = 0 /\ c.next_id = 0
                              /\ c.entry.id = 0
    BY IdleType
<1>3. Moves(t, c)
    BY <1>1, <1>2 DEF Moves
<1> QED
    BY <1>1, <1>2, <1>3, CallType, StillStep DEF Alone

\* A thread that begins a call is alone if nobody else is in one, and then
\* nobody else is alone any more.
LEMMA CallKeeps ==
    ASSUME RInv, NEW t \in Thread, Call(t)
    PROVE  RInv'
<1>1. /\ call[t].at = "idle" /\ UNCHANGED <<file, users, userCount, tries, clean>>
      /\ calls > 0 /\ calls' = calls - 1
    BY DEF Call, At
<1>2. PICK r \in Requests :
          call' = [u \in Thread |->
                     IF u = t
                     THEN [Idle EXCEPT !.at = "check", !.req = r,
                             !.lone = \A v \in Thread \ {t} : At(v, "idle")]
                     ELSE [call[u] EXCEPT !.lone = @ /\ At(u, "idle")]]
    BY DEF Call
<1>3. Len(file) \in Nat /\ r \in Request /\ calls \in 0 .. MaxCalls /\ MaxCalls \in Nat
      /\ Top \in Nat /\ Top' = Top
    BY <1>1, RegistrationAssumption, LenProperties DEF RInv, Typed, Top
<1>4. /\ call'[t] \in CallRecord /\ call'[t].at = "check" /\ call'[t].pos = 0
      /\ call'[t].next_id = 0 /\ call'[t].entry.id = 0 /\ ~ call'[t].wrote
      /\ call'[t].lone => \A v \in Thread \ {t} : At(v, "idle")
    <2>1. PICK lone \in BOOLEAN : lone = \A v \in Thread \ {t} : At(v, "idle")
        OBVIOUS
    <2>2. call'[t] = [Idle EXCEPT !.at = "check", !.req = r, !.lone = lone]
        BY <1>2, <2>1
    <2>3. PICK d \in CallRecord : /\ d = Idle /\ d.pos = 0 /\ d.next_id = 0
                                  /\ d.entry.id = 0 /\ ~ d.wrote
        BY IdleType
    <2>4. "check" \in Step
        BY DEF Step
    <2>5. call'[t] = [d EXCEPT !.at = "check", !.req = r, !.lone = lone]
        BY <2>2, <2>3
    <2>6. /\ call'[t].at = "check" /\ call'[t].lone = lone /\ call'[t].pos = d.pos
          /\ call'[t].next_id = d.next_id /\ call'[t].entry = d.entry
          /\ call'[t].wrote = d.wrote
        BY <2>5 DEF CallRecord
    <2>7. call'[t] \in CallRecord
        <3> HIDE DEF Step
        <3> QED
            BY <1>3, <2>4, <2>5 DEF CallRecord
    <2> QED
        BY <2>1, <2>3, <2>6, <2>7
<1>5. ASSUME NEW v \in Thread, v # t
      PROVE  /\ call'[v] \in CallRecord /\ call'[v].at = call[v].at
             /\ call'[v].pos = call[v].pos /\ call'[v].i = call[v].i
             /\ call'[v].entry = call[v].entry /\ call'[v].next_id = call[v].next_id
             /\ call'[v].lone => call[v].at = "idle"
    <2>1. PICK b \in BOOLEAN : b = (call[v].lone /\ call[v].at = "idle")
        OBVIOUS
    <2>2. call[v] \in CallRecord
        BY CallType
    <2>3. call'[v] = [call[v] EXCEPT !.lone = b]
        BY <1>2, <1>5, <2>1 DEF At
    <2> HIDE DEF Step
    <2>4. call'[v] \in CallRecord
        BY <2>2, <2>3 DEF CallRecord
    <2>5. call'[v].lone = b
        BY <2>2, <2>3 DEF CallRecord
    <2>6. /\ call'[v].at = call[v].at /\ call'[v].pos = call[v].pos /\ call'[v].i = call[v].i
          /\ call'[v].entry = call[v].entry /\ call'[v].next_id = call[v].next_id
        BY <2>2, <2>3 DEF CallRecord
    <2> QED
        BY <2>1, <2>4, <2>5, <2>6
<1>6. call' \in [Thread -> CallRecord]
    <2>1. \A v \in Thread : call'[v] \in CallRecord
        BY <1>4, <1>5
    <2>2. call' = [v \in Thread |-> call'[v]]
        BY <1>2
    <2> QED
        BY <2>1, <2>2
<1>7. \A v \in Thread : ~ At(v, "lost")
    BY <1>1 DEF RInv, LostTogether, At
<1>8. Typed'
    <2>1. calls' \in 0 .. MaxCalls
        BY <1>1, <1>3
    <2>2. ASSUME NEW v \in Thread
          PROVE  /\ call'[v].pos \in 0 .. Len(file)
                 /\ call'[v].at = "copy" => call'[v].i \in Index
                 /\ call'[v].at = "parse" => call'[v].pos # 0
        <3>1. CASE v = t
            BY <1>3, <1>4, <3>1
        <3>2. CASE v # t
            BY <1>5, <3>2, CallType
        <3> QED
            BY <3>1, <3>2
    <2> QED
        BY <1>1, <1>6, <2>1, <2>2 DEF RInv, Typed, At
<1>9. IdsBounded'
    <2>1. ASSUME NEW v \in Thread
          PROVE  call'[v].entry.id <= Top /\ call'[v].next_id <= Top + 1
        <3>1. CASE v = t
            BY <1>3, <1>4, <3>1
        <3>2. CASE v # t
            BY <1>5, <3>2, CallType
        <3> QED
            BY <3>1, <3>2
    <2> QED
        BY <1>1, <1>3, <2>1 DEF RInv, IdsBounded
<1>10. ASSUME NEW v \in Thread, Alone(call'[v])
       PROVE  v = t /\ \A u \in Thread \ {t} : call'[u].at = "idle"
    <2>1. v = t
        BY <1>5, <1>10 DEF Alone
    <2>2. \A u \in Thread \ {t} : At(u, "idle")
        BY <1>4, <1>10, <2>1 DEF Alone
    <2> QED
        BY <1>5, <2>1, <2>2 DEF At
<1>11. OthersIdle'
    BY <1>10 DEF OthersIdle, Alone, At
<1>12. LostTogether'
    BY <1>4, <1>5, <1>7 DEF LostTogether, At
<1>13. CleanIsNew'
    BY <1>1 DEF RInv, CleanIsNew
<1>14. \A v \in Thread : Alone(call'[v]) => Tracks(call[v])'
    <2>1. Tracks(call[t])'
        BY <1>4 DEF Tracks
    <2> QED
        BY <1>10, <2>1
<1> QED
    BY <1>8, <1>9, <1>11, <1>12, <1>13, <1>14 DEF RInv, Alone

\* A call that is alone stays inside the array.
LEMMA BeyondKeeps ==
    ASSUME RInv, NEW t \in Thread, Beyond(t)
    PROVE  RInv'
<1>1. /\ UNCHANGED <<file, users, userCount, calls, tries, clean>>
      /\ call' = [u \in Thread |-> [call[u] EXCEPT !.at = "lost"]]
      /\ \/ call[t].at \in {"parse", "cacheFill"} /\ userCount \notin Index
         \/ call[t].at \in {"search", "ids"} /\ call[t].i < userCount /\ call[t].i \notin Index
    BY DEF Beyond, At, More
<1>2. /\ call[t] \in CallRecord /\ userCount \in Nat /\ call[t].i \in Nat
      /\ MaxUsers \in Nat \ {0} /\ Len(file) \in Nat
    BY CallType DEF RInv, Typed, CallRecord
<1>3. ~ Alone(call[t])
    <2> SUFFICES ASSUME Alone(call[t]) PROVE FALSE
        OBVIOUS
    <2>1. Tracks(call[t])
        BY DEF RInv
    <2>2. call[t].at = "parse" => userCount \in Index
        BY <1>2, <2>1 DEF Tracks, Mirrored, Index
    <2>3. call[t].at = "cacheFill" => userCount \in Index
        BY <1>2, <2>1 DEF Tracks, Index
    <2>4. call[t].at \in {"search", "ids"} => userCount <= MaxUsers
        BY <1>2, <2>1 DEF Tracks, AllRead, Mirrored
    <2> QED
        BY <1>1, <1>2, <2>2, <2>3, <2>4 DEF Index
<1>4. ~ call[t].lone
    BY <1>1, <1>3 DEF Alone
<1>5. ASSUME NEW v \in Thread
      PROVE  /\ call'[v] \in CallRecord /\ call'[v].at = "lost" /\ call'[v].lone = call[v].lone
             /\ call'[v].pos = call[v].pos /\ call'[v].entry = call[v].entry
             /\ call'[v].next_id = call[v].next_id
    <2>1. call[v] \in CallRecord
        BY CallType
    <2>2. call'[v] = [call[v] EXCEPT !.at = "lost"]
        BY <1>1
    <2>3. "lost" \in Step
        BY DEF Step
    <2> HIDE DEF Step
    <2> QED
        BY <2>1, <2>2, <2>3 DEF CallRecord
<1>6. call' \in [Thread -> CallRecord]
    <2>1. call' = [v \in Thread |-> call'[v]]
        BY <1>1
    <2> QED
        BY <1>5, <2>1
<1>7. Typed'
    BY <1>1, <1>5, <1>6 DEF RInv, Typed, At
<1>8. IdsBounded'
    BY <1>1, <1>5 DEF RInv, IdsBounded, Top
<1>9. OthersIdle' /\ LostTogether'
    BY <1>4, <1>5 DEF OthersIdle, LostTogether, Alone, At
<1>10. CleanIsNew'
    BY <1>1 DEF RInv, CleanIsNew
<1> QED
    BY <1>5, <1>7, <1>8, <1>9, <1>10 DEF RInv, Alone

-----------------------------------------------------------------------------
(* The invariant.                                                          *)

\* It holds at first.
LEMMA InitKeeps == Init => RInv
<1> SUFFICES ASSUME Init PROVE RInv
    OBVIOUS
<1>1. PICK c \in CallRecord : /\ c = Idle /\ c.at = "idle" /\ c.pos = 0 /\ c.next_id = 0
                              /\ c.entry.id = 0
    BY IdleType
<1>2. call \in [Thread -> CallRecord] /\ \A t \in Thread : call[t] = c
    BY <1>1 DEF Init
<1>3. PICK a \in Account : a = Nothing /\ a.id = 0
    BY NothingType
<1>4. users \in [Index -> Account] /\ \A k \in Index : users[k].id = 0
    BY <1>3 DEF Init
<1>5. /\ Len(file) \in Nat /\ Top = Len(FirstUsers) /\ DOMAIN file = 1 .. Len(file)
      /\ file = FirstUsers /\ Len(FirstUsers) \in Nat
    BY RegistrationAssumption, LenProperties DEF Init, Top
<1>6. Typed
    BY <1>1, <1>2, <1>4, <1>5, RegistrationAssumption DEF Init, Typed, At
<1>7. IdsBounded
    <2>1. \A k \in DOMAIN file : file[k].id <= Top
        <3>1. \A k \in 1 .. Len(file) : file[k] \in Line /\ file[k].id <= k
            BY <1>5, RegistrationAssumption, ElementOfSeq
        <3> QED
            BY <1>5, <3>1 DEF Line
    <2> QED
        BY <1>1, <1>2, <1>4, <1>5, <2>1 DEF IdsBounded
<1>8. OthersIdle /\ LostTogether /\ CleanIsNew
    BY <1>1, <1>2 DEF Init, OthersIdle, LostTogether, CleanIsNew, Alone, At
<1> QED
    BY <1>1, <1>2, <1>6, <1>7, <1>8 DEF RInv, Alone

\* Every step keeps it.
LEMMA StepKeeps == RInv /\ [Next]_vars => RInv'
<1> SUFFICES ASSUME RInv, [Next]_vars PROVE RInv'
    OBVIOUS
<1>1. CASE UNCHANGED vars
    BY <1>1 DEF vars, RInv, Typed, IdsBounded, Top, OthersIdle, LostTogether, CleanIsNew, Alone,
        At, Tracks, Mirrored, AllRead, NoMatch, IdsBelow, NameWasFree, Others, RightAnswer
<1>2. CASE Next
    <2>1. PICK t \in Thread :
             Call(t) \/ LoadUsers(t) \/ SignIn(t) \/ SignUp(t) \/ Beyond(t) \/ Finish(t)
        BY <1>2 DEF Next
    <2>2. LoadUsers(t) => RInv'
        BY OpenUsersKeeps, ReadLineKeeps, ParseLineKeeps, BumpKeeps DEF LoadUsers
    <2>3. SignIn(t) => RInv'
        BY CompareKeeps, CopyUserKeeps, NotFoundKeeps DEF SignIn
    <2>4. SignUp(t) => RInv'
        BY CheckNameKeeps, NextIdKeeps, AppendLineKeeps, CacheKeeps,
            CacheEntryKeeps DEF SignUp
    <2> QED
        BY <2>1, <2>2, <2>3, <2>4, CallKeeps, BeyondKeeps, FinishKeeps
<1> QED
    BY <1>1, <1>2

\* The invariant holds throughout.
LEMMA Invariance == Spec => []RInv
<1>1. Init => RInv
    BY InitKeeps
<1>2. RInv /\ [Next]_vars => RInv'
    BY StepKeeps
<1> QED
    BY <1>1, <1>2, PTL DEF Spec

-----------------------------------------------------------------------------
(* The theorems.                                                           *)

\* The array, its counter and the lines written stay what they are declared to
\* be, and ids do not run ahead of the lines shipped and the sign-ups since
\* (auth.c:25, auth.c:222-228).
THEOREM AccountsTypeCorrect == Spec => []AccountsTypeOK
<1>1. RInv => AccountsTypeOK
    <2> SUFFICES ASSUME RInv PROVE AccountsTypeOK
        OBVIOUS
    <2>1. \A k \in DOMAIN file : file[k].id <= Len(FirstUsers) + tries
        BY DEF RInv, IdsBounded, Top
    <2>2. \A w \in clean : w.line \in DOMAIN file /\ w.req \in Request
        BY DEF RInv, CleanIsNew
    <2>3. \A t \in Thread : call[t] \in CallRecord /\ call[t].pos \in 0 .. Len(file)
        BY CallType
    <2> QED
        BY <2>1, <2>2, <2>3 DEF RInv, Typed, AccountsTypeOK, CallRecord, Step
<1> QED
    BY <1>1, Invariance, PTL

\* Authentication and registration answer a call that no other overlaps as
\* users.dat is read back, whatever calls before it left in the array and
\* however many lines were lost or do not count (auth.c:77, auth.c:189).
THEOREM AloneAnswers == Spec => []AloneIsRight
<1>1. ASSUME RInv, NEW t \in Thread, At(t, "done"), call[t].lone PROVE RightAnswer(call[t])
    BY <1>1 DEF RInv, Tracks, Alone, At
<1>2. RInv => AloneIsRight
    BY <1>1 DEF AloneIsRight, RightAnswer, Others, SignsUp
<1> QED
    BY <1>2, Invariance, PTL

\* Ids, and names with their roles, are used twice only after calls that
\* overlapped, or past the end of the array, or, names and roles, after a
\* sign-up with a colon (auth.c:207-246).
THEOREM DuplicatesOverlap == Spec => []DuplicatesNeedOverlap
<1>1. ASSUME RInv, NEW w \in clean, NEW k \in Loaded(file, w.line - 1)
      PROVE  /\ file[k].id # file[w.line].id
             /\ Plain(w.req) => ~ SameAccount(Read(file[w.line]), Read(file[k]))
    <2>1. /\ w.line \in DOMAIN file /\ w.req \in Request
          /\ file[w.line].fields = Fields(w.req)
          /\ file[k].id # file[w.line].id /\ ~ SameAccount(w.req, Read(file[k]))
        BY <1>1 DEF RInv, CleanIsNew
    <2>2. file[w.line] \in Line
        BY <1>1, <2>1, LenProperties, ElementOfSeq DEF RInv, Typed
    <2>3. Plain(w.req) => /\ Read(file[w.line]).name = w.req.name
                          /\ Read(file[w.line]).role = w.req.role
        BY <2>1, <2>2, WrittenIsRead
    <2> QED
        BY <2>1, <2>3 DEF SameAccount
<1>2. RInv => DuplicatesNeedOverlap
    BY <1>1 DEF DuplicatesNeedOverlap
<1> QED
    BY <1>2, Invariance, PTL

\* No call that is alone leaves the array (auth.c:46-65, auth.c:253-261).
THEOREM OverrunsOverlap == Spec => []OverrunNeedsOverlap
<1>1. RInv => OverrunNeedsOverlap
    BY DEF RInv, LostTogether, OverrunNeedsOverlap
<1> QED
    BY <1>1, Invariance, PTL
=============================================================================
