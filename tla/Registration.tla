----------------------------- MODULE Registration -----------------------------
(***************************************************************************)
(* Signing in and signing up.  Every call reads users.dat into one array   *)
(* that all client threads share, with its counter, and no mutex; a        *)
(* sign-up then appends a line to the file and an entry to the array.      *)
(*                                                                         *)
(* A line is the id, the name, the password and the role with ':' between  *)
(* them, and is read back as what strtok_r finds between the colons: a     *)
(* name or password that has a colon of its own is read as several fields, *)
(* and one of colons only as none.                                         *)
(*                                                                         *)
(* Steps are one line or one entry.  Threads that meet inside an entry can *)
(* mix its fields, too; nothing is said about the results of calls that    *)
(* overlap.  An access past the end of the array is undefined: the model   *)
(* says when it happens and stops there.                                   *)
(***************************************************************************)
EXTENDS Integers, Sequences, FiniteSets

CONSTANTS
    Thread,         \* client threads
    Text,           \* what names, passwords and fields of a line are
    Pieces,         \* of a text: the texts between its colons, empty ones left out
    atoi,           \* of a text: the number it begins with, or 0
    Role,           \* the roles a client asks for
    Decimal,        \* of a role: what "%d" makes of it
    Empty,          \* the empty text
    Admin,          \* the name nobody can register
    Requests,       \* the requests clients make
    FirstUsers,     \* users.dat as it is shipped
    MaxUsers,       \* MAX_USERS
    MaxCalls        \* bound: calls in a behaviour

\* An id is printed without a colon and comes first: it is read back as it is.
Line    == [id: Nat, fields: Seq(Text)]
Account == [id: Nat, name: Text, password: Text, role: Int]
Request == [kind: {"signin", "signup"}, name: Text, password: Text, role: Role]

ASSUME TextAssumption ==
    /\ Pieces \in [Text -> Seq(Text)] /\ atoi \in [Text -> Int]
    /\ \A s \in Text : \A k \in DOMAIN Pieces[s] : Pieces[Pieces[s][k]] = <<Pieces[s][k]>>
    /\ Role \subseteq Int /\ Decimal \in [Role -> Text]
    /\ \A r \in Role : Pieces[Decimal[r]] = <<Decimal[r]>> /\ atoi[Decimal[r]] = r
    /\ Empty \in Text /\ Pieces[Empty] = <<>>

ASSUME RegistrationAssumption ==
    /\ IsFiniteSet(Thread) /\ Thread # {}
    /\ Requests \subseteq Request /\ Requests # {}
    /\ FirstUsers \in Seq(Line) /\ \A k \in DOMAIN FirstUsers : FirstUsers[k].id <= k
    /\ MaxUsers \in Nat \ {0} /\ MaxCalls \in Nat

VARIABLES
    file,       \* users.dat
    users,      \* the array, numbered from 0
    userCount,  \* user_count
    call,       \* of each thread: where it is (at), its request (req), the lines
                \* read (pos), the entry for the array (entry), user_count when it
                \* was put there (seen), i, next_id, what is returned (result),
                \* whether no other call was under way since it began (lone) and
                \* whether its line is in the file (wrote)
    calls,      \* calls still to come
    tries,      \* sign-ups that came as far as their line (history)
    clean       \* lines written by calls that were alone, and for whom (history)

vars == <<file, users, userCount, call, calls, tries, clean>>

Index   == 0 .. MaxUsers - 1
Nothing == [id |-> 0, name |-> Empty, password |-> Empty, role |-> 0]
Outcome == {"none", "error", "exists", "denied", "ok"}
Idle    == [at |-> "idle", req |-> CHOOSE r \in Requests : TRUE, pos |-> 0,
            entry |-> Nothing, seen |-> 0, i |-> 0, next_id |-> 0,
            result |-> "none", lone |-> TRUE, wrote |-> FALSE]

At(t, step) == call[t].at = step
Go(t, step) == call' = [call EXCEPT ![t].at = step]
Return(t, r) == call' = [call EXCEPT ![t].at = "done", ![t].result = r]
SignsUp(t)  == call[t].req.kind = "signup"

-----------------------------------------------------------------------------
\* The client's first message, LOGIN or SIGNUP.
Call(t) ==
    /\ At(t, "idle") /\ calls > 0
    /\ \E r \in Requests :
          call' = [u \in Thread |->
                     IF u = t
                     THEN [Idle EXCEPT !.at = "check", !.req = r,
                             !.lone = \A v \in Thread \ {t} : At(v, "idle")]
                     ELSE [call[u] EXCEPT !.lone = @ /\ At(u, "idle")]]
    /\ calls' = calls - 1
    /\ UNCHANGED <<file, users, userCount, tries, clean>>

\* The reply is sent.
Finish(t) ==
    /\ At(t, "done")
    /\ call' = [call EXCEPT ![t] = Idle]
    /\ UNCHANGED <<file, users, userCount, calls, tries, clean>>

\* Nobody registers as admin.
CheckName(t) ==
    /\ At(t, "check")
    /\ IF SignsUp(t) /\ call[t].req.name = Admin
       THEN Return(t, "exists")
       ELSE Go(t, "open")
    /\ UNCHANGED <<file, users, userCount, calls, tries, clean>>

-----------------------------------------------------------------------------
(* load_users                                                              *)

\* The count when users.dat has been opened; the mutant goes on from the last.
CountKept(c)  == c
CountReset(c) == 0

OpenUsers(t) ==
    /\ At(t, "open")
    /\ \/ Go(t, "read") /\ userCount' = CountReset(userCount)
       \/ Return(t, "error") /\ UNCHANGED userCount
    /\ UNCHANGED <<file, users, calls, tries, clean>>

\* The bound of the array; the mutant is off by one.
RoomForOneMore(c) == c <= MaxUsers
HasRoom(c)        == c < MaxUsers

\* The head of the loop.  Lines begin with an id, so none is empty or a comment.
ReadLine(t) ==
    /\ At(t, "read")
    /\ IF call[t].pos < Len(file) /\ HasRoom(userCount)
       THEN call' = [call EXCEPT ![t].at = "parse", ![t].pos = @ + 1]
       ELSE call' = [call EXCEPT ![t].at = "search", ![t].i = 0]
    /\ UNCHANGED <<file, users, userCount, calls, tries, clean>>

\* A line counts when it has a name, a password and a role; what follows them
\* is not looked at.
Complete(l) == Len(l.fields) >= 3

\* What entry a becomes: the fields of line l as far as it has any.
Parsed(l, a) ==
    [id       |-> l.id,
     name     |-> IF Len(l.fields) >= 1 THEN l.fields[1] ELSE a.name,
     password |-> IF Len(l.fields) >= 2 THEN l.fields[2] ELSE a.password,
     role     |-> IF Len(l.fields) >= 3 THEN atoi[l.fields[3]] ELSE a.role]

\* users[user_count] = ..., wherever the count is by now.
ParseLine(t) ==
    /\ At(t, "parse") /\ userCount \in Index
    /\ LET l == file[call[t].pos]
       IN  /\ users' = [users EXCEPT ![userCount] = Parsed(l, @)]
           /\ call' = [call EXCEPT ![t].at = IF Complete(l) THEN "bump" ELSE "read",
                                   ![t].seen = userCount]
    /\ UNCHANGED <<file, userCount, calls, tries, clean>>

\* user_count++, a load and a store; at the end of register_user it is the
\* last thing that is done.
Bump(t) ==
    /\ userCount' \in {userCount + 1, call[t].seen + 1}
    /\ \/ At(t, "bump") /\ Go(t, "read")
       \/ At(t, "cacheBump") /\ Return(t, "ok")
    /\ UNCHANGED <<file, users, calls, tries, clean>>

-----------------------------------------------------------------------------
(* authenticate_user and register_user                                     *)

\* What a search looks for: a name is registered once per role.
SameAccount(r, a) == a.name = r.name /\ a.role = r.role
SameLogin(r, a)   == a.name = r.name /\ a.password = r.password
Matches(r, a)     == IF r.kind = "signin" THEN SameLogin(r, a) ELSE SameAccount(r, a)

More(t) == call[t].i < userCount

Compare(t) ==
    /\ At(t, "search") /\ More(t) /\ call[t].i \in Index
    /\ IF ~ Matches(call[t].req, users[call[t].i])
       THEN call' = [call EXCEPT ![t].i = @ + 1]
       ELSE IF SignsUp(t) THEN Return(t, "exists") ELSE Go(t, "copy")
    /\ UNCHANGED <<file, users, userCount, calls, tries, clean>>

\* *user = users[i], a step after the comparison.
CopyUser(t) ==
    /\ At(t, "copy")
    /\ call' = [call EXCEPT ![t].at = "done", ![t].result = "ok",
                            ![t].entry = users[call[t].i]]
    /\ UNCHANGED <<file, users, userCount, calls, tries, clean>>

NotFound(t) ==
    /\ At(t, "search") /\ ~ More(t)
    /\ IF SignsUp(t)
       THEN call' = [call EXCEPT ![t].at = "ids", ![t].i = 0, ![t].next_id = 1]
       ELSE Return(t, "denied")
    /\ UNCHANGED <<file, users, userCount, calls, tries, clean>>

\* The search for a free id, at entry a; one mutant stops short of it, one
\* counts entries.
IdStays(n, a)  == IF a.id > n THEN a.id + 1 ELSE n
IdCounts(n, a) == n + 1
IdAfter(n, a)  == IF a.id >= n THEN a.id + 1 ELSE n

NextId(t) ==
    /\ At(t, "ids")
    /\ \/ /\ More(t) /\ call[t].i \in Index
          /\ call' = [call EXCEPT ![t].i = @ + 1,
                                  ![t].next_id = IdAfter(@, users[call[t].i])]
       \/ ~ More(t) /\ Go(t, "append")
    /\ UNCHANGED <<file, users, userCount, calls, tries, clean>>

NewAccount(t) ==
    [id |-> call[t].next_id, name |-> call[t].req.name,
     password |-> call[t].req.password, role |-> call[t].req.role]

\* What fprintf writes after the id, as a reader will find it.
Fields(r) == Pieces[r.name] \o Pieces[r.password] \o <<Decimal[r.role]>>

\* The line is appended under flock, which nothing else is done under.  Nobody
\* asks whether fprintf and fflush succeeded: the call may go on without a line.
AppendLine(t) ==
    /\ At(t, "append")
    /\ \/ /\ file' = Append(file, [id |-> call[t].next_id, fields |-> Fields(call[t].req)])
          /\ clean' = IF call[t].lone
                      THEN clean \cup {[line |-> Len(file) + 1, req |-> call[t].req]}
                      ELSE clean
          /\ call' = [call EXCEPT ![t].at = "cache", ![t].entry = NewAccount(t),
                                  ![t].wrote = TRUE]
          /\ tries' = tries + 1
       \/ /\ call' = [call EXCEPT ![t].at = "cache", ![t].entry = NewAccount(t)]
          /\ tries' = tries + 1 /\ UNCHANGED <<file, clean>>
       \/ Return(t, "error") /\ UNCHANGED <<file, tries, clean>>
    /\ UNCHANGED <<users, userCount, calls>>

Cache(t) ==
    /\ At(t, "cache")
    /\ IF HasRoom(userCount) THEN Go(t, "cacheFill") ELSE Return(t, "ok")
    /\ UNCHANGED <<file, users, userCount, calls, tries, clean>>

\* The array gets the name and the password as the client sent them.
CacheEntry(t) ==
    /\ At(t, "cacheFill") /\ userCount \in Index
    /\ users' = [users EXCEPT ![userCount] = call[t].entry]
    /\ call' = [call EXCEPT ![t].at = "cacheBump", ![t].seen = userCount]
    /\ UNCHANGED <<file, userCount, calls, tries, clean>>

\* users[user_count] or users[i] is past the end: no thread's next step is
\* defined.
Beyond(t) ==
    /\ \/ (At(t, "parse") \/ At(t, "cacheFill")) /\ userCount \notin Index
       \/ (At(t, "search") \/ At(t, "ids")) /\ More(t) /\ call[t].i \notin Index
    /\ call' = [u \in Thread |-> [call[u] EXCEPT !.at = "lost"]]
    /\ UNCHANGED <<file, users, userCount, calls, tries, clean>>

-----------------------------------------------------------------------------
Init ==
    /\ file = FirstUsers
    /\ users = [k \in Index |-> Nothing] /\ userCount = 0
    /\ call = [t \in Thread |-> Idle]
    /\ calls = MaxCalls /\ tries = 0 /\ clean = {}

LoadUsers(t) == OpenUsers(t) \/ ReadLine(t) \/ ParseLine(t) \/ Bump(t)
SignIn(t)    == Compare(t) \/ CopyUser(t) \/ NotFound(t)
SignUp(t)    == CheckName(t) \/ NextId(t) \/ AppendLine(t) \/ Cache(t) \/ CacheEntry(t)

Next == \E t \in Thread :
    Call(t) \/ LoadUsers(t) \/ SignIn(t) \/ SignUp(t) \/ Beyond(t) \/ Finish(t)

Spec == Init /\ [][Next]_vars

-----------------------------------------------------------------------------
(* Properties.                                                             *)

\* The type invariant.  Ids do not run ahead of the lines shipped and the
\* sign-ups since, if they did not when users.dat was shipped.
AccountsTypeOK ==
    /\ file \in Seq(Line) /\ \A k \in DOMAIN file : file[k].id <= Len(FirstUsers) + tries
    /\ users \in [Index -> Account] /\ userCount \in Nat
    /\ calls \in 0 .. MaxCalls /\ tries \in Nat
    /\ \A w \in clean : w.line \in DOMAIN file /\ w.req \in Request
    /\ DOMAIN call = Thread
    /\ \A t \in Thread :
          /\ call[t].at \in {"idle", "check", "open", "read", "parse", "bump", "search",
                             "copy", "ids", "append", "cache", "cacheFill", "cacheBump",
                             "done", "lost"}
          /\ call[t].req \in Request /\ call[t].entry \in Account
          /\ call[t].result \in Outcome /\ call[t].lone \in BOOLEAN
          /\ call[t].wrote \in BOOLEAN /\ call[t].pos \in 0 .. Len(file)
          /\ call[t].seen \in Index /\ call[t].i \in Nat /\ call[t].next_id \in Nat

\* What a line of users.dat is read as, how many of the first n lines of f
\* count, and which of them are accounts that fit into the array.
Read(l)       == Parsed(l, Nothing)
Counted(f, n) == Cardinality({k \in 1 .. n : Complete(f[k])})
Loaded(f, n)  == {k \in 1 .. n : Complete(f[k]) /\ Counted(f, k) <= MaxUsers}

\* A call that no other overlaps gets the answer that is right for users.dat as
\* it is read, whatever calls before it left in the array and however many
\* lines were lost or do not count: a sign-in gets the first account with that
\* name and password, a sign-up is refused exactly when an account has the name
\* and the role.  That an account is read as it was signed up is not said.
AloneIsRight ==
    \A t \in Thread : At(t, "done") /\ call[t].lone =>
        LET r    == call[t].req
            hits == {k \in Loaded(file, Len(file)) : SameLogin(r, Read(file[k]))}
            old  == Loaded(file, IF call[t].wrote THEN Len(file) - 1 ELSE Len(file))
        IN  \/ call[t].result = "error"
            \/ /\ ~ SignsUp(t)
               /\ IF hits = {} THEN call[t].result = "denied"
                  ELSE /\ call[t].result = "ok"
                       /\ \E k \in hits : /\ \A j \in hits : k <= j
                                          /\ call[t].entry = Read(file[k])
            \/ /\ SignsUp(t)
               /\ call[t].result = "exists" <=>
                     r.name = Admin \/ \E k \in old : SameAccount(r, Read(file[k]))

\* Neither name nor password has a colon.
Plain(r) == Pieces[r.name] = <<r.name>> /\ Pieces[r.password] = <<r.password>>

\* Two lines have the same id, or are read as accounts with the same name and
\* role, only if the sign-up that wrote the second overlapped another call, or
\* the first is one of those that do not count or do not fit into the array,
\* or, for the name and role, the second was signed up with a colon.
DuplicatesNeedOverlap ==
    \A w \in clean : \A k \in Loaded(file, w.line - 1) :
        /\ file[k].id # file[w.line].id
        /\ Plain(w.req) => ~ SameAccount(Read(file[w.line]), Read(file[k]))

\* The end of the array is overrun only when calls overlap, however many
\* lines the file has.
OverrunNeedsOverlap ==
    (\E t \in Thread : At(t, "lost")) => \E t \in Thread : ~ call[t].lone

\* Sign-ups that no other call overlaps do not register a name twice in one
\* role: "duplicate user checking" (README.md:16), "Checks for duplicate
\* usernames" (auth.c:181).
EachRegisteredOnce ==
    \A v, w \in clean : SameAccount(v.req, w.req) => v = w
=============================================================================
