------------------------------- MODULE EditLock -------------------------------
(***************************************************************************)
(* What the edit lock promises, whatever table and workers implement it: a *)
(* file that exists has at most one holder; a lock is granted when nobody  *)
(* holds it or the holder's time is up; until its time is up it ends only  *)
(* by a request of its holder, by the removal of the file, or when a       *)
(* server starts.                                                          *)
(***************************************************************************)
EXTENDS SyncTypes

CONSTANT LockTimeout

VARIABLES
    exists,     \* files there are
    holder,     \* who holds the lock of each file
    since,      \* since when
    asks,       \* the user each worker is acting for
    clock

vars == <<exists, holder, since, asks, clock>>

Expired(f) == clock - since[f] > LockTimeout

Init ==
    /\ exists = {}
    /\ holder = [f \in File |-> NoUser]
    /\ since = [f \in File |-> 0]
    /\ asks = [w \in Worker |-> NoUser]
    /\ clock = 0

SetLock(f, u, t) ==
    /\ holder' = [holder EXCEPT ![f] = u]
    /\ since' = [since EXCEPT ![f] = t]

Begin(w) ==
    /\ asks[w] = NoUser
    /\ \E u \in User : asks' = [asks EXCEPT ![w] = u]
    /\ UNCHANGED <<exists, holder, since, clock>>

End(w) ==
    /\ asks[w] # NoUser
    /\ asks' = [asks EXCEPT ![w] = NoUser]
    /\ UNCHANGED <<exists, holder, since, clock>>

Grant(w, f) ==
    /\ f \in exists /\ asks[w] # NoUser
    /\ holder[f] = NoUser \/ Expired(f)
    /\ SetLock(f, asks[w], clock)
    /\ UNCHANGED <<exists, asks, clock>>

GiveBack(w, f) ==
    /\ holder[f] # NoUser /\ holder[f] = asks[w]
    /\ SetLock(f, NoUser, 0)
    /\ UNCHANGED <<exists, asks, clock>>

Expire(f) ==
    /\ holder[f] # NoUser /\ Expired(f)
    /\ SetLock(f, NoUser, 0)
    /\ UNCHANGED <<exists, asks, clock>>

Appear(f) ==
    /\ f \notin exists
    /\ exists' = exists \cup {f}
    /\ UNCHANGED <<holder, since, asks, clock>>

Vanish(f) ==
    /\ f \in exists
    /\ exists' = exists \ {f}
    /\ SetLock(f, NoUser, 0)
    /\ UNCHANGED <<asks, clock>>

Tick == clock' = clock + 1 /\ UNCHANGED <<exists, holder, since, asks>>

\* A server starts, in place of the one there was or beside it.
Restart ==
    /\ exists' = {}
    /\ holder' = [f \in File |-> NoUser]
    /\ since' = [f \in File |-> 0]
    /\ asks' \in {asks, [w \in Worker |-> NoUser]}
    /\ UNCHANGED clock

Next ==
    \/ \E w \in Worker : Begin(w) \/ End(w) \/ \E f \in File : Grant(w, f) \/ GiveBack(w, f)
    \/ \E f \in File : Expire(f) \/ Appear(f) \/ Vanish(f)
    \/ Tick \/ Restart

Spec == Init /\ [][Next]_vars
=============================================================================
