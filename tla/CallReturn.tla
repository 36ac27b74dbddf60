------------------------------ MODULE CallReturn ------------------------------
(***************************************************************************)
(* What the server promises a client, whatever queues and processes there  *)
(* are behind it: a request is performed at most once and after it was     *)
(* made; a result is handed out at most once; and the client gets the      *)
(* result of its own request, or is told that there is none.  Results can  *)
(* be lost.  The promise on whose result it is, is made for the requests   *)
(* that are distinct: those whose identifier nobody else has.              *)
(***************************************************************************)
EXTENDS Integers

CONSTANT Thread

VARIABLES
    issued,     \* requests made so far; they are numbered from 1
    distinct,   \* numbers of the requests that can be told from all others
    asking,     \* the request each thread waits for, 0 if none
    performed,  \* requests carried out
    results,    \* results not handed out yet, by the number of the request
    given       \* the request whose result each thread has just been given, or 0

vars == <<issued, distinct, asking, performed, results, given>>

Init ==
    /\ issued = 0 /\ performed = {} /\ results = {}
    /\ asking = [t \in Thread |-> 0]
    /\ given = [t \in Thread |-> 0]

Ask(t) ==
    /\ asking[t] = 0
    /\ issued' = issued + 1
    /\ asking' = [asking EXCEPT ![t] = issued + 1]
    /\ given' = [given EXCEPT ![t] = 0]
    /\ UNCHANGED <<performed, results>>

Perform(n) ==
    /\ n \notin performed
    /\ performed' = performed \cup {n}
    /\ results' \in {results, results \cup {n}}     \* who performed it may die of it
    /\ UNCHANGED <<issued, asking, given>>

Return(t) ==
    /\ asking[t] # 0
    /\ \E n \in results :
          /\ {n, asking[t]} \subseteq distinct => n = asking[t]
          /\ given' = [given EXCEPT ![t] = n]
          /\ results' = results \ {n}
    /\ asking' = [asking EXCEPT ![t] = 0]
    /\ UNCHANGED <<issued, performed>>

\* Threads are told that there is no result, or go away; results are lost.
GiveUp ==
    /\ \E T \in SUBSET Thread :
          /\ asking' = [t \in Thread |-> IF t \in T THEN 0 ELSE asking[t]]
          /\ given' = [t \in Thread |-> IF t \in T THEN 0 ELSE given[t]]
    /\ results' \subseteq results
    /\ UNCHANGED <<issued, performed>>

Next ==
    \/ \E t \in Thread : Ask(t) \/ Return(t)
    \/ \E n \in 1 .. issued : Perform(n)
    \/ GiveUp

Spec == Init /\ [][Next]_vars
=============================================================================
