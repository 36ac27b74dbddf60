----------------------------- MODULE MCRegistration -----------------------------
(* Values for TLC.                                                         *)
EXTENDS Registration, TLC

\* pc is the password "p:0", colon the name ":".
CONSTANTS admin, ann, p, pc, colon, empty, zero, one, two

SomePieces == (empty :> <<>>) @@ (colon :> <<>>) @@ (pc :> <<p, zero>>)
                  @@ [s \in {admin, ann, p, zero, one, two} |-> <<s>>]
Numbers    == (one :> 1) @@ (two :> 2)
                  @@ [s \in {admin, ann, p, pc, colon, empty, zero} |-> 0]
Printed    == (1 :> one) @@ (2 :> two)

SignInOf(n, pw)    == [kind |-> "signin", name |-> n, password |-> pw, role |-> 1]
SignUpOf(n, pw, r) == [kind |-> "signup", name |-> n, password |-> pw, role |-> r]

\* One name with two roles, with and without a colon in the password; a name
\* whose line does not count.
SomeRequests == {SignInOf(ann, p), SignInOf(ann, pc),
                 SignUpOf(admin, p, 1), SignUpOf(ann, p, 1), SignUpOf(ann, p, 2),
                 SignUpOf(ann, pc, 1), SignUpOf(colon, p, 1)}

\* The same name and role, the first time with a colon.
Twice == {SignUpOf(ann, pc, 1), SignUpOf(ann, p, 1)}

Threads == Permutations(Thread)

Shipped == <<[id |-> 1, fields |-> <<admin, p, zero>>]>>
=============================================================================
