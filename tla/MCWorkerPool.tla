----------------------------- MODULE MCWorkerPool -----------------------------
(* Values for TLC.                                                         *)
EXTENDS PoolProperties, TLC

CONSTANTS w1, w2, u1, u2, f1, f2

Contents12 == {<<1>>, <<2, 2>>}     \* two lengths, so that mixtures show
Contents1  == {<<1>>}

RoleUsers == (u1 :> "USER") @@ (u2 :> "USER")
RoleOwner == (u1 :> "USER")
RoleAdmin == (u1 :> "USER") @@ (u2 :> "ADMIN")

\* Workers are alike, files are alike, and so are users of one role.
Workers  == Permutations(Worker)
Alike    == {p @@ q @@ r : p \in Permutations(Worker), q \in Permutations(User),
                            r \in Permutations(File)}
=============================================================================
