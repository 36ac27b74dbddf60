------------------------------ MODULE SyncTypes ------------------------------
(***************************************************************************)
(* The sets every part of the server shares: the file names clients use,   *)
(* the registered users with their roles (users.dat), and the pre-forked   *)
(* worker processes.                                                        *)
(***************************************************************************)
EXTENDS Integers, Sequences, FiniteSets

CONSTANTS
    File,       \* file names
    User,       \* registered users
    Role,       \* the role users.dat gives each user
    Worker,     \* the worker processes server.c forks
    NoFile,     \* filename of a slot that was never used (memset to 0)
    NoUser      \* locked_by_user_id = -1

Roles == {"ADMIN", "USER", "GUEST"}

ASSUME SyncTypesAssumption ==
    /\ NoFile \notin File
    /\ NoUser \notin User
    /\ Role \in [User -> Roles]
    /\ IsFiniteSet(Worker)
=============================================================================
