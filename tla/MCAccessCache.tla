---------------------------- MODULE MCAccessCache ----------------------------
(***************************************************************************)
(* AccessCache for one user, one role and one SSH connection.              *)
(***************************************************************************)
EXTENDS AccessCache

User == <<"user", Caller>>

MCRow(no, grantee, resource, level, effect) ==
    [grantee |-> grantee,
     grant |-> [no |-> no, type |-> Type, resource |-> resource,
                level |-> level, effect |-> effect]]

\* A direct grant; a role that may write anywhere except, for this user, here.
MCTables ==
    {{MCRow(1, User, Resource, "write", "accepted")},
     {MCRow(1, <<"role", r>>, Wildcard, "write", "accepted") : r \in Roles}}
=============================================================================
