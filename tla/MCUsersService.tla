--------------------------- MODULE MCUsersService ----------------------------
(***************************************************************************)
(* A small instance of UsersService: one seeded admin, or an old file with *)
(* an admin that lacks both fields and a user that lacks the root only.    *)
(***************************************************************************)
EXTENDS UsersService, TLC

CONSTANTS i1, i2, i3, i4, ann, bob, cat, boot, r1, r2
MCIds == {i1, i2, i3, i4}
MCNames == {ann, bob, cat}
MCReqs == {boot, r1, r2}
MCSeeds == (i1 :> ann)
OldRecord(n, role, perms) ==
    [name |-> n, role |-> role, perms |-> perms, root |-> "missing", pass |-> "first"]
MCLegacy == (i1 :> OldRecord(ann, "admin", "missing")) @@ (i2 :> OldRecord(bob, "user", "some"))

\* The ids that neither holds are alike, and so are the requests.
Alike == Permutations(MCIds \ {i1, i2}) \union Permutations(MCReqs \ {boot})

\* Requests that interleave from the start.
SameNameSpec == Init /\ concurrent = TRUE /\ [][Next]_vars
=============================================================================
