----------------------------- MODULE PanelFiles ------------------------------
(***************************************************************************)
(* The file manager and the LuckPerms tab, with what they are given.       *)
(***************************************************************************)
EXTENDS PanelRequests, FiniteSets

CONSTANTS
    Names, Up, Texts, Given, Tree, Setups,                                      \* Explorer
    Groups, Track, User, Weights, Titles, Perm, Prefix, Meta, Gone, None, Api   \* LuckPermsTab

\* The root of an account is a path without "..", a given name may have any,
\* and what is not the root is in a directory.  ".." is not the name of an
\* entry, and a directory is not a text.
FilesOK ==
    /\ Setups \subseteq [root : Seq(Names), sudo : BOOLEAN]
    /\ Given \subseteq Seq(Names \union {Up})
    /\ Tree \in [DOMAIN Tree -> Texts \union {"dir"}] /\ DOMAIN Tree \subseteq Seq(Names) /\ <<>> \in DOMAIN Tree
    /\ Up \notin Names /\ "dir" \notin Texts
    /\ \A p \in DOMAIN Tree : \A n \in 0..Len(p) - 1 :
         SubSeq(p, 1, n) \in DOMAIN Tree /\ Tree[SubSeq(p, 1, n)] = "dir"
ASSUME FilesAssumption == FilesOK

\* The groups, the track and the user are different entities; a weight is none
\* of the other nodes; and nothing that is stored looks as if it were gone.
ASSUME EntitiesAssumption ==
    /\ Track # User /\ {Track, User, None} \intersect Groups = {} /\ None \notin {Track, User}
    /\ Weights \intersect (Groups \union Titles \union {Perm, Prefix, Meta}) = {}
    /\ Gone \notin Seq(Groups)
    /\ \A nodes \in SUBSET (Groups \union Weights \union Titles \union {Perm, Prefix, Meta}) : nodes # Gone

Manager == INSTANCE Explorer
Perms == INSTANCE LuckPermsTab

\* At the start a group has one weight at most.
ASSUME ApiAssumption ==
    \A api \in Api :
        /\ api = [e \in Perms!Entities |-> api[e]] /\ \A e \in Perms!Entities : Perms!IsDoc(e, api[e])
        /\ \A g \in Groups : api[g] # Gone => \A x, y \in api[g] \intersect Weights : x = y
=============================================================================
