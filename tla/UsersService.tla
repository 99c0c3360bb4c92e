---------------------------- MODULE UsersService -----------------------------
(***************************************************************************)
(* services/users.service.ts behind the admin routes of users.routes.ts:   *)
(* the panel's accounts, kept in memory and saved to users.json.           *)
(*                                                                         *)
(* A request passes requireAuth and requireAdmin ("authed"), acts, and is  *)
(* answered when its save has resolved; create() and resetPassword() also  *)
(* await a bcrypt hash in the middle.  Requests interleave at the awaits.  *)
(* The array this.users is a set of ids (its order is immaterial here) of  *)
(* shared objects: a save that has not stringified yet sees every field    *)
(* that changes, but keeps the array it was given when remove() replaces   *)
(* this.users.                                                             *)
(*                                                                         *)
(* The start-up saves too, what it seeded or migrated, while the server    *)
(* listens already: requests wait for the load and for a migration's save, *)
(* not for the save of the seeded accounts.                                *)
(*                                                                         *)
(* Permissions are "all" or "some" of the keys, the file manager root is   *)
(* "null" or a "dir"; a record of an older version may lack either         *)
(* ("missing").                                                            *)
(***************************************************************************)
EXTENDS Naturals

CONSTANTS
    Ids, Names,
    Reqs,       \* the requests in progress at a time
    Boot,       \* one of them is the start-up, seedIfEmpty()
    Seeds,      \* the accounts USERS seeds: a name for each of some ids
    Legacy,     \* a users.json written by an older version
    MaxActs     \* bound on the requests that act

Record == [name : Names, role : {"admin", "user"}, perms : {"all", "some"},
           root : {"null", "dir"}, pass : {"first", "reset"}]
Stored == [name : Names, role : {"admin", "user"}, perms : {"all", "some", "missing"},
           root : {"null", "dir", "missing"}, pass : {"first", "reset"}]
IsTable(t, R) == DOMAIN t \subseteq Ids /\ t \in [DOMAIN t -> R]

Unrestricted(rec) == rec.perms = "all" /\ rec.root = "null"
HasAdmin(t) == \E i \in DOMAIN t : t[i].role = "admin"

\* Every older version kept an admin, and gave admins no restriction.
ASSUME UsersAssumption ==
    /\ IsTable(Seeds, Names)
    /\ IsTable(Legacy, Stored) /\ HasAdmin(Legacy)
    /\ \A i \in DOMAIN Legacy : Legacy[i].role = "admin" =>
         Legacy[i].perms \in {"all", "missing"} /\ Legacy[i].root \in {"null", "missing"}
    /\ Boot \in Reqs /\ MaxActs \in Nat

NoUser == [role |-> "none"]
NoTable == [i \in {} |-> NoUser]            \* no users.json

VARIABLES
    user,       \* the record objects, by id
    users,      \* this.users
    disk,       \* users.json
    req,        \* the requests in progress
    up,
    loaded,     \* the promise of ensureLoaded() has resolved
    acts,
    concurrent  \* TRUE: requests are handled concurrently, and while the start-up
                \* saves; never changes

accounts == <<user, users, disk, req, up, loaded, acts>>
vars == <<accounts, concurrent>>

Idle == [at |-> "idle"]
IsRequest(q) ==
    \/ q = Idle
    \/ q \in [at : {"authed"}, by : Names]
    \/ q \in [at : {"create"}, new : Record]           \* hashing a new password
    \/ q \in [at : {"reset"}, id : Ids]                \* likewise
    \/ q = [at |-> "live"]                             \* to save this.users
    \/ q \in [at : {"old"}, array : SUBSET Ids]        \* to save an array replaced since
    \/ q.at = "write" /\ q = [at |-> "write", text |-> q.text]    \* stringified
       /\ IsTable(q.text, Record)

Fields ==
    /\ user \in [Ids -> Record \union {NoUser}]
    /\ users \subseteq Ids
    /\ \A i \in users : user[i] \in Record
    /\ IsTable(disk, Stored)
    /\ req = [r \in Reqs |-> req[r]] /\ \A r \in Reqs : IsRequest(req[r])
    /\ up \in BOOLEAN /\ loaded \in BOOLEAN /\ acts \in 0..MaxActs
TypeOK == Fields /\ concurrent \in BOOLEAN

Init ==
    /\ user = [i \in Ids |-> NoUser] /\ users = {}
    /\ disk \in {NoTable, Legacy}
    /\ req = [r \in Reqs |-> Idle]
    /\ up = FALSE /\ loaded = FALSE /\ acts = 0 /\ concurrent \in BOOLEAN

-----------------------------------------------------------------------------
Admins == {i \in users : user[i].role = "admin"}
\* Slip: the last account is protected, not the last admin.
IsLastAccount(i) == users = {i}
IsLastAdmin(i) == Admins = {i}
\* Slip: only admins' names are compared.
NameOfAnAdmin(n) == \E i \in Admins : user[i].name = n
NameTaken(n) == \E i \in users : user[i].name = n

\* Slip: a promotion keeps the restrictions.
PromotedRestricted(rec) == [rec EXCEPT !.role = "admin"]
Promoted(rec) == [rec EXCEPT !.role = "admin", !.perms = "all", !.root = "null"]

Text(array) == [i \in array |-> user[i]]

Go(r, state) == req' = [req EXCEPT ![r] = state]
Acts(r) == req[r].at = "authed" /\ acts < MaxActs /\ acts' = acts + 1

\* Slip: an old record is taken as it is.
NotMigrated(rec) == rec
Migrated(rec) == [rec EXCEPT !.perms = IF @ = "missing" THEN "all" ELSE @,
                             !.root = IF @ = "missing" THEN "null" ELSE @]
Seeded == [i \in DOMAIN Seeds |-> [name |-> Seeds[i], role |-> "admin", perms |-> "all",
                                   root |-> "null", pass |-> "first"]]

\* The start-up: ensureLoaded() migrates what the file holds, seedIfEmpty()
\* seeds when it holds nobody, and either is in memory before it is saved.
\* (When the file cannot be read the process ends, with nothing changed.)
Start ==
    /\ ~up /\ up' = TRUE
    /\ LET t == IF DOMAIN disk = {} THEN Seeded ELSE [i \in DOMAIN disk |-> Migrated(disk[i])]
       IN /\ users' = DOMAIN t
          /\ user' = [i \in Ids |-> IF i \in DOMAIN t THEN t[i] ELSE NoUser]
          /\ IF t = disk THEN UNCHANGED req ELSE Go(Boot, [at |-> "live"])
          /\ loaded' = (t = disk \/ DOMAIN disk = {})
    /\ UNCHANGED <<disk, acts, concurrent>>

\* requireAuth and requireAdmin: an admin's request.
Arrive(r) ==
    /\ up /\ loaded /\ r # Boot /\ req[r] = Idle
    /\ concurrent \/ \A q \in Reqs : req[q] = Idle
    /\ \E i \in Admins : Go(r, [at |-> "authed", by |-> user[i].name])
    /\ UNCHANGED <<user, users, disk, up, loaded, acts, concurrent>>

\* A check failed, or an account was not found.
Refuse(r) ==
    /\ req[r].at = "authed"
    /\ Go(r, Idle)
    /\ UNCHANGED <<user, users, disk, up, loaded, acts, concurrent>>

\* create() up to the await of the hash.
Create(r) ==
    /\ Acts(r)
    /\ \E rec \in Record :
         /\ ~NameTaken(rec.name)
         /\ rec.role = "admin" => Unrestricted(rec)
         /\ rec.pass = "first"
         /\ Go(r, [at |-> "create", new |-> rec])
    /\ UNCHANGED <<user, users, disk, up, loaded, concurrent>>

\* create() after it: randomUUID() gives an id never used.
CreatePush(r) ==
    /\ req[r].at = "create"
    /\ \E i \in Ids :
         /\ user[i] = NoUser
         /\ user' = [user EXCEPT ![i] = req[r].new]
         /\ users' = users \union {i}
    /\ Go(r, [at |-> "live"])
    /\ UNCHANGED <<disk, up, loaded, acts, concurrent>>

\* remove(): saves that wait keep the array that is replaced.
Remove(r) ==
    /\ Acts(r)
    /\ \E i \in users :
         /\ user[i].name # req[r].by
         /\ ~IsLastAdmin(i)
         /\ users' = users \ {i}
    /\ req' = [q \in Reqs |-> IF q = r THEN [at |-> "live"]
                              ELSE IF req[q].at = "live" THEN [at |-> "old", array |-> users]
                              ELSE req[q]]
    /\ UNCHANGED <<user, disk, up, loaded, concurrent>>

SetRole(r) ==
    /\ Acts(r)
    /\ \E i \in users, role \in {"admin", "user"} :
         /\ role = "user" => ~IsLastAdmin(i)
         /\ user' = [user EXCEPT ![i] =
              IF role = "admin" THEN Promoted(@) ELSE [@ EXCEPT !.role = role]]
    /\ Go(r, [at |-> "live"])
    /\ UNCHANGED <<users, disk, up, loaded, concurrent>>

SetPermissions(r) ==
    /\ Acts(r)
    /\ \E i \in users, p \in {"all", "some"} :
         /\ user[i].role # "admin"
         /\ user' = [user EXCEPT ![i].perms = p]
    /\ Go(r, [at |-> "live"])
    /\ UNCHANGED <<users, disk, up, loaded, concurrent>>

SetSftpRootPath(r) ==
    /\ Acts(r)
    /\ \E i \in users, d \in {"null", "dir"} :
         /\ user[i].role # "admin"
         /\ user' = [user EXCEPT ![i].root = d]
    /\ Go(r, [at |-> "live"])
    /\ UNCHANGED <<users, disk, up, loaded, concurrent>>

\* resetPassword() finds the account, awaits the hash, and then stores it in
\* the object it found, wherever that object is by now.
ResetPassword(r) ==
    /\ Acts(r)
    /\ \E i \in users : Go(r, [at |-> "reset", id |-> i])
    /\ UNCHANGED <<user, users, disk, up, loaded, concurrent>>

ResetStore(r) ==
    /\ req[r].at = "reset"
    /\ user' = [user EXCEPT ![req[r].id].pass = "reset"]
    /\ Go(r, [at |-> "live"])
    /\ UNCHANGED <<users, disk, up, loaded, acts, concurrent>>

\* persist(): the text is made after the await of mkdir.
Stringify(r) ==
    /\ \/ req[r].at = "live" /\ Go(r, [at |-> "write", text |-> Text(users)])
       \/ req[r].at = "old" /\ Go(r, [at |-> "write", text |-> Text(req[r].array)])
    /\ UNCHANGED <<user, users, disk, up, loaded, acts, concurrent>>

\* The text is on disk and the request is answered, or the start-up is over.
Landed(r) ==
    /\ req[r].at = "write"
    /\ disk' = req[r].text
    /\ loaded' = (loaded \/ r = Boot)
    /\ Go(r, Idle)
    /\ UNCHANGED <<user, users, up, acts, concurrent>>

\* The save fails: the caller gets an error, memory keeps the change.
SaveFails(r) ==
    /\ r # Boot /\ req[r].at \in {"live", "old", "write"}
    /\ Go(r, Idle)
    /\ UNCHANGED <<user, users, disk, up, loaded, acts, concurrent>>

\* The process is killed, or Node ends it when the save of the start-up fails:
\* nobody awaits seedIfEmpty().
Crash ==
    /\ up /\ up' = FALSE /\ loaded' = FALSE
    /\ users' = {} /\ user' = [i \in Ids |-> NoUser]
    /\ req' = [r \in Reqs |-> Idle]
    /\ UNCHANGED <<disk, acts, concurrent>>

Next ==
    \/ Start \/ Crash
    \/ \E r \in Reqs :
         \/ Arrive(r) \/ Refuse(r) \/ Create(r) \/ CreatePush(r) \/ Remove(r)
         \/ SetRole(r) \/ SetPermissions(r) \/ SetSftpRootPath(r)
         \/ ResetPassword(r) \/ ResetStore(r)
         \/ Stringify(r) \/ Landed(r) \/ SaveFails(r)

Spec == Init /\ [][Next]_vars

-----------------------------------------------------------------------------
(***************************************************************************)
(* With requests handled one at a time, the guards of remove() and         *)
(* setRole() leave an admin wherever there are accounts, over crashes and  *)
(* failed saves too: the panel cannot lock everyone out.                   *)
(***************************************************************************)
SerialSomeAdminRemains == ~concurrent => (users # {} => Admins # {})

(***************************************************************************)
(* Until the process dies, no interleaving of requests, each allowed when  *)
(* it was checked, removes or demotes the last admin.                      *)
(***************************************************************************)
LastAdminStays == [][up /\ up' /\ Admins # {} => Admins' # {}]_vars

(***************************************************************************)
(* An admin carries every permission and no root, in memory and on disk.   *)
(***************************************************************************)
AdminsUnrestricted ==
    /\ \A i \in Admins : Unrestricted(user[i])
    /\ \A i \in DOMAIN disk :
         disk[i].role = "admin" => Unrestricted(Migrated(disk[i]))

(***************************************************************************)
(* No two accounts have the same name.                                     *)
(***************************************************************************)
NamesUnique == \A i, j \in users : user[i].name = user[j].name => i = j

(***************************************************************************)
(* With requests handled one at a time, create() never stores a name       *)
(* twice, over crashes and failed saves too.                               *)
(***************************************************************************)
SerialNamesUnique == ~concurrent => NamesUnique
=============================================================================
