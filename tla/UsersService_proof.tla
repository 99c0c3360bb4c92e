------------------------- MODULE UsersService_proof --------------------------
(***************************************************************************)
(* What holds of UsersService for every number of accounts and requests.   *)
(***************************************************************************)
EXTENDS UsersService, TLAPS

\* Whether operations interleave is settled at the start.
LEMMA FlagStays == [Next]_vars => concurrent' = concurrent
  BY DEF Next, vars, Start, Crash, Arrive, Refuse, Create, CreatePush, Remove, SetRole,
         SetPermissions, SetSftpRootPath, ResetPassword, ResetStore, Stringify, Landed,
         SaveFails

(***************************************************************************)
(* The shape of the state, as far as the proofs need it.  A request that   *)
(* holds on to an account or to an array holds objects that exist: only a  *)
(* crash takes an object away, and it takes the requests with it.          *)
(***************************************************************************)
Objects ==
    /\ user \in [Ids -> Record \union {NoUser}]
    /\ users \subseteq Ids
    /\ \A i \in users : user[i] \in Record

Holds(q) ==
    /\ q.at = "create" => q.new \in Record
    /\ q.at = "reset" => q.id \in Ids /\ user[q.id] \in Record
    /\ q.at = "old" => q.array \subseteq Ids /\ \A i \in q.array : user[i] \in Record
    /\ q.at = "write" => IsTable(q.text, Record)

Requests ==
    /\ req = [r \in Reqs |-> req[r]]
    /\ \A r \in Reqs : Holds(req[r])
    /\ ~up => req = [r \in Reqs |-> Idle]

Shape == Objects /\ Requests /\ IsTable(disk, Stored)

LEMMA InitShape == Init => Shape
<1> SUFFICES ASSUME Init PROVE Shape
  OBVIOUS
<1>1. Objects
  BY DEF Init, Objects
<1>2. Requests
  BY DEF Init, Requests, Holds, Idle
<1>3. IsTable(disk, Stored)
  BY UsersAssumption DEF UsersAssumption, Init, IsTable, NoTable
<1> QED
  BY <1>1, <1>2, <1>3 DEF Shape

LEMMA RecordFields ==
    ASSUME NEW rec \in Record
    PROVE  /\ \A p \in {"all", "some"} : [rec EXCEPT !.perms = p] \in Record
           /\ \A d \in {"null", "dir"} : [rec EXCEPT !.root = d] \in Record
           /\ \A role \in {"admin", "user"} : [rec EXCEPT !.role = role] \in Record
           /\ [rec EXCEPT !.pass = "reset"] \in Record
           /\ Promoted(rec) \in Record
           /\ rec.role \in {"admin", "user"}
  BY DEF Record, Promoted

LEMMA MigratedRecord ==
    ASSUME NEW rec \in Stored
    PROVE  Migrated(rec) \in Record /\ Migrated(rec).role = rec.role
  BY DEF Stored, Record, Migrated

LEMMA TextTable ==
    ASSUME NEW array \in SUBSET Ids, \A i \in array : user[i] \in Record
    PROVE  IsTable(Text(array), Record)
  BY DEF IsTable, Text

\* What Start() loads, and leaves to be saved when it is not what the file holds.
LEMMA LoadedTable ==
    ASSUME IsTable(disk, Stored), Start
    PROVE  /\ Objects'
           /\ \/ users' = DOMAIN Seeds /\ \A i \in users' : user'[i] = Seeded[i]
              \/ /\ users' = DOMAIN disk /\ DOMAIN disk # {}
                 /\ \A i \in users' : user'[i] = Migrated(disk[i])
           /\ req' = req \/ (Go(Boot, [at |-> "live"]) /\ users' # {})
<1> DEFINE t == IF DOMAIN disk = {} THEN Seeded
                ELSE [i \in DOMAIN disk |-> Migrated(disk[i])]
<1>1. /\ users' = DOMAIN t
      /\ user' = [i \in Ids |-> IF i \in DOMAIN t THEN t[i] ELSE NoUser]
      /\ IF t = disk THEN UNCHANGED req ELSE Go(Boot, [at |-> "live"])
  BY DEF Start
<1>2. IsTable(t, Record)
  <2>1. CASE DOMAIN disk = {}
    BY <2>1, UsersAssumption DEF UsersAssumption, IsTable, Seeded, Record
  <2>2. CASE DOMAIN disk # {}
    <3>1. \A i \in DOMAIN disk : Migrated(disk[i]) \in Record
      BY MigratedRecord DEF IsTable
    <3> QED
      BY <2>2, <3>1 DEF IsTable
  <2> QED
    BY <2>1, <2>2
<1>3. t = [i \in DOMAIN t |-> t[i]] /\ disk = [i \in DOMAIN disk |-> disk[i]]
  BY DEF Seeded, IsTable
<1>4. DOMAIN disk = {} => DOMAIN t = DOMAIN Seeds /\ \A i \in DOMAIN t : t[i] = Seeded[i]
  BY DEF Seeded
<1>5. DOMAIN disk # {} =>
        DOMAIN t = DOMAIN disk /\ \A i \in DOMAIN t : t[i] = Migrated(disk[i])
  OBVIOUS
<1> HIDE DEF t
<1>6. Objects'
  BY <1>1, <1>2 DEF Objects, IsTable
<1>7. \A i \in users' : user'[i] = t[i]
  BY <1>1, <1>2 DEF IsTable
<1>8. DOMAIN t = {} => t = disk
  <2>1. DOMAIN t = {} => DOMAIN disk = {}
    BY <1>5
  <2> QED
    BY <1>3, <2>1
<1> QED
  BY <1>1, <1>4, <1>5, <1>6, <1>7, <1>8

\* Objects are added and changed, and go only with the process.
LEMMA NextObjects ==
    ASSUME Shape, [Next]_vars
    PROVE  /\ Objects'
           /\ up /\ up' => \A i \in Ids : user[i] \in Record => user'[i] \in Record
<1> DEFINE Kept == \A i \in Ids : user[i] \in Record => user'[i] \in Record
           Goal == Objects' /\ (up /\ up' => Kept)
<1>1. CASE Start
  BY <1>1, LoadedTable DEF Shape, Start
<1>2. CASE Crash
  BY <1>2 DEF Crash, Objects
<1>3. ASSUME NEW r \in Reqs, CreatePush(r)
      PROVE  Goal
  <2>1. req[r].new \in Record
    BY <1>3 DEF Shape, Requests, Holds, CreatePush
  <2>2. PICK i \in Ids : /\ user' = [user EXCEPT ![i] = req[r].new]
                         /\ users' = users \union {i}
    BY <1>3 DEF CreatePush
  <2> QED
    BY <2>1, <2>2 DEF Shape, Objects
<1>4. ASSUME NEW r \in Reqs, ResetStore(r)
      PROVE  Goal
  <2> DEFINE i == req[r].id
  <2>1. i \in Ids /\ user[i] \in Record
    BY <1>4 DEF Shape, Requests, Holds, ResetStore
  <2>2. user' = [user EXCEPT ![i] = [user[i] EXCEPT !.pass = "reset"]] /\ users' = users
    BY <1>4 DEF ResetStore
  <2>3. [user[i] EXCEPT !.pass = "reset"] \in Record
    BY <2>1, RecordFields
  <2> HIDE DEF i
  <2> QED
    BY <2>1, <2>2, <2>3 DEF Shape, Objects
<1>5. ASSUME NEW r \in Reqs,
             SetRole(r) \/ SetPermissions(r) \/ SetSftpRootPath(r)
      PROVE  Goal
  <2>1. PICK i \in users, rec \in Record : user' = [user EXCEPT ![i] = rec] /\ users' = users
    <3>1. CASE SetRole(r)
      BY <3>1, RecordFields DEF SetRole, Shape, Objects
    <3>2. CASE SetPermissions(r)
      BY <3>2, RecordFields DEF SetPermissions, Shape, Objects
    <3>3. CASE SetSftpRootPath(r)
      BY <3>3, RecordFields DEF SetSftpRootPath, Shape, Objects
    <3> QED
      BY <1>5, <3>1, <3>2, <3>3
  <2> QED
    BY <2>1 DEF Shape, Objects
<1>6. ASSUME NEW r \in Reqs, Remove(r)
      PROVE  Goal
  BY <1>6 DEF Remove, Shape, Objects
<1>7. ASSUME NEW r \in Reqs,
             \/ Arrive(r) \/ Refuse(r) \/ Create(r) \/ ResetPassword(r)
             \/ Stringify(r) \/ Landed(r) \/ SaveFails(r)
      PROVE  Goal
  <2>1. UNCHANGED <<user, users>>
    BY <1>7 DEF Arrive, Refuse, Create, ResetPassword, Stringify, Landed, SaveFails
  <2> QED
    BY <2>1 DEF Shape, Objects
<1>8. CASE UNCHANGED vars
  BY <1>8 DEF vars, accounts, Shape, Objects
<1> QED
  BY <1>1, <1>2, <1>3, <1>4, <1>5, <1>6, <1>7, <1>8 DEF Next

\* A request keeps what it holds while it does not act itself.
LEMMA HoldsOn ==
    ASSUME NEW q, Holds(q), \A i \in Ids : user[i] \in Record => user'[i] \in Record
    PROVE  Holds(q)'
  BY DEF Holds

LEMMA NextRequests ==
    ASSUME Shape, [Next]_vars
    PROVE  Requests'
<1>1. \A r \in Reqs : req[r].at # "idle" => up
  BY DEF Shape, Requests, Idle
<1>2. ASSUME NEW r \in Reqs, NEW q, up, up' = up,
             req' = [req EXCEPT ![r] = q], Holds(q)'
      PROVE  Requests'
  <2>1. \A p \in Reqs : Holds(req[p])'  \/ p = r
    BY <1>2, NextObjects, HoldsOn DEF Shape, Requests
  <2>2. \A p \in Reqs : req'[p] = IF p = r THEN q ELSE req[p]
    BY <1>2 DEF Shape, Requests
  <2>3. req' = [p \in Reqs |-> req'[p]]
    BY <1>2 DEF Shape, Requests
  <2> QED
    BY <1>2, <2>1, <2>2, <2>3 DEF Requests
<1>3. ASSUME NEW r \in Reqs, \/ Arrive(r) \/ Refuse(r) \/ CreatePush(r) \/ SetRole(r)
                             \/ SetPermissions(r) \/ SetSftpRootPath(r) \/ ResetStore(r)
                             \/ Landed(r) \/ SaveFails(r)
      PROVE  Requests'
  <2>1. up /\ up' = up
    BY <1>1, <1>3 DEF Arrive, Refuse, CreatePush, SetRole, SetPermissions,
                      SetSftpRootPath, ResetStore, Landed, SaveFails, Acts
  <2>2. PICK q : /\ req' = [req EXCEPT ![r] = q]
                 /\ q.at \in {"authed", "idle", "live"}
    BY <1>3 DEF Arrive, Refuse, CreatePush, SetRole, SetPermissions,
                SetSftpRootPath, ResetStore, Landed, SaveFails, Go, Idle
  <2>3. Holds(q)'
    BY <2>2 DEF Holds
  <2> QED
    BY <1>2, <2>1, <2>2, <2>3
<1>4. ASSUME NEW r \in Reqs, Create(r)
      PROVE  Requests'
  <2>1. PICK rec \in Record : Go(r, [at |-> "create", new |-> rec])
    BY <1>4 DEF Create
  <2>2. Holds([at |-> "create", new |-> rec])'
    BY DEF Holds
  <2> QED
    BY <1>1, <1>2, <1>4, <2>1, <2>2 DEF Create, Acts, Go
<1>5. ASSUME NEW r \in Reqs, ResetPassword(r)
      PROVE  Requests'
  <2>1. PICK i \in users : Go(r, [at |-> "reset", id |-> i])
    BY <1>5 DEF ResetPassword
  <2>2. i \in Ids /\ user'[i] \in Record
    BY <1>5 DEF ResetPassword, Shape, Objects
  <2>3. Holds([at |-> "reset", id |-> i])'
    BY <2>2 DEF Holds
  <2> QED
    BY <1>1, <1>2, <1>5, <2>1, <2>3 DEF ResetPassword, Acts, Go
<1>6. ASSUME NEW r \in Reqs, Stringify(r)
      PROVE  Requests'
  <2>1. PICK array \in SUBSET Ids :
          /\ \A i \in array : user[i] \in Record
          /\ Go(r, [at |-> "write", text |-> Text(array)])
    <3>1. CASE req[r].at = "live"
      BY <1>6, <3>1 DEF Stringify, Shape, Objects
    <3>2. CASE req[r].at = "old"
      BY <1>6, <3>2 DEF Stringify, Shape, Requests, Holds
    <3> QED
      BY <1>6, <3>1, <3>2 DEF Stringify
  <2>2. PICK text : text = Text(array)
    OBVIOUS
  <2>3. IsTable(text, Record)
    BY <2>1, <2>2, TextTable
  <2>4. Holds([at |-> "write", text |-> text])'
    BY <2>3 DEF Holds
  <2> QED
    BY <1>1, <1>2, <1>6, <2>1, <2>2, <2>4 DEF Stringify, Go
<1>7. ASSUME NEW r \in Reqs, Remove(r)
      PROVE  Requests'
  <2>1. up /\ up' = up /\ user' = user
    BY <1>1, <1>7 DEF Remove, Acts
  <2>2. \A q \in Reqs : req'[q].at = "live" \/ req'[q] = req[q]
                        \/ req'[q] = [at |-> "old", array |-> users]
    BY <1>7 DEF Remove
  <2>3. ASSUME NEW q \in Reqs
        PROVE  Holds(req[q])'
    BY <2>1, <2>2 DEF Holds, Shape, Requests, Objects
  <2>4. req' = [q \in Reqs |-> req'[q]]
    BY <1>7 DEF Remove
  <2> QED
    BY <2>1, <2>3, <2>4 DEF Requests
<1>8. CASE Start
  <2>1. up' = TRUE /\ (req' = req \/ Go(Boot, [at |-> "live"]))
    BY <1>8, LoadedTable DEF Start, Shape
  <2>2. \A r \in Reqs : req'[r].at \in {"idle", "live"}
    BY <1>8, <2>1 DEF Start, Shape, Requests, Idle, Go
  <2>3. req' = [r \in Reqs |-> req'[r]]
    BY <2>1 DEF Shape, Requests, Go
  <2> QED
    BY <2>1, <2>2, <2>3 DEF Requests, Holds
<1>9. CASE Crash
  BY <1>9 DEF Crash, Requests, Holds, Idle
<1>10. CASE UNCHANGED vars
  BY <1>10 DEF vars, accounts, Shape, Requests, Holds
<1> QED
  BY <1>3, <1>4, <1>5, <1>6, <1>7, <1>8, <1>9, <1>10 DEF Next

LEMMA NextShape ==
    ASSUME Shape, [Next]_vars
    PROVE  Shape'
<1>1. IsTable(disk, Stored)'
  <2>1. CASE Start
    BY <2>1 DEF Start, Shape, IsTable
  <2>2. ASSUME NEW r \in Reqs, Landed(r)
        PROVE  IsTable(disk, Stored)'
    <3>1. IsTable(req[r].text, Record)
      BY <2>2 DEF Landed, Shape, Requests, Holds
    <3>2. Record \subseteq Stored
      BY DEF Record, Stored
    <3> QED
      BY <2>2, <3>1, <3>2 DEF Landed, IsTable
  <2>3. CASE UNCHANGED disk
    BY <2>3 DEF Shape, IsTable
  <2> QED
    BY <2>1, <2>2, <2>3
       DEF Next, vars, accounts, Crash, Arrive, Refuse, Create, CreatePush, Remove, SetRole,
           SetPermissions, SetSftpRootPath, ResetPassword, ResetStore, Stringify,
           SaveFails
<1> QED
  BY <1>1, NextObjects, NextRequests DEF Shape

LEMMA ShapeAlways == Spec => []Shape
<1>1. Shape /\ [Next]_vars => Shape'
  BY NextShape
<1> QED
  BY InitShape, <1>1, PTL DEF Spec

-----------------------------------------------------------------------------
(***************************************************************************)
(* However requests interleave, an admin object carries no restriction,    *)
(* nor does one about to be created or a text about to be written: the     *)
(* setters refuse admins, and a promotion clears both restrictions.        *)
(***************************************************************************)
UnrestrictedAdmin(rec) == rec.role = "admin" => Unrestricted(rec)

Guarded ==
    /\ \A i \in Ids : UnrestrictedAdmin(user[i])
    /\ \A i \in DOMAIN disk : disk[i].role = "admin" => Unrestricted(Migrated(disk[i]))
    /\ \A r \in Reqs :
         /\ req[r].at = "create" => UnrestrictedAdmin(req[r].new)
         /\ req[r].at = "write" =>
              \A i \in DOMAIN req[r].text : UnrestrictedAdmin(req[r].text[i])

LEMMA MigratedUnrestricted ==
    ASSUME NEW rec \in Record
    PROVE  Unrestricted(Migrated(rec)) <=> Unrestricted(rec)
  BY DEF Record, Migrated, Unrestricted

LEMMA SetterKeepsGuard ==
    ASSUME NEW rec \in Record, UnrestrictedAdmin(rec)
    PROVE  /\ UnrestrictedAdmin(Promoted(rec))
           /\ UnrestrictedAdmin([rec EXCEPT !.role = "user"])
           /\ UnrestrictedAdmin([rec EXCEPT !.pass = "reset"])
           /\ rec.role # "admin" =>
                /\ \A p \in {"all", "some"} : UnrestrictedAdmin([rec EXCEPT !.perms = p])
                /\ \A d \in {"null", "dir"} : UnrestrictedAdmin([rec EXCEPT !.root = d])
  BY DEF Record, UnrestrictedAdmin, Unrestricted, Promoted

LEMMA InitGuarded == Init => Guarded
<1> SUFFICES ASSUME Init PROVE Guarded
  OBVIOUS
<1>1. \A i \in Ids : UnrestrictedAdmin(user[i])
  BY DEF Init, NoUser, UnrestrictedAdmin
<1>2. \A i \in DOMAIN disk : disk[i].role = "admin" => Unrestricted(Migrated(disk[i]))
  <2>1. \A rec \in Stored : rec.perms \in {"all", "missing"} /\ rec.root \in {"null", "missing"}
                              => Unrestricted(Migrated(rec))
    BY DEF Stored, Migrated, Unrestricted
  <2> QED
    BY <2>1, UsersAssumption DEF UsersAssumption, Init, IsTable, NoTable
<1>3. \A r \in Reqs : req[r].at = "idle"
  BY DEF Init, Idle
<1> QED
  BY <1>1, <1>2, <1>3 DEF Guarded

\* The objects stay unrestricted.
LEMMA NextGuardedObjects ==
    ASSUME Shape, Guarded, [Next]_vars
    PROVE  \A i \in Ids : UnrestrictedAdmin(user'[i])
<1> DEFINE Goal == \A i \in Ids : UnrestrictedAdmin(user'[i])
<1>1. CASE Start
  <2>1. \A i \in Ids : user'[i] = NoUser \/ i \in users'
    BY <1>1 DEF Start
  <2>2. UnrestrictedAdmin(NoUser)
    BY DEF UnrestrictedAdmin, NoUser
  <2>3. \A i \in DOMAIN Seeds : UnrestrictedAdmin(Seeded[i])
    BY DEF Seeded, UnrestrictedAdmin, Unrestricted
  <2>4. \A i \in DOMAIN disk : UnrestrictedAdmin(Migrated(disk[i]))
    BY MigratedRecord DEF Shape, IsTable, Guarded, UnrestrictedAdmin
  <2> QED
    BY <1>1, <2>1, <2>2, <2>3, <2>4, LoadedTable DEF Shape
<1>2. CASE Crash
  BY <1>2 DEF Crash, NoUser, UnrestrictedAdmin
<1>3. ASSUME NEW r \in Reqs, CreatePush(r)
      PROVE  Goal
  BY <1>3 DEF CreatePush, Shape, Objects, Guarded
<1>4. ASSUME NEW r \in Reqs,
             SetRole(r) \/ SetPermissions(r) \/ SetSftpRootPath(r) \/ ResetStore(r)
      PROVE  Goal
  <2>1. PICK i \in Ids : \E rec : user' = [user EXCEPT ![i] = rec] /\ UnrestrictedAdmin(rec)
    <3>1. CASE SetRole(r)
      BY <3>1, SetterKeepsGuard DEF SetRole, Shape, Objects, Guarded
    <3>2. CASE SetPermissions(r)
      BY <3>2, SetterKeepsGuard DEF SetPermissions, Shape, Objects, Guarded
    <3>3. CASE SetSftpRootPath(r)
      BY <3>3, SetterKeepsGuard DEF SetSftpRootPath, Shape, Objects, Guarded
    <3>4. CASE ResetStore(r)
      <4>1. req[r].id \in Ids /\ user[req[r].id] \in Record
        BY <3>4 DEF ResetStore, Shape, Requests, Holds
      <4>2. UnrestrictedAdmin([user[req[r].id] EXCEPT !.pass = "reset"])
        BY <4>1, SetterKeepsGuard DEF Guarded
      <4>3. user' = [user EXCEPT ![req[r].id] = [user[req[r].id] EXCEPT !.pass = "reset"]]
        BY <3>4 DEF ResetStore
      <4> QED
        BY <4>1, <4>2, <4>3
    <3> QED
      BY <1>4, <3>1, <3>2, <3>3, <3>4
  <2> QED
    BY <2>1 DEF Shape, Objects, Guarded
<1>5. CASE UNCHANGED user
  BY <1>5 DEF Guarded
<1> QED
  BY <1>1, <1>2, <1>3, <1>4, <1>5
     DEF Next, vars, accounts, Arrive, Refuse, Create, Remove, ResetPassword, Stringify, Landed,
         SaveFails

LEMMA NextGuarded ==
    ASSUME Shape, Guarded, [Next]_vars
    PROVE  Guarded'
<1>1. \A i \in Ids : UnrestrictedAdmin(user'[i])
  BY NextGuardedObjects
<1>2. \A i \in DOMAIN disk' : disk'[i].role = "admin" => Unrestricted(Migrated(disk'[i]))
  <2>1. CASE Start
    BY <2>1 DEF Start, Guarded
  <2>2. ASSUME NEW r \in Reqs, Landed(r)
        PROVE  \A i \in DOMAIN disk' :
                 disk'[i].role = "admin" => Unrestricted(Migrated(disk'[i]))
    <3>1. IsTable(req[r].text, Record)
      BY <2>2 DEF Landed, Shape, Requests, Holds
    <3>2. \A i \in DOMAIN disk' : disk'[i] \in Record /\ UnrestrictedAdmin(disk'[i])
      BY <2>2, <3>1 DEF Landed, Guarded, IsTable
    <3> QED
      BY <3>2, MigratedUnrestricted DEF UnrestrictedAdmin
  <2>3. CASE UNCHANGED disk
    BY <2>3 DEF Guarded
  <2> QED
    BY <2>1, <2>2, <2>3
       DEF Next, vars, accounts, Crash, Arrive, Refuse, Create, CreatePush, Remove, SetRole,
           SetPermissions, SetSftpRootPath, ResetPassword, ResetStore, Stringify,
           SaveFails
<1>3. ASSUME NEW q \in Reqs
      PROVE  /\ req'[q].at = "create" => UnrestrictedAdmin(req'[q].new)
             /\ req'[q].at = "write" =>
                  \A i \in DOMAIN req'[q].text : UnrestrictedAdmin(req'[q].text[i])
  <2> DEFINE Goal == /\ req'[q].at = "create" => UnrestrictedAdmin(req'[q].new)
                     /\ req'[q].at = "write" =>
                          \A i \in DOMAIN req'[q].text : UnrestrictedAdmin(req'[q].text[i])
  <2>1. CASE req'[q] = req[q]
    BY <2>1 DEF Guarded
  <2>2. CASE req'[q].at \notin {"create", "write"}
    BY <2>2
  <2>3. ASSUME NEW r \in Reqs, Create(r)
        PROVE  Goal
    <3>1. PICK rec \in Record : /\ rec.role = "admin" => Unrestricted(rec)
                                /\ Go(r, [at |-> "create", new |-> rec])
      BY <2>3 DEF Create
    <3> QED
      BY <3>1, <2>1 DEF Go, Shape, Requests, UnrestrictedAdmin
  <2>4. ASSUME NEW r \in Reqs, Stringify(r)
        PROVE  Goal
    <3>1. PICK array \in SUBSET Ids : Go(r, [at |-> "write", text |-> Text(array)])
      BY <2>4 DEF Stringify, Shape, Objects, Requests, Holds
    <3>2. \A i \in DOMAIN Text(array) : UnrestrictedAdmin(Text(array)[i])
      BY DEF Text, Guarded
    <3> QED
      BY <3>1, <3>2, <2>1 DEF Go, Shape, Requests
  <2>5. (\E r \in Reqs : Create(r) \/ Stringify(r))
        \/ req'[q] = req[q] \/ req'[q].at \notin {"create", "write"}
    <3>1. CASE \E r \in Reqs : \/ Arrive(r) \/ Refuse(r) \/ CreatePush(r) \/ SetRole(r)
                               \/ SetPermissions(r) \/ SetSftpRootPath(r)
                               \/ ResetPassword(r) \/ ResetStore(r) \/ Landed(r)
                               \/ SaveFails(r)
      BY <3>1 DEF Arrive, Refuse, CreatePush, SetRole, SetPermissions, SetSftpRootPath,
                  ResetPassword, ResetStore, Landed, SaveFails, Go, Idle, Shape, Requests
    <3>2. CASE \E r \in Reqs : Remove(r)
      BY <3>2 DEF Remove
    <3>3. CASE Start
      BY <3>3, LoadedTable DEF Shape, Requests, Go
    <3>4. CASE Crash \/ UNCHANGED vars
      BY <3>4 DEF Crash, vars, accounts, Idle
    <3> QED
      BY <3>1, <3>2, <3>3, <3>4 DEF Next
  <2> QED
    BY <2>1, <2>2, <2>3, <2>4, <2>5
<1> QED
  BY <1>1, <1>2, <1>3 DEF Guarded

(***************************************************************************)
(* However requests interleave, saves fail and the process is restarted,   *)
(* an admin has every permission and no root, in memory and on disk.       *)
(***************************************************************************)
THEOREM Unrestrained == Spec => []AdminsUnrestricted
<1>1. Shape /\ Guarded /\ [Next]_vars => Guarded'
  BY NextGuarded
<1>2. Shape /\ Guarded => AdminsUnrestricted
  BY DEF Shape, Objects, Guarded, AdminsUnrestricted, Admins, UnrestrictedAdmin
<1> QED
  BY ShapeAlways, InitGuarded, <1>1, <1>2, PTL DEF Spec

-----------------------------------------------------------------------------
(***************************************************************************)
(* The guards on the last admin are checked and acted upon between two     *)
(* awaits, so no interleaving gets past them.                              *)
(***************************************************************************)
LEMMA AdminLeft ==
    ASSUME Shape, [Next]_vars, up, up', Admins # {}
    PROVE  Admins' # {}
<1>1. ASSUME NEW r \in Reqs, Remove(r)
      PROVE  Admins' # {}
  <2>1. PICK i \in users : Admins # {i} /\ users' = users \ {i} /\ user' = user
    BY <1>1 DEF Remove, IsLastAdmin
  <2> QED
    BY <2>1 DEF Admins
<1>2. ASSUME NEW r \in Reqs, SetRole(r)
      PROVE  Admins' # {}
  <2>1. PICK i \in users, role \in {"admin", "user"} :
          /\ role = "user" => Admins # {i}
          /\ users' = users
          /\ user' = [user EXCEPT ![i] =
                        IF role = "admin" THEN Promoted(@) ELSE [@ EXCEPT !.role = role]]
    BY <1>2 DEF SetRole, IsLastAdmin
  <2>2. CASE role = "admin"
    <3>1. Promoted(user[i]).role = "admin"
      BY DEF Promoted, Shape, Objects, Record
    <3> QED
      BY <2>1, <2>2, <3>1 DEF Admins, Shape, Objects
  <2>3. CASE role = "user"
    <3>1. PICK j \in Admins : j # i
      BY <2>1, <2>3
    <3> QED
      BY <2>1, <2>3, <3>1 DEF Admins, Shape, Objects
  <2> QED
    BY <2>1, <2>2, <2>3
<1>3. ASSUME NEW r \in Reqs, CreatePush(r)
      PROVE  Admins' # {}
  <2>1. PICK i \in Ids : /\ user[i] = NoUser
                         /\ user' = [user EXCEPT ![i] = req[r].new]
                         /\ users' = users \union {i}
    BY <1>3 DEF CreatePush
  <2>2. \A j \in users : j # i
    BY <2>1 DEF Shape, Objects, Record, NoUser
  <2> QED
    BY <2>1, <2>2 DEF Admins, Shape, Objects
<1>4. ASSUME NEW r \in Reqs,
             SetPermissions(r) \/ SetSftpRootPath(r) \/ ResetStore(r)
      PROVE  Admins' # {}
  <2>1. users' = users /\ \A i \in users : user'[i].role = user[i].role
    <3>1. CASE SetPermissions(r)
      BY <3>1 DEF SetPermissions, Shape, Objects, Record
    <3>2. CASE SetSftpRootPath(r)
      BY <3>2 DEF SetSftpRootPath, Shape, Objects, Record
    <3>3. CASE ResetStore(r)
      BY <3>3 DEF ResetStore, Shape, Objects, Requests, Holds, Record
    <3> QED
      BY <1>4, <3>1, <3>2, <3>3
  <2> QED
    BY <2>1 DEF Admins
<1>5. CASE UNCHANGED <<user, users>>
  BY <1>5 DEF Admins
<1> QED
  BY <1>1, <1>2, <1>3, <1>4, <1>5
     DEF Next, vars, accounts, Start, Crash, Arrive, Refuse, Create, ResetPassword, Stringify,
         Landed, SaveFails

(***************************************************************************)
(* Until the process dies, the last admin is neither removed nor demoted,  *)
(* however the requests interleave.                                        *)
(***************************************************************************)
THEOREM LastAdmin == Spec => LastAdminStays
<1>1. Shape /\ [Next]_vars => (up /\ up' /\ Admins # {} => Admins' # {})
  BY AdminLeft
<1> QED
  BY ShapeAlways, <1>1, PTL DEF Spec, LastAdminStays

-----------------------------------------------------------------------------
(***************************************************************************)
(* One request at a time, the file too keeps an admin: the text a request  *)
(* is about to write is that of this.users, which has one since the        *)
(* request was let in.  (Interleaved, a save that has waited since before  *)
(* a remove() writes the array of that moment, with the fields of now.)    *)
(***************************************************************************)
Serial ==
    /\ \A q, r \in Reqs : req[q].at # "idle" /\ req[r].at # "idle" => q = r
    /\ \A r \in Reqs : req[r].at # "old"
    /\ (\E r \in Reqs : req[r].at # "idle") \/ users # {} => Admins # {}
    /\ DOMAIN disk # {} => HasAdmin(disk)
    /\ \A r \in Reqs : req[r].at = "write" => HasAdmin(req[r].text)

LEMMA InitSerial == Init => Serial
  BY UsersAssumption DEF UsersAssumption, Init, Serial, Idle, NoTable

\* Requests that are not the one that acts are idle.
LEMMA OthersIdle ==
    ASSUME ~concurrent, Shape, Serial, NEW r \in Reqs,
           \/ Arrive(r) \/ Refuse(r) \/ Create(r) \/ CreatePush(r) \/ Remove(r)
           \/ SetRole(r) \/ SetPermissions(r) \/ SetSftpRootPath(r)
           \/ ResetPassword(r) \/ ResetStore(r)
           \/ Stringify(r) \/ Landed(r) \/ SaveFails(r)
    PROVE  \A q \in Reqs \ {r} : req'[q].at = "idle"
<1>1. \A q \in Reqs \ {r} : req[q].at = "idle"
  BY DEF Arrive, Refuse, Create, CreatePush, Remove, SetRole, SetPermissions,
         SetSftpRootPath, ResetPassword, ResetStore, Stringify, Landed,
         SaveFails, Acts, Serial, Idle
<1>2. CASE Remove(r)
  BY <1>1, <1>2 DEF Remove
<1>3. CASE ~Remove(r)
  BY <1>1, <1>3
     DEF Arrive, Refuse, Create, CreatePush, SetRole, SetPermissions,
         SetSftpRootPath, ResetPassword, ResetStore, Stringify, Landed,
         SaveFails, Go, Shape, Requests
<1> QED
  BY <1>2, <1>3

LEMMA NextSerial ==
    ASSUME ~concurrent, Shape, Serial, [Next]_vars
    PROVE  Serial'
<1>1. CASE Start
  <2>1. users' # {} => Admins' # {}
    <3>1. \A i \in DOMAIN Seeds : Seeded[i].role = "admin"
      BY DEF Seeded
    <3>2. \A i \in DOMAIN disk : Migrated(disk[i]).role = disk[i].role
      BY MigratedRecord DEF Shape, IsTable
    <3> QED
      BY <1>1, <3>1, <3>2, LoadedTable DEF Shape, Serial, Admins, HasAdmin
  <2>2. DOMAIN disk' # {} => HasAdmin(disk')
    BY <1>1 DEF Start, Serial
  <2>3. \A r \in Reqs : req[r].at = "idle"
    BY <1>1 DEF Start, Shape, Requests, Idle
  <2>4. req' = req \/ (req' = [req EXCEPT ![Boot] = [at |-> "live"]] /\ users' # {})
    BY <1>1, LoadedTable DEF Shape, Go
  <2>5. \A r \in Reqs : req'[r].at = "idle" \/ (r = Boot /\ req'[r].at = "live" /\ users' # {})
    BY <2>3, <2>4 DEF Shape, Requests
  <2> QED
    BY <2>1, <2>2, <2>5 DEF Serial
<1>2. CASE Crash
  BY <1>2 DEF Crash, Serial, Idle
<1>3. CASE UNCHANGED vars
  BY <1>3 DEF vars, accounts, Serial, Admins
<1>4. ASSUME NEW r \in Reqs,
             \/ Arrive(r) \/ Refuse(r) \/ Create(r) \/ CreatePush(r) \/ Remove(r)
             \/ SetRole(r) \/ SetPermissions(r) \/ SetSftpRootPath(r)
             \/ ResetPassword(r) \/ ResetStore(r)
             \/ Stringify(r) \/ Landed(r) \/ SaveFails(r)
      PROVE  Serial'
  <2>1. \A q \in Reqs \ {r} : req'[q].at = "idle"
    BY <1>4, OthersIdle
  <2>2. Admins # {} /\ up /\ up'
    <3>1. Admins # {}
      BY <1>4 DEF Arrive, Refuse, Create, CreatePush, Remove, SetRole, SetPermissions,
                  SetSftpRootPath, ResetPassword, ResetStore, Stringify, Landed,
                  SaveFails, Acts, Serial
    <3>2. up /\ up' = up
      BY <1>4 DEF Arrive, Refuse, Create, CreatePush, Remove, SetRole, SetPermissions,
                  SetSftpRootPath, ResetPassword, ResetStore, Stringify, Landed,
                  SaveFails, Acts, Shape, Requests, Idle
    <3> QED
      BY <3>1, <3>2
  <2>3. Admins' # {}
    BY <2>2, AdminLeft
  <2>4. req'[r].at # "old"
    BY <1>4 DEF Arrive, Refuse, Create, CreatePush, Remove, SetRole, SetPermissions,
                SetSftpRootPath, ResetPassword, ResetStore, Stringify, Landed,
                SaveFails, Go, Idle, Shape, Requests, Serial
  <2>5. req'[r].at = "write" => HasAdmin(req'[r].text)
    <3>1. CASE Stringify(r)
      <4>1. req'[r].text = Text(users)
        BY <3>1 DEF Stringify, Go, Shape, Requests, Serial
      <4> QED
        BY <2>2, <4>1 DEF Text, Admins, HasAdmin
    <3>2. CASE ~Stringify(r)
      BY <1>4, <3>2
         DEF Arrive, Refuse, Create, CreatePush, Remove, SetRole, SetPermissions,
             SetSftpRootPath, ResetPassword, ResetStore, Landed, SaveFails, Go, Idle,
             Shape, Requests
    <3> QED
      BY <3>1, <3>2
  <2>6. DOMAIN disk' # {} => HasAdmin(disk')
    BY <1>4 DEF Arrive, Refuse, Create, CreatePush, Remove, SetRole, SetPermissions,
                SetSftpRootPath, ResetPassword, ResetStore, Stringify, Landed,
                SaveFails, Serial
  <2> QED
    BY <2>1, <2>3, <2>4, <2>5, <2>6 DEF Serial
<1> QED
  BY <1>1, <1>2, <1>3, <1>4 DEF Next

LEMMA AlwaysSerial == Spec => [](~concurrent => Serial)
<1>1. Init => (~concurrent => Serial)
  BY InitSerial
<1>2. [Next]_vars => concurrent' = concurrent
  BY FlagStays
<1>3. Shape /\ (~concurrent => Serial) /\ [Next]_vars => (~concurrent => Serial)'
  BY <1>2, NextSerial
<1> QED
  BY ShapeAlways, <1>1, <1>3, PTL DEF Spec

(***************************************************************************)
(* One request at a time, the panel always has an admin once it has an     *)
(* account, whatever saves fail and whenever the process is restarted.     *)
(***************************************************************************)
THEOREM NeverLockedOut == Spec => []SerialSomeAdminRemains
<1>1. (~concurrent => Serial) => SerialSomeAdminRemains
  BY DEF Serial, SerialSomeAdminRemains
<1> QED
  BY AlwaysSerial, <1>1, PTL

-----------------------------------------------------------------------------
(***************************************************************************)
(* The state keeps its types.  To Shape, which the other proofs rest on,   *)
(* this adds what a request may be at all.                                 *)
(***************************************************************************)
LEMMA NextIsRequest ==
    ASSUME Shape, Fields, [Next]_vars, NEW q \in Reqs
    PROVE  IsRequest(req'[q])
<1>1. CASE req'[q] = req[q]
  BY <1>1 DEF Fields
<1>2. CASE req'[q] = Idle
  BY <1>2 DEF IsRequest
<1>3. CASE req'[q] = [at |-> "live"]
  BY <1>3 DEF IsRequest
<1>4. CASE req'[q] = [at |-> "old", array |-> users]
  <2>1. users \in SUBSET Ids
    BY DEF Shape, Objects
  <2>2. [at |-> "old", array |-> users] \in [at : {"old"}, array : SUBSET Ids]
    BY <2>1
  <2> QED
    BY <1>4, <2>2 DEF IsRequest
<1>5. CASE \E i \in users : req'[q] = [at |-> "authed", by |-> user[i].name]
  <2>1. PICK i \in users : req'[q] = [at |-> "authed", by |-> user[i].name]
    BY <1>5
  <2>2. user[i].name \in Names
    BY DEF Shape, Objects, Record
  <2> QED
    BY <2>1, <2>2 DEF IsRequest
<1>6. CASE \E rec \in Record : req'[q] = [at |-> "create", new |-> rec]
  BY <1>6 DEF IsRequest
<1>7. CASE \E i \in users : req'[q] = [at |-> "reset", id |-> i]
  BY <1>7 DEF IsRequest, Shape, Objects
<1>8. CASE \E array \in SUBSET Ids :
              /\ \A i \in array : user[i] \in Record
              /\ req'[q] = [at |-> "write", text |-> Text(array)]
  <2>1. PICK text : IsTable(text, Record) /\ req'[q] = [at |-> "write", text |-> text]
    BY <1>8, TextTable
  <2> QED
    BY <2>1 DEF IsRequest
<1>9. CASE \E r \in Reqs :
             \/ Arrive(r) \/ Refuse(r) \/ Create(r) \/ CreatePush(r)
             \/ SetRole(r) \/ SetPermissions(r) \/ SetSftpRootPath(r)
             \/ ResetPassword(r) \/ ResetStore(r)
             \/ Stringify(r) \/ Landed(r) \/ SaveFails(r)
  <2>1. PICK r, to :
          /\ r \in Reqs /\ Go(r, to)
          /\ \/ to = Idle
             \/ to = [at |-> "live"]
             \/ \E i \in users : to = [at |-> "authed", by |-> user[i].name]
             \/ \E rec \in Record : to = [at |-> "create", new |-> rec]
             \/ \E i \in users : to = [at |-> "reset", id |-> i]
             \/ \E array \in SUBSET Ids :
                  /\ \A i \in array : user[i] \in Record
                  /\ to = [at |-> "write", text |-> Text(array)]
    <3>1. PICK r \in Reqs :
             \/ Arrive(r) \/ Refuse(r) \/ Create(r) \/ CreatePush(r)
             \/ SetRole(r) \/ SetPermissions(r) \/ SetSftpRootPath(r)
             \/ ResetPassword(r) \/ ResetStore(r)
             \/ Stringify(r) \/ Landed(r) \/ SaveFails(r)
      BY <1>9
    <3>2. CASE Arrive(r)
      BY <3>2 DEF Arrive, Admins
    <3>3. CASE Refuse(r) \/ Landed(r) \/ SaveFails(r)
      BY <3>3 DEF Refuse, Landed, SaveFails
    <3>4. CASE Create(r)
      BY <3>4 DEF Create
    <3>5. CASE CreatePush(r) \/ SetRole(r) \/ SetPermissions(r) \/ SetSftpRootPath(r) \/ ResetStore(r)
      BY <3>5 DEF CreatePush, SetRole, SetPermissions, SetSftpRootPath, ResetStore
    <3>6. CASE ResetPassword(r)
      BY <3>6 DEF ResetPassword
    <3>7. CASE Stringify(r)
      BY <3>7 DEF Stringify, Shape, Objects, Requests, Holds
    <3> QED
      BY <3>1, <3>2, <3>3, <3>4, <3>5, <3>6, <3>7
  <2>2. req'[q] = IF q = r THEN to ELSE req[q]
    BY <2>1 DEF Go, Shape, Requests
  <2> QED
    BY <1>1, <1>2, <1>3, <1>5, <1>6, <1>7, <1>8, <2>1, <2>2
<1>10. CASE \E r \in Reqs : Remove(r)
  <2>1. \/ req'[q] = [at |-> "live"] \/ req'[q] = req[q]
        \/ req'[q] = [at |-> "old", array |-> users]
    BY <1>10 DEF Remove
  <2> QED
    BY <1>1, <1>3, <1>4, <2>1
<1>11. CASE Crash \/ UNCHANGED vars
  BY <1>1, <1>2, <1>11 DEF Crash, vars, accounts
<1>12. CASE Start
  BY <1>1, <1>3, <1>12, LoadedTable DEF Shape, Requests, Go
<1> QED
  BY <1>9, <1>10, <1>11, <1>12 DEF Next

LEMMA AlwaysFields == Spec => []Fields
<1>1. Init => Fields
  <2> SUFFICES ASSUME Init PROVE Fields
    OBVIOUS
  <2>1. Shape
    BY InitShape
  <2>2. \A r \in Reqs : IsRequest(req[r])
    BY DEF Init, IsRequest
  <2>3. MaxActs \in Nat
    BY UsersAssumption DEF UsersAssumption
  <2>4. acts = 0
    BY DEF Init
  <2>5. acts \in 0..MaxActs
    BY <2>3, <2>4
  <2>6. up \in BOOLEAN /\ loaded \in BOOLEAN
    BY DEF Init
  <2> QED
    BY <2>1, <2>2, <2>5, <2>6 DEF Shape, Objects, Requests, Fields
<1>2. Shape /\ Fields /\ [Next]_vars => Fields'
  <2> SUFFICES ASSUME Shape, Fields, [Next]_vars PROVE Fields'
    OBVIOUS
  <2>1. Shape'
    BY NextShape
  <2>2. \A r \in Reqs : IsRequest(req'[r])
    BY NextIsRequest
  <2>3. acts \in Nat /\ acts <= MaxActs /\ MaxActs \in Nat
    BY UsersAssumption DEF UsersAssumption, Fields
  <2>4. /\ up' \in BOOLEAN /\ loaded' \in BOOLEAN
        /\ acts' = acts \/ (acts < MaxActs /\ acts' = acts + 1)
    <3>1. CASE Start \/ Crash \/ UNCHANGED vars
      BY <3>1 DEF Start, Crash, vars, accounts, Fields
    <3>2. CASE \E r \in Reqs : \/ Create(r) \/ Remove(r) \/ SetRole(r) \/ SetPermissions(r)
                               \/ SetSftpRootPath(r) \/ ResetPassword(r)
      BY <3>2 DEF Create, Remove, SetRole, SetPermissions, SetSftpRootPath, ResetPassword,
                  Acts, Fields
    <3>3. CASE \E r \in Reqs : \/ Arrive(r) \/ Refuse(r) \/ CreatePush(r) \/ ResetStore(r)
                               \/ Stringify(r) \/ Landed(r) \/ SaveFails(r)
      BY <3>3 DEF Arrive, Refuse, CreatePush, ResetStore, Stringify, Landed, SaveFails, Fields
    <3> QED
      BY <3>1, <3>2, <3>3 DEF Next
  <2>5. acts' \in 0..MaxActs
    BY <2>3, <2>4
  <2> QED
    BY <2>1, <2>2, <2>4, <2>5 DEF Shape, Objects, Requests, Fields
<1> QED
  BY ShapeAlways, <1>1, <1>2, PTL DEF Spec

(***************************************************************************)
(* The accounts, the file and the requests keep their types, whatever      *)
(* interleaves, fails or restarts.                                         *)
(***************************************************************************)
THEOREM TypeCorrect == Spec => []TypeOK
<1> DEFINE Flag == concurrent \in BOOLEAN
<1>1. Init => Flag
  BY DEF Init
<1>2. Flag /\ [Next]_vars => Flag'
  BY FlagStays
<1>3. Fields /\ Flag => TypeOK
  BY DEF TypeOK
<1> HIDE DEF Flag
<1> QED
  BY <1>1, <1>2, <1>3, AlwaysFields, PTL DEF Spec

-----------------------------------------------------------------------------
(***************************************************************************)
(* One request at a time, the name that create() found free is still free  *)
(* when it has the hash.  Names are unique wherever accounts may come      *)
(* from: memory, the file, and the text that is about to replace it.       *)
(***************************************************************************)
UniqueIn(t) == \A i, j \in DOMAIN t : t[i].name = t[j].name => i = j

Named ==
    /\ NamesUnique
    /\ UniqueIn(disk)
    /\ \A r \in Reqs :
         /\ req[r].at = "create" => ~NameTaken(req[r].new.name)
         /\ req[r].at = "write" => UniqueIn(req[r].text)

\* No account changes its name, except that a new one gets one.
LEMMA NamesStay ==
    ASSUME Shape, NEW r \in Reqs,
           SetRole(r) \/ SetPermissions(r) \/ SetSftpRootPath(r) \/ ResetStore(r)
    PROVE  users' = users /\ \A i \in users : user'[i].name = user[i].name
<1>1. CASE SetRole(r)
  <2>1. PICK i, rec : /\ i \in users /\ rec.name = user[i].name
                      /\ user' = [user EXCEPT ![i] = rec] /\ users' = users
    <3>1. \A rec \in Record : /\ Promoted(rec).name = rec.name
                             /\ [rec EXCEPT !.role = "user"].name = rec.name
      BY DEF Record, Promoted
    <3> QED
      BY <1>1, <3>1 DEF SetRole, Shape, Objects
  <2> QED
    BY <2>1 DEF Shape, Objects
<1>2. CASE SetPermissions(r)
  BY <1>2 DEF SetPermissions, Shape, Objects, Record
<1>3. CASE SetSftpRootPath(r)
  BY <1>3 DEF SetSftpRootPath, Shape, Objects, Record
<1>4. CASE ResetStore(r)
  BY <1>4 DEF ResetStore, Shape, Objects, Requests, Holds, Record
<1> QED
  BY <1>1, <1>2, <1>3, <1>4

LEMMA InitNamed ==
    ASSUME UniqueIn(Legacy), Init
    PROVE  Named
<1>1. UniqueIn(disk)
  BY DEF Init, NoTable, UniqueIn
<1> QED
  BY <1>1 DEF Init, Named, NamesUnique, Idle

LEMMA NextNamed ==
    ASSUME ~concurrent, \A i, j \in DOMAIN Seeds : Seeds[i] = Seeds[j] => i = j,
           Shape, Serial, Named, [Next]_vars
    PROVE  Named'
<1>1. CASE Start
  <2>1. NamesUnique'
    <3>1. \A i \in DOMAIN Seeds : Seeded[i].name = Seeds[i]
      BY DEF Seeded
    <3>2. \A rec \in Stored : Migrated(rec).name = rec.name
      BY DEF Stored, Migrated
    <3>3. CASE users' = DOMAIN Seeds /\ \A i \in users' : user'[i] = Seeded[i]
      BY <3>1, <3>3 DEF NamesUnique
    <3>4. CASE users' = DOMAIN disk /\ \A i \in users' : user'[i] = Migrated(disk[i])
      <4>1. \A i \in users' : user'[i].name = disk[i].name
        BY <3>2, <3>4 DEF Shape, IsTable
      <4> QED
        BY <3>4, <4>1 DEF NamesUnique, Named, UniqueIn
    <3> QED
      BY <1>1, <3>3, <3>4, LoadedTable DEF Shape
  <2>2. UniqueIn(disk)'
    BY <1>1 DEF Start, Named, UniqueIn
  <2>3. \A r \in Reqs : req'[r].at \in {"idle", "live"}
    <3>1. \A r \in Reqs : req[r].at = "idle"
      BY <1>1 DEF Start, Shape, Requests, Idle
    <3> QED
      BY <1>1, <3>1, LoadedTable DEF Shape, Requests, Go
  <2> QED
    BY <2>1, <2>2, <2>3 DEF Named
<1>2. CASE Crash
  BY <1>2 DEF Crash, Named, NamesUnique, Idle
<1>3. CASE UNCHANGED vars
  BY <1>3 DEF vars, accounts, Named, NamesUnique, NameTaken
<1>4. ASSUME NEW r \in Reqs,
             \/ Arrive(r) \/ Refuse(r) \/ Create(r) \/ CreatePush(r) \/ Remove(r)
             \/ SetRole(r) \/ SetPermissions(r) \/ SetSftpRootPath(r)
             \/ ResetPassword(r) \/ ResetStore(r)
             \/ Stringify(r) \/ Landed(r) \/ SaveFails(r)
      PROVE  Named'
  <2>1. NamesUnique'
    <3>1. CASE CreatePush(r)
      <4>1. PICK i \in Ids : /\ user[i] = NoUser
                            /\ user' = [user EXCEPT ![i] = req[r].new]
                            /\ users' = users \union {i}
                            /\ req[r].at = "create"
        BY <3>1 DEF CreatePush
      <4>2. \A j \in users : j # i /\ user'[j] = user[j]
        BY <4>1 DEF Shape, Objects, Record, NoUser
      <4>3. \A j \in users : user'[j].name # user'[i].name
        BY <4>1, <4>2 DEF Named, NameTaken, Shape, Objects
      <4> QED
        BY <4>1, <4>2, <4>3 DEF Named, NamesUnique
    <3>2. CASE Remove(r)
      BY <3>2 DEF Remove, Named, NamesUnique
    <3>3. CASE SetRole(r) \/ SetPermissions(r) \/ SetSftpRootPath(r) \/ ResetStore(r)
      BY <3>3, NamesStay DEF Named, NamesUnique
    <3>4. CASE UNCHANGED <<user, users>>
      BY <3>4 DEF Named, NamesUnique
    <3> QED
      BY <1>4, <3>1, <3>2, <3>3, <3>4
         DEF Arrive, Refuse, Create, ResetPassword, Stringify, Landed, SaveFails
  <2>2. UniqueIn(disk)'
    <3>1. CASE Landed(r)
      BY <3>1 DEF Landed, Named, UniqueIn
    <3>2. CASE UNCHANGED disk
      BY <3>2 DEF Named, UniqueIn
    <3> QED
      BY <1>4, <3>1, <3>2
         DEF Arrive, Refuse, Create, CreatePush, Remove, SetRole, SetPermissions,
             SetSftpRootPath, ResetPassword, ResetStore, Stringify, SaveFails
  <2>3. (/\ req[r].at = "create" => ~NameTaken(req[r].new.name)
         /\ req[r].at = "write" => UniqueIn(req[r].text))'
    <3>1. CASE Create(r)
      <4>1. PICK rec \in Record : /\ ~NameTaken(rec.name)
                                 /\ Go(r, [at |-> "create", new |-> rec])
                                 /\ UNCHANGED <<user, users>>
        BY <3>1 DEF Create
      <4>2. req'[r] = [at |-> "create", new |-> rec]
        BY <4>1 DEF Go, Shape, Requests
      <4> QED
        BY <4>1, <4>2 DEF NameTaken
    <3>2. CASE Stringify(r)
      <4>1. req'[r].at = "write" /\ req'[r].text = Text(users)
        BY <3>2 DEF Stringify, Go, Shape, Requests, Serial
      <4> QED
        BY <4>1 DEF Text, UniqueIn, Named, NamesUnique
    <3>3. CASE ~Create(r) /\ ~Stringify(r)
      <4>1. req'[r].at \notin {"create", "write"}
        BY <1>4, <3>3
           DEF Arrive, Refuse, CreatePush, Remove, SetRole, SetPermissions,
               SetSftpRootPath, ResetPassword, ResetStore, Landed, SaveFails, Go, Idle,
               Shape, Requests
      <4> QED
        BY <4>1
    <3> QED
      BY <3>1, <3>2, <3>3
  <2>4. \A q \in Reqs : q = r \/ req'[q].at = "idle"
    BY <1>4, OthersIdle
  <2> QED
    BY <2>1, <2>2, <2>3, <2>4 DEF Named, NameTaken
<1> QED
  BY <1>1, <1>2, <1>3, <1>4 DEF Next

(***************************************************************************)
(* One request at a time, and if neither USERS nor an older file names an  *)
(* account twice, no two accounts ever have the same name, over failed     *)
(* saves and restarts too.                                                 *)
(***************************************************************************)
THEOREM Unambiguous ==
    ASSUME UniqueIn(Legacy),
           \A i, j \in DOMAIN Seeds : Seeds[i] = Seeds[j] => i = j
    PROVE  Spec => []SerialNamesUnique
<1>1. Init => (~concurrent => Named)
  BY InitNamed
<1>2. [Next]_vars => concurrent' = concurrent
  BY FlagStays
<1>3. /\ Shape /\ (~concurrent => Serial) /\ (~concurrent => Named) /\ [Next]_vars
      => (~concurrent => Named)'
  BY <1>2, NextNamed
<1>4. (~concurrent => Named) => SerialNamesUnique
  BY DEF Named, SerialNamesUnique
<1> QED
  BY ShapeAlways, AlwaysSerial, <1>1, <1>3, <1>4, PTL DEF Spec
=============================================================================
