------------------------------ MODULE JsonStore ------------------------------
(***************************************************************************)
(* services/jsonStore.ts: a JSON document kept in memory by one service    *)
(* (users, scheduled tasks, audit log) and saved with writeJsonFile().     *)
(*                                                                         *)
(* A save is mkdir, then stringify and open(O_TRUNC) of the temporary      *)
(* file, then write, then rename; an await separates them, so saves of one *)
(* file interleave and all use the same temporary name.  Files are names   *)
(* bound to inodes, because a writer keeps writing to the inode it opened  *)
(* after someone renamed it.                                               *)
(*                                                                         *)
(* The text of version v is Size[v] units long.  A file is described by    *)
(* the version its first units spell and by its length: JSON.parse accepts *)
(* it exactly when the two agree.  A crash is the death of the process     *)
(* (a power cut, which may lose completed writes, is not modelled).        *)
(***************************************************************************)
EXTENDS Naturals, FiniteSets

CONSTANTS
    Writers,    \* save slots: how many saves may be in flight
    MaxSaves,   \* bound on the saves of a behaviour
    Size        \* length of the text of each version

Versions == 1..MaxSaves

ASSUME JsonStoreAssumption ==
    /\ Writers # {} /\ IsFiniteSet(Writers)
    /\ MaxSaves \in Nat \ {0}
    /\ Size \in [Versions -> Nat \ {0}]

Fallback == 0                       \* the document when no file exists
NoInode == 0
Inodes == 1..(Cardinality(Writers) + 2)

Empty == [head |-> 0, size |-> 0]
Garbled == [head |-> 0, size |-> 1]     \* a write cut short by an I/O error

VARIABLES
    status,     \* "up", "down", or "broken" (the load rejected for good)
    mem,        \* version in the service's memory
    ver,        \* versions made so far (numbers the next one)
    writer,     \* the saves in flight: step, version, whether its object is the current one, inode
    tmp, file,  \* inodes the temporary name and the document's name are bound to
    inode,      \* contents
    acked,      \* history: newest version whose save was acknowledged
    concurrent  \* TRUE: a save may start while another is in flight; never changes

store == <<status, mem, ver, writer, tmp, file, inode, acked>>
vars == <<store, concurrent>>

Idle == [pc |-> "idle", doc |-> Fallback, live |-> FALSE, fd |-> NoInode]
Content == [head : Versions \union {0}, size : Nat]

Fields ==
    /\ status \in {"up", "down", "broken"}
    /\ mem \in Versions \union {Fallback}
    /\ ver \in 0..MaxSaves
    /\ writer \in [Writers -> [pc : {"idle", "mkdir", "opened", "written", "renamed"},
                               doc : Versions \union {Fallback},
                               live : BOOLEAN,
                               fd : Inodes \union {NoInode}]]
    /\ {tmp, file} \subseteq Inodes \union {NoInode}
    /\ inode \in [Inodes -> Content]
    /\ acked \in 0..MaxSaves
TypeOK == Fields /\ concurrent \in BOOLEAN

Init ==
    /\ status = "up" /\ mem = Fallback /\ ver = 0 /\ acked = 0
    /\ writer = [w \in Writers |-> Idle]
    /\ tmp = NoInode /\ file = NoInode
    /\ inode = [i \in Inodes |-> Empty]
    /\ concurrent \in BOOLEAN

-----------------------------------------------------------------------------
\* readJsonFile(): ENOENT gives the fallback, a parse error is thrown on.
Parses(c) == c.head # 0 /\ c.size = Size[c.head]
Readable == file = NoInode \/ Parses(inode[file])
\* Slip: ENOENT leaves the document undefined.
StoredOrUndefined == IF file = NoInode THEN MaxSaves + 1 ELSE inode[file].head
Stored == IF file = NoInode THEN Fallback ELSE inode[file].head

\* write(2) of version v at offset 0 of an inode holding c: nothing after the
\* new text is cut off, the truncation was done by open.
Overwrite(c, v) == [head |-> v, size |-> IF Size[v] >= c.size THEN Size[v] ELSE c.size]

Referenced(i) == i \in {tmp, file} \/ \E w \in Writers : writer[w].fd = i

Active(w) == writer[w].pc # "idle"

(***************************************************************************)
(* A handler changes the document and calls writeJsonFile().  Saves that   *)
(* have not stringified yet hold a reference: they see the change when it  *)
(* is made in place, and keep the old object when it is replaced.          *)
(***************************************************************************)
Save(w, inPlace) ==
    /\ status = "up" /\ ~Active(w) /\ ver < MaxSaves
    /\ concurrent \/ \A v \in Writers : ~Active(v)
    /\ ver' = ver + 1
    /\ mem' = ver'
    /\ writer' = [v \in Writers |->
         IF v = w THEN [pc |-> "mkdir", doc |-> ver', live |-> TRUE, fd |-> NoInode]
         ELSE IF writer[v].pc = "mkdir" /\ writer[v].live
              THEN [writer[v] EXCEPT !.doc = IF inPlace THEN ver' ELSE @, !.live = inPlace]
              ELSE writer[v]]
    /\ UNCHANGED <<status, tmp, file, inode, acked, concurrent>>

\* Slips: the document's own file is truncated and written; it is deleted first.
OpenInPlace(w) ==
    /\ writer[w].pc = "mkdir"
    /\ \E i \in Inodes :
         /\ IF file # NoInode THEN i = file ELSE ~Referenced(i)
         /\ file' = i
         /\ inode' = [inode EXCEPT ![i] = Empty]
         /\ writer' = [writer EXCEPT ![w].pc = "opened", ![w].live = FALSE, ![w].fd = i]
    /\ UNCHANGED <<status, mem, ver, tmp, acked, concurrent>>
OpenDeletes(w) ==
    /\ writer[w].pc = "mkdir"
    /\ \E i \in Inodes :
         /\ IF tmp # NoInode THEN i = tmp ELSE ~Referenced(i)
         /\ tmp' = i /\ file' = NoInode
         /\ inode' = [inode EXCEPT ![i] = Empty]
         /\ writer' = [writer EXCEPT ![w].pc = "opened", ![w].live = FALSE, ![w].fd = i]
    /\ UNCHANGED <<status, mem, ver, acked, concurrent>>

\* mkdir resolved: JSON.stringify, and writeFile() opens the temporary name,
\* truncating what is there.
Open(w) ==
    /\ writer[w].pc = "mkdir"
    /\ \E i \in Inodes :
         /\ IF tmp # NoInode THEN i = tmp ELSE ~Referenced(i)
         /\ tmp' = i
         /\ inode' = [inode EXCEPT ![i] = Empty]
         /\ writer' = [writer EXCEPT ![w].pc = "opened", ![w].live = FALSE, ![w].fd = i]
    /\ UNCHANGED <<status, mem, ver, file, acked, concurrent>>

\* Slip: the rename is forgotten.
WriteOnly(w) ==
    /\ writer[w].pc = "opened"
    /\ inode' = [inode EXCEPT ![writer[w].fd] = Overwrite(@, writer[w].doc)]
    /\ writer' = [writer EXCEPT ![w].pc = "renamed", ![w].fd = NoInode]
    /\ UNCHANGED <<status, mem, ver, tmp, file, acked, concurrent>>

Write(w) ==
    /\ writer[w].pc = "opened"
    /\ inode' = [inode EXCEPT ![writer[w].fd] = Overwrite(@, writer[w].doc)]
    /\ writer' = [writer EXCEPT ![w].pc = "written", ![w].fd = NoInode]
    /\ UNCHANGED <<status, mem, ver, tmp, file, acked, concurrent>>

\* rename(2) moves whatever the temporary name is bound to now.
Rename(w) ==
    /\ writer[w].pc = "written" /\ tmp # NoInode
    /\ file' = tmp
    /\ tmp' = NoInode
    /\ writer' = [writer EXCEPT ![w].pc = "renamed"]
    /\ UNCHANGED <<status, mem, ver, inode, acked, concurrent>>

\* writeJsonFile() resolves and the caller is answered.
Resolve(w) ==
    /\ writer[w].pc = "renamed"
    /\ acked' = IF writer[w].doc > acked THEN writer[w].doc ELSE acked
    /\ writer' = [writer EXCEPT ![w] = Idle]
    /\ UNCHANGED <<status, mem, ver, tmp, file, inode, concurrent>>

\* Someone else renamed the temporary file away: ENOENT, the promise rejects.
RenameMissing(w) ==
    /\ writer[w].pc = "written" /\ tmp = NoInode
    /\ writer' = [writer EXCEPT ![w] = Idle]
    /\ UNCHANGED <<status, mem, ver, tmp, file, inode, acked, concurrent>>

\* A system call fails (disk full, permissions): the promise rejects; memory
\* keeps the change and the temporary file what was written.
Reject(w) ==
    /\ writer[w].pc \in {"mkdir", "opened", "written"}
    /\ inode' = IF writer[w].pc = "opened"
                THEN [inode EXCEPT ![writer[w].fd] = Garbled] ELSE inode
    /\ writer' = [writer EXCEPT ![w] = Idle]
    /\ UNCHANGED <<status, mem, ver, tmp, file, acked, concurrent>>

Crash ==
    /\ status = "up"
    /\ status' = "down"
    /\ mem' = Fallback
    /\ writer' = [w \in Writers |-> Idle]
    /\ UNCHANGED <<ver, tmp, file, inode, acked, concurrent>>

\* The next process loads the file.  Its temporary name holds its own pid:
\* the leftover is in its way only when the pid is the same again.
Restart ==
    /\ status = "down"
    /\ tmp' \in {tmp, NoInode}
    /\ IF Readable THEN status' = "up" /\ mem' = Stored
                   ELSE status' = "broken" /\ mem' = Fallback
    /\ UNCHANGED <<ver, writer, file, inode, acked, concurrent>>

Next ==
    \/ \E w \in Writers :
         \/ \E inPlace \in BOOLEAN : Save(w, inPlace)
         \/ Open(w) \/ Write(w) \/ Rename(w) \/ Resolve(w)
         \/ RenameMissing(w) \/ Reject(w)
    \/ Crash
    \/ Restart

Spec == Init /\ [][Next]_vars

-----------------------------------------------------------------------------
(***************************************************************************)
(* One save at a time: users.json and its like can be loaded at every      *)
(* instant, hence after a crash at any step of writeJsonFile().  This is   *)
(* what the temporary file and the rename are for; with two saves in       *)
(* flight it is what the shared name defeats.                              *)
(***************************************************************************)
SerialNeverCorrupt == ~concurrent => Readable

(***************************************************************************)
(* One save at a time: what writeJsonFile() acknowledged is in the file,   *)
(* or something newer is, whatever fails or crashes later.                 *)
(***************************************************************************)
SerialAcknowledgedSurvives == ~concurrent => (Readable => Stored >= acked)

(***************************************************************************)
(* The document, once there, never goes missing (a load in between would   *)
(* take the fallback: no users, no tasks) - overlapping saves included.    *)
(***************************************************************************)
NeverVanishes == [][file # NoInode => file' # NoInode]_vars

(***************************************************************************)
(* No crash leaves a file the next start cannot load.                      *)
(***************************************************************************)
LoadsAfterCrash == status # "broken"

\* The version of the save in flight, as a caller of the store sees it.
InFlight == {w \in Writers : Active(w)}
Pending == IF InFlight = {} THEN 0 ELSE writer[CHOOSE w \in InFlight : TRUE].doc

Atomic == INSTANCE AtomicStore WITH
            Versions <- Versions, Absent <- Fallback,
            stored <- IF Readable THEN Stored ELSE MaxSaves + 1,
            pending <- Pending

(***************************************************************************)
(* One save at a time, writeJsonFile() implements the atomic store: what   *)
(* is stored changes in one step, to the version being saved.              *)
(***************************************************************************)
SerialImplementsAtomicStore ==
    /\ ~concurrent => Atomic!Init
    /\ [][~concurrent => [Atomic!Next]_(Atomic!vars)]_vars
=============================================================================
