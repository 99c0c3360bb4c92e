-------------------------- MODULE JsonStore_proof ---------------------------
(***************************************************************************)
(* What holds of JsonStore for every number of writers and versions.       *)
(***************************************************************************)
EXTENDS JsonStore, FiniteSetTheorems, TLAPS

\* Whether operations interleave is settled at the start.
LEMMA FlagStays == [Next]_vars => concurrent' = concurrent
  BY DEF Next, vars, Save, Open, Write, Rename, Resolve, RenameMissing, Reject, Crash,
         Restart

(***************************************************************************)
(* The shape of the state: a save in flight is of a version, and one that  *)
(* has opened its file holds an inode.                                     *)
(***************************************************************************)
Shape ==
    /\ Fields
    /\ \A w \in Writers : /\ Active(w) => writer[w].doc \in Versions
                          /\ writer[w].pc = "opened" => writer[w].fd \in Inodes
    /\ status # "up" => \A w \in Writers : ~Active(w)

Slots == [pc : {"idle", "mkdir", "opened", "written", "renamed"}, doc : Versions \union {Fallback},
          live : BOOLEAN, fd : Inodes \union {NoInode}]

LEMMA InodeNumbers == NoInode \notin Inodes /\ Inodes \subseteq Nat
  BY JsonStoreAssumption, FS_CardinalityType DEF JsonStoreAssumption, NoInode, Inodes

LEMMA VersionNumbers == Fallback \notin Versions /\ Versions \subseteq Nat
  BY JsonStoreAssumption DEF JsonStoreAssumption, Fallback, Versions

LEMMA SlotFields ==
    ASSUME NEW x \in Slots
    PROVE  /\ x.pc \in {"idle", "mkdir", "opened", "written", "renamed"}
           /\ x.doc \in Versions \union {Fallback} /\ x.fd \in Inodes \union {NoInode}
           /\ \A v \in Versions : [x EXCEPT !.doc = v] \in Slots
           /\ [x EXCEPT !.live = FALSE] \in Slots
           /\ \A i \in Inodes : [x EXCEPT !.pc = "opened", !.live = FALSE, !.fd = i] \in Slots
           /\ [x EXCEPT !.pc = "written", !.fd = NoInode] \in Slots
           /\ [x EXCEPT !.pc = "renamed"] \in Slots
           /\ Idle \in Slots /\ Idle.pc = "idle"
  BY DEF Slots, Idle

LEMMA Contents ==
    /\ Empty \in Content /\ Garbled \in Content
    /\ \A c \in Content, v \in Versions :
         /\ Overwrite(c, v) \in Content /\ Overwrite(c, v).head = v
         /\ Overwrite(Empty, v).size = Size[v] /\ Overwrite(Empty, v).head = v
  BY JsonStoreAssumption DEF JsonStoreAssumption, Content, Empty, Garbled, Overwrite

LEMMA InitShape == Init => Shape
<1> SUFFICES ASSUME Init PROVE Shape
  OBVIOUS
<1>1. ver \in 0..MaxSaves /\ acked \in 0..MaxSaves
  BY JsonStoreAssumption DEF JsonStoreAssumption, Init
<1>2. writer = [w \in Writers |-> Idle] /\ Idle \in Slots
  BY DEF Init, Idle, Slots
<1>3. \A w \in Writers : writer[w].pc = "idle"
  BY <1>2 DEF Idle
<1>4. Fields
  BY <1>1, <1>2, Contents DEF Init, Fields, Slots
<1> QED
  BY <1>3, <1>4 DEF Shape, Active

LEMMA SaveShape ==
    ASSUME Shape, NEW w \in Writers, NEW inPlace \in BOOLEAN, Save(w, inPlace)
    PROVE  Shape'
<1>1. ver' = ver + 1 /\ ver' \in Versions /\ ver' \in 0..MaxSaves /\ mem' = ver' /\ status' = "up"
  <2>1. ver \in 0..MaxSaves
    BY DEF Shape, Fields
  <2>2. MaxSaves \in Nat
    BY JsonStoreAssumption DEF JsonStoreAssumption
  <2>3. ver < MaxSaves /\ ver' = ver + 1 /\ mem' = ver' /\ status' = status /\ status = "up"
    BY DEF Save
  <2> QED
    BY <2>1, <2>2, <2>3 DEF Versions
<1>2. writer' = [v \in Writers |-> writer'[v]]
  BY DEF Save
<1>3. ASSUME NEW v \in Writers
      PROVE  /\ writer'[v] \in Slots
             /\ writer'[v].pc # "idle" => writer'[v].doc \in Versions
             /\ writer'[v].pc = "opened" => writer'[v].fd \in Inodes
  <2>1. writer[v] \in Slots
    BY DEF Shape, Fields, Slots
  <2>2. CASE v = w
    <3>1. writer'[v] = [pc |-> "mkdir", doc |-> ver', live |-> TRUE, fd |-> NoInode]
      BY <2>2 DEF Save
    <3> QED
      BY <1>1, <3>1 DEF Slots
  <2>3. CASE v # w /\ writer[v].pc = "mkdir" /\ writer[v].live
    <3>1. writer'[v] = [writer[v] EXCEPT !.doc = IF inPlace THEN ver' ELSE @, !.live = inPlace]
      BY <2>3 DEF Save
    <3>2. writer[v].doc \in Versions
      BY <2>3 DEF Shape, Active
    <3> QED
      BY <1>1, <2>1, <2>3, <3>1, <3>2 DEF Slots
  <2>4. CASE v # w /\ ~(writer[v].pc = "mkdir" /\ writer[v].live)
    <3>1. writer'[v] = writer[v]
      BY <2>4 DEF Save
    <3> QED
      BY <2>1, <3>1 DEF Shape, Active
  <2> QED
    BY <2>2, <2>3, <2>4
<1>4. writer' \in [Writers -> Slots]
  BY <1>2, <1>3
<1>5. Fields'
  BY <1>1, <1>4 DEF Save, Shape, Fields, Slots
<1> QED
  BY <1>1, <1>3, <1>5 DEF Shape, Active

LEMMA StepShape ==
    ASSUME Shape, NEW w \in Writers,
           Open(w) \/ Write(w) \/ Rename(w) \/ Resolve(w) \/ RenameMissing(w) \/ Reject(w)
    PROVE  /\ Shape'
           /\ \A v \in Writers : v # w => writer'[v] = writer[v]
           /\ Active(w) /\ status' = status /\ status = "up" /\ ver' = ver
<1>1. Active(w) /\ writer[w].doc \in Versions
  BY DEF Open, Write, Rename, Resolve, RenameMissing, Reject, Shape, Active
<1>2. status' = status /\ status = "up" /\ mem' = mem /\ ver' = ver
  BY <1>1 DEF Open, Write, Rename, Resolve, RenameMissing, Reject, Shape
<1>3. writer[w] \in Slots /\ writer \in [Writers -> Slots]
  BY DEF Shape, Fields, Slots
<1>4. PICK x \in Slots : /\ writer' = [writer EXCEPT ![w] = x]
                         /\ x = Idle \/ x.doc = writer[w].doc
                         /\ x.pc = "opened" => x.fd \in Inodes
  <2>1. CASE Open(w)
    <3>1. PICK i \in Inodes : writer' = [writer EXCEPT ![w].pc = "opened", ![w].live = FALSE, ![w].fd = i]
      BY <2>1 DEF Open
    <3> DEFINE y == [writer[w] EXCEPT !.pc = "opened", !.live = FALSE, !.fd = i]
    <3>2. writer' = [writer EXCEPT ![w] = y]
      BY <3>1
    <3>3. y \in Slots /\ y.doc = writer[w].doc /\ y.fd = i
      BY <1>3 DEF Slots
    <3> QED
      BY <3>2, <3>3
  <2>2. CASE Write(w)
    <3> DEFINE y == [writer[w] EXCEPT !.pc = "written", !.fd = NoInode]
    <3>1. writer' = [writer EXCEPT ![w] = y]
      BY <2>2 DEF Write
    <3>2. y \in Slots /\ y.doc = writer[w].doc /\ y.pc = "written"
      BY <1>3 DEF Slots
    <3> QED
      BY <3>1, <3>2
  <2>3. CASE Rename(w)
    <3> DEFINE y == [writer[w] EXCEPT !.pc = "renamed"]
    <3>1. writer' = [writer EXCEPT ![w] = y]
      BY <2>3 DEF Rename
    <3>2. y \in Slots /\ y.doc = writer[w].doc /\ y.pc = "renamed"
      BY <1>3 DEF Slots
    <3> QED
      BY <3>1, <3>2
  <2>4. CASE Resolve(w) \/ RenameMissing(w) \/ Reject(w)
    BY <1>3, <2>4, SlotFields DEF Resolve, RenameMissing, Reject
  <2> QED
    BY <2>1, <2>2, <2>3, <2>4
<1>5. writer' \in [Writers -> Slots] /\ writer'[w] = x /\ \A v \in Writers : v # w => writer'[v] = writer[v]
  BY <1>3, <1>4
<1>6. {tmp', file'} \subseteq Inodes \union {NoInode}
  BY DEF Open, Write, Rename, Resolve, RenameMissing, Reject, Shape, Fields
<1>7. inode' \in [Inodes -> Content]
  <2>1. inode \in [Inodes -> Content]
    BY DEF Shape, Fields
  <2>2. CASE Open(w)
    BY <2>1, <2>2, Contents DEF Open
  <2>3. CASE Write(w)
    <3>1. inode' = [inode EXCEPT ![writer[w].fd] = Overwrite(inode[writer[w].fd], writer[w].doc)]
      BY <2>3 DEF Write
    <3>2. writer[w].fd \in Inodes
      BY <2>3 DEF Write, Shape
    <3> QED
      BY <1>1, <2>1, <3>1, <3>2, Contents
  <2>4. CASE Reject(w)
    BY <2>1, <2>4, Contents DEF Reject
  <2>5. CASE Rename(w) \/ Resolve(w) \/ RenameMissing(w)
    BY <2>1, <2>5 DEF Rename, Resolve, RenameMissing
  <2> QED
    BY <2>2, <2>3, <2>4, <2>5
<1>8. acked' \in 0..MaxSaves
  BY <1>1, JsonStoreAssumption
     DEF JsonStoreAssumption, Versions, Open, Write, Rename, Resolve, RenameMissing, Reject, Shape, Fields
<1>9. Fields'
  BY <1>2, <1>5, <1>6, <1>7, <1>8 DEF Shape, Fields, Slots
<1>10. ASSUME NEW v \in Writers
       PROVE  /\ writer'[v].pc # "idle" => writer'[v].doc \in Versions
              /\ writer'[v].pc = "opened" => writer'[v].fd \in Inodes
  <2>1. CASE v = w
    BY <1>1, <1>4, <1>5, <2>1 DEF Idle
  <2>2. CASE v # w
    BY <1>5, <2>2 DEF Shape, Active
  <2> QED
    BY <2>1, <2>2
<1> QED
  BY <1>1, <1>2, <1>5, <1>9, <1>10 DEF Shape, Active

LEMMA ProcessShape ==
    ASSUME Shape, Crash \/ Restart \/ UNCHANGED vars
    PROVE  Shape'
<1>1. CASE Crash
  <2>1. writer' \in [Writers -> Slots] /\ \A w \in Writers : writer'[w].pc = "idle"
    BY <1>1 DEF Crash, Idle, Slots
  <2> QED
    BY <1>1, <2>1 DEF Crash, Shape, Fields, Slots, Active
<1>2. CASE Restart
  <2>1. mem' \in Versions \union {Fallback}
    BY <1>2 DEF Restart, Readable, Stored, Parses, Shape, Fields, Content
  <2>2. Fields'
    BY <1>2, <2>1 DEF Restart, Shape, Fields
  <2> QED
    BY <1>2, <2>2 DEF Restart, Shape, Active
<1>3. CASE UNCHANGED vars
  BY <1>3 DEF vars, store, Shape, Fields, Active
<1> QED
  BY <1>1, <1>2, <1>3

LEMMA NextShape == Shape /\ [Next]_vars => Shape'
  BY SaveShape, StepShape, ProcessShape DEF Next

LEMMA AlwaysShape == Spec => []Shape
  BY InitShape, NextShape, PTL DEF Spec

(***************************************************************************)
(* The store keeps its types, however saves overlap, fail and crash.       *)
(***************************************************************************)
THEOREM TypeCorrect == Spec => []TypeOK
<1> DEFINE Flag == concurrent \in BOOLEAN
<1>1. Init => Flag
  BY DEF Init
<1>2. Flag /\ [Next]_vars => Flag'
  BY FlagStays
<1>3. Shape /\ Flag => TypeOK
  BY DEF Shape, TypeOK
<1> HIDE DEF Flag
<1> QED
  BY <1>1, <1>2, <1>3, AlwaysShape, PTL DEF Spec

(***************************************************************************)
(* Saves may overlap, fail and crash as they like: a document that is      *)
(* there never goes missing, because only a rename binds its name, and it  *)
(* binds it to a file.                                                     *)
(***************************************************************************)
THEOREM Stays == Spec => NeverVanishes
<1>1. [Next]_vars => [file # NoInode => file' # NoInode]_vars
  BY DEF Next, Save, Open, Write, Rename, Resolve, RenameMissing, Reject, Crash, Restart, vars, store
<1> QED
  BY <1>1, PTL DEF Spec, NeverVanishes

-----------------------------------------------------------------------------
(***************************************************************************)
(* One save at a time.  The temporary name and the document's name are     *)
(* never the same inode, so what a save does before its rename is nothing  *)
(* a reader sees; what it then renames is complete; and the document is    *)
(* never newer than the save in flight, nor older than what was            *)
(* acknowledged.                                                           *)
(***************************************************************************)
Whole(i, v) == i \in Inodes /\ inode[i].head = v /\ inode[i].size = Size[v]
Apart == tmp = file => tmp = NoInode
Step(w) ==
    /\ writer[w].pc = "opened" => /\ writer[w].fd = tmp /\ inode[tmp] = Empty
    /\ writer[w].pc = "written" => Whole(tmp, writer[w].doc)
    /\ writer[w].pc = "renamed" => Stored = writer[w].doc
Serial ==
    /\ \A v, w \in Writers : Active(v) /\ Active(w) => v = w
    /\ Apart /\ Readable
    /\ acked <= Stored /\ Stored <= ver
    /\ \A w \in Writers : Step(w) /\ (Active(w) => writer[w].doc = ver)

LEMMA InitSerial == Init => Serial
<1> SUFFICES ASSUME Init PROVE Serial
  OBVIOUS
<1>1. \A w \in Writers : writer[w].pc = "idle"
  BY DEF Init, Idle
<1>2. Apart /\ Readable /\ Stored = 0 /\ acked = 0 /\ ver = 0
  BY DEF Init, Apart, Readable, Stored, Fallback
<1> QED
  BY <1>1, <1>2 DEF Serial, Step, Active

LEMMA SerialNumbers ==
    ASSUME Shape, Readable
    PROVE  /\ ver \in Nat /\ acked \in Nat /\ Stored \in Nat
           /\ Stored \in Versions \union {Fallback} /\ tmp \in Inodes \union {NoInode}
           /\ file \in Inodes \union {NoInode}
           /\ \A i \in Inodes : inode[i] \in Content
<1>1. ver \in Nat /\ acked \in Nat
  BY JsonStoreAssumption DEF JsonStoreAssumption, Shape, Fields
<1>2. /\ tmp \in Inodes \union {NoInode} /\ file \in Inodes \union {NoInode}
      /\ \A i \in Inodes : inode[i] \in Content
  BY DEF Shape, Fields
<1>3. Stored \in Versions \union {Fallback}
  BY <1>2 DEF Stored, Readable, Parses, Content
<1> QED
  BY <1>1, <1>2, <1>3, VersionNumbers DEF Fallback

\* A reader sees no change while the document's inode stays what it is.
LEMMA SameDocument ==
    ASSUME file' = file, file # NoInode => inode'[file] = inode[file]
    PROVE  Stored' = Stored /\ Readable' = Readable
  BY DEF Stored, Readable, Parses

(***************************************************************************)
(* The steps of a save, and what a caller sees of each.                    *)
(***************************************************************************)
LEMMA SaveSerial ==
    ASSUME Shape, Serial, ~concurrent, NEW w \in Writers, NEW inPlace \in BOOLEAN, Save(w, inPlace)
    PROVE  /\ Serial' /\ Stored' = Stored /\ ver' \in Versions
           /\ \A v \in Writers : ~Active(v)
           /\ writer'[w].pc = "mkdir" /\ writer'[w].doc = ver' /\ ver' = ver + 1
<1>1. \A v \in Writers : ~Active(v)
  BY DEF Save
<1>2. Stored' = Stored /\ Readable' = Readable
  BY SameDocument DEF Save
<1>3. ver' = ver + 1 /\ ver' \in Versions /\ acked' = acked /\ tmp' = tmp /\ file' = file
  <2>1. /\ ver < MaxSaves /\ ver' = ver + 1
        /\ acked' = acked /\ tmp' = tmp /\ file' = file
    BY DEF Save
  <2>2. MaxSaves \in Nat
    BY JsonStoreAssumption DEF JsonStoreAssumption
  <2>3. ver \in Nat
    BY SerialNumbers DEF Serial
  <2> QED
    BY <2>1, <2>2, <2>3 DEF Versions
<1>4. writer'[w].pc = "mkdir" /\ writer'[w].doc = ver'
  BY DEF Save
<1>5. \A v \in Writers : v # w => writer'[v].pc = "idle"
  BY <1>1 DEF Save, Active
<1>6. \A v \in Writers : Step(v)' /\ (Active(v)' => writer'[v].doc = ver')
  BY <1>4, <1>5 DEF Step, Active
<1>7. acked' <= Stored' /\ Stored' <= ver'
  BY <1>2, <1>3, SerialNumbers DEF Serial
<1>8. \A u, v \in Writers : Active(u)' /\ Active(v)' => u = v
  BY <1>5 DEF Active
<1> QED
  BY <1>1, <1>2, <1>3, <1>4, <1>6, <1>7, <1>8 DEF Serial, Apart

\* A step of the save in flight: what is left to show of each.
LEMMA StepSerial ==
    ASSUME Shape, Serial, NEW w \in Writers, Active(w), ver' = ver,
           \A v \in Writers : v # w => writer'[v] = writer[v],
           Apart', Readable', acked' <= Stored', Stored' <= ver', Step(w)',
           Active(w)' => writer'[w].doc = writer[w].doc
    PROVE  Serial'
<1>1. \A v \in Writers : v # w => writer'[v].pc = "idle"
  BY DEF Serial, Active
<1>2. \A v \in Writers : Step(v)' /\ (Active(v)' => writer'[v].doc = ver')
  BY <1>1 DEF Serial, Step, Active
<1>3. \A u, v \in Writers : Active(u)' /\ Active(v)' => u = v
  BY <1>1 DEF Active
<1> QED
  BY <1>2, <1>3 DEF Serial

LEMMA OpenSerial ==
    ASSUME Shape, Serial, NEW w \in Writers, Open(w)
    PROVE  /\ Serial' /\ Stored' = Stored
           /\ Active(w) /\ Active(w)' /\ writer'[w].doc = writer[w].doc
<1>1. PICK i \in Inodes :
         /\ IF tmp # NoInode THEN i = tmp ELSE ~Referenced(i)
         /\ tmp' = i /\ inode' = [inode EXCEPT ![i] = Empty]
         /\ writer' = [writer EXCEPT ![w].pc = "opened", ![w].live = FALSE, ![w].fd = i]
  BY DEF Open
<1>2. i # file
  BY <1>1, InodeNumbers DEF Serial, Apart, Referenced
<1>3. inode \in [Inodes -> Content] /\ writer = [v \in Writers |-> writer[v]]
      /\ writer[w] \in Slots
  BY DEF Shape, Fields, Slots
<1>4. /\ writer'[w].pc = "opened" /\ writer'[w].fd = i /\ writer'[w].doc = writer[w].doc
      /\ \A v \in Writers : v # w => writer'[v] = writer[v]
  BY <1>1, <1>3 DEF Slots
<1>5. Stored' = Stored /\ Readable' = Readable
  <2>1. file # NoInode => inode'[file] = inode[file]
    BY <1>1, <1>2, <1>3, SerialNumbers DEF Serial
  <2> QED
    BY <2>1, SameDocument DEF Open
<1>6. Step(w)' /\ Apart'
  BY <1>1, <1>2, <1>3, <1>4 DEF Step, Apart, Open
<1>7. Active(w) /\ Active(w)'
  BY <1>4 DEF Active, Open
<1>8. Serial'
  BY <1>4, <1>5, <1>6, <1>7, StepSerial DEF Open, Serial
<1> QED
  BY <1>4, <1>5, <1>7, <1>8

LEMMA WriteSerial ==
    ASSUME Shape, Serial, NEW w \in Writers, Write(w)
    PROVE  /\ Serial' /\ Stored' = Stored
           /\ Active(w) /\ Active(w)' /\ writer'[w].doc = writer[w].doc
<1>1. /\ writer[w].pc = "opened" /\ writer[w].fd = tmp /\ tmp \in Inodes /\ inode[tmp] = Empty
      /\ writer[w].doc \in Versions
  BY DEF Write, Serial, Step, Shape, Active
<1>2. inode \in [Inodes -> Content] /\ writer = [v \in Writers |-> writer[v]] /\ writer[w] \in Slots
  BY DEF Shape, Fields, Slots
<1>3. /\ inode' = [inode EXCEPT ![tmp] = Overwrite(Empty, writer[w].doc)]
      /\ tmp' = tmp /\ file' = file
  BY <1>1 DEF Write
<1>4. /\ writer'[w].pc = "written" /\ writer'[w].doc = writer[w].doc
      /\ \A v \in Writers : v # w => writer'[v] = writer[v]
  BY <1>2 DEF Write, Slots
<1>5. tmp # file
  BY <1>1, InodeNumbers DEF Serial, Apart
<1>6. Stored' = Stored /\ Readable' = Readable
  <2>1. file # NoInode => inode'[file] = inode[file]
    BY <1>2, <1>3, <1>5, SerialNumbers DEF Serial
  <2> QED
    BY <1>3, <2>1, SameDocument
<1>7. Whole(tmp, writer[w].doc)'
  BY <1>1, <1>2, <1>3, <1>4, Contents DEF Whole
<1>8. Step(w)' /\ Apart'
  BY <1>3, <1>4, <1>5, <1>7 DEF Step, Apart, Whole
<1>9. Active(w) /\ Active(w)'
  BY <1>1, <1>4 DEF Active
<1>10. Serial'
  BY <1>4, <1>6, <1>8, <1>9, StepSerial DEF Write, Serial
<1> QED
  BY <1>4, <1>6, <1>9, <1>10

\* The rename shows the new version, whole.
LEMMA RenameSerial ==
    ASSUME Shape, Serial, NEW w \in Writers, Rename(w)
    PROVE  /\ Serial' /\ Stored' = writer[w].doc
           /\ Active(w) /\ Active(w)' /\ writer'[w].doc = writer[w].doc
<1>1. /\ writer[w].pc = "written" /\ Whole(tmp, writer[w].doc)
      /\ writer[w].doc \in Versions /\ writer[w].doc = ver
  BY DEF Rename, Serial, Step, Shape, Active
<1>2. writer = [v \in Writers |-> writer[v]] /\ writer[w] \in Slots
  BY DEF Shape, Fields, Slots
<1>3. /\ writer'[w].pc = "renamed" /\ writer'[w].doc = writer[w].doc
      /\ \A v \in Writers : v # w => writer'[v] = writer[v]
  BY <1>2 DEF Rename, Slots
<1>4. file' = tmp /\ tmp' = NoInode /\ inode' = inode /\ tmp \in Inodes /\ ver' = ver /\ acked' = acked
  BY <1>1 DEF Rename, Whole
<1>5. Stored' = writer[w].doc /\ Readable'
  BY <1>1, <1>4, InodeNumbers, VersionNumbers DEF Whole, Stored, Readable, Parses, Fallback
<1>6. acked' <= Stored' /\ Stored' <= ver'
  BY <1>1, <1>4, <1>5, SerialNumbers DEF Serial
<1>7. Step(w)' /\ Apart'
  BY <1>3, <1>4, <1>5, InodeNumbers DEF Step, Apart
<1>8. Active(w) /\ Active(w)'
  BY <1>1, <1>3 DEF Active
<1>9. Serial'
  BY <1>3, <1>4, <1>5, <1>6, <1>7, <1>8, StepSerial
<1> QED
  BY <1>3, <1>5, <1>8, <1>9

\* Acknowledged, or rejected before the rename.
LEMMA EndSerial ==
    ASSUME Shape, Serial, NEW w \in Writers, Resolve(w) \/ RenameMissing(w) \/ Reject(w)
    PROVE  /\ Serial' /\ Stored' = Stored
           /\ Active(w) /\ \A v \in Writers : ~Active(v)'
<1>1. Active(w) /\ writer[w].doc = ver
  BY DEF Resolve, RenameMissing, Reject, Active, Serial
<1>2. writer = [v \in Writers |-> writer[v]] /\ inode \in [Inodes -> Content]
  BY DEF Shape, Fields
<1>3. /\ writer' = [writer EXCEPT ![w] = Idle]
      /\ tmp' = tmp /\ file' = file /\ ver' = ver
  BY DEF Resolve, RenameMissing, Reject
<1>4. writer'[w].pc = "idle" /\ \A v \in Writers : v # w => writer'[v] = writer[v]
  BY <1>2, <1>3 DEF Idle
<1>5. file # NoInode => inode'[file] = inode[file]
  <2>1. CASE Reject(w) /\ writer[w].pc = "opened"
    <3>1. inode' = [inode EXCEPT ![tmp] = Garbled] /\ tmp \in Inodes
      BY <2>1 DEF Reject, Serial, Step, Shape
    <3>2. tmp # file
      BY <3>1, InodeNumbers DEF Serial, Apart
    <3> QED
      BY <1>2, <3>1, <3>2, SerialNumbers DEF Serial
  <2>2. CASE ~(Reject(w) /\ writer[w].pc = "opened")
    BY <2>2 DEF Resolve, RenameMissing, Reject
  <2> QED
    BY <2>1, <2>2
<1>6. Stored' = Stored /\ Readable' = Readable
  BY <1>3, <1>5, SameDocument
<1>7. acked' <= Stored'
  <2>1. CASE Resolve(w)
    <3>1. Stored = writer[w].doc
      BY <2>1 DEF Resolve, Serial, Step
    <3> QED
      BY <1>6, <2>1, <3>1, SerialNumbers DEF Resolve, Serial
  <2>2. CASE RenameMissing(w) \/ Reject(w)
    BY <1>6, <2>2 DEF RenameMissing, Reject, Serial
  <2> QED
    BY <2>1, <2>2
<1>8. Step(w)' /\ Apart' /\ ~Active(w)'
  BY <1>3, <1>4 DEF Step, Apart, Active, Serial
<1>9. Serial'
  BY <1>1, <1>3, <1>4, <1>6, <1>7, <1>8, StepSerial DEF Serial
<1>10. \A v \in Writers : ~Active(v)'
  BY <1>1, <1>4 DEF Serial, Active
<1> QED
  BY <1>1, <1>6, <1>9, <1>10

\* A crash leaves the files as they are; the next process may find the
\* temporary file or not.
LEMMA ProcessSerial ==
    ASSUME Shape, Serial, Crash \/ Restart \/ UNCHANGED vars
    PROVE  /\ Serial' /\ Stored' = Stored
           /\ writer' = writer \/ \A w \in Writers : ~Active(w)'
<1>1. file' = file /\ inode' = inode /\ ver' = ver /\ acked' = acked /\ (tmp' = tmp \/ tmp' = NoInode)
  BY DEF Crash, Restart, vars, store
<1>2. Stored' = Stored /\ Readable' = Readable
  BY <1>1, SameDocument
<1>3. CASE Crash
  <2>1. \A w \in Writers : writer'[w].pc = "idle"
    BY <1>3 DEF Crash, Idle
  <2> QED
    BY <1>1, <1>2, <2>1 DEF Serial, Apart, Step, Active
<1>4. CASE Restart
  <2>1. writer' = writer /\ \A w \in Writers : ~Active(w)
    BY <1>4 DEF Restart, Shape
  <2> QED
    BY <1>1, <1>2, <2>1 DEF Serial, Apart, Step, Active
<1>5. CASE UNCHANGED vars
  <2>1. writer' = writer /\ tmp' = tmp
    BY <1>5 DEF vars, store
  <2> QED
    BY <1>1, <1>2, <2>1 DEF Serial, Apart, Step, Active, Whole
<1> QED
  BY <1>3, <1>4, <1>5

LEMMA NextSerial == ~concurrent /\ Shape /\ Serial /\ [Next]_vars => Serial'
<1>1. ASSUME Shape, Serial, NEW w \in Writers,
             Open(w) \/ Write(w) \/ Rename(w) \/ Resolve(w) \/ RenameMissing(w) \/ Reject(w)
      PROVE  Serial'
  BY <1>1, OpenSerial, WriteSerial, RenameSerial, EndSerial
<1> QED
  BY <1>1, SaveSerial, ProcessSerial DEF Next

LEMMA AlwaysSerial == Spec => [](Shape /\ (~concurrent => Serial))
<1>1. Init => Shape /\ (~concurrent => Serial)
  BY InitShape, InitSerial
<1>2. [Next]_vars => concurrent' = concurrent
  BY FlagStays
<1>3. Shape /\ (~concurrent => Serial) /\ [Next]_vars => (Shape /\ (~concurrent => Serial))'
  BY <1>2, NextShape, NextSerial
<1> QED
  BY <1>1, <1>3, PTL DEF Spec

(***************************************************************************)
(* One save at a time: at every instant, hence after a crash at any step,  *)
(* the file can be loaded.                                                 *)
(***************************************************************************)
THEOREM Uncorrupted == Spec => []SerialNeverCorrupt
<1>1. (~concurrent => Serial) => SerialNeverCorrupt
  BY DEF Serial, SerialNeverCorrupt
<1> QED
  BY <1>1, AlwaysSerial, PTL

(***************************************************************************)
(* One save at a time: at every instant, hence after a crash at any step,  *)
(* the file holds what was acknowledged, or something newer.               *)
(***************************************************************************)
THEOREM Durable == Spec => []SerialAcknowledgedSurvives
<1>1. (~concurrent => Serial) => SerialAcknowledgedSurvives
  BY DEF Serial, SerialAcknowledgedSurvives
<1> QED
  BY <1>1, AlwaysSerial, PTL

-----------------------------------------------------------------------------
(***************************************************************************)
(* The refinement: the save in flight is what the caller waits for, its    *)
(* rename is the commit, and every other step of the files is nothing a    *)
(* reader or a caller sees.                                                *)
(***************************************************************************)
Shown == IF Readable THEN Stored ELSE MaxSaves + 1
Link ==
    /\ Shown = Stored
    /\ \A w \in Writers : Active(w) => Pending = writer[w].doc /\ Pending \in Versions
    /\ (\A w \in Writers : ~Active(w)) => Pending = NoInode

LEMMA SerialLink == Shape /\ Serial => Link
<1> SUFFICES ASSUME Shape, Serial PROVE Link
  OBVIOUS
<1>1. ASSUME NEW w \in Writers, Active(w)
      PROVE  Pending = writer[w].doc /\ Pending \in Versions
  <2>1. InFlight = {w}
    BY <1>1 DEF InFlight, Serial
  <2> QED
    BY <1>1, <2>1 DEF Pending, Shape
<1>2. (\A w \in Writers : ~Active(w)) => Pending = NoInode
  BY DEF InFlight, Pending, NoInode
<1> QED
  BY <1>1, <1>2 DEF Serial, Shown, Link

AtomicStep == [Atomic!Next]_(Atomic!vars)

LEMMA AtomicSteps ==
    ASSUME \/ Pending = 0 /\ Pending' \in Versions /\ Shown' = Shown
           \/ Pending # 0 /\ Shown' = Pending /\ Pending' = Pending
           \/ Pending # 0 /\ Pending' = 0 /\ Shown' = Shown
           \/ Pending' = Pending /\ Shown' = Shown
    PROVE  AtomicStep
<1>1. CASE Pending = 0 /\ Pending' \in Versions /\ Shown' = Shown
  <2>1. Atomic!Begin(Pending')
    BY <1>1 DEF Atomic!Begin, Atomic!NoSave, Shown
  <2> QED
    BY <1>1, <2>1 DEF Atomic!Next, AtomicStep
<1>2. CASE Pending # 0 /\ Shown' = Pending /\ Pending' = Pending
  <2>1. Atomic!Commit
    BY <1>2 DEF Atomic!Commit, Atomic!NoSave, Shown
  <2> QED
    BY <2>1 DEF Atomic!Next, AtomicStep
<1>3. CASE Pending # 0 /\ Pending' = 0 /\ Shown' = Shown
  <2>1. Atomic!End
    BY <1>3 DEF Atomic!End, Atomic!NoSave, Shown
  <2> QED
    BY <2>1 DEF Atomic!Next, AtomicStep
<1>4. CASE Pending' = Pending /\ Shown' = Shown
  BY <1>4 DEF Atomic!vars, AtomicStep, Shown
<1> QED
  BY <1>1, <1>2, <1>3, <1>4

LEMMA NextAtomic ==
    ~concurrent /\ Shape /\ Serial /\ Link /\ Link' /\ [Next]_vars => AtomicStep
<1> SUFFICES ASSUME ~concurrent, Shape, Serial, Link, Link', [Next]_vars PROVE AtomicStep
  OBVIOUS
<1> USE VersionNumbers DEF Fallback, NoInode
<1>1. ASSUME NEW w \in Writers, NEW inPlace \in BOOLEAN, Save(w, inPlace)
      PROVE  AtomicStep
  <2>1. /\ Stored' = Stored /\ \A v \in Writers : ~Active(v)
        /\ writer'[w].pc = "mkdir"
    BY <1>1, SaveSerial
  <2>2. Active(w)'
    BY <2>1 DEF Active
  <2> QED
    BY <2>1, <2>2, AtomicSteps DEF Link
<1>2. ASSUME NEW w \in Writers, Open(w) \/ Write(w)
      PROVE  AtomicStep
  BY <1>2, OpenSerial, WriteSerial, AtomicSteps DEF Link
<1>3. ASSUME NEW w \in Writers, Rename(w)
      PROVE  AtomicStep
  BY <1>3, RenameSerial, AtomicSteps DEF Link
<1>4. ASSUME NEW w \in Writers, Resolve(w) \/ RenameMissing(w) \/ Reject(w)
      PROVE  AtomicStep
  BY <1>4, EndSerial, AtomicSteps DEF Link
<1>5. CASE Crash \/ Restart \/ UNCHANGED vars
  <2>1. Stored' = Stored /\ (writer' = writer \/ \A w \in Writers : ~Active(w)')
    BY <1>5, ProcessSerial
  <2>2. CASE writer' = writer
    <3>1. \A w \in Writers : Active(w)' <=> Active(w)
      BY <2>2 DEF Active
    <3>2. Pending' = Pending
      BY <2>2, <3>1 DEF Link
    <3> QED
      BY <2>1, <3>2, AtomicSteps DEF Link
  <2>3. CASE \A w \in Writers : ~Active(w)'
    <3>1. CASE \A w \in Writers : ~Active(w)
      BY <2>1, <2>3, <3>1, AtomicSteps DEF Link
    <3>2. CASE \E w \in Writers : Active(w)
      BY <2>1, <2>3, <3>2, AtomicSteps DEF Link
    <3> QED
      BY <3>1, <3>2
  <2> QED
    BY <2>1, <2>2, <2>3
<1> QED
  BY <1>1, <1>2, <1>3, <1>4, <1>5 DEF Next

LEMMA InitAtomic == Init => Atomic!Init
<1> SUFFICES ASSUME Init PROVE Atomic!Init
  OBVIOUS
<1>1. InFlight = {}
  BY DEF Init, InFlight, Active, Idle
<1>2. Pending = 0
  BY <1>1 DEF Pending
<1>3. Readable /\ Stored = Fallback
  BY DEF Init, Readable, Stored
<1> QED
  BY <1>2, <1>3 DEF Atomic!Init, Atomic!NoSave

(***************************************************************************)
(* One save at a time, writeJsonFile() implements the atomic store: its    *)
(* mkdir, open, write and rename, cut short anywhere, are one replacement. *)
(***************************************************************************)
THEOREM Implements == Spec => SerialImplementsAtomicStore
<1> DEFINE Always == Shape /\ (~concurrent => Serial)
           Refines == ~concurrent => [Atomic!Next]_(Atomic!vars)
<1>1. Init => (~concurrent => Atomic!Init)
  BY InitAtomic
<1>2. [Next]_vars => concurrent' = concurrent
  BY FlagStays
<1>3. Always => (~concurrent => Link)
  BY SerialLink
<1>4. Always /\ (~concurrent => Link) /\ (~concurrent => Link)' /\ [Next]_vars => [Refines]_vars
  BY <1>2, NextAtomic DEF AtomicStep
<1>5. Spec => []Always
  BY AlwaysSerial
<1> HIDE DEF Always, Refines
<1>6. Spec => [][Refines]_vars
  BY <1>3, <1>4, <1>5, PTL DEF Spec
<1>7. Spec => (~concurrent => Atomic!Init)
  BY <1>1, PTL DEF Spec
<1> QED
  BY <1>6, <1>7 DEF Refines, SerialImplementsAtomicStore
=============================================================================
